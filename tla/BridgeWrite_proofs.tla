------------------------- MODULE BridgeWrite_proofs -------------------------
(***************************************************************************)
(* Theorems about BridgeWrite for every geometry and every number of Full  *)
(* and Lite writes: no header is stored as data, what lands on a port is   *)
(* what its writer sent, and an answered write is in memory; all of it     *)
(* also where frames are lost on the way, until data are read as a header. *)
(***************************************************************************)
EXTENDS BridgeWrite, AuroraWrite_proofs

-----------------------------------------------------------------------------
(* The values a wire carries, when it carries none of them twice.          *)

Carried(s) == {s[i] : i \in 1..Len(s)}
Once(s)    == \A i, j \in 1..Len(s) : s[i] = s[j] => i = j

LEMMA CarriedAppend ==
  ASSUME NEW S, NEW s \in Seq(S), NEW b \in S
  PROVE  /\ Append(s, b) \in Seq(S) /\ Carried(Append(s, b)) = Carried(s) \cup {b}
         /\ Once(s) /\ b \notin Carried(s) => Once(Append(s, b))
<1> DEFINE t == Append(s, b)
<1>1. /\ t \in Seq(S) /\ Len(t) = Len(s) + 1 /\ Len(s) \in Nat
      /\ \A i \in 1..Len(s) : t[i] = s[i]
      /\ t[Len(s) + 1] = b
  BY AppendProperties
<1> HIDE DEF t
<1>2. \A i \in 1..Len(t) : i \in 1..Len(s) \/ i = Len(s) + 1
  BY <1>1
<1>3. Carried(t) = Carried(s) \cup {b}
  <2>1. Carried(s) \cup {b} \subseteq Carried(t)
    BY <1>1 DEF Carried
  <2>2. Carried(t) \subseteq Carried(s) \cup {b}
    BY <1>1, <1>2 DEF Carried
  <2> QED BY <2>1, <2>2
<1>4. ASSUME Once(s), b \notin Carried(s) PROVE Once(t)
  BY <1>1, <1>2, <1>4 DEF Once, Carried
<1> QED BY <1>1, <1>3, <1>4 DEF t

LEMMA CarriedTail ==
  ASSUME NEW S, NEW s \in Seq(S), s # <<>>, Once(s)
  PROVE  /\ Head(s) \in Carried(s) /\ Tail(s) \in Seq(S)
         /\ Carried(Tail(s)) = Carried(s) \ {Head(s)} /\ Once(Tail(s))
<1> DEFINE t == Tail(s)
<1>1. /\ t \in Seq(S) /\ Len(t) = Len(s) - 1 /\ Len(s) \in Nat \ {0} /\ Head(s) = s[1]
      /\ \A i \in 1..Len(t) : t[i] = s[i + 1]
  BY HeadTailProperties, EmptySeq
<1> HIDE DEF t
<1>2. \A i \in 1..Len(t) : i + 1 \in 1..Len(s) /\ i + 1 # 1
  BY <1>1
<1>3. \A i \in 1..Len(s) : i = 1 \/ (i - 1 \in 1..Len(t) /\ t[i - 1] = s[i])
  BY <1>1
<1>4. Head(s) \in Carried(s)
  BY <1>1 DEF Carried
<1>5. Carried(t) \subseteq Carried(s) \ {Head(s)}
  BY <1>1, <1>2 DEF Carried, Once
<1>6. Carried(s) \ {Head(s)} \subseteq Carried(t)
  BY <1>1, <1>3 DEF Carried
<1>7. Once(t)
  BY <1>1, <1>2 DEF Once
<1> QED BY <1>1, <1>4, <1>5, <1>6, <1>7 DEF t

-----------------------------------------------------------------------------
(* The inductive invariant: there is a wire w of Full flits alone, with    *)
(* the sender's part of AuroraWrite's invariant, and at most one Lite frame*)
(* beside it.  A Full frame that is lost leaves the far end idle and the   *)
(* writer waiting, for good.                                               *)

LiteAw    == [len |-> 0, lite |-> TRUE, id |-> nLite]
LiteFrame == Header(LiteAw, LiteFlitData, TRUE)

(* Where the B and the B-Lite are: nowhere, or in one place.               *)
OnFullB == \E b \in Carried(bWire) : b # BLite
OnLiteB == BLite \in Carried(bWire)

NoFullB  == bfId = 0 /\ ~OnFullB /\ ~bPending
OneFullB == \/ bfId = nAW /\ ~OnFullB /\ ~bPending
            \/ bfId = 0 /\ OnFullB /\ ~bPending
            \/ bfId = 0 /\ ~OnFullB /\ bPending /\ bId = nAW

NoLiteB  == ~blPend /\ ~OnLiteB /\ ~lPending
OneLiteB == \/ blPend /\ ~OnLiteB /\ ~lPending
            \/ ~blPend /\ OnLiteB /\ ~lPending
            \/ ~blPend /\ ~OnLiteB /\ lPending

BWireInv == Carried(bWire) \subseteq {nAW, BLite} /\ Once(bWire)

BridgeTypes ==
  /\ lState \in {"IDLE", "TX_HDR", "WAIT_B"} /\ lPending \in BOOLEAN /\ blPend \in BOOLEAN
  /\ nLite \in Nat /\ liteAnswered \in Nat /\ liteStored \in Nat
  /\ atx \in {"IDLE", "W_FULL", "W_LITE"}

(* The Lite frame is not on the wire, ahead of the Full flits or behind    *)
(* them, and never inside a Full frame.                                    *)
Wire(w, lite) == CASE lite = "none"   -> w
                   [] lite = "ahead"  -> <<LiteFrame>> \o w
                   [] lite = "behind" -> Append(w, LiteFrame)

FrameInv(w, lite) ==
  /\ lite \in {"none", "ahead", "behind"}
  /\ dataWire = Wire(w, lite)
  /\ lite = "ahead" => IF w = <<>> THEN wState # "TX_CONT" ELSE w[1].op = "AW"
  /\ lite = "behind" => w # <<>> /\ wState = "WAIT_B"
  /\ wState = "TX_CONT" => atx = "W_FULL"

(* What the depacketizer drives and what it holds in the shadow registers. *)
FullDriven == dState # "IDLE" /\ ~dAw.lite
FullQueued == awPending /\ ~shadowAw.lite
LiteDriven == dState # "IDLE" /\ dAw.lite
LiteQueued == awPending /\ shadowAw.lite
FullAtFar  == FullDriven \/ FullQueued
LiteAtFar  == LiteDriven \/ LiteQueued

(* The current burst is stored, whether it is answered or not.             *)
FullDone == (FullDriven /\ dState = "WAIT_B") \/ wState = "IDLE" \/ ~NoFullB

FullInv(w) ==
  /\ FullDriven => ~FullQueued
  /\ FullAtFar => wState \in {"TX_CONT", "WAIT_B"} /\ ~HeaderToCome(w) /\ NoFullB
  /\ FullDone =>
       /\ stored.burst = nAW + 1 /\ stored.beat = 1 /\ stored.bytes = End
       /\ w = <<>> /\ wState \in {"IDLE", "WAIT_B"}
  /\ ~FullDone =>
       /\ stored.burst = nAW
       /\ ~FullDriven => stored.beat = 1 /\ stored.bytes = End - BurstBytes
  /\ wState = "IDLE" => NoFullB
  /\ NoFullB \/ OneFullB

(* The current Lite write is stored and not answered.                      *)
LiteDone == ~NoLiteB \/ (LiteDriven /\ dState = "WAIT_B")

LiteInv(lite) ==
  /\ LiteDriven => ~LiteQueued
  /\ LiteAtFar => lState = "WAIT_B" /\ lite = "none" /\ NoLiteB
  /\ lite # "none" => lState = "WAIT_B" /\ NoLiteB
  /\ ~NoLiteB => lState = "WAIT_B"
  /\ NoLiteB \/ OneLiteB
  /\ nLite = IF lState = "IDLE" THEN liteAnswered ELSE liteAnswered + 1
  /\ liteStored = IF LiteDone THEN liteAnswered + 1 ELSE liteAnswered

DrivenInv ==
  /\ awPending => dState \in {"IDLE", "WAIT_B"}
  /\ FullDriven =>
       /\ dAw = CurrentAw /\ remDrv = End - stored.bytes
       /\ IF dState = "WAIT_B" THEN remDrv = 0
          ELSE /\ stored.beat <= lens[nAW]
               /\ remDrv = (lens[nAW] - stored.beat + 1) * STRB
  /\ LiteDriven => dAw = LiteAw /\ remDrv = (IF dState = "WAIT_B" THEN 0 ELSE LITESTRB)
  /\ FullQueued => shadowAw = CurrentAw
  /\ LiteQueued => shadowAw = LiteAw

(* The receive buffer holds bytes of one writer only.                      *)
FullInBuffer == FullQueued \/ (FullDriven /\ ~awPending)
LiteInBuffer == LiteQueued \/ (LiteDriven /\ dState # "WAIT_B")

LiteBytes(n) == \A i \in 1..RxBufBytes : rxBuf[i] = IF i <= n THEN nLite ELSE Zero

EmptyBuffer == LiteBytes(0) /\ rxCount = 0 /\ remRx = 0

BufferInv(w) ==
  /\ FullInBuffer =>
       /\ rxCount <= RxBufBytes
       /\ StreamFrom(rxBuf, RxBufBytes, stored.bytes, Arrived)
       /\ Arrived = Landing(w) /\ remRx = End - Arrived
  /\ ~FullInBuffer /\ LiteInBuffer =>
       LiteBytes(LITESTRB) /\ rxCount = LITESTRB /\ remRx = 0
  /\ ~FullInBuffer /\ ~LiteInBuffer => EmptyBuffer

FarInv(w, lite) == FullInv(w) /\ LiteInv(lite) /\ DrivenInv /\ BufferInv(w)

(* What has landed is intact.                                              *)
Landed ==
  /\ stored.bytes > 0 =>
       memW.data = [i \in 1..STRB |-> (stored.bytes - STRB) + i]
  /\ liteStored > 0 => liteW.data = [i \in 1..LITESTRB |-> liteW.id]

BridgeOrder(w, lite) ==
  /\ BridgeTypes /\ NearInv(w) /\ BWireInv /\ FrameInv(w, lite)
  /\ FarInv(w, lite) /\ Landed

BridgeInv == \E w, lite : BridgeOrder(w, lite)

-----------------------------------------------------------------------------
(* The Lite frame, and what the wire has at its head.                      *)

LEMMA LiteFrameFacts ==
  ASSUME BridgeTypes
  PROVE  /\ LiteAw \in Aw /\ LiteFrame \in Flit
         /\ LiteFrame.op = "AW" /\ LiteFrame.aw = LiteAw /\ LiteFrame.data = LiteFlitData
         /\ LiteAw.lite /\ BeatBytes(LiteAw) = LITESTRB /\ TotalBytes(LiteAw) = LITESTRB
<1>1. LiteAw \in Aw /\ LiteAw.lite /\ LiteAw.len = 0
  BY DEF LiteAw, Aw, BridgeTypes
<1>2. BeatBytes(LiteAw) = LITESTRB
  BY <1>1 DEF BeatBytes
<1>3. TotalBytes(LiteAw) = LITESTRB
  BY <1>1, <1>2, GeometryAssumption DEF TotalBytes
<1>4. LiteFlitData \in [1..HDR -> Byte]
  BY ByteFacts DEF LiteFlitData, BridgeTypes
<1>5. LiteFrame = [op |-> "AW", aw |-> LiteAw, data |-> LiteFlitData, tlast |-> TRUE]
  BY DEF LiteFrame, Header
<1>6. LiteFrame \in Flit
  BY <1>1, <1>4, <1>5 DEF Flit
<1> QED BY <1>1, <1>2, <1>3, <1>5, <1>6

(* The head of the wire is the Lite frame or the first of the Full flits;  *)
(* the rest is again a wire of the one and the other.                      *)
LEMMA WireHead ==
  ASSUME NEW w, NEW lite, BridgeOrder(w, lite), dataWire # <<>>
  PROVE  /\ Head(dataWire) \in Flit
         /\ IF lite = "ahead"
            THEN Head(dataWire) = LiteFrame /\ Tail(dataWire) = Wire(w, "none")
            ELSE /\ w # <<>> /\ Head(dataWire) = w[1] /\ w \in Seq(Flit)
                 /\ \E l \in {"none", "ahead", "behind"} :
                      /\ Tail(dataWire) = Wire(Tail(w), l)
                      /\ l = "ahead" => Tail(w) = <<>>
                      /\ l = "behind" => Tail(w) # <<>>
                      /\ l = "none" <=> lite = "none"
<1>1. /\ w \in Seq(Flit) /\ FrameInv(w, lite) /\ LiteFrame \in Flit
      /\ dataWire = Wire(w, lite)
  BY LiteFrameFacts DEF BridgeOrder, NearInv, ChainInv, FrameInv
<1>2. CASE lite = "ahead"
  <2>1. dataWire = <<LiteFrame>> \o w
    BY <1>1, <1>2 DEF Wire
  <2>2. Head(dataWire) = LiteFrame /\ Tail(dataWire) = w
    BY <1>1, <2>1
  <2> QED BY <1>1, <1>2, <2>2 DEF Wire
<1>3. CASE lite = "none"
  <2>1. dataWire = w
    BY <1>1, <1>3 DEF Wire
  <2>2. w # <<>> /\ Head(w) = w[1] /\ w[1] \in Flit
    BY <1>1, <2>1
  <2>3. Tail(dataWire) = Wire(Tail(w), "none")
    BY <2>1 DEF Wire
  <2> QED BY <1>1, <1>3, <2>1, <2>2, <2>3
<1>4. CASE lite = "behind"
  <2>1. dataWire = Append(w, LiteFrame) /\ w # <<>>
    BY <1>1, <1>4 DEF Wire, FrameInv
  <2>2. Head(dataWire) = w[1] /\ w[1] \in Flit /\ Tail(dataWire) = Append(Tail(w), LiteFrame)
    BY <1>1, <2>1
  <2>3. CASE Tail(w) = <<>>
    <3>1. Append(<<>>, LiteFrame) = <<LiteFrame>> \o <<>>
      BY <1>1
    <3>2. Tail(dataWire) = Wire(Tail(w), "ahead")
      BY <2>2, <2>3, <3>1 DEF Wire
    <3> QED BY <1>1, <1>4, <2>1, <2>2, <2>3, <3>2
  <2>4. CASE Tail(w) # <<>>
    <3>1. Tail(dataWire) = Wire(Tail(w), "behind")
      BY <2>2 DEF Wire
    <3> QED BY <1>1, <1>4, <2>1, <2>2, <2>4, <3>1
  <2> QED BY <2>3, <2>4
<1> QED BY <1>1, <1>2, <1>3, <1>4 DEF FrameInv

-----------------------------------------------------------------------------
(* What an action leaves alone.                                            *)

LEMMA FrameKept ==
  ASSUME NEW w, NEW lite, FrameInv(w, lite), UNCHANGED <<dataWire, nLite>>,
         wState = "WAIT_B" /\ lite = "behind" => wState' = "WAIT_B",
         wState' = "TX_CONT" => wState = "TX_CONT" /\ atx' = atx
  PROVE  FrameInv(w, lite)'
<1>1. Wire(w, lite)' = Wire(w, lite)
  BY DEF Wire, LiteFrame, LiteAw, LiteFlitData
<1> QED BY <1>1 DEF FrameInv

(* Near-end steps, seen from the Full side of the far end.                 *)
LEMMA FullSideKept ==
  ASSUME NEW w, NEW w2, FullInv(w), DrivenInv, BufferInv(w),
         UNCHANGED <<rxVars, stored, lens, nAW>>, LiteAtFar => nLite' = nLite,
         End' = End, HeaderToCome(w2)' = HeaderToCome(w), Landing(w2)' = Landing(w),
         Active \/ (w2 = w /\ wState' = wState),
         wState \in {"TX_CONT", "WAIT_B"} => wState' \in {"TX_CONT", "WAIT_B"},
         wState' = "IDLE" <=> wState = "IDLE",
         NoFullB' <=> NoFullB, (NoFullB \/ OneFullB)'
  PROVE  FullInv(w2)' /\ DrivenInv' /\ BufferInv(w2)'
<1>1. UNCHANGED <<dState, dAw, awPending, shadowAw, rxBuf, rxCount, remRx, remDrv>>
  BY DEF rxVars
<1>2. /\ FullDriven' <=> FullDriven
      /\ FullQueued' <=> FullQueued
      /\ LiteDriven' <=> LiteDriven
      /\ LiteQueued' <=> LiteQueued
      /\ FullInBuffer' <=> FullInBuffer
      /\ LiteInBuffer' <=> LiteInBuffer
      /\ FullAtFar' <=> FullAtFar
  BY <1>1 DEF FullDriven, FullQueued, LiteDriven, LiteQueued, FullInBuffer, LiteInBuffer,
              FullAtFar
<1>3. CurrentAw' = CurrentAw /\ BurstBytes' = BurstBytes /\ Arrived' = Arrived
  BY <1>1 DEF CurrentAw, BurstBytes, Arrived
<1>4. LiteInBuffer \/ LiteDriven \/ LiteQueued => nLite' = nLite
  BY DEF LiteInBuffer, LiteAtFar
<1>5. FullDone' <=> FullDone
  BY <1>1, <1>2 DEF FullDone
<1>6. FullInv(w2)'
  <2>1. Active => ~FullDone
    BY DEF FullInv, Active
  <2>2. /\ FullDriven => ~FullQueued
        /\ FullAtFar => wState \in {"TX_CONT", "WAIT_B"} /\ ~HeaderToCome(w) /\ NoFullB
        /\ wState = "IDLE" => NoFullB
    BY DEF FullInv
  <2>3. /\ FullDone => /\ stored.burst = nAW + 1 /\ stored.beat = 1 /\ stored.bytes = End
                       /\ w = <<>> /\ wState \in {"IDLE", "WAIT_B"}
        /\ ~FullDone => /\ stored.burst = nAW
                        /\ ~FullDriven => stored.beat = 1 /\ stored.bytes = End - BurstBytes
    BY DEF FullInv
  <2>4. FullDone => w2 = <<>> /\ wState' \in {"IDLE", "WAIT_B"}
    BY <2>1, <2>3
  <2> QED BY <1>2, <1>3, <1>5, <2>2, <2>3, <2>4 DEF FullInv
<1>7. DrivenInv'
  <2>1. LiteDriven \/ LiteQueued => LiteAw' = LiteAw
    BY <1>4 DEF LiteAw
  <2> QED BY <1>1, <1>2, <1>3, <2>1 DEF DrivenInv
<1>8. BufferInv(w2)'
  <2>1. EmptyBuffer => EmptyBuffer'
    BY <1>1 DEF EmptyBuffer, LiteBytes
  <2>2. LiteInBuffer /\ LiteBytes(LITESTRB) => LiteBytes(LITESTRB)'
    BY <1>1, <1>4 DEF LiteBytes
  <2>3. StreamFrom(rxBuf, RxBufBytes, stored.bytes, Arrived)
          <=> StreamFrom(rxBuf, RxBufBytes, stored.bytes, Arrived)'
    BY <1>1, <1>3
  <2> QED BY <1>1, <1>2, <1>3, <2>1, <2>2, <2>3 DEF BufferInv
<1> QED BY <1>6, <1>7, <1>8

LEMMA LiteSideKept ==
  ASSUME NEW lite, LiteInv(lite), OnLiteB' <=> OnLiteB,
         UNCHANGED <<lState, lPending, nLite, liteAnswered, blPend, liteStored,
                     dState, dAw, awPending, shadowAw>>
  PROVE  LiteInv(lite)'
<1>1. /\ LiteDriven' <=> LiteDriven
      /\ LiteQueued' <=> LiteQueued
      /\ LiteAtFar' <=> LiteAtFar
  BY DEF LiteDriven, LiteQueued, LiteAtFar
<1>2. (NoLiteB' <=> NoLiteB) /\ (OneLiteB' <=> OneLiteB)
  BY DEF NoLiteB, OneLiteB
<1> QED BY <1>1, <1>2 DEF LiteInv, LiteDone

LEMMA LandedKept ==
  ASSUME Landed, UNCHANGED <<stored, memW, liteStored, liteW>>
  PROVE  Landed'
BY DEF Landed

LEMMA WiresKept ==
  ASSUME BWireInv, UNCHANGED <<bWire, nAW>>
  PROVE  /\ BWireInv' /\ (OnFullB' <=> OnFullB) /\ (OnLiteB' <=> OnLiteB)
BY DEF BWireInv, OnFullB, OnLiteB, Carried, Once

LEMMA FullBKept ==
  ASSUME OnFullB' <=> OnFullB, UNCHANGED <<bfId, bPending, bId, nAW>>
  PROVE  /\ NoFullB' <=> NoFullB
         /\ OneFullB' <=> OneFullB
BY DEF NoFullB, OneFullB

-----------------------------------------------------------------------------
(* The near end's Full writer.                                             *)

LEMMA BridgeMasterAW ==
  ASSUME NEW w, NEW lite, BridgeOrder(w, lite), MasterAW, UNCHANGED <<liteVars, atx>>
  PROVE  BridgeOrder(w, lite)'
<1>1. PortTypes'
  BY TypeNear DEF Near, BridgeOrder, NearInv
<1>2. /\ NearInv(w)' /\ w = <<>> /\ wState = "IDLE" /\ wState' = "TX_HDR"
      /\ nAW' = nAW + 1 /\ nAW \in Nat
      /\ Sent' = Sent /\ Sent = End /\ End' - BurstBytes' = End
  BY <1>1, NearMasterAW DEF BridgeOrder
<1>3. /\ UNCHANGED <<lState, lPending, nLite, liteAnswered, blPend, liteStored, liteW, atx,
                     dState, dAw, awPending, shadowAw, rxBuf, rxCount, remRx, remDrv,
                     stored, memW, dataWire, bWire, bfId, bPending, bId>>
  BY DEF MasterAW, AcceptAW, liteVars, rxVars, memoryVars, linkVars
<1>4. FullDone /\ NoFullB /\ ~FullAtFar /\ stored.burst = nAW + 1 /\ stored.beat = 1
      /\ stored.bytes = End
  BY <1>2 DEF BridgeOrder, FarInv, FullInv, FullDone
<1>5. OnFullB' <=> OnFullB
  BY <1>3 DEF OnFullB, Carried
<1>6. BWireInv'
  <2>1. Carried(bWire) \subseteq {BLite} /\ Once(bWire)
    BY <1>4 DEF BridgeOrder, BWireInv, NoFullB, OnFullB
  <2> QED BY <1>3, <2>1 DEF BWireInv, Carried, Once
<1>7. NoFullB'
  BY <1>3, <1>4, <1>5 DEF NoFullB
<1>8. /\ ~FullDriven' /\ ~FullQueued' /\ ~FullAtFar' /\ ~FullInBuffer' /\ ~FullInBuffer
      /\ (LiteDriven' <=> LiteDriven) /\ (LiteQueued' <=> LiteQueued)
      /\ (LiteInBuffer' <=> LiteInBuffer)
  BY <1>3, <1>4 DEF FullDriven, FullQueued, FullAtFar, FullInBuffer, LiteDriven, LiteQueued,
                    LiteInBuffer
<1>9. FullInv(w)'
  <2>1. ~FullDone'
    BY <1>2, <1>7, <1>8 DEF FullDone
  <2>2. stored'.burst = nAW' /\ stored'.beat = 1 /\ stored'.bytes = End' - BurstBytes'
    BY <1>2, <1>3, <1>4
  <2> QED BY <1>2, <1>7, <1>8, <2>1, <2>2 DEF FullInv
<1>10. LiteInv(lite)'
  BY <1>3, LiteSideKept DEF BridgeOrder, FarInv, OnLiteB, Carried
<1>11. DrivenInv'
  <2>1. LiteAw' = LiteAw
    BY <1>3 DEF LiteAw
  <2> QED BY <1>3, <1>8, <2>1 DEF BridgeOrder, FarInv, DrivenInv
<1>12. BufferInv(w)'
  BY <1>3, <1>8 DEF BridgeOrder, FarInv, BufferInv, LiteBytes, EmptyBuffer
<1>13. FrameInv(w, lite)'
  BY <1>2, <1>3, FrameKept DEF BridgeOrder
<1>14. Landed'
  BY <1>3, LandedKept DEF BridgeOrder
<1>15. BridgeTypes'
  BY <1>3 DEF BridgeOrder, BridgeTypes
<1> QED BY <1>2, <1>6, <1>9, <1>10, <1>11, <1>12, <1>13, <1>14, <1>15
        DEF BridgeOrder, FarInv

(* What all other steps of the Full writer leave alone.                    *)
LEMMA FullWriterFrame ==
  ASSUME MasterW \/ SendFlit \/ MasterWAndSendFlit, UNCHANGED liteVars
  PROVE  UNCHANGED <<lState, lPending, nLite, liteAnswered, blPend, liteStored, liteW,
                     dState, dAw, awPending, shadowAw, rxVars, stored, memW, bWire, bfId,
                     bPending, bId, lens, nAW>>
BY DEF MasterW, AcceptW, SendFlit, EmitFlit, MasterWAndSendFlit, AcceptWAndEmit, liteVars,
       rxVars, memoryVars, masterVars, linkVars

(* A beat is taken or a flit leaves: the far end and the Lite writer do    *)
(* not see it.                                                             *)
LEMMA FullWriterStep ==
  ASSUME NEW w, NEW w2, NEW lite, BridgeOrder(w, lite), NearInv(w2)', FrameInv(w2, lite)',
         MasterW \/ SendFlit \/ MasterWAndSendFlit, UNCHANGED liteVars,
         atx' \in {"IDLE", atx},
         End' = End, HeaderToCome(w2)' = HeaderToCome(w), Landing(w2)' = Landing(w), Active,
         wState \in {"TX_CONT", "WAIT_B"} => wState' \in {"TX_CONT", "WAIT_B"},
         wState' # "IDLE"
  PROVE  BridgeOrder(w2, lite)'
<1>1. UNCHANGED <<lState, lPending, nLite, liteAnswered, blPend, liteStored, liteW,
                  dState, dAw, awPending, shadowAw, rxVars, stored, memW, bWire, bfId,
                  bPending, bId, lens, nAW>>
  BY FullWriterFrame
<1>2. /\ BridgeTypes /\ BWireInv /\ FullInv(w) /\ DrivenInv /\ BufferInv(w) /\ LiteInv(lite)
      /\ Landed
  BY DEF BridgeOrder, FarInv
<1>3. BWireInv' /\ (OnFullB' <=> OnFullB) /\ (OnLiteB' <=> OnLiteB)
  BY <1>1, <1>2, WiresKept
<1>4. (NoFullB' <=> NoFullB) /\ (NoFullB \/ OneFullB)'
  <2>1. NoFullB \/ OneFullB
    BY <1>2 DEF FullInv
  <2> QED BY <1>1, <1>3, <2>1, FullBKept
<1>5. wState # "IDLE"
  BY DEF Active
<1>6. FullInv(w2)' /\ DrivenInv' /\ BufferInv(w2)'
  BY <1>1, <1>2, <1>4, <1>5, FullSideKept
<1>7. LiteInv(lite)'
  BY <1>1, <1>2, <1>3, LiteSideKept
<1>8. Landed'
  BY <1>1, <1>2, LandedKept
<1>9. BridgeTypes'
  BY <1>1, <1>2 DEF BridgeTypes
<1> QED BY <1>3, <1>6, <1>7, <1>8, <1>9 DEF BridgeOrder, FarInv

LEMMA BridgeMasterW ==
  ASSUME NEW w, NEW lite, BridgeOrder(w, lite), NoWrap, MasterW, UNCHANGED <<liteVars, atx>>
  PROVE  BridgeOrder(w, lite)'
<1>1. PortTypes'
  BY TypeNear DEF Near, BridgeOrder, NearInv
<1>2. /\ NearInv(w)' /\ End' = End /\ Landing(w)' = Landing(w)
      /\ HeaderToCome(w)' = HeaderToCome(w) /\ Active
  BY <1>1, NearMasterW DEF BridgeOrder
<1>3. UNCHANGED <<dataWire, nLite, wState>> /\ wState # "IDLE"
  BY <1>2 DEF MasterW, AcceptW, linkVars, liteVars, Active
<1>4. FrameInv(w, lite)'
  BY <1>3, FrameKept DEF BridgeOrder
<1> QED BY <1>2, <1>3, <1>4, FullWriterStep

(* A flit leaves only while its frame is granted, so it goes behind the    *)
(* Lite frame or finds none on the wire.                                   *)
LEMMA BridgeFlit ==
  ASSUME NEW w, NEW lite, BridgeOrder(w, lite), NoWrap, FullFlit
  PROVE  \E w2 : BridgeOrder(w2, lite)'
<1>1. PortTypes'
  BY TypeNear DEF FullFlit, Near, BridgeOrder, NearInv
<1>2. PICK w2 : w2 = Append(w, TxFlit)
  OBVIOUS
<1>3. /\ NearInv(w2)' /\ End' = End /\ Landing(w2)' = Landing(w)
      /\ HeaderToCome(w2)' = HeaderToCome(w) /\ Active
      /\ wState' = IF IsFinal THEN "WAIT_B" ELSE "TX_CONT"
  <2>1. CASE SendFlit
    BY <1>1, <1>2, <2>1, NearSendFlit DEF BridgeOrder
  <2>2. CASE MasterWAndSendFlit
    BY <1>1, <1>2, <2>2, NearMasterWAndSendFlit DEF BridgeOrder
  <2> QED BY <2>1, <2>2 DEF FullFlit
<1>4. /\ SendFlit \/ MasterWAndSendFlit
      /\ atx = "W_FULL" /\ atx' = (IF IsFinal THEN "IDLE" ELSE atx)
      /\ dataWire' = Append(dataWire, TxFlit) /\ EmitReady /\ UNCHANGED liteVars
      /\ nLite' = nLite
  BY DEF FullFlit, SendFlit, EmitFlit, MasterWAndSendFlit, AcceptWAndEmit, liteVars
<1>5. w \in Seq(Flit) /\ w2 \in Seq(Flit) /\ LiteFrame \in Flit /\ TxFlit \in Flit
  BY <1>2, LiteFrameFacts, TxFlitType DEF BridgeOrder, NearInv, PortTypes, ChainInv
<1>6. lite \in {"none", "ahead"} /\ dataWire = Wire(w, lite)
  BY <1>3 DEF BridgeOrder, FrameInv, Active
<1>7. dataWire' = Wire(w2, lite)'
  <2>1. LiteFrame' = LiteFrame
    BY <1>4 DEF LiteFrame, LiteAw, LiteFlitData
  <2>2. CASE lite = "none"
    BY <1>2, <1>4, <1>6, <2>2 DEF Wire
  <2>3. CASE lite = "ahead"
    <3>1. Append(<<LiteFrame>> \o w, TxFlit) = <<LiteFrame>> \o w2
      BY <1>2, <1>5
    <3>2. dataWire = <<LiteFrame>> \o w
      BY <1>6, <2>3 DEF Wire
    <3>3. dataWire' = <<LiteFrame>> \o w2
      BY <1>4, <3>1, <3>2
    <3> QED BY <2>1, <2>3, <3>3 DEF Wire
  <2> QED BY <1>6, <2>2, <2>3
<1>8. w2 # <<>> /\ (lite = "ahead" => w2[1].op = "AW")
  <2>1. w2 # <<>>
    BY <1>2, <1>5
  <2>2. ASSUME lite = "ahead" PROVE w2[1].op = "AW"
    <3>1. CASE w = <<>>
      <4>1. wState = "TX_HDR"
        BY <1>3, <2>2, <3>1 DEF BridgeOrder, FrameInv, Active
      <4>2. TxFlit.op = "AW" /\ w2[1] = TxFlit
        BY <1>2, <3>1, <4>1 DEF TxFlit, Header
      <4> QED BY <4>2
    <3>2. CASE w # <<>>
      <4>1. w2[1] = w[1]
        BY <1>2, <1>5, <3>2
      <4>2. w[1].op = "AW"
        BY <2>2, <3>2 DEF BridgeOrder, FrameInv
      <4> QED BY <4>1, <4>2
    <3> QED BY <3>1, <3>2
  <2> QED BY <2>1, <2>2
<1>9. FrameInv(w2, lite)'
  BY <1>3, <1>4, <1>6, <1>7, <1>8 DEF FrameInv
<1>10. wState' \in {"TX_CONT", "WAIT_B"}
  BY <1>3
<1>11. BridgeOrder(w2, lite)'
  BY <1>3, <1>4, <1>9, <1>10, FullWriterStep
<1> QED BY <1>11

LEMMA BridgeTakeFullB ==
  ASSUME NEW w, NEW lite, BridgeOrder(w, lite), TakeFullB
  PROVE  BridgeOrder(w, lite)'
<1>1. /\ bWire # <<>> /\ Head(bWire) # BLite /\ TakeBPacket /\ UNCHANGED <<liteVars, atx>>
      /\ bWire \in Seq(Nat) /\ PortTypes
      /\ BWireInv /\ FullInv(w) /\ DrivenInv /\ BufferInv(w) /\ LiteInv(lite)
      /\ Landed /\ BridgeTypes /\ NearInv(w) /\ FrameInv(w, lite)
  BY DEF TakeFullB, BridgeOrder, FarInv, NearInv, PortTypes
<1>2. PortTypes'
  BY <1>1, TypeNear DEF Near
<1>3. /\ bPending' /\ bId' = Head(bWire) /\ bWire' = Tail(bWire)
      /\ UNCHANGED <<wState, txAw, txBuf, txCount, lastSeen, lens, nAW, given, answered>>
      /\ UNCHANGED <<lState, lPending, nLite, liteAnswered, blPend, liteStored, liteW, atx,
                     dState, dAw, awPending, shadowAw, rxVars, stored, memW, bfId, dataWire>>
  BY <1>1 DEF TakeBPacket, RecvB, liteVars, rxVars, memoryVars, masterVars
<1>4. /\ NearInv(w)' /\ End' = End
      /\ HeaderToCome(w)' = HeaderToCome(w) /\ Landing(w)' = Landing(w)
  BY <1>1, <1>2, <1>3, NearKept
<1>5. /\ Head(bWire) \in Carried(bWire)
      /\ Carried(bWire') = Carried(bWire) \ {Head(bWire)} /\ Once(bWire')
  BY <1>1, <1>3, CarriedTail DEF BWireInv
<1>6. Head(bWire) = nAW /\ Carried(bWire) \subseteq {nAW, BLite}
  BY <1>1, <1>5 DEF BWireInv
<1>7. OnFullB /\ ~OnFullB' /\ (OnLiteB' <=> OnLiteB)
  BY <1>1, <1>5, <1>6 DEF OnFullB, OnLiteB
<1>8. BWireInv'
  BY <1>3, <1>5, <1>6 DEF BWireInv
<1>9. ~NoFullB /\ ~NoFullB' /\ OneFullB'
  <2>1. OneFullB /\ bfId = 0
    BY <1>1, <1>7 DEF FullInv, NoFullB, OneFullB
  <2> QED BY <1>3, <1>6, <1>7, <2>1 DEF NoFullB, OneFullB
<1>10. FullInv(w)' /\ DrivenInv' /\ BufferInv(w)'
  BY <1>1, <1>3, <1>4, <1>9, FullSideKept
<1>11. LiteInv(lite)'
  BY <1>1, <1>3, <1>7, LiteSideKept
<1>12. Landed' /\ BridgeTypes'
  BY <1>1, <1>3, LandedKept DEF BridgeTypes
<1>13. FrameInv(w, lite)'
  BY <1>1, <1>3, FrameKept
<1> QED BY <1>4, <1>8, <1>10, <1>11, <1>12, <1>13 DEF BridgeOrder, FarInv

(* The master takes the B of a burst that is stored.                       *)
LEMMA BridgeMasterB ==
  ASSUME NEW w, NEW lite, BridgeOrder(w, lite), MasterB, UNCHANGED <<liteVars, atx>>
  PROVE  BridgeOrder(w, lite)' /\ bId = nAW /\ stored.burst = nAW + 1
<1>1. /\ BWireInv /\ FullInv(w) /\ DrivenInv /\ BufferInv(w) /\ LiteInv(lite)
      /\ Landed /\ BridgeTypes /\ NearInv(w) /\ FrameInv(w, lite) /\ PortTypes
  BY DEF BridgeOrder, FarInv, NearInv
<1>2. PortTypes'
  BY <1>1, TypeNear DEF Near
<1>3. /\ wState = "WAIT_B" /\ bPending /\ wState' = "IDLE" /\ ~bPending'
      /\ UNCHANGED <<bId, lens, nAW, bWire, bfId, dataWire>>
      /\ UNCHANGED <<lState, lPending, nLite, liteAnswered, blPend, liteStored, liteW, atx,
                     dState, dAw, awPending, shadowAw, rxBuf, rxCount, remRx, remDrv,
                     stored, memW>>
  BY DEF MasterB, TakeB, liteVars, rxVars, memoryVars, linkVars
<1>4. /\ ~NoFullB /\ OneFullB /\ FullDone /\ bId = nAW /\ bfId = 0 /\ ~OnFullB
      /\ stored.burst = nAW + 1 /\ stored.beat = 1 /\ stored.bytes = End /\ w = <<>>
      /\ ~FullAtFar
  BY <1>1, <1>3 DEF FullInv, FullDone, NoFullB, OneFullB
<1>5. NearInv(w)' /\ End' = End /\ ~HeaderToCome(w)'
  BY <1>1, <1>2, <1>4, NearMasterB
<1>6. BWireInv' /\ (OnFullB' <=> OnFullB) /\ (OnLiteB' <=> OnLiteB)
  BY <1>1, <1>3, WiresKept
<1>7. NoFullB'
  BY <1>3, <1>4, <1>6 DEF NoFullB
<1>8. /\ ~FullDriven' /\ ~FullQueued' /\ ~FullAtFar' /\ ~FullInBuffer' /\ ~FullInBuffer
      /\ (LiteDriven' <=> LiteDriven) /\ (LiteQueued' <=> LiteQueued)
      /\ (LiteInBuffer' <=> LiteInBuffer)
  BY <1>3, <1>4 DEF FullDriven, FullQueued, FullAtFar, FullInBuffer, LiteDriven, LiteQueued,
                    LiteInBuffer
<1>9. FullInv(w)'
  <2>1. FullDone'
    BY <1>3 DEF FullDone
  <2> QED BY <1>3, <1>4, <1>5, <1>7, <1>8, <2>1 DEF FullInv
<1>10. LiteInv(lite)'
  BY <1>1, <1>3, <1>6, LiteSideKept
<1>11. DrivenInv'
  <2>1. LiteAw' = LiteAw
    BY <1>3 DEF LiteAw
  <2> QED BY <1>1, <1>3, <1>8, <2>1 DEF DrivenInv
<1>12. BufferInv(w)'
  BY <1>1, <1>3, <1>8 DEF BufferInv, LiteBytes, EmptyBuffer
<1>13. FrameInv(w, lite)'
  BY <1>1, <1>3, <1>4, FrameKept DEF FrameInv
<1>14. Landed' /\ BridgeTypes'
  BY <1>1, <1>3, LandedKept DEF BridgeTypes
<1> QED BY <1>4, <1>5, <1>6, <1>9, <1>10, <1>11, <1>12, <1>13, <1>14 DEF BridgeOrder, FarInv

-----------------------------------------------------------------------------
(* The Lite writer and the B packets.                                      *)

LEMMA FarTypes ==
  ASSUME PortTypes, RxTypeOK', UNCHANGED <<txVars, masterVars, stored>>,
         bfId' \in Nat, bWire' \in Seq(Nat)
  PROVE  PortTypes'
BY DEF PortTypes, TxTypeOK, txVars, masterVars

LEMMA RxTypesKept ==
  ASSUME PortTypes, UNCHANGED rxVars
  PROVE  RxTypeOK'
BY DEF PortTypes, RxTypeOK, rxVars

LEMMA NearUnchanged ==
  ASSUME NEW w, NearInv(w), PortTypes', UNCHANGED <<txVars, masterVars>>
  PROVE  /\ NearInv(w)' /\ End' = End /\ Sent' = Sent /\ CurrentAw' = CurrentAw
         /\ BurstBytes' = BurstBytes
         /\ HeaderToCome(w)' = HeaderToCome(w) /\ Landing(w)' = Landing(w)
         /\ UNCHANGED <<wState, bPending, bId, lens, nAW, given, answered>>
<1>1. UNCHANGED <<wState, txAw, txBuf, txCount, lastSeen, bPending, bId, lens, nAW, given,
                  answered>>
  BY DEF txVars, masterVars
<1> QED BY <1>1, NearKept

(* A step of the Lite writer or of a B packet does not move the Full side. *)
LEMMA FullSideStands ==
  ASSUME NEW w, NEW lite, BridgeOrder(w, lite), UNCHANGED <<txVars, rxVars, masterVars, stored>>,
         bfId' \in Nat, bWire' \in Seq(Nat),
         LiteAtFar => nLite' = nLite,
         NoFullB' <=> NoFullB, (NoFullB \/ OneFullB)'
  PROVE  NearInv(w)' /\ FullInv(w)' /\ DrivenInv' /\ BufferInv(w)'
<1>1. NearInv(w) /\ PortTypes /\ FullInv(w) /\ DrivenInv /\ BufferInv(w)
  BY DEF BridgeOrder, FarInv, NearInv
<1>2. PortTypes'
  BY <1>1, FarTypes, RxTypesKept
<1>3. /\ NearInv(w)' /\ End' = End /\ HeaderToCome(w)' = HeaderToCome(w)
      /\ Landing(w)' = Landing(w) /\ UNCHANGED <<wState, lens, nAW>>
  BY <1>1, <1>2, NearUnchanged
<1> QED BY <1>1, <1>3, FullSideKept

LEMMA BridgeLiteAccept ==
  ASSUME NEW w, NEW lite, BridgeOrder(w, lite), LiteAccept
  PROVE  BridgeOrder(w, lite)'
<1>1. /\ lState = "IDLE" /\ lState' = "TX_HDR" /\ nLite' = nLite + 1
      /\ UNCHANGED <<lPending, liteAnswered, atx, blPend, liteStored, liteW>>
      /\ UNCHANGED <<txVars, rxVars, masterVars, stored, memW, dataWire, bWire, bfId>>
  BY DEF LiteAccept, vars, memoryVars, linkVars
<1>2. /\ BridgeTypes /\ BWireInv /\ FullInv(w) /\ LiteInv(lite) /\ FrameInv(w, lite)
      /\ Landed /\ bfId \in Nat /\ bWire \in Seq(Nat)
  BY DEF BridgeOrder, FarInv, NearInv, PortTypes
<1>3. UNCHANGED <<nAW, bPending, bId, wState, dState, dAw, awPending, shadowAw>>
  BY <1>1 DEF masterVars, txVars, rxVars
<1>4. BWireInv' /\ (OnFullB' <=> OnFullB) /\ (OnLiteB' <=> OnLiteB)
  BY <1>1, <1>2, <1>3, WiresKept
<1>5. ~LiteAtFar /\ lite = "none" /\ NoLiteB
  BY <1>1, <1>2 DEF LiteInv
<1>6. (NoFullB' <=> NoFullB) /\ (NoFullB \/ OneFullB)'
  BY <1>1, <1>2, <1>3, <1>4, FullBKept DEF FullInv
<1>7. NearInv(w)' /\ FullInv(w)' /\ DrivenInv' /\ BufferInv(w)'
  BY <1>1, <1>2, <1>5, <1>6, FullSideStands
<1>8. LiteInv(lite)'
  <2>1. NoLiteB' /\ ~LiteAtFar' /\ ~LiteDriven' /\ ~LiteDriven
    BY <1>1, <1>3, <1>4, <1>5 DEF NoLiteB, LiteAtFar, LiteDriven, LiteQueued
  <2>2. nLite = liteAnswered /\ nLite' = liteAnswered' + 1
    BY <1>1, <1>2 DEF LiteInv, BridgeTypes
  <2>3. liteStored = liteAnswered
    BY <1>2, <1>5, <2>1 DEF LiteInv, LiteDone
  <2> QED BY <1>1, <1>2, <1>5, <2>1, <2>2, <2>3 DEF LiteInv, LiteDone, LiteAtFar
<1>9. FrameInv(w, lite)'
  BY <1>1, <1>2, <1>3, <1>5 DEF FrameInv, Wire
<1>10. Landed' /\ BridgeTypes'
  BY <1>1, <1>2, LandedKept DEF BridgeTypes
<1> QED BY <1>4, <1>7, <1>8, <1>9, <1>10 DEF BridgeOrder, FarInv

(* The Lite frame leaves when no Full frame is open.                       *)
LEMMA BridgeLiteFlit ==
  ASSUME NEW w, NEW lite, BridgeOrder(w, lite), LiteFlit
  PROVE  \E l : BridgeOrder(w, l)'
<1>1. /\ lState = "TX_HDR" /\ atx = "W_LITE" /\ lState' = "WAIT_B" /\ atx' = "IDLE"
      /\ dataWire' = Append(dataWire, LiteFrame)
      /\ UNCHANGED <<lPending, nLite, liteAnswered, blPend, liteStored, liteW>>
      /\ UNCHANGED <<txVars, rxVars, masterVars, stored, memW, bWire, bfId>>
  BY DEF LiteFlit, LiteFrame, LiteAw, memoryVars
<1>2. /\ BridgeTypes /\ BWireInv /\ FullInv(w) /\ LiteInv(lite) /\ FrameInv(w, lite)
      /\ Landed /\ bfId \in Nat /\ bWire \in Seq(Nat) /\ w \in Seq(Flit)
      /\ (w # <<>> => wState \in {"TX_CONT", "WAIT_B"})
  BY DEF BridgeOrder, FarInv, NearInv, PortTypes, ChainInv
<1>3. UNCHANGED <<nAW, bPending, bId, wState, dState, dAw, awPending, shadowAw>>
  BY <1>1 DEF masterVars, txVars, rxVars
<1>4. BWireInv' /\ (OnFullB' <=> OnFullB) /\ (OnLiteB' <=> OnLiteB)
  BY <1>1, <1>2, <1>3, WiresKept
<1>5. ~LiteAtFar /\ lite = "none" /\ NoLiteB
  BY <1>1, <1>2 DEF LiteInv
<1>6. (NoFullB' <=> NoFullB) /\ (NoFullB \/ OneFullB)'
  BY <1>1, <1>2, <1>3, <1>4, FullBKept DEF FullInv
<1>7. NearInv(w)' /\ FullInv(w)' /\ DrivenInv' /\ BufferInv(w)'
  BY <1>1, <1>2, <1>5, <1>6, FullSideStands
<1>8. \A l : LiteInv(l)'
  <2>1. NoLiteB' /\ ~LiteAtFar' /\ ~LiteDriven' /\ ~LiteDriven /\ ~LiteQueued'
    BY <1>1, <1>3, <1>4, <1>5 DEF NoLiteB, LiteAtFar, LiteDriven, LiteQueued
  <2>2. nLite' = liteAnswered' + 1 /\ liteStored' = liteAnswered'
    BY <1>1, <1>2, <1>5, <2>1 DEF LiteInv, LiteDone, BridgeTypes
  <2>3. liteAnswered' \in Nat
    BY <1>1, <1>2 DEF BridgeTypes
  <2> QED BY <1>1, <2>1, <2>2, <2>3 DEF LiteInv, LiteDone
<1>9. wState # "TX_CONT" /\ dataWire = w
  BY <1>1, <1>2, <1>5 DEF FrameInv, Wire
<1>10. Landed' /\ BridgeTypes'
  BY <1>1, <1>2, LandedKept DEF BridgeTypes
<1>11. LiteFrame' = LiteFrame /\ LiteFrame \in Flit
  BY <1>1, <1>2, LiteFrameFacts DEF LiteFrame, LiteAw, LiteFlitData
<1>12. \E l : FrameInv(w, l)'
  <2>1. CASE w = <<>>
    <3>1. dataWire' = <<LiteFrame>> \o w
      BY <1>1, <1>9, <1>11, <2>1
    <3>2. dataWire' = Wire(w, "ahead")'
      BY <1>11, <3>1 DEF Wire
    <3>3. FrameInv(w, "ahead")'
      BY <1>3, <1>9, <2>1, <3>2 DEF FrameInv
    <3> QED BY <3>3
  <2>2. CASE w # <<>>
    <3>1. dataWire' = Wire(w, "behind")'
      BY <1>1, <1>9, <1>11 DEF Wire
    <3>2. wState' = "WAIT_B"
      BY <1>2, <1>3, <1>9, <2>2
    <3>3. FrameInv(w, "behind")'
      BY <2>2, <3>1, <3>2 DEF FrameInv
    <3> QED BY <3>3
  <2> QED BY <2>1, <2>2
<1>13. PICK l : FrameInv(w, l)'
  BY <1>12
<1>14. BridgeOrder(w, l)'
  BY <1>4, <1>7, <1>8, <1>10, <1>13 DEF BridgeOrder, FarInv
<1> QED BY <1>14

(* Every other step of the Lite writer, of the arbiter or of a B packet:   *)
(* what is left to show is where the B-Lite is.                            *)
LEMMA BPacketStep ==
  ASSUME NEW w, NEW lite, BridgeOrder(w, lite), BWireInv', LiteInv(lite)', BridgeTypes',
         UNCHANGED <<txVars, rxVars, masterVars, stored, memW, dataWire, nLite, liteStored,
                     liteW>>,
         atx' = atx \/ atx = "IDLE",
         bfId' \in Nat, bWire' \in Seq(Nat),
         NoFullB' <=> NoFullB, (NoFullB \/ OneFullB)'
  PROVE  BridgeOrder(w, lite)'
<1>1. FrameInv(w, lite) /\ Landed
  BY DEF BridgeOrder
<1>2. NearInv(w)' /\ FullInv(w)' /\ DrivenInv' /\ BufferInv(w)'
  BY FullSideStands
<1>3. wState' = wState
  BY DEF txVars
<1>4. wState = "TX_CONT" => atx = "W_FULL"
  BY <1>1 DEF FrameInv
<1>5. FrameInv(w, lite)' /\ Landed'
  BY <1>1, <1>3, <1>4, FrameKept, LandedKept
<1> QED BY <1>2, <1>5 DEF BridgeOrder, FarInv

LEMMA BridgeTakeLiteB ==
  ASSUME NEW w, NEW lite, BridgeOrder(w, lite), TakeLiteB
  PROVE  BridgeOrder(w, lite)'
<1>1. /\ bWire # <<>> /\ Head(bWire) = BLite /\ lPending' /\ bWire' = Tail(bWire)
      /\ UNCHANGED <<txVars, rxVars, masterVars, stored, memW, dataWire, bfId>>
      /\ UNCHANGED <<lState, nLite, liteAnswered, atx, blPend, liteStored, liteW>>
  BY DEF TakeLiteB, memoryVars
<1>2. /\ BridgeTypes /\ BWireInv /\ FullInv(w) /\ LiteInv(lite)
      /\ bfId \in Nat /\ bWire \in Seq(Nat)
  BY DEF BridgeOrder, FarInv, NearInv, PortTypes
<1>3. UNCHANGED <<nAW, bPending, bId, dState, dAw, awPending, shadowAw>>
  BY <1>1 DEF masterVars, txVars, rxVars
<1>4. /\ BLite \in Carried(bWire) /\ bWire' \in Seq(Nat)
      /\ Carried(bWire') = Carried(bWire) \ {BLite} /\ Once(bWire')
  BY <1>1, <1>2, CarriedTail DEF BWireInv
<1>5. BWireInv' /\ (OnFullB' <=> OnFullB) /\ OnLiteB /\ ~OnLiteB'
  BY <1>2, <1>3, <1>4 DEF BWireInv, OnFullB, OnLiteB
<1>6. (NoFullB' <=> NoFullB) /\ (NoFullB \/ OneFullB)'
  BY <1>1, <1>2, <1>3, <1>5, FullBKept DEF FullInv
<1>7. ~NoLiteB /\ OneLiteB /\ ~blPend /\ ~lPending
  BY <1>2, <1>5 DEF LiteInv, NoLiteB, OneLiteB
<1>8. ~NoLiteB' /\ OneLiteB'
  BY <1>1, <1>5, <1>7 DEF NoLiteB, OneLiteB
<1>9. /\ LiteDriven' <=> LiteDriven
      /\ LiteQueued' <=> LiteQueued
      /\ LiteAtFar' <=> LiteAtFar
  BY <1>3 DEF LiteDriven, LiteQueued, LiteAtFar
<1>10. LiteInv(lite)'
  BY <1>1, <1>2, <1>7, <1>8, <1>9 DEF LiteInv, LiteDone
<1>11. BridgeTypes'
  BY <1>1, <1>2 DEF BridgeTypes
<1> QED BY <1>1, <1>2, <1>4, <1>5, <1>6, <1>10, <1>11, BPacketStep

LEMMA BridgeLiteB ==
  ASSUME NEW w, NEW lite, BridgeOrder(w, lite), LiteB
  PROVE  BridgeOrder(w, lite)'
<1>1. /\ lPending /\ ~lPending' /\ lPending' \in BOOLEAN /\ liteAnswered' = liteAnswered + 1
      /\ lState' = IF lState = "WAIT_B" THEN "IDLE" ELSE lState
      /\ UNCHANGED <<txVars, rxVars, masterVars, stored, memW, dataWire, bWire, bfId>>
      /\ UNCHANGED <<nLite, atx, blPend, liteStored, liteW>>
  BY DEF LiteB, vars, memoryVars, linkVars
<1>2. /\ BridgeTypes /\ BWireInv /\ FullInv(w) /\ LiteInv(lite)
      /\ bfId \in Nat /\ bWire \in Seq(Nat)
  BY DEF BridgeOrder, FarInv, NearInv, PortTypes
<1>3. UNCHANGED <<nAW, bPending, bId, dState, dAw, awPending, shadowAw>>
  BY <1>1 DEF masterVars, txVars, rxVars
<1>4. BWireInv' /\ (OnFullB' <=> OnFullB) /\ (OnLiteB' <=> OnLiteB)
  BY <1>1, <1>2, <1>3, WiresKept
<1>5. (NoFullB' <=> NoFullB) /\ (NoFullB \/ OneFullB)'
  BY <1>1, <1>2, <1>3, <1>4, FullBKept DEF FullInv
<1>6. ~NoLiteB /\ OneLiteB /\ ~blPend /\ ~OnLiteB /\ lState = "WAIT_B" /\ ~LiteAtFar
      /\ lite = "none"
  BY <1>1, <1>2 DEF LiteInv, NoLiteB, OneLiteB
<1>7. NoLiteB' /\ ~LiteAtFar' /\ ~LiteDriven'
  BY <1>1, <1>3, <1>4, <1>6 DEF NoLiteB, LiteAtFar, LiteDriven, LiteQueued
<1>8. LiteInv(lite)'
  <2>1. nLite = liteAnswered + 1 /\ liteStored = liteAnswered + 1 /\ liteAnswered \in Nat
    BY <1>2, <1>6 DEF LiteInv, LiteDone, BridgeTypes
  <2>2. /\ nLite' = liteAnswered' /\ liteStored' = liteAnswered'
        /\ nLite' \in Nat /\ liteAnswered' \in Nat /\ liteStored' \in Nat
    BY <1>1, <2>1
  <2>3. lState' = "IDLE"
    BY <1>1, <1>6
  <2>4. ~LiteDone'
    BY <1>7 DEF LiteDone
  <2> QED BY <1>6, <1>7, <2>2, <2>3, <2>4 DEF LiteInv
<1>9. BridgeTypes'
  <2>1. lState' \in {"IDLE", "TX_HDR", "WAIT_B"} /\ liteAnswered' \in Nat /\ lPending' \in BOOLEAN
    BY <1>1, <1>2 DEF BridgeTypes
  <2>2. UNCHANGED <<blPend, nLite, liteStored, atx>>
    BY <1>1
  <2> QED BY <1>2, <2>1, <2>2 DEF BridgeTypes
<1>10. /\ UNCHANGED <<txVars, rxVars, masterVars, stored, memW, dataWire, nLite, liteStored,
                       liteW>>
       /\ atx' = atx /\ bfId' \in Nat /\ bWire' \in Seq(Nat)
  BY <1>1, <1>2
<1> QED BY <1>4, <1>5, <1>8, <1>9, <1>10, BPacketStep

LEMMA BridgeGrant ==
  ASSUME NEW w, NEW lite, BridgeOrder(w, lite), Grant
  PROVE  BridgeOrder(w, lite)'
<1>1. /\ atx = "IDLE" /\ atx' \in {"W_FULL", "W_LITE"}
      /\ UNCHANGED <<txVars, rxVars, masterVars, stored, memW, dataWire, bWire, bfId>>
      /\ UNCHANGED <<lState, lPending, nLite, liteAnswered, blPend, liteStored, liteW>>
  BY DEF Grant, vars, liteVars, memoryVars, linkVars
<1>2. /\ BridgeTypes /\ BWireInv /\ FullInv(w) /\ LiteInv(lite)
      /\ bfId \in Nat /\ bWire \in Seq(Nat)
  BY DEF BridgeOrder, FarInv, NearInv, PortTypes
<1>3. UNCHANGED <<nAW, bPending, bId, dState, dAw, awPending, shadowAw>>
  BY <1>1 DEF masterVars, txVars, rxVars
<1>4. BWireInv' /\ (OnFullB' <=> OnFullB) /\ (OnLiteB' <=> OnLiteB)
  BY <1>1, <1>2, <1>3, WiresKept
<1>5. (NoFullB' <=> NoFullB) /\ (NoFullB \/ OneFullB)'
  BY <1>1, <1>2, <1>3, <1>4, FullBKept DEF FullInv
<1>6. LiteInv(lite)' /\ BridgeTypes'
  BY <1>1, <1>2, <1>3, <1>4, LiteSideKept DEF BridgeTypes
<1> QED BY <1>1, <1>2, <1>4, <1>5, <1>6, BPacketStep

LEMMA BridgeSendFullB ==
  ASSUME NEW w, NEW lite, BridgeOrder(w, lite), SendFullB
  PROVE  BridgeOrder(w, lite)'
<1>1. /\ bfId # 0 /\ bfId' = 0 /\ bWire' = Append(bWire, bfId)
      /\ UNCHANGED <<txVars, rxVars, masterVars, stored, memW, dataWire>>
      /\ UNCHANGED <<lState, lPending, nLite, liteAnswered, atx, blPend, liteStored, liteW>>
  BY DEF SendFullB, SendBPacket, liteVars, memoryVars
<1>2. /\ BridgeTypes /\ BWireInv /\ FullInv(w) /\ LiteInv(lite)
      /\ bfId \in Nat /\ bWire \in Seq(Nat)
  BY DEF BridgeOrder, FarInv, NearInv, PortTypes
<1>3. UNCHANGED <<nAW, bPending, bId, dState, dAw, awPending, shadowAw>>
  BY <1>1 DEF masterVars, txVars, rxVars
<1>4. ~NoFullB /\ bfId = nAW /\ ~OnFullB /\ ~bPending /\ nAW # BLite
  BY <1>1, <1>2 DEF FullInv, NoFullB, OneFullB, BLite
<1>5. nAW \notin Carried(bWire)
  BY <1>4 DEF OnFullB
<1>6. /\ bWire' \in Seq(Nat) /\ Carried(bWire') = Carried(bWire) \cup {nAW} /\ Once(bWire')
  BY <1>1, <1>2, <1>4, <1>5, CarriedAppend DEF BWireInv
<1>7. BWireInv' /\ OnFullB' /\ (OnLiteB' <=> OnLiteB)
  BY <1>2, <1>3, <1>4, <1>6 DEF BWireInv, OnFullB, OnLiteB
<1>8. (NoFullB' <=> NoFullB) /\ (NoFullB \/ OneFullB)'
  BY <1>1, <1>3, <1>4, <1>7 DEF NoFullB, OneFullB
<1>9. LiteInv(lite)' /\ BridgeTypes'
  BY <1>1, <1>2, <1>3, <1>7, LiteSideKept DEF BridgeTypes
<1> QED BY <1>1, <1>6, <1>7, <1>8, <1>9, BPacketStep

LEMMA BridgeSendLiteB ==
  ASSUME NEW w, NEW lite, BridgeOrder(w, lite), SendLiteB
  PROVE  BridgeOrder(w, lite)'
<1>1. /\ blPend /\ ~blPend' /\ blPend' \in BOOLEAN /\ bWire' = Append(bWire, BLite)
      /\ UNCHANGED <<txVars, rxVars, masterVars, stored, memW, dataWire, bfId>>
      /\ UNCHANGED <<lState, lPending, nLite, liteAnswered, atx, liteStored, liteW>>
  BY DEF SendLiteB, memoryVars
<1>2. /\ BridgeTypes /\ BWireInv /\ FullInv(w) /\ LiteInv(lite)
      /\ bfId \in Nat /\ bWire \in Seq(Nat) /\ BLite \in Nat
  BY DEF BridgeOrder, FarInv, NearInv, PortTypes, BLite
<1>3. UNCHANGED <<nAW, bPending, bId, dState, dAw, awPending, shadowAw>>
  BY <1>1 DEF masterVars, txVars, rxVars
<1>4. ~NoLiteB /\ ~OnLiteB /\ ~lPending
  BY <1>1, <1>2 DEF LiteInv, NoLiteB, OneLiteB
<1>5. /\ bWire' \in Seq(Nat) /\ Carried(bWire') = Carried(bWire) \cup {BLite} /\ Once(bWire')
  BY <1>1, <1>2, <1>4, CarriedAppend DEF BWireInv, OnLiteB
<1>6. BWireInv' /\ (OnFullB' <=> OnFullB) /\ OnLiteB'
  BY <1>2, <1>3, <1>5 DEF BWireInv, OnFullB, OnLiteB
<1>7. (NoFullB' <=> NoFullB) /\ (NoFullB \/ OneFullB)'
  BY <1>1, <1>2, <1>3, <1>6, FullBKept DEF FullInv
<1>8. ~NoLiteB' /\ OneLiteB'
  BY <1>1, <1>4, <1>6 DEF NoLiteB, OneLiteB
<1>9. /\ LiteDriven' <=> LiteDriven
      /\ LiteQueued' <=> LiteQueued
      /\ LiteAtFar' <=> LiteAtFar
  BY <1>3 DEF LiteDriven, LiteQueued, LiteAtFar
<1>10. LiteInv(lite)'
  BY <1>1, <1>2, <1>4, <1>8, <1>9 DEF LiteInv, LiteDone
<1>11. BridgeTypes'
  BY <1>1, <1>2 DEF BridgeTypes
<1>12. /\ UNCHANGED <<txVars, rxVars, masterVars, stored, memW, dataWire, nLite, liteStored,
                       liteW>>
       /\ atx' = atx /\ bfId' \in Nat /\ bWire' \in Seq(Nat)
  BY <1>1, <1>2, <1>5
<1> QED BY <1>6, <1>7, <1>10, <1>11, <1>12, BPacketStep

-----------------------------------------------------------------------------
(* The far end's ports.                                                    *)

LEMMA FarStep ==
  ASSUME NEW w, NEW lite, BridgeOrder(w, lite), PortTypes', FarInv(w, lite)', Landed',
         UNCHANGED <<txVars, masterVars, bWire, dataWire,
                     lState, lPending, nLite, liteAnswered, atx>>,
         blPend' \in BOOLEAN, liteStored' \in Nat
  PROVE  BridgeOrder(w, lite)'
<1>1. BridgeTypes /\ NearInv(w) /\ BWireInv /\ FrameInv(w, lite)
  BY DEF BridgeOrder
<1>2. NearInv(w)' /\ UNCHANGED <<nAW, wState>>
  BY <1>1, NearUnchanged
<1>3. BWireInv' /\ FrameInv(w, lite)' /\ BridgeTypes'
  BY <1>1, <1>2, WiresKept, FrameKept DEF BridgeTypes
<1> QED BY <1>2, <1>3 DEF BridgeOrder

(* When all of a burst has come off the wire, nothing of it is left there. *)
LEMMA AllLanded ==
  ASSUME NEW w, NearInv(w), Landing(w) >= End, wState \in {"TX_CONT", "WAIT_B"}
  PROVE  w = <<>> /\ wState = "WAIT_B"
<1>1. /\ End \in Nat /\ Sent \in Nat /\ Landing(w) \in Nat /\ Sent <= End /\ Landing(w) <= Sent
      /\ (Active => Sent < End)
  BY Positions
<1>2. Sent = End /\ Landing(w) = Sent
  BY <1>1
<1>3. wState = "WAIT_B"
  BY <1>1, <1>2 DEF Active
<1>4. ASSUME w # <<>> PROVE FALSE
  <2>1. 1 \in 1..Len(w)
    BY <1>4 DEF NearInv, ChainInv
  <2>2. From(w[1]) < Sent
    BY <2>1 DEF NearInv, ChainInv, FlitInv
  <2>3. Landing(w) = From(w[1])
    BY <1>4 DEF Landing
  <2> QED BY <1>1, <1>2, <2>2, <2>3
<1> QED BY <1>3, <1>4

LEMMA BridgeFarAW ==
  ASSUME NEW w, NEW lite, BridgeOrder(w, lite), FarAW
  PROVE  BridgeOrder(w, lite)'
<1>1. /\ MemoryAW /\ dState = "DRIVE_AW" /\ dState' = "DRIVE_W"
      /\ UNCHANGED <<dAw, awPending, shadowAw, rxBuf, rxCount, remRx, remDrv>>
      /\ UNCHANGED <<lState, lPending, nLite, liteAnswered, blPend, liteStored, liteW, atx>>
      /\ UNCHANGED <<txVars, masterVars, stored, memW, bWire, bfId, dataWire>>
  BY DEF FarAW, MemoryAW, DriveAW, liteVars, memoryVars, linkVars
<1>2. /\ BridgeTypes /\ BWireInv /\ FullInv(w) /\ LiteInv(lite) /\ DrivenInv /\ BufferInv(w)
      /\ NearInv(w) /\ PortTypes /\ Landed
  BY DEF BridgeOrder, FarInv, NearInv
<1>3. PortTypes'
  BY <1>1, <1>2, TypeFar
<1>4. /\ End' = End /\ CurrentAw' = CurrentAw /\ BurstBytes' = BurstBytes
      /\ HeaderToCome(w)' = HeaderToCome(w) /\ Landing(w)' = Landing(w)
      /\ UNCHANGED <<wState, bPending, bId, lens, nAW>>
  BY <1>1, <1>2, <1>3, NearUnchanged
<1>5. BWireInv' /\ (OnFullB' <=> OnFullB) /\ (OnLiteB' <=> OnLiteB)
  BY <1>1, <1>2, <1>4, WiresKept
<1>6. (NoFullB' <=> NoFullB) /\ (OneFullB' <=> OneFullB)
  BY <1>1, <1>4, <1>5, FullBKept
<1>7. (NoLiteB' <=> NoLiteB) /\ (OneLiteB' <=> OneLiteB)
  BY <1>1, <1>5 DEF NoLiteB, OneLiteB
<1>8. /\ FullDriven' <=> FullDriven
      /\ FullQueued' <=> FullQueued
      /\ LiteDriven' <=> LiteDriven
      /\ LiteQueued' <=> LiteQueued
      /\ FullInBuffer' <=> FullInBuffer
      /\ LiteInBuffer' <=> LiteInBuffer
      /\ FullAtFar' <=> FullAtFar
      /\ LiteAtFar' <=> LiteAtFar
  BY <1>1 DEF FullDriven, FullQueued, LiteDriven, LiteQueued, FullInBuffer, LiteInBuffer,
              FullAtFar, LiteAtFar
<1>9. (FullDone' <=> FullDone) /\ (LiteDone' <=> LiteDone)
  BY <1>1, <1>4, <1>6, <1>7, <1>8 DEF FullDone, LiteDone
<1>10. FullInv(w)'
  BY <1>1, <1>2, <1>4, <1>6, <1>8, <1>9 DEF FullInv
<1>11. LiteInv(lite)'
  BY <1>1, <1>2, <1>7, <1>8, <1>9 DEF LiteInv
<1>12. LiteAw' = LiteAw /\ Arrived' = Arrived
  BY <1>1 DEF LiteAw, Arrived
<1>13. DrivenInv'
  BY <1>1, <1>2, <1>4, <1>8, <1>12 DEF DrivenInv
<1>14. BufferInv(w)'
  BY <1>1, <1>2, <1>4, <1>8, <1>12 DEF BufferInv, LiteBytes, EmptyBuffer
<1>15. Landed' /\ blPend' \in BOOLEAN /\ liteStored' \in Nat
  BY <1>1, <1>2, LandedKept DEF BridgeTypes
<1> QED BY <1>1, <1>3, <1>10, <1>11, <1>13, <1>14, <1>15, FarStep DEF FarInv

(* The Full beat that is handed over is the next of the stream, under its  *)
(* AW's id.                                                                *)
LEMMA FullBeatTaken ==
  ASSUME NEW w, NEW lite, BridgeOrder(w, lite), HaveBeat, ~dAw.lite
  PROVE  /\ FullDriven /\ ~awPending /\ FullInBuffer /\ ~FullDone /\ NoFullB /\ wState # "IDLE"
         /\ BeatBytes(dAw) = STRB /\ dAw.id = nAW /\ stored.burst = nAW
         /\ (OutLast <=> stored.beat = lens[nAW])
         /\ OutBeat = [i \in 1..STRB |-> stored.bytes + i]
         /\ rxCount >= STRB /\ STRB \in Nat \ {0}
         /\ StreamFrom(ShiftDown(rxBuf, STRB), RxBufBytes, stored.bytes + STRB, Arrived)
<1>1. dState = "DRIVE_W" /\ rxCount >= BeatBytes(dAw)
  BY DEF HaveBeat
<1>2. /\ FullInv(w) /\ DrivenInv /\ BufferInv(w) /\ NearInv(w) /\ PortTypes
  BY DEF BridgeOrder, FarInv, NearInv
<1>3. FullDriven /\ ~awPending /\ FullAtFar /\ FullInBuffer
  BY <1>1, <1>2 DEF FullDriven, FullAtFar, FullInBuffer, DrivenInv
<1>4. NoFullB /\ wState # "IDLE" /\ ~FullDone
  BY <1>1, <1>2, <1>3 DEF FullInv, FullDone
<1>5. /\ dAw = CurrentAw /\ stored.burst = nAW /\ stored.beat <= lens[nAW]
      /\ remDrv = (lens[nAW] - stored.beat + 1) * STRB
  BY <1>1, <1>2, <1>3, <1>4 DEF FullInv, DrivenInv
<1>6. BeatBytes(dAw) = STRB /\ dAw.id = nAW
  BY <1>2, <1>4, <1>5, CurrentBurst DEF CurrentAw
<1>7. lens[nAW] \in Nat /\ stored.beat \in Nat /\ STRB \in Nat \ {0} /\ stored.bytes \in Nat
  BY <1>2, <1>4, CurrentBurst, Positions, GeometryAssumption
<1>8. OutLast <=> stored.beat = lens[nAW]
  <2>1. OutLast <=> (lens[nAW] - stored.beat + 1) * STRB = STRB
    BY <1>5, <1>6 DEF OutLast
  <2> QED BY <1>5, <1>7, <2>1, LastBeat
<1>9. /\ Low(rxBuf, STRB) = [i \in 1..STRB |-> stored.bytes + i]
      /\ StreamFrom(ShiftDown(rxBuf, STRB), RxBufBytes, stored.bytes + STRB, Arrived)
  <2>1. /\ StreamFrom(rxBuf, RxBufBytes, stored.bytes, stored.bytes + rxCount)
        /\ rxCount <= RxBufBytes /\ rxCount >= STRB
    BY <1>1, <1>2, <1>3, <1>6 DEF BufferInv, Arrived
  <2> QED BY <1>2, <1>7, <2>1, BeatOut DEF Arrived
<1> QED BY <1>1, <1>3, <1>4, <1>5, <1>6, <1>7, <1>8, <1>9 DEF OutBeat

LEMMA BridgeFarW ==
  ASSUME NEW w, NEW lite, BridgeOrder(w, lite), FarW
  PROVE  BridgeOrder(w, lite)'
<1>1. MemoryW /\ HaveBeat /\ ~dAw.lite
  BY DEF FarW, MemoryW, DriveW
<1>2. /\ FullDriven /\ ~awPending /\ FullInBuffer /\ ~FullDone /\ NoFullB /\ wState # "IDLE"
      /\ BeatBytes(dAw) = STRB /\ stored.burst = nAW
      /\ (OutLast <=> stored.beat = lens[nAW])
      /\ OutBeat = [i \in 1..STRB |-> stored.bytes + i]
      /\ rxCount >= STRB /\ STRB \in Nat \ {0}
      /\ StreamFrom(ShiftDown(rxBuf, STRB), RxBufBytes, stored.bytes + STRB, Arrived)
  BY <1>1, FullBeatTaken
<1>3. /\ dState = "DRIVE_W" /\ rxBuf' = ShiftDown(rxBuf, STRB) /\ rxCount' = rxCount - STRB
      /\ remDrv' = remDrv - STRB /\ dState' = (IF OutLast THEN "WAIT_B" ELSE dState)
      /\ stored' = Advance(stored, OutLast) /\ memW'.data = OutBeat
      /\ UNCHANGED <<dAw, awPending, shadowAw, remRx>>
      /\ UNCHANGED <<lState, lPending, nLite, liteAnswered, blPend, liteStored, liteW, atx>>
      /\ UNCHANGED <<txVars, masterVars, bWire, bfId, dataWire>>
  BY <1>1, <1>2 DEF FarW, MemoryW, DriveW, HaveBeat, liteVars, linkVars
<1>4. /\ BridgeTypes /\ BWireInv /\ FullInv(w) /\ LiteInv(lite) /\ DrivenInv /\ BufferInv(w)
      /\ NearInv(w) /\ PortTypes /\ Landed
  BY DEF BridgeOrder, FarInv, NearInv
<1>5. PortTypes'
  BY <1>1, <1>4, TypeFar
<1>6. /\ End' = End /\ CurrentAw' = CurrentAw /\ BurstBytes' = BurstBytes
      /\ HeaderToCome(w)' = HeaderToCome(w) /\ Landing(w)' = Landing(w)
      /\ UNCHANGED <<wState, bPending, bId, lens, nAW>>
  BY <1>3, <1>4, <1>5, NearUnchanged
<1>7. BWireInv' /\ (OnFullB' <=> OnFullB) /\ (OnLiteB' <=> OnLiteB)
  BY <1>3, <1>4, <1>6, WiresKept
<1>8. NoFullB'
  BY <1>2, <1>3, <1>6, <1>7, FullBKept
<1>9. (NoLiteB' <=> NoLiteB) /\ (OneLiteB' <=> OneLiteB)
  BY <1>3, <1>7 DEF NoLiteB, OneLiteB
<1>10. /\ ~dAw'.lite /\ dState' # "IDLE" /\ ~awPending'
       /\ FullDriven' /\ ~FullQueued' /\ ~LiteDriven' /\ ~LiteQueued' /\ FullInBuffer'
       /\ FullAtFar' /\ ~LiteAtFar' /\ FullAtFar /\ ~LiteDriven /\ ~LiteAtFar
  BY <1>1, <1>2, <1>3 DEF FullDriven, FullQueued, LiteDriven, LiteQueued, FullInBuffer,
                          FullAtFar, LiteAtFar
<1>11. /\ stored.bytes \in Nat /\ rxCount \in Nat /\ stored.beat \in Nat /\ End \in Nat
       /\ RxBufBytes \in Nat /\ lens[nAW] \in Nat /\ nAW \in Nat
       /\ Arrived = stored.bytes + rxCount /\ stored'.bytes = stored.bytes + STRB
  BY <1>2, <1>3, <1>4, Positions, CurrentBurst, Sizes DEF Arrived, Advance
<1>12. Arrived' = Arrived
  BY <1>2, <1>3, <1>11 DEF Arrived
<1>13. /\ dAw = CurrentAw /\ remDrv = End - stored.bytes /\ stored.beat <= lens[nAW]
       /\ remDrv = (lens[nAW] - stored.beat + 1) * STRB
       /\ wState \in {"TX_CONT", "WAIT_B"} /\ ~HeaderToCome(w)
       /\ rxCount <= RxBufBytes /\ Arrived = Landing(w) /\ remRx = End - Arrived
  BY <1>2, <1>3, <1>4, <1>10 DEF DrivenInv, FullInv, BufferInv
<1>14. remDrv' = End' - stored'.bytes
  BY <1>2, <1>3, <1>6, <1>11, <1>13
<1>15. BufferInv(w)'
  <2>1. rxCount' <= RxBufBytes
    BY <1>2, <1>3, <1>11, <1>13
  <2>2. StreamFrom(rxBuf, RxBufBytes, stored.bytes, Arrived)'
    BY <1>2, <1>3, <1>11, <1>12
  <2> QED BY <1>3, <1>6, <1>10, <1>12, <1>13, <2>1, <2>2 DEF BufferInv
<1>16. FullInv(w)' /\ DrivenInv'
  <2>1. CASE OutLast
    <3>1. stored'.burst = nAW + 1 /\ stored'.beat = 1 /\ dState' = "WAIT_B"
      BY <1>2, <1>3, <2>1 DEF Advance
    <3>2. remDrv' = 0 /\ stored'.bytes = End'
      <4>1. lens[nAW] - stored.beat + 1 = 1
        BY <1>2, <1>11, <2>1
      <4>2. remDrv = STRB
        BY <1>2, <1>13, <4>1
      <4>3. remDrv' = 0
        BY <1>2, <1>3, <4>2
      <4> QED BY <1>2, <1>6, <1>11, <1>13, <4>2, <4>3
    <3>3. w = <<>> /\ wState = "WAIT_B"
      <4>1. Landing(w) >= End
        BY <1>2, <1>6, <1>11, <1>13, <3>2, SMTT(20)
      <4> QED BY <1>4, <1>13, <4>1, AllLanded
    <3>4. FullDone'
      BY <1>10, <3>1 DEF FullDone
    <3>5. FullInv(w)'
      BY <1>6, <1>8, <1>10, <1>13, <3>1, <3>2, <3>3, <3>4 DEF FullInv
    <3>6. DrivenInv'
      BY <1>3, <1>6, <1>10, <1>13, <1>14, <3>1, <3>2 DEF DrivenInv
    <3> QED BY <3>5, <3>6
  <2>2. CASE ~OutLast
    <3>1. stored'.burst = nAW /\ stored'.beat = stored.beat + 1 /\ dState' = "DRIVE_W"
      BY <1>2, <1>3, <2>2 DEF Advance
    <3>2. stored'.beat <= lens[nAW]
      <4>1. stored.beat <= lens[nAW] /\ stored.beat # lens[nAW]
        BY <1>2, <1>13, <2>2
      <4> QED BY <1>11, <3>1, <4>1
    <3>3. remDrv' = (lens[nAW] - stored'.beat + 1) * STRB
      BY <1>3, <1>11, <1>13, <3>1, NextBeat
    <3>4. ~FullDone'
      BY <1>2, <1>6, <1>8, <3>1 DEF FullDone
    <3>5. FullInv(w)'
      BY <1>6, <1>8, <1>10, <1>13, <3>1, <3>4 DEF FullInv
    <3>6. DrivenInv'
      BY <1>3, <1>6, <1>10, <1>13, <1>14, <3>1, <3>2, <3>3 DEF DrivenInv
    <3> QED BY <3>5, <3>6
  <2> QED BY <2>1, <2>2
<1>17. LiteInv(lite)'
  BY <1>3, <1>4, <1>9, <1>10 DEF LiteInv, LiteDone
<1>18. Landed' /\ blPend' \in BOOLEAN /\ liteStored' \in Nat
  <2>1. memW'.data = [i \in 1..STRB |-> (stored'.bytes - STRB) + i]
    <3>1. stored'.bytes - STRB = stored.bytes
      BY <1>2, <1>11
    <3> QED BY <1>2, <1>3, <3>1
  <2> QED BY <1>3, <1>4, <2>1 DEF BridgeTypes, Landed
<1> QED BY <1>3, <1>5, <1>15, <1>16, <1>17, <1>18, FarStep DEF FarInv

(* The Lite beat is the newest Lite write's, and empties the buffer.       *)
LEMMA BridgeFarLiteW ==
  ASSUME NEW w, NEW lite, BridgeOrder(w, lite), FarLiteW
  PROVE  BridgeOrder(w, lite)'
<1>1. HaveBeat /\ dAw.lite /\ dState = "DRIVE_W" /\ rxCount >= BeatBytes(dAw)
  BY DEF FarLiteW, DriveW, HaveBeat
<1>2. /\ BridgeTypes /\ BWireInv /\ FullInv(w) /\ LiteInv(lite) /\ DrivenInv /\ BufferInv(w)
      /\ NearInv(w) /\ PortTypes /\ Landed
  BY DEF BridgeOrder, FarInv, NearInv
<1>3. /\ LiteDriven /\ ~awPending /\ LiteAtFar /\ LiteInBuffer /\ ~FullInBuffer
      /\ ~FullDriven /\ ~FullAtFar
  BY <1>1, <1>2 DEF LiteDriven, LiteAtFar, LiteInBuffer, FullInBuffer, FullDriven, FullQueued,
                    FullAtFar, DrivenInv
<1>4. /\ dAw = LiteAw /\ remDrv = LITESTRB /\ LiteBytes(LITESTRB) /\ rxCount = LITESTRB
      /\ remRx = 0 /\ lState = "WAIT_B" /\ lite = "none" /\ NoLiteB
  BY <1>1, <1>2, <1>3 DEF DrivenInv, BufferInv, LiteInv
<1>5. BeatBytes(dAw) = LITESTRB /\ OutLast /\ LITESTRB \in Nat
  BY <1>2, <1>4, LiteFrameFacts, GeometryAssumption DEF OutLast
<1>6. /\ rxBuf' = ShiftDown(rxBuf, LITESTRB) /\ rxCount' = 0 /\ remDrv' = 0
      /\ dState' = "WAIT_B" /\ liteStored' = liteStored + 1
      /\ liteW' = [data |-> OutBeat, id |-> dAw.id]
      /\ UNCHANGED <<dAw, awPending, shadowAw, remRx>>
      /\ UNCHANGED <<lState, lPending, nLite, liteAnswered, blPend, atx>>
      /\ UNCHANGED <<txVars, masterVars, stored, memW, bWire, bfId, dataWire>>
  BY <1>4, <1>5 DEF FarLiteW, DriveW, memoryVars, linkVars
<1>7. PortTypes'
  <2>1. RxTypeOK'
    BY <1>2, DriveType DEF FarLiteW, PortTypes
  <2> QED BY <1>2, <1>6, <2>1, FarTypes DEF PortTypes
<1>8. /\ End' = End /\ CurrentAw' = CurrentAw /\ BurstBytes' = BurstBytes
      /\ HeaderToCome(w)' = HeaderToCome(w) /\ Landing(w)' = Landing(w)
      /\ UNCHANGED <<wState, bPending, bId, lens, nAW>>
  BY <1>2, <1>6, <1>7, NearUnchanged
<1>9. BWireInv' /\ (OnFullB' <=> OnFullB) /\ (OnLiteB' <=> OnLiteB)
  BY <1>2, <1>6, <1>8, WiresKept
<1>10. (NoFullB' <=> NoFullB) /\ (OneFullB' <=> OneFullB)
  BY <1>6, <1>8, <1>9, FullBKept
<1>11. NoLiteB'
  BY <1>4, <1>6, <1>9 DEF NoLiteB
<1>12. /\ ~FullDriven' /\ ~FullQueued' /\ ~FullAtFar' /\ ~FullInBuffer'
       /\ LiteDriven' /\ ~LiteQueued' /\ LiteAtFar' /\ ~LiteInBuffer'
  BY <1>1, <1>3, <1>6 DEF FullDriven, FullQueued, LiteDriven, LiteQueued, FullInBuffer,
                          LiteInBuffer, FullAtFar, LiteAtFar
<1>13. FullDone' <=> FullDone
  BY <1>3, <1>8, <1>10, <1>12 DEF FullDone
<1>14. FullInv(w)'
  BY <1>2, <1>3, <1>6, <1>8, <1>10, <1>12, <1>13 DEF FullInv
<1>15. LiteInv(lite)'
  <2>1. ~LiteDone /\ LiteDone'
    BY <1>1, <1>4, <1>6, <1>12 DEF LiteDone
  <2>2. liteStored = liteAnswered /\ liteAnswered' = liteAnswered
    BY <1>2, <1>6, <2>1 DEF LiteInv
  <2> QED BY <1>2, <1>4, <1>6, <1>11, <1>12, <2>1, <2>2 DEF LiteInv
<1>16. LiteAw' = LiteAw
  BY <1>6 DEF LiteAw
<1>17. DrivenInv'
  BY <1>4, <1>6, <1>12, <1>16 DEF DrivenInv
<1>18. LiteBytes(LITESTRB) => Low(rxBuf, LITESTRB) = [i \in 1..LITESTRB |-> nLite]
  <2>1. LITESTRB <= RxBufBytes /\ rxBuf \in [1..RxBufBytes -> Byte] /\ RxBufBytes \in Nat
    BY <1>2, Sizes, GeometryAssumption DEF PortTypes, RxTypeOK, RxBufBytes
  <2> QED BY <1>5, <2>1 DEF Low, LiteBytes
<1>19. BufferInv(w)'
  <2>1. LiteBytes(0)'
    <3> SUFFICES ASSUME NEW i \in 1..RxBufBytes PROVE rxBuf'[i] = Zero
      <4>1. \A i \in 1..RxBufBytes : ~(i <= 0)
        BY Sizes
      <4> QED BY <4>1 DEF LiteBytes
    <3>1. rxBuf \in [1..RxBufBytes -> Byte] /\ RxBufBytes \in Nat
      BY <1>2, Sizes DEF PortTypes, RxTypeOK
    <3>2. rxBuf'[i] = IF i + LITESTRB \in 1..RxBufBytes THEN rxBuf[i + LITESTRB] ELSE Zero
      BY <1>6, <3>1 DEF ShiftDown
    <3>3. i + LITESTRB \in 1..RxBufBytes => rxBuf[i + LITESTRB] = Zero
      BY <1>4, <1>5, <3>1 DEF LiteBytes
    <3> QED BY <3>2, <3>3
  <2> QED BY <1>4, <1>6, <1>12, <2>1 DEF BufferInv, EmptyBuffer
<1>20. Landed' /\ blPend' \in BOOLEAN /\ liteStored' \in Nat
  <2>1. liteW'.data = [i \in 1..LITESTRB |-> liteW'.id]
    <3>1. OutBeat = [i \in 1..LITESTRB |-> nLite]
      BY <1>4, <1>5, <1>18 DEF OutBeat
    <3>2. dAw.id = nLite
      BY <1>4 DEF LiteAw
    <3> QED BY <1>6, <3>1, <3>2
  <2>2. stored.bytes > 0 => memW.data = [i \in 1..STRB |-> (stored.bytes - STRB) + i]
    BY <1>2 DEF Landed
  <2>3. blPend' \in BOOLEAN /\ liteStored' \in Nat
    BY <1>2, <1>6 DEF BridgeTypes
  <2> QED BY <1>6, <2>1, <2>2, <2>3 DEF Landed
<1> QED BY <1>6, <1>7, <1>14, <1>15, <1>17, <1>19, <1>20, FarStep DEF FarInv

-----------------------------------------------------------------------------
(* The B handshake of either port.                                         *)

(* With nothing queued and nothing being handed over the buffer is empty.  *)
LEMMA NothingHeld ==
  ASSUME NEW w, NEW lite, BridgeOrder(w, lite), ~awPending, dState \in {"IDLE", "WAIT_B"}
  PROVE  EmptyBuffer
<1>1. /\ FullInv(w) /\ BufferInv(w) /\ NearInv(w)
  BY DEF BridgeOrder, FarInv
<1>2. ~LiteInBuffer
  BY DEF LiteInBuffer, LiteQueued, LiteDriven
<1>3. CASE FullInBuffer
  <2>1. FullDriven /\ FullDone
    BY <1>3 DEF FullInBuffer, FullQueued, FullDriven, FullDone
  <2>2. /\ stored.bytes = End /\ Arrived = Landing(w) /\ remRx = End - Arrived
        /\ StreamFrom(rxBuf, RxBufBytes, stored.bytes, Arrived)
    BY <1>1, <1>3, <2>1 DEF FullInv, BufferInv
  <2>3. /\ End \in Nat /\ rxCount \in Nat /\ Sent \in Nat /\ Landing(w) \in Nat
        /\ Landing(w) <= Sent /\ Sent <= End /\ Arrived = stored.bytes + rxCount
    BY <1>1, Positions DEF Arrived
  <2>4. rxCount = 0 /\ Arrived = End /\ remRx = 0
    BY <2>2, <2>3
  <2>5. LiteBytes(0)
    <3>1. \A i \in 1..RxBufBytes : ~(i <= 0) /\ ~(End + i <= End)
      BY <2>3, Sizes
    <3> QED BY <2>2, <2>4, <3>1 DEF StreamFrom, LiteBytes
  <2> QED BY <2>4, <2>5 DEF EmptyBuffer
<1> QED BY <1>1, <1>2, <1>3 DEF BufferInv

(* The staged B of the Full port, where there was none.                    *)
LEMMA FullStaged ==
  ASSUME NoFullB, bfId' = nAW, nAW # 0, OnFullB' <=> OnFullB,
         UNCHANGED <<bPending, bId, nAW>>
  PROVE  ~NoFullB' /\ OneFullB'
BY DEF NoFullB, OneFullB

LEMMA LiteStaged ==
  ASSUME NoLiteB, blPend', OnLiteB' <=> OnLiteB, UNCHANGED lPending
  PROVE  ~NoLiteB' /\ OneLiteB'
BY DEF NoLiteB, OneLiteB

(* The Full burst's B is taken by the packetizer.                          *)
LEMMA FullBTaken ==
  ASSUME NEW w, NEW lite, BridgeOrder(w, lite), dState = "WAIT_B", ~dAw.lite, TakeResponse
  PROVE  /\ FullDriven /\ ~FullQueued /\ ~LiteDriven /\ FullDone
         /\ NoFullB /\ bfId' = nAW /\ nAW # 0 /\ wState = "WAIT_B" /\ w = <<>>
         /\ stored.burst = nAW + 1 /\ stored.beat = 1 /\ stored.bytes = End
         /\ blPend' = blPend
<1>1. FullInv(w) /\ DrivenInv /\ NearInv(w)
  BY DEF BridgeOrder, FarInv
<1>2. FullDriven /\ ~LiteDriven /\ FullAtFar /\ FullDone
  BY DEF FullDriven, LiteDriven, FullAtFar, FullDone
<1>3. /\ ~FullQueued /\ NoFullB /\ wState \in {"TX_CONT", "WAIT_B"}
      /\ stored.burst = nAW + 1 /\ stored.beat = 1 /\ stored.bytes = End
      /\ w = <<>> /\ wState \in {"IDLE", "WAIT_B"}
  BY <1>1, <1>2 DEF FullInv
<1>4. dAw.id = nAW /\ nAW # 0
  BY <1>1, <1>2, <1>3 DEF DrivenInv, CurrentAw, NearInv, SenderInv
<1> QED BY <1>2, <1>3, <1>4 DEF TakeResponse

LEMMA LiteBTaken ==
  ASSUME NEW w, NEW lite, BridgeOrder(w, lite), dState = "WAIT_B", dAw.lite, TakeResponse
  PROVE  /\ LiteDriven /\ ~LiteQueued /\ ~FullDriven /\ LiteDone /\ LiteAtFar
         /\ NoLiteB /\ lite = "none" /\ lState = "WAIT_B"
         /\ blPend' = TRUE /\ bfId' = bfId
<1>1. LiteInv(lite)
  BY DEF BridgeOrder, FarInv
<1>2. LiteDriven /\ ~FullDriven /\ LiteAtFar /\ LiteDone
  BY DEF FullDriven, LiteDriven, LiteAtFar, LiteDone
<1> QED BY <1>1, <1>2 DEF LiteInv, TakeResponse

(* What is common to both.                                                 *)
LEMMA FarBFrame ==
  ASSUME NEW w, NEW lite, BridgeOrder(w, lite), FarB
  PROVE  /\ dState = "WAIT_B" /\ TakeResponse /\ PortTypes'
         /\ UNCHANGED <<shadowAw, rxBuf, rxCount, remRx>>
         /\ UNCHANGED <<lState, lPending, nLite, liteAnswered, liteStored, liteW, atx>>
         /\ UNCHANGED <<txVars, masterVars, stored, memW, bWire, dataWire>>
         /\ End' = End /\ CurrentAw' = CurrentAw /\ BurstBytes' = BurstBytes
         /\ HeaderToCome(w)' = HeaderToCome(w) /\ Landing(w)' = Landing(w)
         /\ UNCHANGED <<wState, bPending, bId, lens, nAW>>
         /\ (OnFullB' <=> OnFullB) /\ (OnLiteB' <=> OnLiteB) /\ Landed'
         /\ LiteAw' = LiteAw /\ Arrived' = Arrived /\ liteStored' \in Nat
         /\ IF awPending
            THEN /\ dAw' = shadowAw /\ ~awPending' /\ dState' = "DRIVE_AW"
                 /\ remDrv' = TotalBytes(shadowAw)
            ELSE dState' = "IDLE" /\ UNCHANGED <<dAw, awPending, remDrv>>
<1>1. /\ dState = "WAIT_B" /\ BFire /\ TakeResponse
      /\ UNCHANGED <<shadowAw, rxBuf, rxCount, remRx>>
      /\ UNCHANGED <<lState, lPending, nLite, liteAnswered, liteStored, liteW, atx>>
      /\ UNCHANGED <<txVars, masterVars, stored, memW, bWire, dataWire>>
      /\ IF awPending
         THEN /\ dAw' = shadowAw /\ ~awPending' /\ dState' = "DRIVE_AW"
              /\ remDrv' = TotalBytes(shadowAw)
         ELSE dState' = "IDLE" /\ UNCHANGED <<dAw, awPending, remDrv>>
  BY DEF FarB, BFire, memoryVars, linkVars
<1>2. /\ BWireInv /\ NearInv(w) /\ PortTypes /\ Landed /\ BridgeTypes
  BY DEF BridgeOrder, NearInv
<1>3. PortTypes'
  <2>1. RxTypeOK'
    BY <1>1, <1>2, DriveType DEF PortTypes
  <2>2. dAw.id \in Nat /\ bfId \in Nat
    BY <1>2 DEF PortTypes, RxTypeOK, Aw
  <2>3. bfId' \in Nat
    BY <1>1, <2>2 DEF TakeResponse
  <2> QED BY <1>1, <1>2, <2>1, <2>3, FarTypes DEF PortTypes
<1>4. /\ End' = End /\ CurrentAw' = CurrentAw /\ BurstBytes' = BurstBytes
      /\ HeaderToCome(w)' = HeaderToCome(w) /\ Landing(w)' = Landing(w)
      /\ UNCHANGED <<wState, bPending, bId, lens, nAW>>
  BY <1>1, <1>2, <1>3, NearUnchanged
<1>5. (OnFullB' <=> OnFullB) /\ (OnLiteB' <=> OnLiteB)
  BY <1>1, <1>2, <1>4, WiresKept
<1>6. Landed' /\ liteStored' \in Nat
  BY <1>1, <1>2, LandedKept DEF BridgeTypes
<1>7. LiteAw' = LiteAw /\ Arrived' = Arrived
  BY <1>1 DEF LiteAw, Arrived
<1> QED BY <1>1, <1>3, <1>4, <1>5, <1>6, <1>7

(* The B of a Full burst; a queued Lite AW is driven next.                 *)
LEMMA BridgeFarFullB ==
  ASSUME NEW w, NEW lite, BridgeOrder(w, lite), FarB, ~dAw.lite
  PROVE  BridgeOrder(w, lite)'
<1>1. /\ dState = "WAIT_B" /\ TakeResponse /\ PortTypes'
      /\ UNCHANGED <<shadowAw, rxBuf, rxCount, remRx>>
      /\ UNCHANGED <<lState, lPending, nLite, liteAnswered, liteStored, liteW, atx>>
      /\ UNCHANGED <<txVars, masterVars, stored, memW, bWire, dataWire>>
      /\ End' = End /\ CurrentAw' = CurrentAw /\ BurstBytes' = BurstBytes
      /\ UNCHANGED <<wState, bPending, bId, lens, nAW>>
      /\ (OnFullB' <=> OnFullB) /\ (OnLiteB' <=> OnLiteB) /\ Landed'
      /\ LiteAw' = LiteAw /\ liteStored' \in Nat
      /\ IF awPending
         THEN /\ dAw' = shadowAw /\ ~awPending' /\ dState' = "DRIVE_AW"
              /\ remDrv' = TotalBytes(shadowAw)
         ELSE dState' = "IDLE" /\ UNCHANGED <<dAw, awPending, remDrv>>
  BY FarBFrame
<1>2. /\ FullDriven /\ ~FullQueued /\ ~LiteDriven /\ FullDone
      /\ NoFullB /\ bfId' = nAW /\ nAW # 0 /\ wState = "WAIT_B" /\ w = <<>>
      /\ stored.burst = nAW + 1 /\ stored.beat = 1 /\ stored.bytes = End
      /\ blPend' = blPend
  BY <1>1, FullBTaken
<1>3. /\ BridgeTypes /\ LiteInv(lite) /\ DrivenInv /\ BufferInv(w)
  BY DEF BridgeOrder, FarInv
<1>4. ~NoFullB' /\ OneFullB'
  BY <1>1, <1>2, FullStaged
<1>5. (NoLiteB' <=> NoLiteB) /\ (OneLiteB' <=> OneLiteB) /\ blPend' \in BOOLEAN
  BY <1>1, <1>2, <1>3 DEF NoLiteB, OneLiteB, BridgeTypes
<1>6. /\ ~FullDriven' /\ ~FullQueued' /\ ~FullAtFar' /\ ~FullInBuffer' /\ ~LiteQueued'
      /\ (LiteDriven' <=> LiteQueued)
      /\ (LiteAtFar' <=> LiteAtFar) /\ (LiteInBuffer' <=> LiteQueued) /\ (LiteQueued => awPending)
  <2>1. CASE awPending
    BY <1>1, <1>2, <2>1 DEF FullDriven, FullQueued, LiteDriven, LiteQueued, FullInBuffer,
                            LiteInBuffer, FullAtFar, LiteAtFar
  <2>2. CASE ~awPending
    BY <1>1, <1>2, <2>2 DEF FullDriven, FullQueued, LiteDriven, LiteQueued, FullInBuffer,
                            LiteInBuffer, FullAtFar, LiteAtFar
  <2> QED BY <2>1, <2>2
<1>7. FullInv(w)'
  <2>1. FullDone'
    BY <1>4 DEF FullDone
  <2> QED BY <1>1, <1>2, <1>4, <1>6, <2>1 DEF FullInv
<1>8. LiteInv(lite)'
  <2>1. LiteDone' <=> LiteDone
    BY <1>1, <1>2, <1>5, <1>6 DEF LiteDone, LiteQueued
  <2> QED BY <1>1, <1>3, <1>5, <1>6, <2>1 DEF LiteInv
<1>9. DrivenInv'
  <2>1. CASE LiteQueued
    <3>1. shadowAw = LiteAw /\ TotalBytes(LiteAw) = LITESTRB
      BY <1>3, <2>1, LiteFrameFacts DEF DrivenInv
    <3>2. dAw' = LiteAw' /\ remDrv' = LITESTRB /\ dState' = "DRIVE_AW" /\ ~awPending'
      BY <1>1, <1>6, <2>1, <3>1
    <3> QED BY <1>6, <3>2 DEF DrivenInv
  <2>2. CASE ~LiteQueued
    <3>1. ~awPending'
      BY <1>1, <1>2, <2>2
    <3> QED BY <1>6, <2>2, <3>1 DEF DrivenInv
  <2> QED BY <2>1, <2>2
<1>10. BufferInv(w)'
  <2>1. CASE LiteQueued
    <3>1. ~FullInBuffer /\ LiteInBuffer
      BY <1>2, <1>6, <2>1 DEF FullInBuffer, LiteInBuffer
    <3>2. LiteBytes(LITESTRB) /\ rxCount = LITESTRB /\ remRx = 0
      BY <1>3, <3>1 DEF BufferInv
    <3> QED BY <1>1, <1>6, <2>1, <3>2 DEF BufferInv, LiteBytes
  <2>2. CASE ~LiteQueued
    <3>1. ~awPending
      BY <1>2, <2>2 DEF LiteQueued, FullQueued
    <3>2. EmptyBuffer
      BY <1>1, <3>1, NothingHeld
    <3>3. EmptyBuffer'
      BY <1>1, <3>2 DEF EmptyBuffer, LiteBytes
    <3> QED BY <1>6, <2>2, <3>3 DEF BufferInv
  <2> QED BY <2>1, <2>2
<1> QED BY <1>1, <1>5, <1>7, <1>8, <1>9, <1>10, FarStep DEF FarInv

(* The B of a Lite write; a queued Full AW is driven next.                 *)
LEMMA BridgeFarLiteB ==
  ASSUME NEW w, NEW lite, BridgeOrder(w, lite), FarB, dAw.lite
  PROVE  BridgeOrder(w, lite)'
<1>1. /\ dState = "WAIT_B" /\ TakeResponse /\ PortTypes'
      /\ UNCHANGED <<shadowAw, rxBuf, rxCount, remRx>>
      /\ UNCHANGED <<lState, lPending, nLite, liteAnswered, liteStored, liteW, atx>>
      /\ UNCHANGED <<txVars, masterVars, stored, memW, bWire, dataWire>>
      /\ End' = End /\ CurrentAw' = CurrentAw /\ BurstBytes' = BurstBytes
      /\ HeaderToCome(w)' = HeaderToCome(w) /\ Landing(w)' = Landing(w)
      /\ UNCHANGED <<wState, bPending, bId, lens, nAW>>
      /\ (OnFullB' <=> OnFullB) /\ (OnLiteB' <=> OnLiteB) /\ Landed'
      /\ LiteAw' = LiteAw /\ Arrived' = Arrived /\ liteStored' \in Nat
      /\ IF awPending
         THEN /\ dAw' = shadowAw /\ ~awPending' /\ dState' = "DRIVE_AW"
              /\ remDrv' = TotalBytes(shadowAw)
         ELSE dState' = "IDLE" /\ UNCHANGED <<dAw, awPending, remDrv>>
  BY FarBFrame
<1>2. /\ LiteDriven /\ ~LiteQueued /\ ~FullDriven /\ LiteDone /\ LiteAtFar
      /\ NoLiteB /\ lite = "none" /\ lState = "WAIT_B"
      /\ blPend' = TRUE /\ bfId' = bfId
  BY <1>1, LiteBTaken
<1>3. /\ BridgeTypes /\ FullInv(w) /\ LiteInv(lite) /\ DrivenInv /\ BufferInv(w) /\ NearInv(w)
  BY DEF BridgeOrder, FarInv
<1>4. ~NoLiteB' /\ OneLiteB'
  BY <1>1, <1>2, LiteStaged
<1>5. (NoFullB' <=> NoFullB) /\ (OneFullB' <=> OneFullB) /\ blPend' \in BOOLEAN
  BY <1>1, <1>2, FullBKept
<1>6. /\ ~LiteDriven' /\ ~LiteQueued' /\ ~LiteAtFar' /\ ~LiteInBuffer' /\ ~FullQueued'
      /\ (FullDriven' <=> FullQueued)
      /\ (FullAtFar' <=> FullAtFar) /\ (FullInBuffer' <=> FullQueued)
      /\ (FullQueued <=> awPending) /\ (FullInBuffer <=> FullQueued) /\ ~LiteInBuffer
  <2>1. CASE awPending
    BY <1>1, <1>2, <2>1 DEF FullDriven, FullQueued, LiteDriven, LiteQueued, FullInBuffer,
                            LiteInBuffer, FullAtFar, LiteAtFar
  <2>2. CASE ~awPending
    BY <1>1, <1>2, <2>2 DEF FullDriven, FullQueued, LiteDriven, LiteQueued, FullInBuffer,
                            LiteInBuffer, FullAtFar, LiteAtFar
  <2> QED BY <2>1, <2>2
<1>7. FullDone' <=> FullDone
  <2>1. dState' # "WAIT_B"
    BY <1>1
  <2> QED BY <1>1, <1>2, <1>5, <2>1 DEF FullDone
<1>8. FullInv(w)'
  <2>1. ~FullDone => stored.beat = 1 /\ stored.bytes = End - BurstBytes
    BY <1>2, <1>3 DEF FullInv
  <2> QED BY <1>1, <1>3, <1>5, <1>6, <1>7, <2>1 DEF FullInv
<1>9. LiteInv(lite)'
  <2>1. LiteDone'
    BY <1>4 DEF LiteDone
  <2> QED BY <1>1, <1>2, <1>3, <1>4, <1>6, <2>1 DEF LiteInv
<1>10. DrivenInv'
  <2>1. CASE FullQueued
    <3>1. shadowAw = CurrentAw /\ wState # "IDLE" /\ FullAtFar /\ NoFullB /\ ~FullDone
          /\ stored.beat = 1 /\ stored.bytes = End - BurstBytes
      BY <1>2, <1>3, <2>1 DEF DrivenInv, FullInv, FullAtFar, FullDone
    <3>2. /\ TotalBytes(CurrentAw) = BurstBytes /\ BurstBytes \in Nat /\ lens[nAW] \in Nat
          /\ lens[nAW] >= 1 /\ End \in Nat
      BY <1>3, <3>1, CurrentBurst, Positions
    <3>3. dAw' = CurrentAw' /\ remDrv' = BurstBytes /\ dState' = "DRIVE_AW" /\ ~awPending'
      BY <1>1, <1>6, <2>1, <3>1, <3>2
    <3>4. BurstBytes = End' - stored'.bytes
      BY <1>1, <3>1, <3>2
    <3>5. BurstBytes = (lens'[nAW'] - stored'.beat + 1) * STRB /\ stored'.beat <= lens'[nAW']
      <4>1. lens[nAW] - 1 + 1 = lens[nAW]
        BY <3>2
      <4> QED BY <1>1, <3>1, <3>2, <4>1 DEF BurstBytes
    <3> QED BY <1>6, <3>3, <3>4, <3>5 DEF DrivenInv
  <2>2. CASE ~FullQueued
    <3>1. ~awPending'
      BY <1>1, <1>6, <2>2
    <3> QED BY <1>6, <2>2, <3>1 DEF DrivenInv
  <2> QED BY <2>1, <2>2
<1>11. BufferInv(w)'
  BY <1>1, <1>3, <1>6 DEF BufferInv, LiteBytes, EmptyBuffer
<1> QED BY <1>1, <1>5, <1>8, <1>9, <1>10, <1>11, FarStep DEF FarInv

-----------------------------------------------------------------------------
(* A flit is pushed into the receive buffer.                               *)

(* The piece of the stream that the head of w is goes in behind the bytes  *)
(* that are there.                                                         *)
LEMMA PiecePushed ==
  ASSUME NEW w, NEW n, NearInv(w), w # <<>>,
         StreamFrom(rxBuf, RxBufBytes, stored.bytes, Arrived), Arrived = From(w[1]),
         n = Least(End - Arrived, Cap(w[1])),
         rxBuf' = OrAt(rxBuf, rxCount, w[1].data), rxCount' = (rxCount + n) % RXMOD,
         rxCount + n <= RxBufBytes, stored' = stored
  PROVE  /\ n \in Nat /\ n > 0 /\ rxCount' = rxCount + n
         /\ Arrived' = Arrived + n /\ Arrived' = Least(From(w[1]) + Cap(w[1]), End)
         /\ StreamFrom(rxBuf, RxBufBytes, stored.bytes, Arrived)'
<1> DEFINE f == w[1]
<1>1. 1 \in 1..Len(w) /\ f \in Flit /\ PortTypes
  BY DEF NearInv, ChainInv
<1>2. FlitInv(f)
  BY <1>1 DEF NearInv, ChainInv
<1>3. /\ End \in Nat /\ Sent \in Nat /\ Sent <= End /\ stored.bytes \in Nat /\ rxCount \in Nat
      /\ Arrived = stored.bytes + rxCount /\ Arrived \in Nat
  BY Positions DEF Arrived
<1>4. Cap(f) \in Nat \ {0} /\ Arrived < Sent /\ StreamFrom(f.data, Cap(f), Arrived, End)
  BY <1>2, GeometryAssumption DEF Cap, FlitInv
<1>5. n \in Nat /\ n > 0
  <2> DEFINE d == End - Arrived
             c == Cap(f)
  <2>1. d \in Nat \ {0} /\ c \in Nat \ {0} /\ n = Least(d, c)
    <3>1. End - Arrived \in Nat \ {0}
      BY <1>3, <1>4
    <3> QED BY <1>4, <3>1
  <2> HIDE DEF d, c
  <2> QED BY <2>1 DEF Least
<1>6. rxCount' = rxCount + n
  <2>1. rxCount + n \in Nat
    BY <1>3, <1>5
  <2>2. rxCount + n < RXMOD /\ RXMOD \in Nat \ {0}
    <3>1. RxBufBytes \in Nat /\ RxBufBytes < RXMOD /\ RXMOD \in Nat \ {0}
      BY Sizes
    <3> QED BY <2>1, <3>1
  <2>3. (rxCount + n) % RXMOD = rxCount + n
    <3> DEFINE s == rxCount + n
    <3>1. s \in Nat /\ s < RXMOD /\ RXMOD \in Nat \ {0}
      BY <2>1, <2>2
    <3> HIDE DEF s
    <3>2. s % RXMOD = s
      BY <3>1
    <3> QED BY <3>2 DEF s
  <2> QED BY <2>3
<1>7. Arrived' = Arrived + n
  BY <1>3, <1>5, <1>6 DEF Arrived
<1>8. Arrived' = Least(From(f) + Cap(f), End)
  <2> DEFINE a == Arrived
             e == End
             c == Cap(f)
  <2>1. a \in Int /\ e \in Int /\ c \in Int /\ n = Least(e - a, c)
    BY <1>3, <1>4
  <2>2. Arrived' = a + n /\ From(f) = a
    BY <1>7
  <2> HIDE DEF a, e, c
  <2>3. a + n = Least(a + c, e)
    BY <2>1 DEF Least
  <2> QED BY <2>2, <2>3 DEF e, c
<1>9. StreamFrom(rxBuf, RxBufBytes, stored.bytes, Arrived)'
  <2>1. /\ StreamFrom(rxBuf, RxBufBytes, stored.bytes, stored.bytes + rxCount)
        /\ StreamFrom(f.data, Cap(f), stored.bytes + rxCount, End)
        /\ n = Least(End - (stored.bytes + rxCount), Cap(f))
    BY <1>3, <1>4
  <2>2. StreamFrom(OrAt(rxBuf, rxCount, f.data), RxBufBytes, stored.bytes,
                   stored.bytes + rxCount + n)
    BY <1>1, <1>3, <1>5, <2>1, BytesPushed
  <2>3. stored.bytes + rxCount + n = Arrived'
    BY <1>3, <1>5, <1>7
  <2> QED BY <2>2, <2>3
<1> QED BY <1>5, <1>6, <1>7, <1>8, <1>9

(* The header of the current burst, into an empty buffer.                  *)
LEMMA FullHeaderPushed ==
  ASSUME NEW w, NearInv(w), w # <<>>, w[1].op = "AW", EmptyBuffer,
         stored.bytes = End - BurstBytes, PushHeader(w[1]), stored' = stored, End' = End
  PROVE  /\ w[1].aw = CurrentAw /\ TotalBytes(w[1].aw) = BurstBytes
         /\ rxCount' <= RxBufBytes
         /\ StreamFrom(rxBuf, RxBufBytes, stored.bytes, Arrived)'
         /\ Arrived' = Least(From(w[1]) + Cap(w[1]), End) /\ remRx' = End' - Arrived'
<1> DEFINE f == w[1]
           n == Least(BurstBytes, HDR)
<1>1. 1 \in 1..Len(w) /\ wState # "IDLE"
  BY DEF NearInv, ChainInv
<1>2. f.aw = CurrentAw /\ From(f) = End - BurstBytes /\ Cap(f) = HDR
  BY <1>1 DEF NearInv, ChainInv, FlitInv, Cap
<1>3. TotalBytes(CurrentAw) = BurstBytes /\ BurstBytes \in Nat
  BY <1>1, CurrentBurst
<1>4. /\ End \in Nat /\ stored.bytes \in Nat /\ rxCount = 0 /\ Arrived = stored.bytes
      /\ HDR \in Nat /\ RxBufBytes \in Nat
  BY Positions, Sizes, GeometryAssumption DEF Arrived, EmptyBuffer
<1>5. /\ rxBuf' = OrAt(rxBuf, rxCount, f.data) /\ rxCount' = (rxCount + n) % RXMOD
      /\ remRx' = BurstBytes - n
  BY <1>2, <1>3 DEF PushHeader, Push
<1>6. /\ Arrived = From(f) /\ n = Least(End - Arrived, Cap(f))
  BY <1>2, <1>3, <1>4
<1>7. rxCount + n <= RxBufBytes
  <2>1. HDR <= RxBufBytes
    BY GeometryAssumption DEF RxBufBytes
  <2>2. n <= HDR /\ n \in Int
    BY <1>3, <1>4 DEF Least
  <2> QED BY <1>4, <2>1, <2>2
<1>8. StreamFrom(rxBuf, RxBufBytes, stored.bytes, Arrived)
  <2>1. \A i \in 1..RxBufBytes : rxBuf[i] = Zero
    <3>1. \A i \in 1..RxBufBytes : ~(i <= 0)
      BY <1>4
    <3> QED BY <3>1 DEF EmptyBuffer, LiteBytes
  <2>2. \A i \in 1..RxBufBytes : ~(stored.bytes + i <= stored.bytes)
    BY <1>4
  <2> QED BY <1>4, <2>1, <2>2 DEF StreamFrom
<1>9. /\ n \in Nat /\ rxCount' = rxCount + n /\ Arrived' = Arrived + n
      /\ Arrived' = Least(From(f) + Cap(f), End)
      /\ StreamFrom(rxBuf, RxBufBytes, stored.bytes, Arrived)'
  <2> HIDE DEF n
  <2> QED BY <1>5, <1>6, <1>7, <1>8, PiecePushed
<1>10. remRx' = End' - Arrived'
  <2> HIDE DEF n
  <2> QED BY <1>3, <1>4, <1>5, <1>9
<1> QED BY <1>2, <1>3, <1>7, <1>9, <1>10

(* A continuation flit of the burst that is in the buffer.                 *)
LEMMA FullContPushed ==
  ASSUME NEW w, NearInv(w), w # <<>>, w[1].op # "AW",
         StreamFrom(rxBuf, RxBufBytes, stored.bytes, Arrived), Arrived = From(w[1]),
         remRx = End - Arrived, End - stored.bytes <= RxBufBytes,
         RxCont(w[1]), stored' = stored, End' = End
  PROVE  /\ rxCount' <= RxBufBytes
         /\ StreamFrom(rxBuf, RxBufBytes, stored.bytes, Arrived)'
         /\ Arrived' = Least(From(w[1]) + Cap(w[1]), End) /\ remRx' = End' - Arrived'
<1> DEFINE f == w[1]
           n == Least(remRx, CONT)
<1>1. 1 \in 1..Len(w) /\ f \in Flit
  BY DEF NearInv, ChainInv
<1>2. Cap(f) = CONT /\ ContField(f) = f.data
  BY <1>1 DEF Cap, ContField, Flit
<1>3. /\ rxBuf' = OrAt(rxBuf, rxCount, f.data) /\ rxCount' = (rxCount + n) % RXMOD
      /\ remRx' = remRx - n
  BY <1>2 DEF RxCont, Push
<1>4. /\ End \in Nat /\ stored.bytes \in Nat /\ rxCount \in Nat
      /\ Arrived = stored.bytes + rxCount /\ CONT \in Nat /\ RxBufBytes \in Nat
  BY Positions, Sizes, GeometryAssumption DEF Arrived
<1>5. n = Least(End - Arrived, Cap(f))
  BY <1>2
<1>6. n <= remRx /\ n \in Int
  BY <1>4 DEF Least
<1> HIDE DEF n
<1>7. rxCount + n <= RxBufBytes
  BY <1>4, <1>6
<1>8. /\ n \in Nat /\ rxCount' = rxCount + n /\ Arrived' = Arrived + n
      /\ Arrived' = Least(From(f) + Cap(f), End)
      /\ StreamFrom(rxBuf, RxBufBytes, stored.bytes, Arrived)'
  BY <1>3, <1>5, <1>7, PiecePushed
<1>9. remRx' = End' - Arrived'
  BY <1>3, <1>4, <1>8
<1> QED BY <1>7, <1>8, <1>9

(* The Lite frame, into an empty buffer: the flit's data field is longer   *)
(* than a Lite beat, and what passes the beat is zero.                     *)
LEMMA LiteHeaderPushed ==
  ASSUME BridgeTypes, PortTypes, EmptyBuffer, PushHeader(LiteFrame), nLite' = nLite
  PROVE  LiteBytes(LITESTRB)' /\ rxCount' = LITESTRB /\ remRx' = 0
<1>1. TotalBytes(LiteFrame.aw) = LITESTRB /\ LiteFrame.data = LiteFlitData
  BY LiteFrameFacts
<1>2. /\ LITESTRB \in Nat /\ HDR \in Nat /\ LITESTRB <= HDR /\ LITESTRB < RXMOD /\ RXMOD \in Nat
      /\ RxBufBytes \in Nat
  BY Sizes, GeometryAssumption DEF RxBufBytes
<1>3. Least(LITESTRB, HDR) = LITESTRB
  BY <1>2 DEF Least
<1>4. /\ rxBuf' = OrAt(rxBuf, 0, LiteFlitData) /\ rxCount' = (0 + LITESTRB) % RXMOD
      /\ remRx' = LITESTRB - LITESTRB
  BY <1>1, <1>3 DEF PushHeader, Push, EmptyBuffer
<1>5. rxCount' = LITESTRB /\ remRx' = 0
  BY <1>2, <1>4
<1>6. LiteBytes(LITESTRB)'
  <2> SUFFICES ASSUME NEW i \in 1..RxBufBytes
               PROVE  rxBuf'[i] = IF i <= LITESTRB THEN nLite ELSE Zero
    BY DEF LiteBytes
  <2>1. rxBuf[i] = Zero /\ rxBuf \in [1..RxBufBytes -> Byte]
    <3>1. ~(i <= 0)
      BY <1>2
    <3> QED BY <3>1 DEF EmptyBuffer, LiteBytes, PortTypes, RxTypeOK
  <2>2. i - 0 = i
    BY <1>2
  <2>3. rxBuf'[i] = IF i \in 1..HDR THEN OrByte(rxBuf[i], LiteFlitData[i]) ELSE rxBuf[i]
    BY <1>4, <2>1, <2>2 DEF OrAt, LiteFlitData
  <2>4. i \in 1..HDR => LiteFlitData[i] = IF i <= LITESTRB THEN nLite ELSE Zero
    BY DEF LiteFlitData
  <2>5. i <= LITESTRB => i \in 1..HDR
    BY <1>2
  <2> QED BY <2>1, <2>3, <2>4, <2>5 DEF OrByte
<1> QED BY <1>5, <1>6

-----------------------------------------------------------------------------
(* What a flit finds at the far end.                                       *)

(* The types after a B handshake that meets a header.                      *)
LEMMA MeetingType ==
  ASSUME PortTypes, NEW f \in Flit, BFireWithHeader(f), TakeResponse,
         UNCHANGED <<txVars, masterVars, stored, bWire>>
  PROVE  PortTypes'
<1>1. /\ RxTypeOK /\ bfId \in Nat
  BY DEF PortTypes
<1>2. f.aw \in Aw
  <2>1. NoAw \in Aw
    BY DEF NoAw, Aw
  <2> QED BY <2>1 DEF Flit
<1>3. f.op = "AW" /\ f.data \in [1..HDR -> Byte]
  <2>1. f.op = "AW"
    BY DEF BFireWithHeader, TakesHeader
  <2>2. f \notin [op : {"none"}, aw : {NoAw}, data : [1..CONT -> Byte], tlast : BOOLEAN]
    BY <2>1
  <2>3. f \in [op : {"AW"}, aw : Aw, data : [1..HDR -> Byte], tlast : BOOLEAN]
    BY <2>2 DEF Flit
  <2> QED BY <2>1, <2>3
<1> DEFINE n == Least(TotalBytes(f.aw), HDR)
<1>4. TotalBytes(f.aw) \in Nat /\ n \in Nat /\ TotalBytes(f.aw) - n \in Nat
  BY <1>2, TotalBytesType, GeometryAssumption DEF Least
<1>5. rxBuf' \in [1..RxBufBytes -> Byte]
  <2>1. rxBuf' = OrAt(rxBuf, rxCount, f.data)
    BY DEF BFireWithHeader, PushHeader, Push
  <2>2. rxBuf \in [1..RxBufBytes -> Byte] /\ rxCount \in Nat /\ HDR \in Nat /\ RxBufBytes \in Nat
    BY <1>1, Sizes, GeometryAssumption DEF RxTypeOK
  <2> DEFINE bytes == f.data
  <2>3. bytes \in [1..HDR -> Byte] /\ rxCount \in Int
    BY <1>3, <2>2
  <2>4. rxBuf' = OrAt(rxBuf, rxCount, bytes)
    BY <2>1
  <2> HIDE DEF bytes
  <2>5. OrAt(rxBuf, rxCount, bytes) \in [1..RxBufBytes -> Byte]
    BY <2>2, <2>3, OrAtType
  <2> QED BY <2>4, <2>5
<1>6. rxCount' \in 0..(RXMOD - 1)
  <2>1. rxCount + n \in Nat
    BY <1>1, <1>4 DEF RxTypeOK
  <2>2. rxCount' = (rxCount + n) % RXMOD
    BY DEF BFireWithHeader, PushHeader, Push
  <2> QED BY <2>1, <2>2, ModRange, Sizes
<1>7. remRx' \in Nat
  BY <1>4 DEF BFireWithHeader, PushHeader
<1>8. /\ dState' = "IDLE" /\ dAw' \in Aw /\ shadowAw' \in Aw /\ awPending' \in BOOLEAN
      /\ remDrv' \in Int
  BY <1>1, <1>2 DEF BFireWithHeader, RxTypeOK
<1>9. RxTypeOK'
  BY <1>5, <1>6, <1>7, <1>8 DEF RxTypeOK
<1>10. bfId' \in Nat /\ bWire' \in Seq(Nat)
  BY <1>1 DEF TakeResponse, RxTypeOK, Aw, PortTypes
<1> QED BY <1>9, <1>10, FarTypes

(* The pipeline is ready for a header when nothing is driven, or when what *)
(* is driven waits for its B.                                              *)
LEMMA HeaderFinds ==
  ASSUME NEW w, NEW lite, BridgeOrder(w, lite), PipelineReady
  PROVE  dState \in {"IDLE", "WAIT_B"}
<1>1. FullInv(w) /\ DrivenInv /\ NearInv(w) /\ PortTypes
  BY DEF BridgeOrder, FarInv, NearInv
<1>2. dState \in {"IDLE", "DRIVE_AW", "DRIVE_W", "WAIT_B"}
  BY <1>1 DEF PortTypes, RxTypeOK
<1>3. ASSUME FullDriven, dState # "WAIT_B" PROVE remDrv # 0
  <2>1. stored.beat <= lens[nAW] /\ remDrv = (lens[nAW] - stored.beat + 1) * STRB
    BY <1>1, <1>3 DEF DrivenInv
  <2>2. wState # "IDLE"
    BY <1>1, <1>3 DEF FullInv, FullAtFar
  <2>3. lens[nAW] \in Nat /\ stored.beat \in Nat
    BY <1>1, <2>2, CurrentBurst, Positions
  <2>4. lens[nAW] - stored.beat + 1 \in Int /\ lens[nAW] - stored.beat + 1 >= 1
    BY <2>1, <2>3
  <2>5. remDrv \in Int /\ remDrv >= STRB
    BY <2>1, <2>4, Beats
  <2> QED BY <2>5, GeometryAssumption
<1>4. ASSUME LiteDriven, dState # "WAIT_B" PROVE remDrv # 0
  BY <1>1, <1>4, GeometryAssumption DEF DrivenInv
<1> QED BY <1>2, <1>3, <1>4 DEF PipelineReady, FullDriven, LiteDriven

(* A header of the Full writer comes to a far end that has nothing of its  *)
(* burst.                                                                  *)
LEMMA FullHeaderFinds ==
  ASSUME NEW w, NEW lite, BridgeOrder(w, lite), w # <<>>
  PROVE  /\ ~FullDone /\ NoFullB /\ wState \in {"TX_CONT", "WAIT_B"} /\ w[1] \in Flit
         /\ stored.burst = nAW
         /\ w[1].op = "AW" => /\ ~FullAtFar /\ ~FullInBuffer /\ remRx = 0
                              /\ stored.beat = 1 /\ stored.bytes = End - BurstBytes
<1>1. FullInv(w) /\ NearInv(w) /\ BufferInv(w)
  BY DEF BridgeOrder, FarInv
<1>2. wState \in {"TX_CONT", "WAIT_B"} /\ 1 \in 1..Len(w) /\ w[1] \in Flit
  BY <1>1 DEF NearInv, ChainInv
<1>3. ~FullDone /\ NoFullB
  BY <1>1 DEF FullInv, FullDone
<1>4. stored.burst = nAW
  BY <1>1, <1>3 DEF FullInv
<1>5. ASSUME w[1].op = "AW"
      PROVE  /\ ~FullAtFar /\ ~FullInBuffer /\ remRx = 0
             /\ stored.beat = 1 /\ stored.bytes = End - BurstBytes
  <2>1. ~FullAtFar
    BY <1>1, <1>5 DEF FullInv, HeaderToCome
  <2>2. ~FullDriven /\ ~FullInBuffer
    BY <2>1 DEF FullAtFar, FullInBuffer
  <2>3. remRx = 0
    BY <1>1, <2>2 DEF BufferInv, EmptyBuffer
  <2> QED BY <1>1, <1>3, <2>1, <2>2, <2>3 DEF FullInv
<1> QED BY <1>2, <1>3, <1>4, <1>5

(* The Lite frame comes to a far end that has nothing of the Lite write,   *)
(* and that does not wait for flits of a Full frame.                       *)
LEMMA LiteHeaderFinds ==
  ASSUME NEW w, BridgeOrder(w, "ahead")
  PROVE  ~LiteAtFar /\ ~LiteDone /\ NoLiteB /\ lState = "WAIT_B" /\ remRx = 0
<1>1. /\ FullInv(w) /\ LiteInv("ahead") /\ NearInv(w) /\ BufferInv(w) /\ FrameInv(w, "ahead")
  BY DEF BridgeOrder, FarInv
<1>2. ~LiteAtFar /\ NoLiteB /\ lState = "WAIT_B"
  BY <1>1 DEF LiteInv
<1>3. ~LiteDone
  BY <1>2 DEF LiteDone, LiteAtFar
<1>4. CASE FullInBuffer
  <2>1. FullAtFar
    BY <1>4 DEF FullInBuffer, FullAtFar
  <2>2. wState \in {"TX_CONT", "WAIT_B"} /\ ~HeaderToCome(w)
    BY <1>1, <2>1 DEF FullInv
  <2>3. w = <<>> /\ wState = "WAIT_B"
    BY <1>1, <2>2 DEF FrameInv, HeaderToCome
  <2>4. Arrived = Landing(w) /\ remRx = End - Arrived
    BY <1>1, <1>4 DEF BufferInv
  <2>5. Landing(w) = Sent /\ Sent = End /\ End \in Nat
    BY <1>1, <2>3, Positions DEF Landing
  <2>6. remRx = 0
    BY <2>4, <2>5
  <2> QED BY <1>2, <1>3, <2>6
<1>5. CASE ~FullInBuffer
  <2>1. remRx = 0
    BY <1>1, <1>5 DEF BufferInv, EmptyBuffer
  <2> QED BY <1>2, <1>3, <2>1
<1> QED BY <1>4, <1>5

(* The depacketizer waits for a continuation flit only for the burst that  *)
(* is in the buffer, and then for the one at the head of the wire.         *)
LEMMA ContFinds ==
  ASSUME NEW w, NEW lite, BridgeOrder(w, lite), w # <<>>
  PROVE  /\ FullInBuffer <=> TakesCont
         /\ FullInBuffer =>
              /\ w[1].op # "AW" /\ remRx = End - Arrived /\ Arrived = From(w[1])
              /\ StreamFrom(rxBuf, RxBufBytes, stored.bytes, Arrived)
              /\ FullAtFar
<1>1. FullInv(w) /\ NearInv(w) /\ BufferInv(w)
  BY DEF BridgeOrder, FarInv
<1>2. ~FullInBuffer => remRx = 0
  BY <1>1 DEF BufferInv, EmptyBuffer
<1>3. ASSUME FullInBuffer
      PROVE  /\ remRx # 0 /\ remRx = End - Arrived /\ Arrived = From(w[1])
             /\ StreamFrom(rxBuf, RxBufBytes, stored.bytes, Arrived)
  <2>1. /\ remRx = End - Arrived /\ Arrived = From(w[1])
        /\ StreamFrom(rxBuf, RxBufBytes, stored.bytes, Arrived)
    BY <1>1, <1>3 DEF BufferInv, Landing
  <2>2. From(w[1]) < Sent /\ Sent <= End /\ From(w[1]) \in Nat /\ Sent \in Nat /\ End \in Nat
    <3>1. 1 \in 1..Len(w)
      BY <1>1 DEF NearInv, ChainInv
    <3>2. From(w[1]) < Sent /\ From(w[1]) \in Nat
      BY <1>1, <3>1 DEF NearInv, ChainInv, FlitInv
    <3> QED BY <1>1, <3>2, Positions
  <2>3. remRx # 0
    BY <2>1, <2>2
  <2> QED BY <2>1, <2>3
<1>4. FullInBuffer => FullAtFar /\ w[1].op # "AW"
  BY FullHeaderFinds DEF FullInBuffer, FullAtFar
<1> QED BY <1>2, <1>3, <1>4 DEF TakesCont

(* The head of the wire is taken off.                                      *)
LEMMA HeadTaken ==
  ASSUME NEW w, NEW lite, BridgeOrder(w, lite), dataWire # <<>>, dataWire' = Tail(dataWire),
         UNCHANGED <<wState, nLite, atx>>
  PROVE  /\ Head(dataWire) \in Flit
         /\ lite = "ahead" => Head(dataWire) = LiteFrame /\ FrameInv(w, "none")'
         /\ lite # "ahead" =>
              /\ w # <<>> /\ Head(dataWire) = w[1]
              /\ \E w2, l : /\ w2 = Tail(w) /\ FrameInv(w2, l)'
                            /\ l = "none" <=> lite = "none"
<1>1. FrameInv(w, lite) /\ (wState = "TX_CONT" => atx = "W_FULL")
  BY DEF BridgeOrder, FrameInv
<1>2. Head(dataWire) \in Flit
  BY WireHead
<1>3. CASE lite = "ahead"
  <2>1. Head(dataWire) = LiteFrame /\ Tail(dataWire) = Wire(w, "none")
    BY <1>3, WireHead
  <2>2. dataWire' = w
    BY <2>1 DEF Wire
  <2>3. FrameInv(w, "none")'
    BY <1>1, <2>2 DEF FrameInv, Wire
  <2> QED BY <1>2, <1>3, <2>1, <2>3
<1>4. CASE lite # "ahead"
  <2>1. w # <<>> /\ Head(dataWire) = w[1]
    BY <1>4, WireHead
  <2>2. PICK l \in {"none", "ahead", "behind"} :
             /\ Tail(dataWire) = Wire(Tail(w), l)
             /\ l = "ahead" => Tail(w) = <<>>
             /\ l = "behind" => Tail(w) # <<>>
             /\ l = "none" <=> lite = "none"
    BY <1>4, WireHead
  <2>3. PICK w2 : w2 = Tail(w)
    OBVIOUS
  <2>4. Wire(w2, l)' = Wire(w2, l)
    BY DEF Wire, LiteFrame, LiteAw, LiteFlitData
  <2>5. l # "none" => wState = "WAIT_B"
    BY <1>1, <1>4, <2>2 DEF FrameInv
  <2>6. FrameInv(w2, l)'
    BY <1>1, <2>2, <2>3, <2>4, <2>5 DEF FrameInv
  <2>7. \E w3, l3 : /\ w3 = Tail(w) /\ FrameInv(w3, l3)'
                    /\ l3 = "none" <=> lite = "none"
    BY <2>2, <2>3, <2>6
  <2> QED BY <1>2, <1>4, <2>1, <2>7
<1> QED BY <1>3, <1>4

-----------------------------------------------------------------------------
(* A flit arrives.                                                         *)

LEMMA ArrivalDone ==
  ASSUME NEW w, NEW lite, NEW w2, NEW l, BridgeOrder(w, lite), NearInv(w2)', FrameInv(w2, l)',
         FullInv(w2)', LiteInv(l)', DrivenInv', BufferInv(w2)',
         UNCHANGED <<masterVars, memoryVars, bWire>>,
         UNCHANGED <<lState, lPending, nLite, liteAnswered, atx, liteStored, liteW>>,
         blPend' \in BOOLEAN
  PROVE  BridgeOrder(w2, l)'
<1>1. BridgeTypes /\ BWireInv /\ Landed
  BY DEF BridgeOrder
<1>2. BWireInv' /\ BridgeTypes' /\ Landed'
  BY <1>1, WiresKept, LandedKept DEF BridgeTypes, masterVars, memoryVars
<1> QED BY <1>2 DEF BridgeOrder, FarInv

(* What no arrival touches.                                                *)
LEMMA ArrivalFrame ==
  ASSUME UNCHANGED <<txVars, masterVars, memoryVars, bWire>>,
         UNCHANGED <<lState, lPending, nLite, liteAnswered, atx, liteStored, liteW>>
  PROVE  /\ UNCHANGED <<wState, txAw, txBuf, txCount, lastSeen, bPending, bId, lens, nAW, given,
                        answered, stored>>
         /\ (OnFullB' <=> OnFullB) /\ (OnLiteB' <=> OnLiteB)
         /\ (bfId' = bfId => (NoFullB' <=> NoFullB) /\ (OneFullB' <=> OneFullB))
         /\ (blPend' = blPend => (NoLiteB' <=> NoLiteB) /\ (OneLiteB' <=> OneLiteB))
         /\ LiteAw' = LiteAw
<1>1. UNCHANGED <<wState, txAw, txBuf, txCount, lastSeen, bPending, bId, lens, nAW, given,
                  answered, stored>>
  BY DEF txVars, masterVars, memoryVars
<1>2. (OnFullB' <=> OnFullB) /\ (OnLiteB' <=> OnLiteB)
  BY DEF OnFullB, OnLiteB, Carried
<1>3. bfId' = bfId => (NoFullB' <=> NoFullB) /\ (OneFullB' <=> OneFullB)
  BY <1>1, <1>2, FullBKept
<1>4. blPend' = blPend => (NoLiteB' <=> NoLiteB) /\ (OneLiteB' <=> OneLiteB)
  BY <1>2 DEF NoLiteB, OneLiteB
<1> QED BY <1>1, <1>2, <1>3, <1>4 DEF LiteAw

(* The Lite side when a flit of a Full frame arrives and none of the Lite  *)
(* writer's registers changes.                                             *)
LEMMA LiteAlike ==
  ASSUME NEW lite, NEW l, LiteInv(lite), l = "none" <=> lite = "none",
         LiteDriven' <=> LiteDriven, LiteQueued' <=> LiteQueued,
         LiteDriven => dState' = dState,
         NoLiteB' <=> NoLiteB, OneLiteB' <=> OneLiteB,
         UNCHANGED <<lState, nLite, liteAnswered, liteStored>>
  PROVE  LiteInv(l)'
<1>1. (LiteAtFar' <=> LiteAtFar) /\ (LiteDone' <=> LiteDone)
  BY DEF LiteAtFar, LiteDone
<1> QED BY <1>1 DEF LiteInv

(* The Full header starts the burst when nothing is driven.                *)
LEMMA FullHeaderDriven ==
  ASSUME NEW w, NEW lite, NEW w2, NEW l, BridgeOrder(w, lite), PortTypes', w # <<>>,
         w2 = Tail(w), w[1].op = "AW", RxHeader(w[1]), dState = "IDLE",
         FrameInv(w2, l)', l = "none" <=> lite = "none",
         UNCHANGED <<txVars, masterVars, memoryVars, bWire, bfId>>,
         UNCHANGED <<lState, lPending, nLite, liteAnswered, atx, blPend, liteStored, liteW>>
  PROVE  BridgeOrder(w2, l)'
<1>1. /\ UNCHANGED <<wState, txAw, txBuf, txCount, lastSeen, bPending, bId, lens, nAW, given,
                     answered, stored>>
      /\ (NoFullB' <=> NoFullB) /\ (OneFullB' <=> OneFullB)
      /\ (NoLiteB' <=> NoLiteB) /\ (OneLiteB' <=> OneLiteB)
  BY ArrivalFrame
<1>2. /\ FullInv(w) /\ LiteInv(lite) /\ NearInv(w) /\ BridgeTypes
  BY DEF BridgeOrder, FarInv
<1>3. /\ ~FullDone /\ NoFullB /\ stored.burst = nAW
      /\ stored.beat = 1 /\ stored.bytes = End - BurstBytes
  BY FullHeaderFinds
<1>4. /\ NearInv(w2)' /\ End' = End /\ CurrentAw' = CurrentAw /\ BurstBytes' = BurstBytes
      /\ ~HeaderToCome(w2)' /\ wState \in {"TX_CONT", "WAIT_B"}
      /\ Landing(w2)' = Least(From(w[1]) + Cap(w[1]), End)
  BY <1>1, <1>2, NearTail
<1>5. /\ ~awPending /\ PushHeader(w[1]) /\ dAw' = w[1].aw /\ dState' = "DRIVE_AW"
      /\ remDrv' = TotalBytes(w[1].aw) /\ UNCHANGED <<awPending, shadowAw>>
  BY DEF RxHeader, TakesHeader
<1>6. EmptyBuffer
  BY <1>5, NothingHeld
<1>7. /\ w[1].aw = CurrentAw /\ TotalBytes(w[1].aw) = BurstBytes
      /\ rxCount' <= RxBufBytes
      /\ StreamFrom(rxBuf, RxBufBytes, stored.bytes, Arrived)'
      /\ Arrived' = Least(From(w[1]) + Cap(w[1]), End) /\ remRx' = End' - Arrived'
  BY <1>1, <1>2, <1>3, <1>4, <1>5, <1>6, FullHeaderPushed
<1>8. ~CurrentAw.lite
  BY DEF CurrentAw
<1>9. /\ FullDriven' /\ ~FullQueued' /\ FullAtFar' /\ FullInBuffer'
      /\ ~LiteDriven' /\ ~LiteQueued' /\ ~LiteDriven /\ ~LiteQueued
  BY <1>5, <1>7, <1>8 DEF FullDriven, FullQueued, LiteDriven, LiteQueued, FullInBuffer,
                          FullAtFar
<1>10. FullInv(w2)'
  <2>1. ~FullDone'
    BY <1>1, <1>3, <1>4, <1>5 DEF FullDone
  <2> QED BY <1>1, <1>3, <1>4, <1>9, <2>1 DEF FullInv
<1>11. LiteInv(l)'
  BY <1>1, <1>2, <1>9, LiteAlike
<1>12. DrivenInv'
  <2>1. /\ BurstBytes \in Nat /\ lens[nAW] \in Nat /\ lens[nAW] >= 1 /\ End \in Nat
    BY <1>2, <1>4, CurrentBurst, Positions
  <2>2. dAw' = CurrentAw' /\ remDrv' = BurstBytes /\ ~awPending'
    BY <1>4, <1>5, <1>7
  <2>3. BurstBytes = End' - stored'.bytes
    BY <1>1, <1>3, <1>4, <2>1
  <2>4. BurstBytes = (lens'[nAW'] - stored'.beat + 1) * STRB /\ stored'.beat <= lens'[nAW']
    <3>1. lens[nAW] - 1 + 1 = lens[nAW]
      BY <2>1
    <3> QED BY <1>1, <1>3, <2>1, <3>1 DEF BurstBytes
  <2> QED BY <1>5, <1>9, <2>2, <2>3, <2>4 DEF DrivenInv
<1>13. BufferInv(w2)'
  BY <1>4, <1>7, <1>9 DEF BufferInv
<1>14. blPend' \in BOOLEAN
  BY <1>2 DEF BridgeTypes
<1> QED BY <1>4, <1>10, <1>11, <1>12, <1>13, <1>14, ArrivalDone

(* It waits behind a Lite write that has no B yet, or whose B comes on     *)
(* this very edge.                                                         *)
LEMMA FullHeaderQueued ==
  ASSUME NEW w, NEW lite, NEW w2, NEW l, BridgeOrder(w, lite), PortTypes', w # <<>>,
         w2 = Tail(w), w[1].op = "AW", dState = "WAIT_B",
         \/ RxHeader(w[1]) /\ UNCHANGED <<bfId, blPend>>
         \/ BFireWithHeader(w[1]) /\ TakeResponse,
         FrameInv(w2, l)', l = "none" <=> lite = "none",
         UNCHANGED <<txVars, masterVars, memoryVars, bWire>>,
         UNCHANGED <<lState, lPending, nLite, liteAnswered, atx, liteStored, liteW>>
  PROVE  BridgeOrder(w2, l)'
<1>1. /\ UNCHANGED <<wState, txAw, txBuf, txCount, lastSeen, bPending, bId, lens, nAW, given,
                     answered, stored>>
      /\ (OnLiteB' <=> OnLiteB) /\ LiteAw' = LiteAw
      /\ (bfId' = bfId => (NoFullB' <=> NoFullB) /\ (OneFullB' <=> OneFullB))
      /\ (blPend' = blPend => (NoLiteB' <=> NoLiteB) /\ (OneLiteB' <=> OneLiteB))
  BY ArrivalFrame
<1>2. /\ FullInv(w) /\ LiteInv(lite) /\ DrivenInv /\ NearInv(w) /\ BridgeTypes
  BY DEF BridgeOrder, FarInv
<1>3. /\ ~FullDone /\ NoFullB /\ stored.burst = nAW /\ ~FullAtFar
      /\ stored.beat = 1 /\ stored.bytes = End - BurstBytes
  BY FullHeaderFinds
<1>4. /\ NearInv(w2)' /\ End' = End /\ CurrentAw' = CurrentAw /\ BurstBytes' = BurstBytes
      /\ ~HeaderToCome(w2)' /\ wState \in {"TX_CONT", "WAIT_B"}
      /\ Landing(w2)' = Least(From(w[1]) + Cap(w[1]), End)
  BY <1>1, <1>2, NearTail
<1>5. /\ ~awPending /\ PushHeader(w[1]) /\ shadowAw' = w[1].aw /\ awPending'
      /\ UNCHANGED <<dAw, remDrv>>
      /\ dState' \in {"IDLE", "WAIT_B"}
      /\ \/ dState' = dState /\ UNCHANGED <<bfId, blPend>>
         \/ dState' = "IDLE" /\ TakeResponse
  BY DEF RxHeader, BFireWithHeader, TakesHeader
<1>6. EmptyBuffer
  BY <1>5, NothingHeld
<1>7. /\ w[1].aw = CurrentAw
      /\ rxCount' <= RxBufBytes
      /\ StreamFrom(rxBuf, RxBufBytes, stored.bytes, Arrived)'
      /\ Arrived' = Least(From(w[1]) + Cap(w[1]), End) /\ remRx' = End' - Arrived'
  BY <1>1, <1>2, <1>3, <1>4, <1>5, <1>6, FullHeaderPushed
<1>8. ~CurrentAw.lite
  BY DEF CurrentAw
<1>9. dAw.lite /\ LiteDriven /\ ~LiteQueued
  BY <1>3, <1>5 DEF FullAtFar, FullDriven, LiteDriven, LiteQueued
<1>10. /\ ~FullDriven' /\ FullQueued' /\ FullAtFar' /\ FullInBuffer' /\ ~LiteQueued'
       /\ (LiteDriven' <=> dState' # "IDLE")
  BY <1>5, <1>7, <1>8, <1>9 DEF FullDriven, FullQueued, LiteDriven, LiteQueued, FullInBuffer,
                                FullAtFar
<1>11. bfId' = bfId
  BY <1>5, <1>9 DEF TakeResponse
<1>12. FullInv(w2)'
  <2>1. ~FullDone'
    BY <1>1, <1>3, <1>4, <1>10, <1>11 DEF FullDone
  <2> QED BY <1>1, <1>3, <1>4, <1>10, <1>11, <2>1 DEF FullInv
<1>13. LiteInv(l)' /\ blPend' \in BOOLEAN
  <2>1. CASE dState' = dState /\ UNCHANGED <<bfId, blPend>>
    <3>1. LiteInv(l)'
      BY <1>1, <1>2, <1>9, <1>10, <2>1, LiteAlike
    <3> QED BY <1>2, <2>1, <3>1 DEF BridgeTypes
  <2>2. CASE dState' = "IDLE" /\ TakeResponse
    <3>1. /\ LiteDone /\ NoLiteB /\ lite = "none" /\ lState = "WAIT_B" /\ blPend' = TRUE
      BY <1>9, <2>2, LiteBTaken
    <3>2. ~NoLiteB' /\ OneLiteB'
      BY <1>1, <3>1, LiteStaged
    <3>3. LiteDone' /\ ~LiteDriven' /\ ~LiteAtFar'
      BY <1>10, <2>2, <3>2 DEF LiteDone, LiteAtFar
    <3>4. LiteInv(l)'
      BY <1>2, <3>1, <3>2, <3>3 DEF LiteInv
    <3> QED BY <3>1, <3>4
  <2> QED BY <1>5, <2>1, <2>2
<1>14. DrivenInv'
  <2>1. shadowAw' = CurrentAw'
    BY <1>4, <1>5, <1>7
  <2>2. LiteDriven' => dAw' = LiteAw' /\ remDrv' = 0 /\ dState' = "WAIT_B"
    BY <1>1, <1>2, <1>5, <1>9, <1>10 DEF DrivenInv
  <2> QED BY <1>5, <1>10, <2>1, <2>2 DEF DrivenInv
<1>15. BufferInv(w2)'
  BY <1>4, <1>7, <1>10 DEF BufferInv
<1> QED BY <1>4, <1>12, <1>13, <1>14, <1>15, ArrivalDone

(* The Lite frame starts its write when nothing is driven.                 *)
LEMMA LiteHeaderDriven ==
  ASSUME NEW w, BridgeOrder(w, "ahead"), PortTypes', RxHeader(LiteFrame), dState = "IDLE",
         FrameInv(w, "none")',
         UNCHANGED <<txVars, masterVars, memoryVars, bWire, bfId>>,
         UNCHANGED <<lState, lPending, nLite, liteAnswered, atx, blPend, liteStored, liteW>>
  PROVE  BridgeOrder(w, "none")'
<1>1. /\ UNCHANGED <<wState, txAw, txBuf, txCount, lastSeen, bPending, bId, lens, nAW, given,
                     answered, stored>>
      /\ (NoFullB' <=> NoFullB) /\ (OneFullB' <=> OneFullB)
      /\ (NoLiteB' <=> NoLiteB) /\ (OneLiteB' <=> OneLiteB) /\ LiteAw' = LiteAw
  BY ArrivalFrame
<1>2. /\ FullInv(w) /\ LiteInv("ahead") /\ NearInv(w) /\ BridgeTypes /\ PortTypes
  BY DEF BridgeOrder, FarInv, NearInv
<1>3. ~LiteAtFar /\ ~LiteDone /\ NoLiteB /\ lState = "WAIT_B"
  BY LiteHeaderFinds
<1>4. /\ NearInv(w)' /\ End' = End /\ BurstBytes' = BurstBytes
  BY <1>2, NearUnchanged
<1>5. /\ LiteFrame.aw = LiteAw /\ LiteAw.lite /\ TotalBytes(LiteAw) = LITESTRB
  BY <1>2, LiteFrameFacts
<1>6. /\ ~awPending /\ PushHeader(LiteFrame) /\ dAw' = LiteAw /\ dState' = "DRIVE_AW"
      /\ remDrv' = LITESTRB /\ UNCHANGED <<awPending, shadowAw>>
  BY <1>5 DEF RxHeader, TakesHeader
<1>7. EmptyBuffer
  BY <1>6, NothingHeld
<1>8. LiteBytes(LITESTRB)' /\ rxCount' = LITESTRB /\ remRx' = 0
  BY <1>2, <1>6, <1>7, LiteHeaderPushed
<1>9. /\ ~FullDriven' /\ ~FullQueued' /\ ~FullAtFar' /\ ~FullInBuffer' /\ ~FullDriven
      /\ LiteDriven' /\ ~LiteQueued' /\ LiteInBuffer'
  BY <1>5, <1>6 DEF FullDriven, FullQueued, LiteDriven, LiteQueued, FullInBuffer,
                    LiteInBuffer, FullAtFar
<1>10. FullInv(w)'
  <2>1. FullDone' <=> FullDone
    BY <1>1, <1>9 DEF FullDone
  <2>2. HeaderToCome(w)' = HeaderToCome(w)
    BY <1>1 DEF HeaderToCome
  <2> QED BY <1>1, <1>2, <1>4, <1>9, <2>1, <2>2 DEF FullInv
<1>11. LiteInv("none")'
  <2>1. ~LiteDone'
    BY <1>1, <1>3, <1>6 DEF LiteDone
  <2> QED BY <1>1, <1>2, <1>3, <1>9, <2>1 DEF LiteInv
<1>12. DrivenInv'
  BY <1>1, <1>6, <1>9 DEF DrivenInv
<1>13. BufferInv(w)'
  BY <1>8, <1>9 DEF BufferInv
<1>14. blPend' \in BOOLEAN
  BY <1>2 DEF BridgeTypes
<1> QED BY <1>4, <1>10, <1>11, <1>12, <1>13, <1>14, ArrivalDone

(* It waits behind a Full burst that has no B yet, or whose B comes on     *)
(* this very edge.                                                         *)
LEMMA LiteHeaderQueued ==
  ASSUME NEW w, BridgeOrder(w, "ahead"), PortTypes', dState = "WAIT_B",
         \/ RxHeader(LiteFrame) /\ UNCHANGED <<bfId, blPend>>
         \/ BFireWithHeader(LiteFrame) /\ TakeResponse,
         FrameInv(w, "none")',
         UNCHANGED <<txVars, masterVars, memoryVars, bWire>>,
         UNCHANGED <<lState, lPending, nLite, liteAnswered, atx, liteStored, liteW>>
  PROVE  BridgeOrder(w, "none")'
<1>1. /\ UNCHANGED <<wState, txAw, txBuf, txCount, lastSeen, bPending, bId, lens, nAW, given,
                     answered, stored>>
      /\ (OnFullB' <=> OnFullB) /\ LiteAw' = LiteAw
      /\ (bfId' = bfId => (NoFullB' <=> NoFullB) /\ (OneFullB' <=> OneFullB))
      /\ (blPend' = blPend => (NoLiteB' <=> NoLiteB) /\ (OneLiteB' <=> OneLiteB))
  BY ArrivalFrame
<1>2. /\ FullInv(w) /\ LiteInv("ahead") /\ DrivenInv /\ NearInv(w) /\ BridgeTypes /\ PortTypes
  BY DEF BridgeOrder, FarInv, NearInv
<1>3. ~LiteAtFar /\ ~LiteDone /\ NoLiteB /\ lState = "WAIT_B"
  BY LiteHeaderFinds
<1>4. /\ NearInv(w)' /\ End' = End /\ BurstBytes' = BurstBytes /\ CurrentAw' = CurrentAw
      /\ HeaderToCome(w)' = HeaderToCome(w)
  BY <1>2, NearUnchanged
<1>5. /\ LiteFrame.aw = LiteAw /\ LiteAw.lite
  BY <1>2, LiteFrameFacts
<1>6. /\ ~awPending /\ PushHeader(LiteFrame) /\ shadowAw' = LiteAw /\ awPending'
      /\ UNCHANGED <<dAw, remDrv>>
      /\ dState' \in {"IDLE", "WAIT_B"}
      /\ \/ dState' = dState /\ UNCHANGED <<bfId, blPend>>
         \/ dState' = "IDLE" /\ TakeResponse
  BY <1>5 DEF RxHeader, BFireWithHeader, TakesHeader
<1>7. EmptyBuffer
  BY <1>6, NothingHeld
<1>8. LiteBytes(LITESTRB)' /\ rxCount' = LITESTRB /\ remRx' = 0
  BY <1>2, <1>6, <1>7, LiteHeaderPushed
<1>9. ~dAw.lite /\ FullDriven /\ ~FullQueued /\ FullAtFar /\ FullDone
  BY <1>3, <1>6 DEF LiteAtFar, FullDriven, LiteDriven, FullQueued, FullAtFar, FullDone
<1>10. /\ ~FullQueued' /\ ~FullInBuffer' /\ ~LiteDriven' /\ LiteQueued' /\ LiteInBuffer'
       /\ (FullDriven' <=> dState' # "IDLE") /\ (FullAtFar' <=> dState' # "IDLE")
  BY <1>5, <1>6, <1>9 DEF FullDriven, FullQueued, LiteDriven, LiteQueued, FullInBuffer,
                          LiteInBuffer, FullAtFar
<1>11. blPend' = blPend /\ blPend' \in BOOLEAN
  BY <1>2, <1>6, <1>9 DEF TakeResponse, BridgeTypes
<1>12. FullInv(w)'
  <2>1. /\ stored.burst = nAW + 1 /\ stored.beat = 1 /\ stored.bytes = End
        /\ w = <<>> /\ wState \in {"IDLE", "WAIT_B"} /\ wState \in {"TX_CONT", "WAIT_B"}
        /\ NoFullB /\ ~HeaderToCome(w)
    BY <1>2, <1>9 DEF FullInv
  <2>2. CASE dState' = dState /\ UNCHANGED <<bfId, blPend>>
    <3>1. FullDone'
      BY <1>6, <1>10, <2>2 DEF FullDone
    <3> QED BY <1>1, <1>4, <1>10, <2>1, <2>2, <3>1 DEF FullInv
  <2>3. CASE dState' = "IDLE" /\ TakeResponse
    <3>1. bfId' = nAW /\ nAW # 0
      BY <1>9, <2>3, FullBTaken
    <3>2. ~NoFullB' /\ OneFullB'
      BY <1>1, <2>1, <3>1, FullStaged
    <3>3. FullDone'
      BY <3>2 DEF FullDone
    <3> QED BY <1>1, <1>4, <1>10, <2>1, <2>3, <3>2, <3>3 DEF FullInv
  <2> QED BY <1>6, <2>2, <2>3
<1>13. LiteInv("none")'
  <2>1. ~LiteDone'
    BY <1>1, <1>3, <1>10, <1>11 DEF LiteDone
  <2> QED BY <1>1, <1>2, <1>3, <1>10, <1>11, <2>1 DEF LiteInv
<1>14. DrivenInv'
  <2>1. FullDriven' => /\ dAw' = CurrentAw' /\ remDrv' = 0 /\ dState' = "WAIT_B"
                       /\ remDrv' = End' - stored'.bytes
    BY <1>1, <1>2, <1>4, <1>6, <1>9, <1>10 DEF DrivenInv
  <2> QED BY <1>1, <1>6, <1>10, <2>1 DEF DrivenInv
<1>15. BufferInv(w)'
  BY <1>8, <1>10 DEF BufferInv
<1> QED BY <1>4, <1>11, <1>12, <1>13, <1>14, <1>15, ArrivalDone

(* The Lite frame is lost.                                                 *)
LEMMA LiteHeaderLost ==
  ASSUME NEW w, BridgeOrder(w, "ahead"), UNCHANGED rxVars, FrameInv(w, "none")',
         UNCHANGED <<txVars, masterVars, memoryVars, bWire, bfId>>,
         UNCHANGED <<lState, lPending, nLite, liteAnswered, atx, blPend, liteStored, liteW>>
  PROVE  BridgeOrder(w, "none")'
<1>1. (NoFullB' <=> NoFullB) /\ (OneFullB' <=> OneFullB) /\ stored' = stored
      /\ (NoLiteB' <=> NoLiteB) /\ (OneLiteB' <=> OneLiteB)
  BY ArrivalFrame
<1>2. /\ FullInv(w) /\ LiteInv("ahead") /\ BridgeTypes /\ PortTypes
  BY DEF BridgeOrder, FarInv, NearInv
<1>3. ~LiteAtFar /\ ~LiteDone /\ NoLiteB /\ lState = "WAIT_B"
  BY LiteHeaderFinds
<1>4. /\ NearInv(w)' /\ FullInv(w)' /\ DrivenInv' /\ BufferInv(w)'
  <2>1. /\ bfId' \in Nat /\ bWire' \in Seq(Nat) /\ (NoFullB \/ OneFullB)'
        /\ UNCHANGED <<txVars, rxVars, masterVars, stored>>
    BY <1>1, <1>2 DEF PortTypes, FullInv
  <2> QED BY <1>1, <2>1, FullSideStands
<1>5. LiteInv("none")'
  <2>1. UNCHANGED <<dState, dAw, awPending, shadowAw>>
    BY DEF rxVars
  <2>2. (LiteDriven' <=> LiteDriven) /\ (LiteQueued' <=> LiteQueued)
    BY <2>1 DEF LiteDriven, LiteQueued
  <2>3. ~LiteAtFar' /\ ~LiteDone' /\ NoLiteB'
    BY <1>1, <1>3, <2>1, <2>2 DEF LiteAtFar, LiteDone
  <2>4. ~LiteDriven'
    BY <2>3 DEF LiteAtFar
  <2> QED BY <1>2, <1>3, <2>3, <2>4 DEF LiteInv
<1>6. blPend' \in BOOLEAN
  BY <1>2 DEF BridgeTypes
<1> QED BY <1>4, <1>5, <1>6, ArrivalDone

(* A continuation flit goes in behind the bytes of its burst.              *)
LEMMA ContTaken ==
  ASSUME NEW w, NEW lite, NEW w2, NEW l, BridgeOrder(w, lite), PortTypes', BurstFits, w # <<>>,
         w2 = Tail(w), RxCont(w[1]), FrameInv(w2, l)', l = "none" <=> lite = "none",
         UNCHANGED <<txVars, masterVars, memoryVars, bWire, bfId>>,
         UNCHANGED <<lState, lPending, nLite, liteAnswered, atx, blPend, liteStored, liteW>>
  PROVE  BridgeOrder(w2, l)'
<1>1. /\ UNCHANGED <<wState, txAw, txBuf, txCount, lastSeen, bPending, bId, lens, nAW, given,
                     answered, stored>>
      /\ (NoFullB' <=> NoFullB) /\ (OneFullB' <=> OneFullB)
      /\ (NoLiteB' <=> NoLiteB) /\ (OneLiteB' <=> OneLiteB) /\ LiteAw' = LiteAw
  BY ArrivalFrame
<1>2. /\ FullInv(w) /\ LiteInv(lite) /\ DrivenInv /\ NearInv(w) /\ BridgeTypes
  BY DEF BridgeOrder, FarInv
<1>3. ~FullDone /\ NoFullB /\ stored.burst = nAW
  BY FullHeaderFinds
<1>4. /\ NearInv(w2)' /\ End' = End /\ CurrentAw' = CurrentAw /\ BurstBytes' = BurstBytes
      /\ ~HeaderToCome(w2)' /\ wState \in {"TX_CONT", "WAIT_B"}
      /\ Landing(w2)' = Least(From(w[1]) + Cap(w[1]), End)
  BY <1>1, <1>2, NearTail
<1>5. UNCHANGED <<dState, dAw, awPending, shadowAw, remDrv>> /\ TakesCont
  BY DEF RxCont
<1>6. /\ FullInBuffer /\ w[1].op # "AW" /\ remRx = End - Arrived /\ Arrived = From(w[1])
      /\ StreamFrom(rxBuf, RxBufBytes, stored.bytes, Arrived) /\ FullAtFar
  BY <1>5, ContFinds
<1>7. End - stored.bytes <= RxBufBytes
  <2>1. lens[nAW] \in 1..MaxBeats /\ lens[nAW] \in Nat /\ MaxBeats \in Int
        /\ stored.beat \in Nat \ {0}
        /\ BurstBytes \in Nat /\ BurstBytes <= MaxBeats * STRB /\ MaxBeats * STRB <= RxBufBytes
        /\ End \in Nat /\ RxBufBytes \in Nat
    BY <1>2, <1>4, CurrentBurst, Positions, BoundsAssumption, Sizes DEF BurstFits
  <2>2. MaxBeats * STRB \in Int
    BY Beats, BoundsAssumption
  <2>3. CASE FullDriven
    <3>1. dState # "WAIT_B"
      BY <1>3, <2>3 DEF FullDone
    <3>2. remDrv = End - stored.bytes /\ remDrv = (lens[nAW] - stored.beat + 1) * STRB
      BY <1>2, <2>3, <3>1 DEF DrivenInv
    <3>3. lens[nAW] - stored.beat + 1 \in Int /\ lens[nAW] - stored.beat + 1 <= MaxBeats
      BY <2>1
    <3>4. remDrv \in Int /\ remDrv <= MaxBeats * STRB
      BY <2>1, <3>2, <3>3, Beats
    <3> QED BY <2>1, <2>2, <3>2, <3>4
  <2>4. CASE ~FullDriven
    <3>1. stored.bytes = End - BurstBytes
      BY <1>2, <1>3, <2>4 DEF FullInv
    <3>2. End - stored.bytes = BurstBytes
      BY <2>1, <3>1
    <3> QED BY <2>1, <2>2, <3>2
  <2> QED BY <2>3, <2>4
<1>8. /\ rxCount' <= RxBufBytes
      /\ StreamFrom(rxBuf, RxBufBytes, stored.bytes, Arrived)'
      /\ Arrived' = Least(From(w[1]) + Cap(w[1]), End) /\ remRx' = End' - Arrived'
  BY <1>1, <1>2, <1>4, <1>6, <1>7, FullContPushed
<1>9. /\ FullDriven' <=> FullDriven
      /\ FullQueued' <=> FullQueued
      /\ LiteDriven' <=> LiteDriven
      /\ LiteQueued' <=> LiteQueued
      /\ FullAtFar' <=> FullAtFar
      /\ FullInBuffer'
  BY <1>5, <1>6 DEF FullDriven, FullQueued, LiteDriven, LiteQueued, FullInBuffer, FullAtFar
<1>10. FullInv(w2)'
  <2>1. ~FullDone'
    BY <1>1, <1>3, <1>5, <1>9 DEF FullDone
  <2>2. ~FullDriven => stored.beat = 1 /\ stored.bytes = End - BurstBytes
    BY <1>2, <1>3 DEF FullInv
  <2>3. FullDriven => ~FullQueued
    BY <1>2 DEF FullInv
  <2> QED BY <1>1, <1>3, <1>4, <1>9, <2>1, <2>2, <2>3 DEF FullInv
<1>11. LiteInv(l)'
  BY <1>1, <1>2, <1>5, <1>9, LiteAlike
<1>12. DrivenInv'
  BY <1>1, <1>2, <1>4, <1>5, <1>9 DEF DrivenInv
<1>13. BufferInv(w2)'
  BY <1>4, <1>8, <1>9 DEF BufferInv
<1>14. blPend' \in BOOLEAN
  BY <1>2 DEF BridgeTypes
<1> QED BY <1>4, <1>10, <1>11, <1>12, <1>13, <1>14, ArrivalDone

(* A flit of a Full frame is lost, with its burst: what has not come to    *)
(* the far end never will.                                                 *)
LEMMA FullFlitLost ==
  ASSUME NEW w, NEW lite, NEW w2, NEW l, BridgeOrder(w, lite), PortTypes', w # <<>>,
         w2 = Tail(w), RxIgnore(w[1]), FrameInv(w2, l)', l = "none" <=> lite = "none",
         UNCHANGED <<txVars, masterVars, memoryVars, bWire, bfId>>,
         UNCHANGED <<lState, lPending, nLite, liteAnswered, atx, blPend, liteStored, liteW>>
  PROVE  BridgeOrder(w2, l)'
<1>1. /\ UNCHANGED <<wState, txAw, txBuf, txCount, lastSeen, bPending, bId, lens, nAW, given,
                     answered, stored>>
      /\ (NoFullB' <=> NoFullB) /\ (OneFullB' <=> OneFullB)
      /\ (NoLiteB' <=> NoLiteB) /\ (OneLiteB' <=> OneLiteB) /\ LiteAw' = LiteAw
  BY ArrivalFrame
<1>2. /\ FullInv(w) /\ LiteInv(lite) /\ DrivenInv /\ BufferInv(w) /\ NearInv(w) /\ BridgeTypes
  BY DEF BridgeOrder, FarInv
<1>3. ~FullDone /\ NoFullB /\ stored.burst = nAW
  BY FullHeaderFinds
<1>4. /\ NearInv(w2)' /\ End' = End /\ CurrentAw' = CurrentAw /\ BurstBytes' = BurstBytes
      /\ ~HeaderToCome(w2)' /\ wState \in {"TX_CONT", "WAIT_B"}
  BY <1>1, <1>2, NearTail
<1>5. UNCHANGED <<dState, dAw, awPending, shadowAw, remDrv, rxBuf, rxCount, remRx>>
  BY DEF RxIgnore, rxVars
<1>6. ~FullInBuffer
  BY ContFinds DEF RxIgnore
<1>7. /\ FullDriven' <=> FullDriven
      /\ FullQueued' <=> FullQueued
      /\ LiteDriven' <=> LiteDriven
      /\ LiteQueued' <=> LiteQueued
      /\ FullAtFar' <=> FullAtFar
      /\ LiteInBuffer' <=> LiteInBuffer
      /\ ~FullInBuffer'
  BY <1>5, <1>6 DEF FullDriven, FullQueued, LiteDriven, LiteQueued, FullInBuffer,
                    LiteInBuffer, FullAtFar
<1>8. FullInv(w2)'
  <2>1. ~FullDone'
    BY <1>1, <1>3, <1>5, <1>7 DEF FullDone
  <2>2. ~FullDriven => stored.beat = 1 /\ stored.bytes = End - BurstBytes
    BY <1>2, <1>3 DEF FullInv
  <2>3. FullDriven => ~FullQueued
    BY <1>2 DEF FullInv
  <2> QED BY <1>1, <1>3, <1>4, <1>7, <2>1, <2>2, <2>3 DEF FullInv
<1>9. LiteInv(l)'
  BY <1>1, <1>2, <1>5, <1>7, LiteAlike
<1>10. DrivenInv'
  BY <1>1, <1>2, <1>4, <1>5, <1>7 DEF DrivenInv
<1>11. BufferInv(w2)'
  BY <1>2, <1>5, <1>6, <1>7 DEF BufferInv, LiteBytes, EmptyBuffer
<1>12. blPend' \in BOOLEAN
  BY <1>2 DEF BridgeTypes
<1> QED BY <1>4, <1>8, <1>9, <1>10, <1>11, <1>12, ArrivalDone

(* A flit reaches the depacketizer, which takes it or not.                 *)
LEMMA BridgeArrival ==
  ASSUME NEW w, NEW lite, BridgeOrder(w, lite), BurstFits, Arrival
  PROVE  \E w2, l : BridgeOrder(w2, l)'
<1> DEFINE f == Head(dataWire)
<1>1. /\ dataWire # <<>> /\ dataWire' = Tail(dataWire)
      /\ (RxHeader(f) \/ RxCont(f) \/ RxIgnore(f))
      /\ UNCHANGED <<txVars, masterVars, memoryVars, bWire, bfId>>
      /\ UNCHANGED <<lState, lPending, nLite, liteAnswered, atx, blPend, liteStored, liteW>>
  BY DEF Arrival, FlitArrives, FlitIgnored, liteVars
<1>2. UNCHANGED <<wState, nLite, atx>> /\ PortTypes
  BY <1>1 DEF txVars, BridgeOrder, NearInv
<1>3. /\ f \in Flit
      /\ lite = "ahead" => f = LiteFrame /\ FrameInv(w, "none")'
      /\ lite # "ahead" =>
           /\ w # <<>> /\ f = w[1]
           /\ \E w2, l : /\ w2 = Tail(w) /\ FrameInv(w2, l)'
                         /\ l = "none" <=> lite = "none"
  BY <1>1, <1>2, HeadTaken
<1>4. PortTypes'
  <2>1. CASE RxHeader(f) \/ RxCont(f)
    BY <1>1, <1>2, <1>3, <2>1, TypeArrival
  <2>2. CASE RxIgnore(f)
    BY <1>1, <1>2, <2>2, TypeStutter DEF RxIgnore
  <2> QED BY <1>1, <2>1, <2>2
<1>5. RxHeader(f) => dState \in {"IDLE", "WAIT_B"} /\ f.op = "AW"
  BY HeaderFinds DEF RxHeader, TakesHeader
<1>6. CASE lite = "ahead"
  <2>1. BridgeOrder(w, "ahead") /\ remRx = 0 /\ ~RxCont(f)
    BY <1>6, LiteHeaderFinds DEF RxCont, TakesCont
  <2>2. CASE RxHeader(f) /\ dState = "IDLE"
    <3>1. BridgeOrder(w, "none")'
      BY <1>1, <1>3, <1>4, <1>6, <2>1, <2>2, LiteHeaderDriven
    <3> QED BY <3>1
  <2>3. CASE RxHeader(f) /\ dState = "WAIT_B"
    <3>1. BridgeOrder(w, "none")'
      BY <1>1, <1>3, <1>4, <1>6, <2>1, <2>3, LiteHeaderQueued
    <3> QED BY <3>1
  <2>4. CASE RxIgnore(f)
    <3>1. BridgeOrder(w, "none")'
      BY <1>1, <1>3, <1>6, <2>1, <2>4, LiteHeaderLost DEF RxIgnore
    <3> QED BY <3>1
  <2> QED BY <1>1, <1>5, <2>1, <2>2, <2>3, <2>4
<1>7. CASE lite # "ahead"
  <2>1. PICK w2, l : /\ w2 = Tail(w) /\ FrameInv(w2, l)'
                     /\ l = "none" <=> lite = "none"
    BY <1>3, <1>7
  <2>2. w # <<>> /\ f = w[1]
    BY <1>3, <1>7
  <2>3. BridgeOrder(w2, l)'
    <3>1. CASE RxHeader(f) /\ dState = "IDLE"
      BY <1>1, <1>4, <1>5, <2>1, <2>2, <3>1, FullHeaderDriven
    <3>2. CASE RxHeader(f) /\ dState = "WAIT_B"
      BY <1>1, <1>4, <1>5, <2>1, <2>2, <3>2, FullHeaderQueued
    <3>3. CASE RxCont(f)
      BY <1>1, <1>4, <2>1, <2>2, <3>3, ContTaken
    <3>4. CASE RxIgnore(f)
      BY <1>1, <1>4, <2>1, <2>2, <3>4, FullFlitLost
    <3> QED BY <1>1, <1>5, <3>1, <3>2, <3>3, <3>4
  <2> QED BY <2>3
<1> QED BY <1>6, <1>7

(* A header on the edge of the B handshake.                                *)
LEMMA BridgeFarBWithHeader ==
  ASSUME NEW w, NEW lite, BridgeOrder(w, lite), FarBWithHeader
  PROVE  \E w2, l : BridgeOrder(w2, l)'
<1> DEFINE f == Head(dataWire)
<1>1. /\ dataWire # <<>> /\ dataWire' = Tail(dataWire)
      /\ BFireWithHeader(f) /\ TakeResponse /\ dState = "WAIT_B" /\ f.op = "AW"
      /\ UNCHANGED <<txVars, masterVars, memoryVars, bWire>>
      /\ UNCHANGED <<lState, lPending, nLite, liteAnswered, atx, liteStored, liteW>>
  BY DEF FarBWithHeader, BFireWithHeader, TakesHeader
<1>2. UNCHANGED <<wState, nLite, atx, stored>> /\ PortTypes
  BY <1>1 DEF txVars, memoryVars, BridgeOrder, NearInv
<1>3. /\ f \in Flit
      /\ lite = "ahead" => f = LiteFrame /\ FrameInv(w, "none")'
      /\ lite # "ahead" =>
           /\ w # <<>> /\ f = w[1]
           /\ \E w2, l : /\ w2 = Tail(w) /\ FrameInv(w2, l)'
                         /\ l = "none" <=> lite = "none"
  BY <1>1, <1>2, HeadTaken
<1>4. PortTypes'
  BY <1>1, <1>2, <1>3, MeetingType
<1>5. CASE lite = "ahead"
  <2>1. BridgeOrder(w, "none")'
    BY <1>1, <1>3, <1>4, <1>5, LiteHeaderQueued
  <2> QED BY <2>1
<1>6. CASE lite # "ahead"
  <2>1. PICK w2, l : /\ w2 = Tail(w) /\ FrameInv(w2, l)'
                     /\ l = "none" <=> lite = "none"
    BY <1>3, <1>6
  <2>2. w # <<>> /\ f = w[1]
    BY <1>3, <1>6
  <2>3. BridgeOrder(w2, l)'
    BY <1>1, <1>4, <2>1, <2>2, FullHeaderQueued
  <2> QED BY <2>3
<1> QED BY <1>5, <1>6

-----------------------------------------------------------------------------
(* The invariant holds in every reachable state.                           *)

LEMMA BridgeStart == BridgeInit => BridgeInv
<1> SUFFICES ASSUME BridgeInit PROVE BridgeOrder(<<>>, "none")
  BY DEF BridgeInv
<1>1. /\ wState = "IDLE" /\ ~bPending /\ dState = "IDLE" /\ ~awPending
      /\ rxBuf = ZeroBytes(RxBufBytes) /\ rxCount = 0 /\ remRx = 0 /\ nAW = 0
      /\ stored.burst = 1 /\ stored.beat = 1 /\ stored.bytes = 0 /\ bfId = 0
      /\ bWire = <<>> /\ dataWire = <<>>
  BY DEF BridgeInit, Init, TxInit, RxInit
<1>2. /\ lState = "IDLE" /\ ~lPending /\ nLite = 0 /\ liteAnswered = 0
      /\ atx = "IDLE" /\ ~blPend /\ liteStored = 0
  BY DEF BridgeInit
<1>3. NearInv(<<>>) /\ End = 0
  BY NearInit DEF BridgeInit
<1>4. BridgeTypes
  <2>1. lPending \in BOOLEAN /\ blPend \in BOOLEAN
    BY Zenon DEF BridgeInit
  <2> QED BY <1>2, <2>1 DEF BridgeTypes
<1>5. Carried(bWire) = {} /\ Once(bWire)
  BY <1>1 DEF Carried, Once
<1>6. BWireInv /\ ~OnFullB /\ ~OnLiteB
  BY <1>5 DEF BWireInv, OnFullB, OnLiteB
<1>7. NoFullB /\ NoLiteB
  BY <1>1, <1>2, <1>6 DEF NoFullB, NoLiteB
<1>8. FrameInv(<<>>, "none")
  BY <1>1 DEF FrameInv, Wire
<1>9. /\ ~FullDriven /\ ~FullQueued /\ ~LiteDriven /\ ~LiteQueued
      /\ ~FullAtFar /\ ~LiteAtFar /\ ~FullInBuffer /\ ~LiteInBuffer
  BY <1>1 DEF FullDriven, FullQueued, LiteDriven, LiteQueued, FullAtFar, LiteAtFar,
              FullInBuffer, LiteInBuffer
<1>10. FullInv(<<>>)
  BY <1>1, <1>3, <1>7, <1>9 DEF FullInv, FullDone
<1>11. LiteInv("none")
  BY <1>2, <1>7, <1>9 DEF LiteInv, LiteDone
<1>12. DrivenInv
  BY <1>1, <1>9 DEF DrivenInv
<1>13. BufferInv(<<>>)
  <2>1. LiteBytes(0)
    <3>1. \A i \in 1..RxBufBytes : ~(i <= 0)
      BY Sizes
    <3> QED BY <1>1, <3>1 DEF LiteBytes, ZeroBytes
  <2> QED BY <1>1, <1>9, <2>1 DEF BufferInv, EmptyBuffer
<1>14. Landed
  BY <1>1, <1>2 DEF Landed
<1> QED BY <1>3, <1>4, <1>6, <1>8, <1>10, <1>11, <1>12, <1>13, <1>14 DEF BridgeOrder, FarInv

LEMMA BridgeStutter ==
  ASSUME NEW w, NEW lite, BridgeOrder(w, lite), UNCHANGED bridgeVars
  PROVE  BridgeOrder(w, lite)'
<1>1. /\ UNCHANGED <<txVars, rxVars, masterVars, stored, memW, dataWire, bWire, bfId>>
      /\ UNCHANGED <<lState, lPending, nLite, liteAnswered, blPend, liteStored, liteW, atx>>
  BY DEF bridgeVars, vars, memoryVars, linkVars, liteVars
<1>2. /\ BridgeTypes /\ BWireInv /\ FullInv(w) /\ LiteInv(lite)
      /\ bfId \in Nat /\ bWire \in Seq(Nat)
  BY DEF BridgeOrder, FarInv, NearInv, PortTypes
<1>3. UNCHANGED <<nAW, bPending, bId, dState, dAw, awPending, shadowAw>>
  BY <1>1 DEF masterVars, txVars, rxVars
<1>4. BWireInv' /\ (OnFullB' <=> OnFullB) /\ (OnLiteB' <=> OnLiteB)
  BY <1>1, <1>2, <1>3, WiresKept
<1>5. (NoFullB' <=> NoFullB) /\ (NoFullB \/ OneFullB)'
  BY <1>1, <1>2, <1>3, <1>4, FullBKept DEF FullInv
<1>6. LiteInv(lite)'
  BY <1>1, <1>2, <1>3, <1>4, LiteSideKept
<1>7. BridgeTypes' /\ bfId' \in Nat /\ bWire' \in Seq(Nat)
  BY <1>1, <1>2 DEF BridgeTypes
<1> QED BY <1>1, <1>4, <1>5, <1>6, <1>7, BPacketStep

LEMMA BridgeStep ==
  ASSUME BridgeInv, NoWrap, BurstFits, [BridgeNext]_bridgeVars, ~FlitMisread
  PROVE  BridgeInv'
<1>1. PICK w, lite : BridgeOrder(w, lite)
  BY DEF BridgeInv
<1>2. \E w2, l : BridgeOrder(w2, l)'
  <2>1. CASE FullSlave
    <3>1. BridgeOrder(w, lite)'
      BY <1>1, <2>1, BridgeMasterAW, BridgeMasterW, BridgeMasterB DEF FullSlave
    <3> QED BY <3>1
  <2>2. CASE FullFlit
    BY <1>1, <2>2, BridgeFlit
  <2>3. CASE TakeFullB \/ LiteAccept \/ TakeLiteB \/ LiteB \/ Grant
    <3>1. BridgeOrder(w, lite)'
      BY <1>1, <2>3, BridgeTakeFullB, BridgeLiteAccept, BridgeTakeLiteB, BridgeLiteB,
         BridgeGrant
    <3> QED BY <3>1
  <2>4. CASE LiteFlit
    BY <1>1, <2>4, BridgeLiteFlit
  <2>5. CASE Arrival
    BY <1>1, <2>5, BridgeArrival
  <2>6. CASE FarAW \/ FarW \/ FarLiteW \/ FarB \/ SendFullB \/ SendLiteB
    <3>1. BridgeOrder(w, lite)'
      BY <1>1, <2>6, BridgeFarAW, BridgeFarW, BridgeFarLiteW, BridgeFarFullB, BridgeFarLiteB,
         BridgeSendFullB, BridgeSendLiteB
    <3> QED BY <3>1
  <2>7. CASE FarBWithHeader
    BY <1>1, <2>7, BridgeFarBWithHeader
  <2>8. CASE UNCHANGED bridgeVars
    <3>1. BridgeOrder(w, lite)'
      BY <1>1, <2>8, BridgeStutter
    <3> QED BY <3>1
  <2> QED BY <2>1, <2>2, <2>3, <2>4, <2>5, <2>6, <2>7, <2>8
          DEF BridgeNext, BridgeNear, BridgeFar
<1> QED BY <1>2 DEF BridgeInv

(* Whatever the two writers and the losses do, the wire holds whole frames *)
(* of the one and of the other, and each port's buffer, shadow registers   *)
(* and B staging hold one write of its own (axi_aurora_bridge_inv.sv, the  *)
(* data-TX arbiter; axi_depacketizer.sv; axi_packetizer.sv).               *)
THEOREM BridgeInvHolds ==
  ASSUME NoWrap, BurstFits
  PROVE  BridgeSpec => [](~misread => BridgeInv)
<1> DEFINE Inv == ~misread => BridgeInv
<1>1. Inv /\ [BridgeNext]_bridgeVars => Inv'
  <2> SUFFICES ASSUME Inv, [BridgeNext]_bridgeVars, ~misread' PROVE BridgeInv'
    OBVIOUS
  <2>1. ~FlitMisread /\ ~misread
    BY DEF FlitMisread, BridgeNext, Arrival, bridgeVars, wireHist
  <2> QED BY <2>1, BridgeStep
<1>2. BridgeInit => Inv
  BY BridgeStart
<1> QED BY <1>1, <1>2, PTL DEF BridgeSpec

LEMMA HeaderFirst ==
  ASSUME BridgeInv, dataWire # <<>>, Head(dataWire).op = "AW"
  PROVE  remRx = 0
<1>1. PICK w, lite : BridgeOrder(w, lite)
  BY DEF BridgeInv
<1>2. CASE lite = "ahead"
  BY <1>1, <1>2, LiteHeaderFinds
<1>3. CASE lite # "ahead"
  <2>1. w # <<>> /\ w[1].op = "AW"
    BY <1>1, <1>3, WireHead
  <2> QED BY <1>1, <2>1, FullHeaderFinds
<1> QED BY <1>2, <1>3

(* No header reaches the depacketizer while it counts down the             *)
(* continuation flits of another frame (axi_depacketizer.sv, aw_rx_fire    *)
(* and cont_rx_fire), for every geometry and any number of Full and Lite   *)
(* writes in flight.                                                       *)
THEOREM NoHeaderAsData ==
  ASSUME NoWrap, BurstFits
  PROVE  BridgeSpec => []HeaderIsNeverData
<1>1. (~misread => BridgeInv) => HeaderIsNeverData
  BY HeaderFirst DEF HeaderIsNeverData
<1> QED BY <1>1, BridgeInvHolds, PTL

(* A write is answered, on either slave, only when its beats have been     *)
(* taken at the far end: a lost frame hangs its writer, but no B of one    *)
(* port answers for the other and none comes early (axi_packetizer.sv      *)
(* bf_* and bl_pend_r, axi_to_aurora.sv and axi_lite_to_aurora.sv          *)
(* b_pending_r).                                                           *)
THEOREM AnswersAreTrue ==
  ASSUME NoWrap, BurstFits
  PROVE  BridgeSpec => []AnsweredMeansStored
<1>1. (~misread => BridgeInv) => AnsweredMeansStored
  <2> SUFFICES ASSUME BridgeInv PROVE answered < stored.burst /\ liteAnswered <= liteStored
    BY DEF AnsweredMeansStored
  <2>1. PICK w, lite : BridgeOrder(w, lite)
    BY DEF BridgeInv
  <2>2. /\ FullInv(w) /\ LiteInv(lite) /\ NearInv(w) /\ BridgeTypes
    BY <2>1 DEF BridgeOrder, FarInv
  <2>3. nAW \in Nat
    BY <2>2, Positions
  <2>4. answered < stored.burst
    <3>1. answered = IF wState = "IDLE" THEN nAW ELSE nAW - 1
      BY <2>2 DEF NearInv, SenderInv
    <3>2. CASE wState = "IDLE"
      <4>1. stored.burst = nAW + 1
        BY <2>2, <3>2 DEF FullInv, FullDone
      <4> QED BY <2>3, <3>1, <3>2, <4>1
    <3>3. CASE wState # "IDLE"
      <4>1. stored.burst = nAW \/ stored.burst = nAW + 1
        BY <2>2 DEF FullInv
      <4> QED BY <2>3, <3>1, <3>3, <4>1
    <3> QED BY <3>2, <3>3
  <2>5. liteAnswered <= liteStored
    BY <2>2 DEF LiteInv, BridgeTypes
  <2> QED BY <2>4, <2>5
<1> QED BY <1>1, BridgeInvHolds, PTL

(* Every beat that lands on the Full or the Lite port is the very one its  *)
(* writer sent, though both writers share the wire, the receive buffer and *)
(* the shadow registers (axi_depacketizer.sv rx_data_buf_r).               *)
THEOREM EveryBeatLandsIntact ==
  ASSUME NoWrap, BurstFits
  PROVE  BridgeSpec => []LandedIntact
<1>1. (~misread => BridgeInv) => LandedIntact
  BY DEF BridgeInv, BridgeOrder, Landed, LandedIntact
<1> QED BY <1>1, BridgeInvHolds, PTL

-----------------------------------------------------------------------------
(* A continuation flit is not taken for a header while no Full header has  *)
(* been lost: the far end has the burst in hand, and counts its flits.     *)

Coming  == \E f \in Carried(dataWire) : IsFullHeader(f)
Awaited ==
  wState \in {"TX_CONT", "WAIT_B"} /\ ~Coming => FullAtFar \/ stored.burst = nAW + 1

(* Only what has happened to flits before can have gone wrong.             *)
LossInv == IF misread THEN fullLost ELSE BridgeInv /\ (fullLost \/ Awaited)

LEMMA WireType ==
  ASSUME NEW w, NEW lite, BridgeOrder(w, lite)
  PROVE  /\ dataWire \in Seq(Flit)
         /\ w # <<>> /\ w[1].op # "AW" => ~Coming
<1>1. /\ w \in Seq(Flit) /\ LiteFrame \in Flit /\ LiteFrame.aw.lite
      /\ dataWire = Wire(w, lite) /\ lite \in {"none", "ahead", "behind"}
      /\ \A i \in 1..Len(w) : w[i].op = "AW" => i = 1
  BY LiteFrameFacts DEF BridgeOrder, NearInv, ChainInv, FrameInv
<1>2. \/ dataWire = w \/ dataWire = <<LiteFrame>> \o w \/ dataWire = Append(w, LiteFrame)
  BY <1>1 DEF Wire
<1>3. /\ dataWire \in Seq(Flit)
      /\ \A i \in 1..Len(dataWire) :
           dataWire[i] = LiteFrame \/ \E j \in 1..Len(w) : dataWire[i] = w[j]
  <2>1. CASE dataWire = w
    BY <1>1, <2>1
  <2>2. CASE dataWire = <<LiteFrame>> \o w
    BY <1>1, <2>2
  <2>3. CASE dataWire = Append(w, LiteFrame)
    BY <1>1, <2>3
  <2> QED BY <1>2, <2>1, <2>2, <2>3
<1>4. ASSUME w # <<>>, w[1].op # "AW" PROVE ~Coming
  BY <1>1, <1>3, <1>4 DEF Coming, Carried, IsFullHeader
<1> QED BY <1>3, <1>4

(* What is on the wire before a flit enters it or leaves it.               *)
LEMMA ComingFlit ==
  ASSUME dataWire \in Seq(Flit)
  PROVE  /\ \A f \in Flit : dataWire' = Append(dataWire, f) =>
              (Coming' <=> Coming \/ IsFullHeader(f))
         /\ dataWire # <<>> /\ dataWire' = Tail(dataWire) /\ ~Coming' =>
              ~Coming \/ IsFullHeader(Head(dataWire))
<1>1. ASSUME NEW f \in Flit, dataWire' = Append(dataWire, f)
      PROVE  Coming' <=> Coming \/ IsFullHeader(f)
  <2>1. Carried(dataWire') = Carried(dataWire) \cup {f}
    BY <1>1, CarriedAppend
  <2> QED BY <2>1 DEF Coming
<1>2. ASSUME dataWire # <<>>, dataWire' = Tail(dataWire), ~Coming'
      PROVE  ~Coming \/ IsFullHeader(Head(dataWire))
  <2> DEFINE t == Tail(dataWire)
  <2>1. /\ Len(t) = Len(dataWire) - 1 /\ Len(dataWire) \in Nat \ {0} /\ Head(dataWire) = dataWire[1]
        /\ \A i \in 1..Len(t) : t[i] = dataWire[i + 1]
    BY <1>2, HeadTailProperties, EmptySeq
  <2>2. dataWire' = t
    BY <1>2
  <2> HIDE DEF t
  <2>3. \A i \in 1..Len(dataWire) : i = 1 \/ (i - 1 \in 1..Len(t) /\ t[i - 1] = dataWire[i])
    BY <2>1
  <2>4. \A f \in Carried(dataWire) : f = Head(dataWire) \/ f \in Carried(t)
    BY <2>1, <2>3 DEF Carried
  <2> QED BY <1>2, <2>2, <2>4 DEF Coming
<1> QED BY <1>1, <1>2

LEMMA NotMisread ==
  ASSUME BridgeInv, Awaited
  PROVE  ~FlitMisread
<1> SUFFICES ASSUME FlitMisread PROVE FALSE
  OBVIOUS
<1>1. PICK w, lite : BridgeOrder(w, lite)
  BY DEF BridgeInv
<1>2. dataWire # <<>> /\ Head(dataWire).op = "none" /\ remRx = 0
  BY DEF FlitMisread, RxHeader, BFireWithHeader, TakesHeader
<1>3. w # <<>> /\ Head(dataWire) = w[1]
  <2>1. LiteFrame.op = "AW"
    BY <1>1, LiteFrameFacts DEF BridgeOrder
  <2> QED BY <1>1, <1>2, <2>1, WireHead
<1>4. ~FullDone /\ stored.burst = nAW /\ wState \in {"TX_CONT", "WAIT_B"} /\ ~Coming
  BY <1>1, <1>2, <1>3, FullHeaderFinds, WireType
<1>5. nAW \in Nat
  BY <1>1, Positions DEF BridgeOrder
<1>6. FullAtFar
  BY <1>4, <1>5 DEF Awaited
<1>7. FullInBuffer
  <2>1. awPending => dState \in {"IDLE", "WAIT_B"}
    BY <1>1 DEF BridgeOrder, FarInv, DrivenInv
  <2> QED BY <1>4, <1>6, <2>1 DEF FullAtFar, FullInBuffer, FullDriven, FullDone
<1> QED BY <1>1, <1>2, <1>3, <1>7, ContFinds DEF TakesCont

(* The near end: a header that leaves is on the wire.                      *)
LEMMA AwaitedNear ==
  ASSUME BridgeInv, Awaited, BridgeNear
  PROVE  Awaited'
<1>1. PICK w, lite : BridgeOrder(w, lite)
  BY DEF BridgeInv
<1>2. /\ dataWire \in Seq(Flit) /\ PortTypes /\ LiteFrame \in Flit /\ LiteFrame.aw.lite
      /\ NearInv(w)
  BY <1>1, WireType, LiteFrameFacts DEF BridgeOrder, NearInv
<1>3. UNCHANGED rxVars /\ UNCHANGED stored
  BY DEF BridgeNear, FullSlave, FullFlit, TakeFullB, LiteAccept, LiteFlit, TakeLiteB, LiteB, Grant,
         MasterAW, MasterW, MasterB, SendFlit, MasterWAndSendFlit, TakeBPacket, vars, memoryVars
<1>4. FullAtFar' <=> FullAtFar
  BY <1>3 DEF rxVars, FullAtFar, FullDriven, FullQueued
<1>5. CASE wState' = wState /\ UNCHANGED <<nAW, dataWire>>
  BY <1>3, <1>4, <1>5 DEF Awaited, Coming
<1>6. CASE wState' \in {"TX_HDR", "IDLE"}
  BY <1>6 DEF Awaited
<1>7. CASE FullFlit
  <2>1. /\ dataWire' = Append(dataWire, TxFlit) /\ nAW' = nAW /\ wState \in {"TX_HDR", "TX_CONT"}
    BY <1>7 DEF FullFlit, SendFlit, MasterWAndSendFlit, EmitFlit, AcceptWAndEmit, EmitReady, Active,
                masterVars
  <2>2. TxFlit \in Flit
    BY <1>2, TxFlitType DEF PortTypes
  <2>3. Coming' <=> Coming \/ IsFullHeader(TxFlit)
    BY <1>2, <2>1, <2>2, ComingFlit
  <2>4. CASE wState = "TX_HDR"
    <3>1. TxFlit = Header(CurrentAw, Low(txBuf, HDR), IsFinal)
      BY <1>2, <2>4 DEF TxFlit, NearInv, SenderInv
    <3>2. IsFullHeader(TxFlit)
      BY <3>1 DEF IsFullHeader, Header, CurrentAw
    <3> QED BY <2>3, <3>2 DEF Awaited
  <2>5. CASE wState = "TX_CONT"
    BY <1>3, <1>4, <2>1, <2>3, <2>5 DEF Awaited
  <2> QED BY <2>1, <2>4, <2>5
<1>8. CASE LiteFlit
  <2>1. dataWire' = Append(dataWire, LiteFrame) /\ UNCHANGED <<nAW, wState>>
    BY <1>8 DEF LiteFlit, LiteFrame, LiteAw, txVars, masterVars
  <2>2. ~IsFullHeader(LiteFrame)
    BY <1>2 DEF IsFullHeader
  <2>3. Coming' <=> Coming
    BY <1>2, <2>1, <2>2, ComingFlit
  <2> QED BY <1>3, <1>4, <2>1, <2>3 DEF Awaited
<1>9. CASE FullSlave \/ TakeFullB \/ LiteAccept \/ TakeLiteB \/ LiteB \/ Grant
  <2>1. \/ wState' = wState /\ UNCHANGED <<nAW, dataWire>>
        \/ wState' \in {"TX_HDR", "IDLE"}
    BY <1>9 DEF FullSlave, TakeFullB, LiteAccept, TakeLiteB, LiteB, Grant, MasterAW, MasterW,
                MasterB, TakeBPacket, AcceptAW, AcceptW, TakeB, RecvB, vars, txVars, masterVars,
                linkVars
  <2> QED BY <1>5, <1>6, <2>1
<1> QED BY <1>7, <1>8, <1>9 DEF BridgeNear

(* The far end: a header that comes off it is in hand, or is lost; and a   *)
(* burst is out of hand only when all of it is stored.                     *)
LEMMA AwaitedFar ==
  ASSUME BridgeInv, Awaited, BridgeFar \/ Arrival, ~fullLost'
  PROVE  Awaited'
<1>1. PICK w, lite : BridgeOrder(w, lite)
  BY DEF BridgeInv
<1>2. dataWire \in Seq(Flit) /\ FullInv(w) /\ DrivenInv
  BY <1>1, WireType DEF BridgeOrder, FarInv
<1>3. UNCHANGED <<wState, nAW>>
  BY DEF BridgeFar, Arrival, FarAW, FarW, FarLiteW, FarB, FarBWithHeader, SendFullB, SendLiteB,
         FlitArrives, FlitIgnored, MemoryAW, MemoryW, SendBPacket, txVars, masterVars
<1>4. ASSUME UNCHANGED stored,
             FullAtFar \/ Coming => FullAtFar' \/ Coming' \/ stored.burst = nAW + 1
      PROVE  Awaited'
  BY <1>3, <1>4 DEF Awaited
<1>5. CASE SendFullB \/ SendLiteB \/ FarAW \/ FarLiteW
  <2>1. /\ UNCHANGED <<dataWire, stored, dAw, awPending, shadowAw>>
        /\ dState' = "IDLE" <=> dState = "IDLE"
    BY <1>5 DEF SendFullB, SendLiteB, FarAW, FarLiteW, SendBPacket, MemoryAW, DriveAW, DriveW,
                HaveBeat, rxVars, memoryVars, linkVars
  <2> QED BY <1>4, <2>1 DEF FullAtFar, FullDriven, FullQueued, Coming
<1>6. CASE FarW
  BY <1>6 DEF FarW, MemoryW, DriveW, HaveBeat, Awaited, FullAtFar, FullDriven
<1>7. CASE FarB
  <2>1. dState = "WAIT_B" /\ BFire /\ UNCHANGED <<stored, dataWire>>
    BY <1>7 DEF FarB, BFire, memoryVars, linkVars
  <2>2. CASE dAw.lite
    <3>1. FullAtFar => FullAtFar'
      BY <2>1, <2>2 DEF BFire, FullAtFar, FullDriven, FullQueued
    <3> QED BY <1>4, <2>1, <3>1 DEF Coming
  <2>3. CASE ~dAw.lite
    <3>1. stored.burst = nAW + 1
      BY <1>2, <2>1, <2>3 DEF FullInv, FullDone, FullDriven
    <3> QED BY <1>4, <2>1, <3>1
  <2> QED BY <2>2, <2>3
<1>8. ASSUME dataWire # <<>>, dataWire' = Tail(dataWire), UNCHANGED stored,
             FullAtFar \/ IsFullHeader(Head(dataWire)) => FullAtFar' \/ stored.burst = nAW + 1
      PROVE  Awaited'
  BY <1>2, <1>4, <1>8, ComingFlit
<1>9. CASE FarBWithHeader
  <2> DEFINE f == Head(dataWire)
  <2>1. /\ dataWire # <<>> /\ dataWire' = Tail(dataWire) /\ UNCHANGED stored
        /\ dState = "WAIT_B" /\ ~awPending /\ shadowAw' = f.aw /\ awPending'
    BY <1>9 DEF FarBWithHeader, BFireWithHeader, TakesHeader, memoryVars
  <2>2. FullAtFar => stored.burst = nAW + 1
    BY <1>2, <2>1 DEF FullAtFar, FullDriven, FullQueued, FullInv, FullDone
  <2>3. IsFullHeader(f) => FullAtFar'
    BY <2>1 DEF IsFullHeader, FullAtFar, FullQueued
  <2> QED BY <1>8, <2>1, <2>2, <2>3
<1>10. CASE Arrival
  <2> DEFINE f == Head(dataWire)
  <2>1. dataWire # <<>> /\ dataWire' = Tail(dataWire) /\ UNCHANGED stored
    BY <1>10 DEF Arrival, FlitArrives, FlitIgnored, memoryVars
  <2>2. CASE RxHeader(f)
    <3>1. ~awPending
      BY <2>2 DEF RxHeader, TakesHeader
    <3>2. FullAtFar => FullAtFar'
      BY <2>2, <3>1 DEF RxHeader, FullAtFar, FullDriven, FullQueued
    <3>3. IsFullHeader(f) => FullAtFar'
      BY <2>2 DEF RxHeader, IsFullHeader, FullAtFar, FullDriven, FullQueued
    <3> QED BY <1>8, <2>1, <3>2, <3>3
  <2>3. CASE RxCont(f)
    <3>1. f.op # "AW"
      BY <2>1, <2>3, HeaderFirst DEF RxCont, TakesCont
    <3>2. FullAtFar' <=> FullAtFar
      BY <2>3 DEF RxCont, FullAtFar, FullDriven, FullQueued
    <3> QED BY <1>8, <2>1, <3>1, <3>2 DEF IsFullHeader
  <2>4. CASE FlitIgnored
    <3>1. ~IsFullHeader(f) \/ RxHeader(f) \/ RxCont(f)
      BY <1>10, <2>4 DEF Arrival, FlitArrives
    <3>2. FullAtFar' <=> FullAtFar
      BY <2>4 DEF FlitIgnored, RxIgnore, rxVars, FullAtFar, FullDriven, FullQueued
    <3> QED BY <1>8, <2>1, <2>2, <2>3, <3>1, <3>2
  <2> QED BY <1>10, <2>2, <2>3, <2>4 DEF Arrival, FlitArrives
<1> QED BY <1>5, <1>6, <1>7, <1>9, <1>10 DEF BridgeFar

(* A continuation flit is read as a header only where the header of a Full *)
(* frame has been lost before: till then the far end has every burst in    *)
(* hand whose flits are on the wire, and counts them down                  *)
(* (axi_depacketizer.sv, rx_is_cont in aw_rx_fire).                        *)
THEOREM OnlyLossesMislead ==
  ASSUME NoWrap, BurstFits
  PROVE  BridgeSpec => []MisreadOnlyAfterLoss
<1>1. BridgeInit => LossInv
  BY BridgeStart DEF BridgeInit, Init, TxInit, LossInv, Awaited
<1>2. LossInv /\ [BridgeNext]_bridgeVars => LossInv'
  <2> SUFFICES ASSUME LossInv, [BridgeNext]_bridgeVars PROVE LossInv'
    OBVIOUS
  <2>1. fullLost => fullLost'
    BY DEF BridgeNext, Arrival, FlitMisread, bridgeVars, wireHist
  <2>2. CASE FlitMisread
    <3>1. fullLost
      BY <2>2, NotMisread DEF LossInv
    <3> QED BY <2>1, <2>2, <3>1 DEF LossInv, FlitMisread
  <2>3. CASE ~FlitMisread /\ misread
    <3>1. misread'
      BY <2>3 DEF BridgeNext, Arrival, bridgeVars, wireHist
    <3> QED BY <2>1, <2>3, <3>1 DEF LossInv
  <2>4. CASE ~FlitMisread /\ ~misread
    <3>1. ~misread'
      BY <2>4 DEF BridgeNext, Arrival, bridgeVars, wireHist
    <3>2. BridgeInv'
      BY <2>4, BridgeStep DEF LossInv
    <3>3. fullLost' \/ Awaited'
      <4> SUFFICES ASSUME ~fullLost' PROVE Awaited'
        OBVIOUS
      <4>1. BridgeInv /\ Awaited
        BY <2>1, <2>4 DEF LossInv
      <4>2. CASE UNCHANGED bridgeVars
        BY <4>1, <4>2 DEF Awaited, Coming, FullAtFar, FullDriven, FullQueued, bridgeVars, vars,
                          txVars, rxVars, masterVars, memoryVars, linkVars
      <4> QED BY <2>4, <4>1, <4>2, AwaitedNear, AwaitedFar DEF BridgeNext
    <3> QED BY <3>1, <3>2, <3>3 DEF LossInv
  <2> QED BY <2>2, <2>3, <2>4
<1>3. LossInv => MisreadOnlyAfterLoss
  BY DEF LossInv, MisreadOnlyAfterLoss
<1> QED BY <1>1, <1>2, <1>3, PTL DEF BridgeSpec

-----------------------------------------------------------------------------
(* Seen from the Full port alone the bridge is still the write service.    *)

(* The Full beat that is handed over has been sent.                        *)
LEMMA BridgeStored ==
  ASSUME NEW w, NEW lite, BridgeOrder(w, lite), FarW
  PROVE  [Service!Next]_(Service!vars)
<1>1. MemoryW /\ HaveBeat /\ ~dAw.lite
  BY DEF FarW, MemoryW, DriveW
<1>2. /\ FullInBuffer /\ dAw.id = nAW /\ stored.burst = nAW /\ (OutLast <=> stored.beat = lens[nAW])
      /\ OutBeat = [i \in 1..STRB |-> stored.bytes + i] /\ rxCount >= STRB /\ STRB \in Nat \ {0}
  BY <1>1, FullBeatTaken
<1>3. NearInv(w) /\ PortTypes /\ BufferInv(w)
  BY DEF BridgeOrder, FarInv, NearInv
<1>4. stored.bytes < given.bytes
  <2>1. Arrived = Landing(w)
    BY <1>2, <1>3 DEF BufferInv
  <2>2. /\ stored.bytes \in Nat /\ rxCount \in Nat /\ txCount \in Nat /\ given.bytes \in Nat
        /\ Landing(w) = stored.bytes + rxCount /\ Sent = given.bytes - txCount
        /\ Landing(w) <= Sent
    BY <1>3, <2>1, Positions DEF Arrived, Sent
  <2> QED BY <1>2, <2>2
<1> QED BY <1>1, <1>2, <1>3, <1>4, ServiceStore

(* The Lite writer, the arbiter and the frames that are lost do not change *)
(* what the Full master and its memory are promised (AxiWriteService): its *)
(* beats, in order, and a B only for a burst that is stored; so it is in   *)
(* every behaviour in which no continuation flit is read as a header.      *)
THEOREM FullPortImplementsService ==
  ASSUME NoWrap, BurstFits
  PROVE  BridgeSpec /\ []~misread => ImplementsService
<1>1. BridgeInit => Service!Init
  BY ServiceInit DEF BridgeInit
<1>2. (~misread => BridgeInv) /\ ~misread /\ (~misread)' /\ [BridgeNext]_bridgeVars
        => [Service!Next]_(Service!vars)
  <2> SUFFICES ASSUME BridgeInv, ~misread', [BridgeNext]_bridgeVars
               PROVE  [Service!Next]_(Service!vars)
    OBVIOUS
  <2>0. ~FlitMisread
    BY DEF FlitMisread
  <2>1. PICK w, lite : BridgeOrder(w, lite)
    BY DEF BridgeInv
  <2>2. NearInv(w) /\ PortTypes
    BY <2>1 DEF BridgeOrder, NearInv
  <2>3. CASE FullSlave \/ FullFlit \/ TakeFullB
    <3>1. MasterAW \/ MasterW \/ MasterB \/ SendFlit \/ MasterWAndSendFlit \/ TakeBPacket
      BY <2>3 DEF FullSlave, FullFlit, TakeFullB
    <3>2. PortTypes'
      BY <2>2, <3>1, TypeNear DEF Near
    <3>3. CASE MasterB
      <4>1. UNCHANGED <<liteVars, atx>>
        <5>1. wState = "WAIT_B" /\ wState' = "IDLE"
          BY <3>3 DEF MasterB, TakeB
        <5>2. ~FullFlit
          BY <5>1 DEF FullFlit, SendFlit, EmitFlit, EmitReady, Active, MasterWAndSendFlit,
                      AcceptWAndEmit
        <5> QED BY <2>3, <5>2 DEF FullSlave, TakeFullB
      <4>2. bId = nAW /\ stored.burst = nAW + 1
        BY <2>1, <3>3, <4>1, BridgeMasterB
      <4> QED BY <2>2, <3>3, <4>2, ServiceAnswer
    <3>4. CASE ~MasterB
      BY <2>2, <3>1, <3>2, <3>4, ServiceNear
    <3> QED BY <3>3, <3>4
  <2>4. CASE FarW
    BY <2>1, <2>4, BridgeStored
  <2>5. CASE LiteAccept \/ LiteFlit \/ TakeLiteB \/ LiteB \/ Grant
    BY <2>5 DEF LiteAccept, LiteFlit, TakeLiteB, LiteB, Grant, vars, masterVars, memoryVars,
                Service!vars
  <2>6. CASE Arrival \/ FarAW \/ FarLiteW \/ FarB \/ FarBWithHeader \/ SendFullB \/ SendLiteB
    BY <2>6 DEF Arrival, FlitArrives, FlitIgnored, FarAW, MemoryAW, FarLiteW, FarB,
                FarBWithHeader, SendFullB, SendBPacket, SendLiteB, masterVars, memoryVars,
                Service!vars
  <2>7. CASE UNCHANGED bridgeVars
    BY <2>7 DEF bridgeVars, vars, masterVars, memoryVars, Service!vars
  <2> QED BY <2>0, <2>3, <2>4, <2>5, <2>6, <2>7 DEF BridgeNext, BridgeNear, BridgeFar
<1> QED BY <1>1, <1>2, BridgeInvHolds, PTL DEF BridgeSpec, ImplementsService, Service!Spec
=============================================================================
