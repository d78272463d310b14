---------------------------- MODULE BridgeDuplex ----------------------------
(***************************************************************************)
(* Both directions of the bridge at once.  End A reads from B's memory     *)
(* (AuroraRead) and takes B's writes into its own (AuroraWrite, whose near *)
(* end is B).  So the data channel from B to A carries write frames and R  *)
(* frames, granted by B's data-TX arbiter; at A every flit is seen by the  *)
(* depacketizer and by the R receiver, each gating the other while it is   *)
(* inside a frame.  A's user-K channel carries AR packets before B packets.*)
(* The Lite masters are idle.                                              *)
(***************************************************************************)
EXTENDS AuroraWrite, AuroraRead

VARIABLE
  atx    \* atx_state_r of B

writeOnly  == <<txVars, rxVars, masterVars, memoryVars, bWire, bfId>>
readOnly   == <<rfVars, rrVars, arVars, gotVars, liteRVars, arWire, depRVars,
                rlVars, rlWire>>
duplexVars == <<writeOnly, readOnly, dataWire, atx>>

DuplexInit == Init /\ ReadInit /\ atx = "IDLE"

(***************************************************************************)
(* End B: the Full writer, the responder to A's reads, the arbiter.        *)
(***************************************************************************)
BWrites == (MasterAW \/ MasterW \/ TakeBPacket \/ MasterB) /\ UNCHANGED <<readOnly, atx>>

(* The grant of a W frame and of an R frame: W first, held until tlast.    *)
GrantW == /\ atx = "IDLE" /\ EmitReady /\ atx' = "W_FULL"
          /\ UNCHANGED <<writeOnly, readOnly, dataWire>>

(* Mutation of GrantR: an R frame is granted inside a W frame.             *)
GrantRInsideW ==
  /\ ~EmitReady /\ RfEmitReady
  /\ atx' = "R_RESP"
  /\ UNCHANGED <<writeOnly, readOnly, dataWire>>

GrantR ==
  /\ atx = "IDLE" /\ ~EmitReady /\ RfEmitReady
  /\ atx' = "R_RESP"
  /\ UNCHANGED <<writeOnly, readOnly, dataWire>>

WFlit ==
  /\ atx = "W_FULL"
  /\ SendFlit \/ MasterWAndSendFlit
  /\ atx' = IF IsFinal THEN "IDLE" ELSE atx
  /\ UNCHANGED readOnly

RFlitOut ==
  /\ atx = "R_RESP"
  /\ SendRFlit \/ MemoryRAndSendRFlit
  /\ atx' = IF RfIsFinal THEN "IDLE" ELSE atx
  /\ UNCHANGED writeOnly

BReads == (ArArrives \/ DriveAR \/ MemoryR) /\ UNCHANGED <<writeOnly, atx>>

(***************************************************************************)
(* End A: one flit, two receivers.  op is what the first byte of the flit  *)
(* looks like; for a header it is the opcode, for a continuation flit it   *)
(* may be any value, EachFlitHasOneTaker shows that it does not matter.    *)
(***************************************************************************)
DepHeaderFires(op) == TakesHeader([op |-> op]) /\ ~rrInCont
DepTakes(op)       == DepHeaderFires(op) \/ TakesCont

(* Mutation of RrHeaderFires: no cross-gating by the depacketizer.         *)
RrHeaderFiresUngated(op) == op = "R" /\ ~rrInCont

RrHeaderFires(op) == op = "R" /\ ~rrInCont /\ ~TakesCont
RrTakes(op)       == RrHeaderFires(op) \/ rrInCont

AFlit ==
  /\ dataWire # <<>>
  /\ LET f == Head(dataWire)
     IN  /\ \/ DepHeaderFires(f.op) /\ RxHeader(f)
            \/ RxCont(f)
            \/ ~DepTakes(f.op) /\ UNCHANGED rxVars
         /\ \/ RrHeaderFires(f.op) /\ RxRHeader(f)
            \/ RxRCont(f)
            \/ ~RrTakes(f.op) /\ UNCHANGED rrVars
  /\ dataWire' = Tail(dataWire)
  /\ UNCHANGED <<txVars, masterVars, memoryVars, bWire, bfId, rfVars, arVars, gotVars,
                 liteRVars, arWire, depRVars, rlVars, rlWire, atx>>

AReads == (MasterAR \/ SendAR \/ MasterR) /\ UNCHANGED <<writeOnly, atx>>

AMemory == (MemoryAW \/ MemoryW \/ MemoryB) /\ UNCHANGED <<readOnly, atx>>

(* A B packet leaves when no AR does.                                      *)
AResponds == arState # "TX_AR" /\ SendBPacket /\ UNCHANGED <<readOnly, atx>>

DuplexFinished == Finished /\ ReadFinished /\ UNCHANGED atx

EndA == AFlit \/ AReads \/ AMemory \/ AResponds
EndB == BWrites \/ GrantW \/ GrantR \/ WFlit \/ RFlitOut \/ BReads
DuplexNext == EndA \/ EndB \/ DuplexFinished

DuplexSpec == DuplexInit /\ [][DuplexNext]_duplexVars
                /\ WF_duplexVars(EndA) /\ WF_duplexVars(EndB)

-----------------------------------------------------------------------------
IsRFlit(f) == "keep" \in DOMAIN f

(* The cross-gating works: whatever the data bytes look like, every flit   *)
(* that arrives is taken by the receiver it is meant for and by no other,  *)
(* so no data byte equal to OP_AW or OP_R starts a frame                   *)
(* (aurora_r_receiver.sv, rx_in_cont_i; axi_depacketizer.sv, rx_in_cont_i).*)
EachFlitHasOneTaker ==
  dataWire # <<>> =>
    LET f == Head(dataWire)
    IN  \A op \in IF f.op = "none" THEN {"none", "AW", "R"} ELSE {f.op} :
          /\ DepTakes(op) <=> ~IsRFlit(f)
          /\ RrTakes(op) <=> IsRFlit(f)

(* Neither direction disturbs or starves the other: all of A's reads and   *)
(* all of B's writes complete although they share wire and arbiters.       *)
BothDirectionsComplete ==
  /\ \A b \in Bursts : (nAW >= b) ~> (answered >= b)
  /\ \A r \in 1..MaxReads : (nAR >= r) ~> (rDone >= r)
=============================================================================
