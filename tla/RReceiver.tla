----------------------------- MODULE RReceiver ------------------------------
(***************************************************************************)
(* aurora_r_receiver.sv: reassemble R beats from the flits of the data     *)
(* channel and hand them to the AXI master.  No back-pressure: a flit is   *)
(* pushed whatever the count is.  A flit and an R handshake of one clock   *)
(* edge have the effect of the handshake followed by the flit; the one     *)
(* pair for which this is not so, a header while beats of the read before  *)
(* are still waiting, does not occur with one read outstanding             *)
(* (AuroraRead, NoHeaderBeforeDrained).                                    *)
(***************************************************************************)
EXTENDS AuroraFlit

VARIABLES
  rrInCont,   \* rx_in_cont_r: more flits of this burst to come
  rrLast,     \* last_seen_r
  rrBuf,      \* r_rx_buf_r
  rrCount,    \* r_rx_count_r
  rrId        \* rid_latched_r

rrVars == <<rrInCont, rrLast, rrBuf, rrCount, rrId>>

RrTypeOK ==
  /\ rrInCont \in BOOLEAN /\ rrLast \in BOOLEAN /\ rrId \in Nat
  /\ rrBuf \in [1..BufBytes -> Byte] /\ rrCount \in 0..(TXMOD - 1)

RrInit ==
  /\ rrInCont = FALSE /\ rrLast = FALSE /\ rrId = 0
  /\ rrBuf = ZeroBytes(BufBytes) /\ rrCount = 0

(* Mutation of RxRHeader: the metadata bytes of tkeep are counted too.     *)
RxRHeaderCountsMeta(f) ==
  /\ ~rrInCont /\ f.op = "R"
  /\ rrInCont' = ~f.tlast
  /\ rrLast' = FALSE
  /\ rrId' = f.id
  /\ rrBuf' = OrAt(ZeroBytes(BufBytes), 0, f.data)
  /\ rrCount' = f.keep + (CONT - Len(f.data))

(* r_hdr_fire: the residue of the burst before is dropped, and last_seen_r *)
(* is cleared even when this flit has tlast.                               *)
RxRHeader(f) ==
  /\ ~rrInCont /\ f.op = "R"
  /\ rrInCont' = ~f.tlast
  /\ rrLast' = FALSE
  /\ rrId' = f.id
  /\ rrBuf' = OrAt(ZeroBytes(BufBytes), 0, f.data)
  /\ rrCount' = f.keep

(* r_cont_fire                                                             *)
RxRCont(f) ==
  /\ rrInCont
  /\ rrInCont' = ~f.tlast
  /\ rrLast' = (rrLast \/ f.tlast)
  /\ rrBuf' = OrAt(rrBuf, rrCount, f.data)
  /\ rrCount' = (rrCount + f.keep) % TXMOD
  /\ UNCHANGED rrId

RrHaveBeat == rrCount >= STRB
RrBeat     == Low(rrBuf, STRB)

(* Mutation of RrBeatLast: last as soon as tlast was seen.                 *)
RrBeatLastSeen == rrLast

RrBeatLast == rrLast /\ rrCount = STRB

(* Mutation of TakeR: the count is not popped with the bytes.              *)
TakeRNoPop ==
  /\ RrHaveBeat
  /\ rrBuf' = ShiftDown(rrBuf, STRB)
  /\ rrLast' = (rrLast /\ ~RrBeatLast)
  /\ UNCHANGED <<rrInCont, rrId, rrCount>>

(* m_rvalid & m_rready                                                     *)
TakeR ==
  /\ RrHaveBeat
  /\ rrBuf' = ShiftDown(rrBuf, STRB)
  /\ rrCount' = rrCount - STRB
  /\ rrLast' = (rrLast /\ ~RrBeatLast)
  /\ UNCHANGED <<rrInCont, rrId>>
=============================================================================
