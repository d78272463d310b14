----------------------------- MODULE MmuControl -----------------------------
(***************************************************************************)
(* mmu_control.sv: the top state machine of the matrix unit, its compute   *)
(* sub-machine, and the registers that drive buffers and array.  An action *)
(* is one clock edge in one state.                                         *)
(***************************************************************************)
EXTENDS MmuPkg

VARIABLES
  state,       \* state
  cstate,      \* cstate
  loadStart,   \* load_a_start, load_b_start
  storeStart,  \* store_c_start
  fsmDone,     \* fsm_done
  aRead,       \* a_buf_rd_addr, or Off when a_buf_rd_en is low
  bRead,       \* b_buf_rd_addr, or Off when b_buf_rd_en is low
  wDrive,      \* w_drive_row, or Off when w_drive_valid is low
  aDrive,      \* a_drive_valid
  wCnt,        \* w_load_cnt
  aCnt,        \* a_stream_cnt
  cCnt,        \* c_capture_cnt
  cWr          \* c_wr_addr_q

controlVars == <<state, cstate, loadStart, storeStart, fsmDone, aRead, bRead,
                 wDrive, aDrive, wCnt, aCnt, cCnt, cWr>>

Off == -1

ControlInit ==
  /\ state = "IDLE" /\ cstate = "IDLE"
  /\ loadStart = FALSE /\ storeStart = FALSE /\ fsmDone = FALSE
  /\ aRead = Off /\ bRead = Off /\ wDrive = Off /\ aDrive = FALSE
  /\ wCnt = 0 /\ aCnt = 0 /\ cCnt = 0 /\ cWr = 0

NoPulses == aRead' = Off /\ bRead' = Off /\ wDrive' = Off /\ aDrive' = FALSE

(* The captured rows are written one after the other, modulo M.            *)
Capture(cValid) == cWr' = IF cValid THEN (cWr + 1) % M ELSE cWr

CtlIdle(start, cValid) ==
  /\ state = "IDLE"
  /\ fsmDone' = FALSE
  /\ loadStart' = (start \/ loadStart)
  /\ state' = IF start THEN "LOAD_AB" ELSE state
  /\ NoPulses /\ Capture(cValid)
  /\ UNCHANGED <<cstate, storeStart, wCnt, aCnt, cCnt>>

CtlLoading(loaded, cValid) ==
  /\ state = "LOAD_AB" /\ ~loaded
  /\ NoPulses /\ Capture(cValid)
  /\ UNCHANGED <<state, cstate, loadStart, storeStart, fsmDone, wCnt, aCnt, cCnt>>

CtlLoaded(loaded) ==
  /\ state = "LOAD_AB" /\ loaded
  /\ loadStart' = FALSE /\ cstate' = "LOAD_W" /\ state' = "COMPUTE"
  /\ wCnt' = 0 /\ aCnt' = 0 /\ cCnt' = 0 /\ cWr' = 0
  /\ NoPulses
  /\ UNCHANGED <<storeStart, fsmDone>>

(* C_LOAD_W: issue a read of a row of B and, registered with it, the drive *)
(* of that row of the array.                                               *)
CtlLoadW(cValid) ==
  /\ state = "COMPUTE" /\ cstate = "LOAD_W"
  /\ \/ /\ wCnt < K
        /\ bRead' = wCnt /\ wDrive' = wCnt /\ wCnt' = wCnt + 1
        /\ UNCHANGED cstate
     \/ /\ wCnt = K
        /\ bRead' = Off /\ wDrive' = Off /\ cstate' = "STREAM_A"
        /\ UNCHANGED wCnt
  /\ aRead' = Off /\ aDrive' = FALSE
  /\ cCnt' = IF cValid THEN cCnt + 1 ELSE cCnt
  /\ Capture(cValid)
  /\ UNCHANGED <<state, loadStart, storeStart, fsmDone, aCnt>>

(* Mutation of Captured: one row too many.                                 *)
CapturedOneMore == cCnt = M + 1

Captured == cCnt = M

(* C_STREAM_A: the same for the rows of A; done when M rows were captured. *)
CtlStreamA(cValid) ==
  /\ state = "COMPUTE" /\ cstate = "STREAM_A"
  /\ aRead' = IF aCnt < M THEN aCnt ELSE Off
  /\ aDrive' = (aCnt < M)
  /\ aCnt' = IF aCnt < M THEN aCnt + 1 ELSE aCnt
  /\ cCnt' = IF cValid THEN cCnt + 1 ELSE cCnt
  /\ Capture(cValid)
  /\ IF Captured
     THEN cstate' = "IDLE" /\ storeStart' = TRUE /\ state' = "STORE_C"
     ELSE UNCHANGED <<cstate, storeStart, state>>
  /\ bRead' = Off /\ wDrive' = Off
  /\ UNCHANGED <<loadStart, fsmDone, wCnt>>

CtlStoreC(stored, cValid) ==
  /\ state = "STORE_C"
  /\ storeStart' = ~stored
  /\ state' = IF stored THEN "DONE" ELSE state
  /\ NoPulses /\ Capture(cValid)
  /\ UNCHANGED <<cstate, loadStart, fsmDone, wCnt, aCnt, cCnt>>

(* A start in DONE goes no further than IDLE.                              *)
CtlDone(start, cValid) ==
  /\ state = "DONE"
  /\ fsmDone' = ~start
  /\ state' = IF start THEN "IDLE" ELSE state
  /\ NoPulses /\ Capture(cValid)
  /\ UNCHANGED <<cstate, loadStart, storeStart, wCnt, aCnt, cCnt>>

ControlTick(start, loaded, stored, cValid) ==
  \/ CtlIdle(start, cValid)
  \/ CtlLoading(loaded, cValid)
  \/ CtlLoaded(loaded)
  \/ CtlLoadW(cValid)
  \/ CtlStreamA(cValid)
  \/ CtlStoreC(stored, cValid)
  \/ CtlDone(start, cValid)
=============================================================================
