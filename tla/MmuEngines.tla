----------------------------- MODULE MmuEngines -----------------------------
(***************************************************************************)
(* The engines between HBM and the buffers of the matrix unit:             *)
(* mmu_load_engine.sv and mmu_store_engine.sv.  An engine's registers are  *)
(* a record, its clock edge a function of them, of start and of hbm, which *)
(* says whether the memory port completes the handshake the engine is in.  *)
(* A beat holds one element of a row, a row at least two beats; row        *)
(* stands for row_idx and for cur_addr, which move together.               *)
(***************************************************************************)
EXTENDS Integers

(***************************************************************************)
(* Load engine.  source[row][beat] is what the memory holds; we, waddr and *)
(* wdata are the registered write port of the buffer.                      *)
(***************************************************************************)
LoadReset(blank) ==
  [state |-> "IDLE", row |-> 0, beat |-> 1, builder |-> blank, done |-> FALSE,
   we |-> FALSE, waddr |-> 0, wdata |-> blank]

(* Mutation of LoadIdle: done is not withdrawn.                            *)
LoadIdleKeepsDone(s, start) ==
  IF start THEN [s EXCEPT !.row = 0, !.beat = 1, !.state = "AR"] ELSE s

LoadIdle(s, start) ==
  IF start THEN [s EXCEPT !.done = FALSE, !.row = 0, !.beat = 1, !.state = "AR"]
           ELSE [s EXCEPT !.done = FALSE]

(* rlast: the row is the stashed beats with this one on top.               *)
LoadCommit(s, rdata, rows) ==
  [s EXCEPT !.we = TRUE, !.waddr = s.row, !.wdata = [s.builder EXCEPT ![s.beat] = rdata],
            !.row = s.row + 1, !.beat = 1,
            !.state = IF s.row = rows - 1 THEN "DONE" ELSE "AR"]

LoadStash(s, rdata) ==
  [s EXCEPT !.builder[s.beat] = rdata, !.beat = s.beat + 1]

LoadNext(old, source, rows, beats, start, hbm) ==
  LET s == [old EXCEPT !.we = FALSE]
  IN  CASE s.state = "IDLE" -> LoadIdle(s, start)
        [] s.state = "AR" -> IF hbm THEN [s EXCEPT !.beat = 1, !.state = "R"] ELSE s
        [] s.state = "R" ->
             IF ~hbm THEN s
             ELSE IF s.beat = beats THEN LoadCommit(s, source[s.row][s.beat], rows)
             ELSE LoadStash(s, source[s.row][s.beat])
        [] s.state = "DONE" ->
             [s EXCEPT !.done = TRUE, !.state = IF start THEN "DONE" ELSE "IDLE"]

(***************************************************************************)
(* Store engine.  re and raddr are the registered read port of its bank,   *)
(* whose output register shows the row on the edge after re is high.       *)
(***************************************************************************)
StoreReset(blank) ==
  [state |-> "IDLE", row |-> 0, beat |-> 1, data |-> blank, done |-> FALSE,
   re |-> FALSE, raddr |-> 0]

StoreIdle(s, start) ==
  IF start THEN [s EXCEPT !.done = FALSE, !.row = 0, !.beat = 1,
                          !.re = TRUE, !.raddr = 0, !.state = "AW"]
           ELSE [s EXCEPT !.done = FALSE]

(* awready: the engine takes what the bank shows, which on the edge after  *)
(* re is not yet the row it asked for.                                     *)
StoreAw(s, rdata) == [s EXCEPT !.data = rdata, !.beat = 1, !.state = "W"]

StoreW(s, beats) ==
  IF s.beat = beats THEN [s EXCEPT !.state = "B"] ELSE [s EXCEPT !.beat = s.beat + 1]

(* bvalid: the next row's read is issued with the step back to AW.         *)
StoreB(s, rows) ==
  IF s.row = rows - 1 THEN [s EXCEPT !.row = s.row + 1, !.state = "DONE"]
  ELSE [s EXCEPT !.row = s.row + 1, !.re = TRUE, !.raddr = s.row + 1, !.state = "AW"]

StoreNext(old, rdata, rows, beats, start, hbm) ==
  LET s == [old EXCEPT !.re = FALSE]
  IN  CASE s.state = "IDLE" -> StoreIdle(s, start)
        [] s.state = "AW" -> IF hbm THEN StoreAw(s, rdata) ELSE s
        [] s.state = "W" -> IF hbm THEN StoreW(s, beats) ELSE s
        [] s.state = "B" -> IF hbm THEN StoreB(s, rows) ELSE s
        [] s.state = "DONE" ->
             [s EXCEPT !.done = TRUE, !.state = IF start THEN "DONE" ELSE "IDLE"]

(* The beat on the W channel.                                              *)
StoreSends(s) == s.state = "W"
StoreBeat(s)  == s.data[s.beat]
=============================================================================
