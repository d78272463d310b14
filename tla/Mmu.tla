-------------------------------- MODULE Mmu ---------------------------------
(***************************************************************************)
(* mmu_top.sv: control, load engines, buffers, array and store engines in  *)
(* one clock domain.  A step is one clock edge: every part reads the       *)
(* registers of the others as they were before it.  The host writes new    *)
(* matrices to HBM and then starts a kernel; the memory ports answer when  *)
(* they like.                                                              *)
(***************************************************************************)
EXTENDS MmuControl, MmuEngines, SystolicArray

CONSTANTS
  Banks,      \* N_C_BANKS
  MaxStarts   \* bound: writes of the start bit

BankRows == M \div Banks   \* C_BANK_ROWS

ASSUME BankAssumption ==
  Banks \in 1..M /\ BankRows * Banks = M /\ MaxStarts \in Nat

(* The engines' rows have two beats or more (MmuEngines).                  *)
ASSUME RowAssumption == K > 1 /\ N > 1

VARIABLES
  loadA, loadB,   \* u_load_a0, u_load_b0
  stores,         \* u_store_c0 ...
  aMem, aData,    \* u_a_bank: memory, rd_data
  bMem, bData,    \* u_b_bank
  cMem, cData,    \* u_bank: memory of all banks by row of C, rd_data of each
  hbmC,           \* the stretch of HBM the result goes to
  job,            \* kernels accepted; names the matrices in HBM
  starts,         \* writes of the start bit
  driven,         \* rows of activations driven into the array for this kernel
  rushed          \* rows of C whose AW was taken on the first edge it was offered

bufferVars == <<aMem, aData, bMem, bData, cMem, cData, hbmC>>
mmuVars == <<controlVars, arrayVars, loadA, loadB, stores, bufferVars, job, starts, driven,
             rushed>>

(* The matrices of a kernel: every element has a name of its own.          *)
MatrixA(j) == [row \in 0..(M - 1) |-> [k \in 1..K |-> <<"A", j, row, k>>]]
MatrixB(j) == [row \in 0..(K - 1) |-> [c \in 1..N |-> <<"B", j, row, c>>]]

BlankA == [k \in 1..K |-> Nothing]
BlankB == [c \in 1..N |-> Nothing]
BlankC == [c \in 1..N |-> {}]
Bank   == 0..(Banks - 1)

MmuInit ==
  /\ ControlInit /\ ArrayInit
  /\ loadA = LoadReset(BlankA) /\ loadB = LoadReset(BlankB)
  /\ stores = [b \in Bank |-> StoreReset(BlankC)]
  /\ aMem = [row \in 0..(M - 1) |-> BlankA] /\ aData = BlankA
  /\ bMem = [row \in 0..(K - 1) |-> BlankB] /\ bData = BlankB
  /\ cMem = [row \in 0..(M - 1) |-> BlankC] /\ cData = [b \in Bank |-> BlankC]
  /\ hbmC = [row \in 0..(M - 1) |-> BlankC]
  /\ job = 0 /\ starts = 0 /\ driven = <<>> /\ rushed = {}

(* mmu_bram_2p: a registered read beside a write, old data on a collision. *)
Written(mem, we, addr, row) == IF we THEN [mem EXCEPT ![addr] = row] ELSE mem
ReadOut(data, mem, addr)    == IF addr = Off THEN data ELSE mem[addr]

Loaded == loadA.done /\ loadB.done

(* Mutation of AllStored: any bank instead of all.                         *)
AnyStored == \E b \in Bank : stores[b].done

AllStored == \A b \in Bank : stores[b].done

(* base_addr: the row of C in HBM that a store engine writes.              *)
Place(b, row) == b * BankRows + row

Buffers ==
  /\ aMem' = Written(aMem, loadA.we, loadA.waddr, loadA.wdata)
  /\ aData' = ReadOut(aData, aMem, aRead)
  /\ bMem' = Written(bMem, loadB.we, loadB.waddr, loadB.wdata)
  /\ bData' = ReadOut(bData, bMem, bRead)
  /\ cMem' = Written(cMem, CValid, cWr, CRow)
  /\ cData' = [b \in Bank |->
       ReadOut(cData[b], cMem,
               IF stores[b].re THEN b * BankRows + stores[b].raddr ELSE Off)]

(* The beats the memory takes on this edge.                                *)
MemoryTakes(hbm) ==
  hbmC' = [row \in 0..(M - 1) |-> [c \in 1..N |->
             LET from == {b \in Bank : /\ hbm[b] /\ StoreSends(stores[b])
                                       /\ stores[b].beat = c
                                       /\ Place(b, stores[b].row) = row}
             IN  IF from = {} THEN hbmC[row][c]
                 ELSE StoreBeat(stores[CHOOSE b \in from : TRUE])]]

(* The rows whose AW a port takes on this edge, the first of its offer.    *)
Rushing(hbm) ==
  {Place(b, stores[b].row) :
     b \in {q \in Bank : stores[q].state = "AW" /\ stores[q].re /\ hbm[q]}}

(* Memory ports: c0, c1, ... by bank, then a0 and b0.                      *)
PortA == Banks
PortB == Banks + 1
Ports == 0..PortB

(* One clock edge, with or without a write of the start bit; hbm says      *)
(* which memory ports complete a handshake on it.                          *)
Tick(start, hbm) ==
  /\ start => starts < MaxStarts
  /\ starts' = IF start THEN starts + 1 ELSE starts
  /\ job' = IF start /\ state = "IDLE" THEN job + 1 ELSE job
  /\ ControlTick(start, Loaded, AllStored, CValid)
  /\ loadA' = LoadNext(loadA, MatrixA(job), M, K, loadStart, hbm[PortA])
  /\ loadB' = LoadNext(loadB, MatrixB(job), K, N, loadStart, hbm[PortB])
  /\ stores' = [b \in Bank |->
                  StoreNext(stores[b], cData[b], BankRows, N, storeStart, hbm[b])]
  /\ Buffers /\ MemoryTakes(hbm)
  /\ ArrayTick(IF wDrive = Off THEN 0 ELSE wDrive + 1, bData, aDrive, aData)
  /\ driven' = IF state = "LOAD_AB" THEN <<>>
               ELSE IF aDrive THEN Append(driven, aData) ELSE driven
  /\ rushed' = IF state = "LOAD_AB" THEN {} ELSE rushed \cup Rushing(hbm)

PortChoices == [Ports -> BOOLEAN]

MmuNext == \E start \in BOOLEAN, hbm \in PortChoices : Tick(start, hbm)

PortAnswers(p) == \E hbm \in PortChoices : hbm[p] /\ Tick(FALSE, hbm)

MmuSpec == MmuInit /\ [][MmuNext]_mmuVars
MmuFairSpec == MmuSpec /\ \A p \in Ports : WF_mmuVars(PortAnswers(p))
-----------------------------------------------------------------------------
MmuTypeOK ==
  /\ state \in {"IDLE", "LOAD_AB", "COMPUTE", "STORE_C", "DONE"}
  /\ cstate \in {"IDLE", "LOAD_W", "STREAM_A"}
  /\ {loadStart, storeStart, fsmDone, aDrive} \subseteq BOOLEAN
  /\ aRead \in Off..(M - 1) /\ bRead \in Off..(K - 1) /\ wDrive \in Off..(K - 1)
  /\ wCnt \in 0..K /\ aCnt \in 0..M /\ cCnt \in 0..M /\ cWr \in 0..(M - 1)
  /\ \A e \in {loadA, loadB} :
       e.state \in {"IDLE", "AR", "R", "DONE"} /\ {e.done, e.we} \subseteq BOOLEAN
  /\ loadA.row \in 0..M /\ loadA.beat \in 1..K
  /\ loadB.row \in 0..K /\ loadB.beat \in 1..N
  /\ \A b \in Bank :
       /\ stores[b].state \in {"IDLE", "AW", "W", "B", "DONE"}
       /\ stores[b].row \in 0..BankRows /\ stores[b].beat \in 1..N

(* The done of an engine is a level that outlives its work, and start is   *)
(* what withdraws it: a done left over from the kernel before must not be  *)
(* taken for this one's.  When the array is loaded and fed, both buffers   *)
(* hold the matrices of this kernel whole (mmu_control.sv, S_LOAD_AB).     *)
LoadedBeforeCompute ==
  state = "COMPUTE" => aMem = MatrixA(job) /\ bMem = MatrixB(job)

(* LATENCY, 2K + 2N - 2 edges, and the way of a row through input skew,    *)
(* mesh and output skew, K + N + 2 edges, differ by Slip: at c_valid of a  *)
(* row the array shows the row driven Slip edges after it, or, when there  *)
(* is none, zeros.                                                         *)
Slip == K + N - 4

RowDriven(i) == IF i \in 1..Len(driven) THEN driven[i] ELSE BlankA

(* What the unit computes for a row of C.                                  *)
Result(row) == RowTimesWeights(RowDriven(row + 1 + Slip))

(* For every mesh: the rows written to the C buffer are the array's        *)
(* successive rows, every lane and column of one row of activations times  *)
(* the weights, never parts of two; the first of them is not the first row *)
(* driven but Slip rows later, and after the last row come zeros           *)
(* (mmu_systolic_array.sv, skews, valid_pipe).                             *)
CapturesWhatWasDriven == CValid => cWr < Len(driven) /\ CRow = Result(cWr)

(* fsm_done, which the host polls, means that every row is in HBM in its   *)
(* place as the unit computed it, whatever the order in which the banks'   *)
(* ports answered; but a row whose AW was taken on the first edge of its   *)
(* offer is there as the row before it in the bank, which the bank still   *)
(* shows (mmu_control.sv S_DONE, mmu_store_engine.sv S_AW).  For the first *)
(* row of a bank that is a row of an earlier kernel.                       *)
DoneMeansStored ==
  fsmDone =>
    /\ Len(driven) = M
    /\ \A b \in Bank, r \in 0..(BankRows - 1) :
         LET row == Place(b, r)
         IN  IF row \notin rushed THEN hbmC[row] = Result(row)
             ELSE r > 0 => hbmC[row] = Result(row - 1)

(* Whatever the host writes meanwhile, an accepted kernel gets to the end  *)
(* of S_STORE_C.  (Not "fsm_done is seen": a start written on the first    *)
(* edge of S_DONE takes the machine to S_IDLE with fsm_done never set.)    *)
KernelCompletes == state = "LOAD_AB" ~> state = "DONE"

(* What the comments say, and the unit does not do; each has a .cfg.       *)

(* "c_valid is a delayed copy of a_valid shifted by the full pipeline      *)
(* latency so the consumer can latch C rows" (mmu_systolic_array.sv).      *)
LatchesItsRow == CValid => CRow = RowTimesWeights(driven[cWr + 1])

(* "BRAM data appears on the same cycle" as w_load_en (mmu_control.sv): a  *)
(* row of the mesh is loaded with that row of B.                           *)
RowsMeetTheirData == wDrive # Off => bData = MatrixB(job)[wDrive]

(* "captured one cycle after bram_re" (mmu_store_engine.sv): the row being *)
(* sent is the row of the bank the engine is at.                           *)
SendsItsRow ==
  \A b \in Bank : StoreSends(stores[b]) =>
    stores[b].data = cMem[b * BankRows + stores[b].row]
=============================================================================
