----------------------------- MODULE Mmu_proofs -----------------------------
(***************************************************************************)
(* Theorems about Mmu: whatever the number of rows, banks and kernels, and *)
(* whenever the memory ports answer.                                       *)
(*                                                                         *)
(* The load engines are followed through the phases of their done, the     *)
(* rows of activations by their age on their way through the array, the    *)
(* store engines by the part of their bank that is in HBM.                 *)
(***************************************************************************)
EXTENDS Mmu, TLAPS, SequenceTheorems

-----------------------------------------------------------------------------
(* The inductive invariant: control, load engines, array, store engines.   *)

ControlInv ==
  /\ state \in {"IDLE", "LOAD_AB", "COMPUTE", "STORE_C", "DONE"}
  /\ cstate \in {"IDLE", "LOAD_W", "STREAM_A"}
  /\ state = "COMPUTE" <=> cstate # "IDLE"
  /\ loadStart \in BOOLEAN /\ (loadStart <=> state = "LOAD_AB")
  /\ storeStart \in BOOLEAN /\ (storeStart <=> state = "STORE_C")
  /\ fsmDone \in BOOLEAN /\ (fsmDone => state = "DONE")
  /\ wCnt \in 0..K /\ job \in Nat
  /\ cstate # "LOAD_W" => wDrive = Off

(* An element of a matrix.                                                 *)
Element == {Nothing} \cup ({"A", "B"} \X Nat \X Nat \X Nat)

LoadKind(rows, beats) ==
  [state : {"IDLE", "AR", "R", "DONE"}, row : 0..rows, beat : 1..beats,
   builder : [1..beats -> Element], done : BOOLEAN, we : BOOLEAN,
   waddr : 0..(rows - 1), wdata : [1..beats -> Element]]

MemKind(rows, beats) == [0..(rows - 1) -> [1..beats -> Element]]

(* The buffer as the engine's write port leaves it.                        *)
After(mem, e) == Written(mem, e.we, e.waddr, e.wdata)

(* While it loads, the rows before the engine's are in the buffer or on    *)
(* its write port, and the beats before the engine's in the row it builds. *)
Loading(e, mem, source, rows) ==
  /\ e.state # "DONE" => ~e.done
  /\ e.state = "IDLE" => ~e.we
  /\ e.state \in {"AR", "R"} => e.row < rows
  /\ e.state = "DONE" => e.row = rows /\ (e.done => ~e.we)
  /\ e.state # "IDLE" => \A r \in 0..(e.row - 1) : After(mem, e)[r] = source[r]
  /\ e.state = "R" => \A k \in 1..(e.beat - 1) : e.builder[k] = source[e.row][k]

(* The phases of an engine: it loads, has loaded, is back in IDLE with a   *)
(* done that it is about to withdraw, or has withdrawn it.  The first edges*)
(* of the compute phase see it through them, long before the next start.   *)
Phase ==
  CASE state = "LOAD_AB"              -> "loads"
    [] cstate = "LOAD_W" /\ wCnt = 0  -> "loaded"
    [] cstate = "LOAD_W" /\ wCnt = 1  -> "back"
    [] OTHER                          -> "rests"

EngineInv(phase, e, mem, source, rows, beats) ==
  /\ e \in LoadKind(rows, beats) /\ mem \in MemKind(rows, beats)
  /\ phase = "loads" => Loading(e, mem, source, rows)
  /\ phase # "loads" => ~e.we
  /\ phase = "loaded" => e.state = "DONE" /\ e.done
  /\ phase = "back" => e.state = "IDLE"
  /\ phase = "rests" => e.state = "IDLE" /\ ~e.done

LoadInv == /\ EngineInv(Phase, loadA, aMem, MatrixA(job), M, K)
           /\ EngineInv(Phase, loadB, bMem, MatrixB(job), K, N)
           /\ LoadedBeforeCompute

-----------------------------------------------------------------------------
(* n is the number of edges in C_STREAM_A.  Row i of the activations is    *)
(* driven on edge i + 1 and is then n - i edges old; its place in skews,   *)
(* mesh and valid pipe is its age.  Before the first row and after the last*)
(* one the places of an age hold what a row of zeros would leave there.    *)

AtMost(i, m) == IF i < m THEN i ELSE m

Partial(row, r, c) == UNION {Product(row[k], w[k][c]) : k \in 1..r}

Counts(n) ==
  /\ aCnt = AtMost(n, M)
  /\ aDrive <=> n \in 1..M
  /\ Len(driven) = IF n = 0 THEN 0 ELSE AtMost(n - 1, M)
  /\ cCnt = IF n <= LATENCY THEN 0 ELSE AtMost(n - LATENCY - 1, M)
  /\ cWr = IF cCnt < M THEN cCnt ELSE 0

(* Where row i, of age a, is.                                              *)
RowAt(row, a) ==
  /\ \A r \in 1..K : \A s \in 1..r : a = s => aSkew[r][s] = row[r]
  /\ \A r \in 1..K, c \in 1..N :
       /\ a = r + c => a1[r][c] = row[r]
       /\ a = r + c + 1 => psum[r][c] = Partial(row, r, c)
  /\ \A c \in 1..N : \A s \in 1..(N + 1 - c) :
       a = K + c + 1 + s => cSkew[c][s] = Partial(row, K, c)

Streams(n) ==
  /\ Counts(n)
  /\ \A p \in 1..LATENCY : validPipe[p] <=> n - p \in 1..M
  /\ \A a \in Nat \ {0} : RowAt(RowDriven(n - a), a)
  /\ \A i \in 1..cCnt : cMem[i - 1] = Result(i - 1)

(* Nothing is on its way.                                                  *)
Empty ==
  /\ \A r \in 1..K : \A s \in 1..r : aSkew[r][s] = Nothing
  /\ \A r \in 1..K, c \in 1..N : a1[r][c] = Nothing /\ psum[r][c] = {}
  /\ \A c \in 1..N : \A s \in 1..(N + 1 - c) : cSkew[c][s] = {}

RowC(f) == f = [c \in 1..N |-> f[c]]

PipeTypes ==
  /\ driven \in Seq([1..K -> Element]) /\ aData \in [1..K -> Element]
  /\ aRead = Off \/ aRead \in 0..(M - 1)
  /\ aDrive \in BOOLEAN /\ validPipe \in [1..LATENCY -> BOOLEAN]
  /\ cMem = [row \in 0..(M - 1) |-> cMem[row]] /\ \A row \in 0..(M - 1) : RowC(cMem[row])

(* In C_STREAM_A rows are on their way, otherwise the array is empty.      *)
PipeInv ==
  /\ PipeTypes
  /\ cstate = "STREAM_A" => \E n \in Nat : Streams(n)
  /\ cstate # "STREAM_A" => ~aDrive /\ (\A p \in 1..LATENCY : ~validPipe[p]) /\ Empty
  /\ cstate = "LOAD_W" => aCnt = 0 /\ cCnt = 0 /\ cWr = 0 /\ driven = <<>>
  /\ state \in {"STORE_C", "DONE"} =>
       /\ Len(driven) = M
       /\ \A row \in 0..(M - 1) : cMem[row] = Result(row)

-----------------------------------------------------------------------------
(* x is what row r of bank b is stored as: the row, or the row before it   *)
(* in the bank if its AW was rushed.                                       *)
StoredAs(b, r, x) ==
  IF Place(b, r) \notin rushed THEN x = cMem[Place(b, r)]
  ELSE r > 0 => x = cMem[Place(b, r - 1)]

InHbm(b, r) == StoredAs(b, r, hbmC[Place(b, r)])

StoreKind(data) ==
  [state : {"IDLE", "AW", "W", "B", "DONE"}, row : 0..BankRows, beat : 1..N, data : {data},
   done : BOOLEAN, re : BOOLEAN, raddr : 0..(BankRows - 1)]

(* While it stores, the rows before the engine's are in HBM, the row it is *)
(* at is on its way from the bank, which shows the row before it on the    *)
(* first edge, in the data register, and in HBM from the first beat to the *)
(* last; the rows after it are not rushed yet.                             *)
Storing(s, b) ==
  /\ s.state # "DONE" => ~s.done
  /\ s.re => s.state = "AW"
  /\ s.state \in {"AW", "W", "B"} => s.row < BankRows
  /\ s.state = "DONE" => s.row = BankRows
  /\ s.state # "IDLE" => \A r \in 0..(s.row - 1) : InHbm(b, r)
  /\ \A r \in 0..(BankRows - 1) :
       s.state = "IDLE" \/ r > s.row \/ (s.state = "AW" /\ r = s.row) => Place(b, r) \notin rushed
  /\ s.state = "AW" /\ s.re =>
       s.raddr = s.row /\ (s.row > 0 => cData[b] = cMem[Place(b, s.row - 1)])
  /\ s.state \in {"AW", "W", "B"} /\ ~s.re => cData[b] = cMem[Place(b, s.row)]
  /\ s.state = "W" => /\ StoredAs(b, s.row, s.data)
                      /\ \A c \in 1..(s.beat - 1) : hbmC[Place(b, s.row)][c] = s.data[c]
  /\ s.state = "B" => InHbm(b, s.row)

BankInv(s, b) ==
  /\ s \in StoreKind(s.data)
  /\ state = "STORE_C" => Storing(s, b)
  /\ state # "STORE_C" => ~s.re /\ s.state \in {"IDLE", "DONE"}
  /\ state \in {"IDLE", "LOAD_AB", "COMPUTE"} => s.state = "IDLE"
  /\ state \in {"LOAD_AB", "COMPUTE"} => ~s.done
  /\ state = "COMPUTE" => rushed = {}
  /\ state = "DONE" => \A r \in 0..(BankRows - 1) : InHbm(b, r)

StoreInv == /\ \A b \in Bank : BankInv(stores[b], b)
            /\ \A row \in 0..(M - 1) : RowC(hbmC[row])

-----------------------------------------------------------------------------
(* Control.                                                                *)

LEMMA Tile == M \in Nat \ {0} /\ N \in Nat \ {0} /\ K \in Nat \ {0}
BY TileAssumption

LEMMA ControlBegins == MmuInit => ControlInv
<1> SUFFICES ASSUME MmuInit PROVE ControlInv
  OBVIOUS
<1>1. ControlInit /\ job = 0
  BY DEF MmuInit
<1>2. 0 \in 0..K
  BY Tile
<1>3. wCnt \in 0..K /\ job \in Nat
  BY <1>1, <1>2 DEF ControlInit
<1> QED BY <1>1, <1>3 DEF ControlInit, ControlInv

LEMMA ControlStep ==
  ASSUME ControlInv, MmuNext
  PROVE  ControlInv'
<1> PICK start \in BOOLEAN, hbm \in PortChoices : Tick(start, hbm)
  BY DEF MmuNext
<1>1. job' \in Nat
  BY DEF Tick, ControlInv
<1>2. ControlTick(start, Loaded, AllStored, CValid)
  BY DEF Tick
<1>3. CASE CtlIdle(start, CValid)
  <2>1. loadStart' = start /\ fsmDone' = FALSE /\ state' = IF start THEN "LOAD_AB" ELSE state
    BY <1>3 DEF CtlIdle, ControlInv
  <2> QED BY <1>1, <1>3, <2>1 DEF CtlIdle, ControlInv, NoPulses
<1>4. CASE CtlLoading(Loaded, CValid)
  BY <1>1, <1>4 DEF CtlLoading, ControlInv, NoPulses
<1>5. CASE CtlLoaded(Loaded)
  <2>1. /\ state = "LOAD_AB" /\ state' = "COMPUTE" /\ cstate' = "LOAD_W" /\ loadStart' = FALSE
        /\ storeStart' = storeStart /\ fsmDone' = fsmDone /\ wCnt' = 0
    BY <1>5 DEF CtlLoaded
  <2>2. storeStart' \in BOOLEAN /\ ~storeStart' /\ fsmDone' \in BOOLEAN /\ ~fsmDone'
    BY <2>1 DEF ControlInv
  <2>3. wCnt' \in 0..K
    BY <2>1, Tile
  <2>4. loadStart' \in BOOLEAN /\ ~loadStart'
    BY <2>1
  <2>5. state' = "COMPUTE" /\ cstate' = "LOAD_W"
    BY <2>1
  <2> HIDE <2>1
  <2> QED BY <1>1, <2>2, <2>3, <2>4, <2>5 DEF ControlInv
<1>6. CASE CtlLoadW(CValid)
  BY <1>1, <1>6, Tile DEF CtlLoadW, ControlInv
<1>7. CASE CtlStreamA(CValid)
  BY <1>1, <1>7 DEF CtlStreamA, ControlInv
<1>8. CASE CtlStoreC(AllStored, CValid)
  <2>1. AllStored \in BOOLEAN
    BY DEF AllStored
  <2> QED BY <1>1, <1>8, <2>1 DEF CtlStoreC, ControlInv, NoPulses
<1>9. CASE CtlDone(start, CValid)
  BY <1>1, <1>9 DEF CtlDone, ControlInv, NoPulses
<1> QED BY <1>2, <1>3, <1>4, <1>5, <1>6, <1>7, <1>8, <1>9 DEF ControlTick

-----------------------------------------------------------------------------
(* The load engines.                                                       *)

LEMMA LoadStep ==
  ASSUME NEW rows \in Nat \ {0}, NEW beats \in Nat \ {0},
         NEW source \in MemKind(rows, beats), NEW e, NEW mem, NEW phase,
         EngineInv(phase, e, mem, source, rows, beats),
         NEW hbm \in BOOLEAN, NEW start \in BOOLEAN, start <=> phase = "loads",
         phase \in {"loads", "loaded", "back", "rests"},
         NEW f, f = LoadNext(e, source, rows, beats, start, hbm),
         NEW mem2, mem2 = After(mem, e)
  PROVE  /\ f \in LoadKind(rows, beats) /\ mem2 \in MemKind(rows, beats)
         /\ phase = "loads" => Loading(f, mem2, source, rows)
         /\ phase = "loads" /\ e.done =>
              mem2 = source /\ f.state = "DONE" /\ f.done /\ ~f.we
         /\ phase # "loads" => mem2 = mem /\ ~f.we
         /\ phase = "loaded" => f.state = "IDLE"
         /\ phase \in {"back", "rests"} => f.state = "IDLE" /\ ~f.done
<1> DEFINE Row  == [1..beats -> Element]
           Adr  == 0..(rows - 1)
           Kind == [state : {"IDLE", "AR", "R", "DONE"}, row : 0..rows, beat : 1..beats,
                    builder : Row, done : BOOLEAN, we : BOOLEAN, waddr : Adr, wdata : Row]
           s    == [e EXCEPT !.we = FALSE]
<1>1. e \in Kind /\ mem \in [Adr -> Row] /\ source \in [Adr -> Row]
  BY DEF EngineInv, LoadKind, MemKind
<1>2. f = CASE s.state = "IDLE" -> LoadIdle(s, start)
            [] s.state = "AR" -> IF hbm THEN [s EXCEPT !.beat = 1, !.state = "R"] ELSE s
            [] s.state = "R" ->
                 IF ~hbm THEN s
                 ELSE IF s.beat = beats THEN LoadCommit(s, source[s.row][s.beat], rows)
                 ELSE LoadStash(s, source[s.row][s.beat])
            [] s.state = "DONE" ->
                 [s EXCEPT !.done = TRUE, !.state = IF start THEN "DONE" ELSE "IDLE"]
  BY DEF LoadNext
<1>3. /\ mem2 \in [Adr -> Row] /\ (~e.we => mem2 = mem)
  <2> HIDE DEF Row, Adr
  <2>1. mem2 = IF e.we THEN [mem EXCEPT ![e.waddr] = e.wdata] ELSE mem
    BY DEF After, Written
  <2> QED BY <1>1, <2>1
<1>4. phase = "loads" => Loading(e, mem, source, rows)
  BY DEF EngineInv
<1>5. phase # "loads" => ~e.we
  BY DEF EngineInv
<1>6. /\ s \in Kind /\ s.we = FALSE /\ s.state = e.state /\ s.row = e.row /\ s.beat = e.beat
      /\ s.builder = e.builder /\ s.done = e.done
  <2> HIDE DEF Row, Adr
  <2> QED BY <1>1
<1>7. \A r \in Adr : source[r] \in Row
  <2> HIDE DEF Row, Adr
  <2> QED BY <1>1
<1> HIDE DEF s
<1>8. ASSUME e.state = "IDLE"
      PROVE  /\ f \in Kind /\ ~f.we /\ ~f.done
             /\ f.state = IF start THEN "AR" ELSE "IDLE"
             /\ start => f.row = 0 /\ f.beat = 1
  <2>1. f = IF start THEN [s EXCEPT !.done = FALSE, !.row = 0, !.beat = 1, !.state = "AR"]
            ELSE [s EXCEPT !.done = FALSE]
    BY <1>2, <1>6, <1>8 DEF LoadIdle
  <2>2. 0 \in 0..rows /\ 1 \in 1..beats
    OBVIOUS
  <2> HIDE DEF Row, Adr
  <2>3. CASE start
    <3>1. f = [s EXCEPT !.done = FALSE, !.row = 0, !.beat = 1, !.state = "AR"]
      BY <2>1, <2>3
    <3>2. f \in Kind
      BY <1>6, <2>2, <3>1
    <3>3. f.we = FALSE /\ f.done = FALSE /\ f.state = "AR" /\ f.row = 0 /\ f.beat = 1
      BY <1>6, <3>1
    <3> QED BY <2>3, <3>2, <3>3
  <2>4. CASE ~start
    BY <1>6, <1>8, <2>1, <2>4
  <2> QED BY <2>3, <2>4
<1>9. ASSUME e.state = "AR"
      PROVE  /\ f \in Kind /\ ~f.we /\ f.done = e.done /\ f.row = e.row
             /\ f.state = "AR" \/ (f.state = "R" /\ f.beat = 1)
  <2>1. f = IF hbm THEN [s EXCEPT !.beat = 1, !.state = "R"] ELSE s
    BY <1>2, <1>6, <1>9
  <2>2. 1 \in 1..beats
    OBVIOUS
  <2> HIDE DEF Row, Adr
  <2>3. CASE hbm
    <3>1. f = [s EXCEPT !.beat = 1, !.state = "R"]
      BY <2>1, <2>3
    <3>2. f \in Kind
      BY <1>6, <2>2, <3>1
    <3>3. f.we = FALSE /\ f.done = e.done /\ f.row = e.row /\ f.state = "R" /\ f.beat = 1
      BY <1>6, <3>1
    <3> QED BY <3>2, <3>3
  <2>4. CASE ~hbm
    <3>1. f = s
      BY <2>1, <2>4
    <3> QED BY <1>6, <1>9, <3>1
  <2> QED BY <2>3, <2>4
<1>10. ASSUME e.state = "R", ~hbm
       PROVE  f = s
  BY <1>2, <1>6, <1>10
<1>11. ASSUME e.state = "R", hbm, e.beat # beats, e.row \in Adr
       PROVE  /\ f \in Kind /\ ~f.we /\ f.done = e.done /\ f.row = e.row /\ f.state = "R"
              /\ f.beat = e.beat + 1
              /\ f.builder = [e.builder EXCEPT ![e.beat] = source[e.row][e.beat]]
  <2>1. f = [s EXCEPT !.builder[s.beat] = source[e.row][e.beat], !.beat = s.beat + 1]
    BY <1>2, <1>6, <1>11 DEF LoadStash
  <2> DEFINE bu == [e.builder EXCEPT ![e.beat] = source[e.row][e.beat]]
  <2>2. f = [s EXCEPT !.builder = bu, !.beat = e.beat + 1]
    BY <1>6, <2>1
  <2>3. bu \in Row
    <3>1. source[e.row] \in Row /\ e.builder \in Row /\ e.beat \in 1..beats
      BY <1>1, <1>7, <1>11
    <3> QED BY <3>1
  <2>4. e.beat + 1 \in 1..beats
    BY <1>1, <1>11
  <2> HIDE DEF Row, Adr, bu
  <2>5. f \in Kind /\ ~f.we /\ f.done = e.done /\ f.row = e.row /\ f.state = "R"
        /\ f.beat = e.beat + 1 /\ f.builder = bu
    BY <1>6, <1>11, <2>2, <2>3, <2>4
  <2> QED BY <2>5 DEF bu
<1>12. ASSUME e.state = "R", hbm, e.beat = beats, e.row \in Adr
       PROVE  /\ f \in Kind /\ f.we /\ f.waddr = e.row /\ f.done = e.done /\ f.row = e.row + 1
              /\ f.wdata = [e.builder EXCEPT ![e.beat] = source[e.row][e.beat]]
              /\ f.state = IF e.row = rows - 1 THEN "DONE" ELSE "AR"
  <2> DEFINE bu == [e.builder EXCEPT ![e.beat] = source[e.row][e.beat]]
             st == IF e.row = rows - 1 THEN "DONE" ELSE "AR"
  <2>1. f = [s EXCEPT !.we = TRUE, !.waddr = e.row, !.wdata = bu, !.row = e.row + 1,
                      !.beat = 1, !.state = st]
    BY <1>2, <1>6, <1>12 DEF LoadCommit
  <2>3. bu \in Row
    <3>1. source[e.row] \in Row /\ e.builder \in Row /\ e.beat \in 1..beats
      BY <1>1, <1>7, <1>12
    <3> QED BY <3>1
  <2>4. e.row + 1 \in 0..rows /\ 1 \in 1..beats
    BY <1>12
  <2> HIDE DEF Row, Adr, bu
  <2>5. f \in Kind /\ f.we /\ f.waddr = e.row /\ f.done = e.done /\ f.row = e.row + 1
        /\ f.wdata = bu /\ f.state = st
    BY <1>6, <1>12, <2>1, <2>3, <2>4
  <2> QED BY <2>5 DEF bu
<1>13. ASSUME e.state = "DONE"
       PROVE  /\ f \in Kind /\ ~f.we /\ f.done /\ f.row = e.row
              /\ f.state = IF start THEN "DONE" ELSE "IDLE"
  <2>1. f = [s EXCEPT !.done = TRUE, !.state = IF start THEN "DONE" ELSE "IDLE"]
    BY <1>2, <1>6, <1>13
  <2> HIDE DEF Row, Adr
  <2> QED BY <1>6, <1>13, <2>1
<1>14. e.state = "R" /\ phase = "loads" => e.row \in Adr
  BY <1>1, <1>4 DEF Loading
<1>15. CASE phase # "loads"
  <2>1. ~start /\ e.state \in {"IDLE", "DONE"}
    BY <1>15 DEF EngineInv
  <2>2. f \in Kind /\ ~f.we /\ f.state = "IDLE" /\ (e.state = "IDLE" => ~f.done)
    BY <1>8, <1>13, <2>1
  <2>3. phase \in {"back", "rests"} => e.state = "IDLE"
    BY DEF EngineInv
  <2> QED BY <1>3, <1>5, <1>15, <2>2, <2>3 DEF LoadKind, MemKind
<1>16. CASE phase = "loads"
  <2>0. start /\ Loading(e, mem, source, rows)
    BY <1>4, <1>16
  <2>1. e.state # "IDLE" => \A r \in 0..(e.row - 1) : mem2[r] = source[r]
    BY <2>0 DEF Loading
  <2>2. \A m : ~f.we => After(m, f) = m
    BY DEF After, Written
  <2>3. CASE e.state = "IDLE"
    <3>1. f \in Kind /\ ~f.we /\ ~f.done /\ f.state = "AR" /\ f.row = 0
      BY <1>8, <2>0, <2>3
    <3>2. ~e.done /\ 0 < rows
      BY <2>0, <2>3 DEF Loading
    <3>3. Loading(f, mem2, source, rows)
      BY <3>1, <3>2 DEF Loading
    <3> QED BY <1>3, <1>16, <3>1, <3>2, <3>3 DEF LoadKind, MemKind
  <2>4. CASE e.state = "AR"
    <3>1. /\ f \in Kind /\ ~f.we /\ f.done = e.done /\ f.row = e.row
          /\ f.state = "AR" \/ (f.state = "R" /\ f.beat = 1)
      BY <1>9, <2>4
    <3>2. ~e.done /\ e.row < rows
      BY <2>0, <2>4 DEF Loading
    <3>3. Loading(f, mem2, source, rows)
      BY <2>1, <2>2, <2>4, <3>1, <3>2 DEF Loading
    <3> QED BY <1>3, <1>16, <3>1, <3>2, <3>3 DEF LoadKind, MemKind
  <2>5. CASE e.state = "R" /\ ~hbm
    <3>1. f \in Kind /\ ~f.we /\ f.state = "R" /\ f.row = e.row /\ f.beat = e.beat
          /\ f.builder = e.builder /\ f.done = e.done
      BY <1>6, <1>10, <2>5
    <3>2. ~e.done /\ e.row < rows /\ \A k \in 1..(e.beat - 1) : e.builder[k] = source[e.row][k]
      BY <2>0, <2>5 DEF Loading
    <3>3. Loading(f, mem2, source, rows)
      BY <2>1, <2>2, <2>5, <3>1, <3>2 DEF Loading
    <3> QED BY <1>3, <1>16, <3>1, <3>2, <3>3 DEF LoadKind, MemKind
  <2>6. CASE e.state = "R" /\ hbm
    <3>1. /\ ~e.done /\ e.row < rows /\ e.row \in Adr /\ e.beat \in 1..beats
          /\ e.builder \in [1..beats -> Element] /\ source[e.row] \in [1..beats -> Element]
          /\ \A k \in 1..(e.beat - 1) : e.builder[k] = source[e.row][k]
      BY <1>1, <1>7, <1>14, <1>16, <2>0, <2>6 DEF Loading
    <3> DEFINE bu == [e.builder EXCEPT ![e.beat] = source[e.row][e.beat]]
    <3>2. bu \in [1..beats -> Element] /\ \A k \in 1..e.beat : bu[k] = source[e.row][k]
      BY <3>1
    <3>3. CASE e.beat # beats
      <4>1. /\ f \in Kind /\ ~f.we /\ f.done = e.done /\ f.row = e.row /\ f.state = "R"
            /\ f.beat = e.beat + 1 /\ f.builder = bu
        BY <1>11, <2>6, <3>1, <3>3
      <4>2. f.beat - 1 = e.beat
        BY <3>1, <4>1
      <4>3. \A k \in 1..(f.beat - 1) : f.builder[k] = source[f.row][k]
        BY <3>2, <4>1, <4>2
      <4>4. \A r \in 0..(f.row - 1) : After(mem2, f)[r] = source[r]
        <5>1. After(mem2, f) = mem2 /\ f.row = e.row
          BY <2>2, <4>1
        <5>2. \A r \in 0..(e.row - 1) : mem2[r] = source[r]
          BY <2>1, <2>6
        <5> HIDE <4>1
        <5> QED BY <5>1, <5>2
      <4> HIDE DEF bu
      <4>5. Loading(f, mem2, source, rows)
        <5>1. f.state = "R" /\ ~f.done /\ f.row < rows
          BY <3>1, <4>1
        <5> HIDE <4>1
        <5> QED BY <4>3, <4>4, <5>1 DEF Loading
      <4> QED BY <1>3, <1>16, <3>1, <4>1, <4>5 DEF LoadKind, MemKind
    <3>4. CASE e.beat = beats
      <4>1. /\ f \in Kind /\ f.we /\ f.waddr = e.row /\ f.done = e.done /\ f.row = e.row + 1
            /\ f.wdata = bu /\ f.state = IF e.row = rows - 1 THEN "DONE" ELSE "AR"
        BY <1>12, <2>6, <3>1, <3>4
      <4>2. bu = source[e.row]
        BY <3>1, <3>2, <3>4
      <4> HIDE DEF bu
      <4>3. After(mem2, f) = [mem2 EXCEPT ![e.row] = source[e.row]]
        BY <4>1, <4>2 DEF After, Written
      <4>4. \A r \in 0..(f.row - 1) : After(mem2, f)[r] = source[r]
        <5>1. \A r \in 0..(f.row - 1) : r \in Adr /\ (r = e.row \/ r \in 0..(e.row - 1))
          BY <3>1, <4>1
        <5> HIDE DEF Adr, Row
        <5>2. \A r \in Adr : [mem2 EXCEPT ![e.row] = source[e.row]][r] =
                             IF r = e.row THEN source[e.row] ELSE mem2[r]
          BY <1>3
        <5>3. \A r \in 0..(e.row - 1) : mem2[r] = source[r]
          BY <2>1, <2>6
        <5> QED BY <4>3, <5>1, <5>2, <5>3
      <4>5. /\ f.state = "AR" => f.row < rows
            /\ f.state = "DONE" => f.row = rows
            /\ f.state \in {"AR", "DONE"} /\ ~f.done
        <5>1. e.row \in 0..(rows - 1)
          BY <3>1
        <5>2. CASE e.row = rows - 1
          BY <3>1, <4>1, <5>1, <5>2
        <5>3. CASE e.row # rows - 1
          BY <3>1, <4>1, <5>1, <5>3
        <5> QED BY <5>2, <5>3
      <4>6. Loading(f, mem2, source, rows)
        BY <4>4, <4>5 DEF Loading
      <4> QED BY <1>3, <1>16, <3>1, <4>1, <4>6 DEF LoadKind, MemKind
    <3> QED BY <3>3, <3>4
  <2>7. CASE e.state = "DONE"
    <3>1. f \in Kind /\ ~f.we /\ f.done /\ f.row = e.row /\ f.state = "DONE"
      BY <1>13, <2>0, <2>7
    <3>2. e.row = rows /\ \A r \in Adr : mem2[r] = source[r]
      BY <2>0, <2>1, <2>7 DEF Loading
    <3>3. mem2 = source
      <4> HIDE DEF Adr, Row
      <4> QED BY <1>1, <1>3, <3>2
    <3>4. Loading(f, mem2, source, rows)
      BY <2>1, <2>2, <2>7, <3>1, <3>2 DEF Loading
    <3> QED BY <1>3, <1>16, <3>1, <3>3, <3>4 DEF LoadKind, MemKind
  <2>8. e.state \in {"IDLE", "AR", "R", "DONE"}
    BY <1>1
  <2> QED BY <2>3, <2>4, <2>5, <2>6, <2>7, <2>8
<1> QED BY <1>15, <1>16

LEMMA PhaseStep ==
  ASSUME ControlInv, MmuNext
  PROVE  /\ Phase \in {"loads", "loaded", "back", "rests"}
         /\ Phase = "loads" <=> state = "LOAD_AB"
         /\ Phase = "loads" => Phase' = "loads" \/ (Phase' = "loaded" /\ Loaded)
         /\ Phase = "loaded" => Phase' = "back"
         /\ Phase = "back" => Phase' = "rests"
         /\ Phase = "rests" => Phase' \in {"rests", "loads"}
         /\ job' = job \/ (Phase = "rests" /\ Phase' = "loads")
         /\ state' = "COMPUTE" => state = "COMPUTE" \/ (Phase = "loads" /\ Phase' = "loaded")
<1> PICK start \in BOOLEAN, hbm \in PortChoices : Tick(start, hbm)
  BY DEF MmuNext
<1>0. K > 0 /\ K \in Nat
  BY Tile
<1>1. ControlTick(start, Loaded, AllStored, CValid)
      /\ job' = IF start /\ state = "IDLE" THEN job + 1 ELSE job
  BY DEF Tick
<1>2. /\ state \in {"IDLE", "LOAD_AB", "COMPUTE", "STORE_C", "DONE"}
      /\ cstate \in {"IDLE", "LOAD_W", "STREAM_A"}
      /\ state = "COMPUTE" <=> cstate # "IDLE"
      /\ wCnt \in 0..K
  BY DEF ControlInv
<1>3. CASE CtlIdle(start, CValid)
  BY <1>1, <1>2, <1>3 DEF CtlIdle, Phase
<1>4. CASE CtlLoading(Loaded, CValid)
  BY <1>1, <1>2, <1>4 DEF CtlLoading, Phase
<1>5. CASE CtlLoaded(Loaded)
  BY <1>1, <1>2, <1>5 DEF CtlLoaded, Phase
<1>6. CASE CtlLoadW(CValid)
  <2>1. /\ state = "COMPUTE" /\ state' = "COMPUTE" /\ cstate = "LOAD_W"
        /\ \/ wCnt < K /\ wCnt' = wCnt + 1 /\ cstate' = "LOAD_W"
           \/ wCnt = K /\ wCnt' = wCnt /\ cstate' = "STREAM_A"
    BY <1>6 DEF CtlLoadW
  <2>2. Phase = IF wCnt = 0 THEN "loaded" ELSE IF wCnt = 1 THEN "back" ELSE "rests"
    BY <2>1 DEF Phase
  <2>3. Phase' = IF cstate' = "LOAD_W" /\ wCnt' = 0 THEN "loaded"
                 ELSE IF cstate' = "LOAD_W" /\ wCnt' = 1 THEN "back" ELSE "rests"
    BY <2>1 DEF Phase
  <2> QED BY <1>0, <1>1, <1>2, <2>1, <2>2, <2>3
<1>7. CASE CtlStreamA(CValid)
  BY <1>1, <1>2, <1>7 DEF CtlStreamA, Phase
<1>8. CASE CtlStoreC(AllStored, CValid)
  BY <1>1, <1>2, <1>8 DEF CtlStoreC, Phase
<1>9. CASE CtlDone(start, CValid)
  BY <1>1, <1>2, <1>9 DEF CtlDone, Phase
<1> QED BY <1>1, <1>3, <1>4, <1>5, <1>6, <1>7, <1>8, <1>9 DEF ControlTick

LEMMA Matrices ==
  ASSUME NEW j \in Nat
  PROVE  MatrixA(j) \in MemKind(M, K) /\ MatrixB(j) \in MemKind(K, N)
<1>1. \A row \in 0..(M - 1), k \in 1..K : <<"A", j, row, k>> \in Element
  BY Tile DEF Element
<1>2. \A row \in 0..(K - 1), c \in 1..N : <<"B", j, row, c>> \in Element
  BY Tile DEF Element
<1> QED BY <1>1, <1>2 DEF MatrixA, MatrixB, MemKind

LEMMA LoadBegins == MmuInit => LoadInv
<1> SUFFICES ASSUME MmuInit PROVE LoadInv
  OBVIOUS
<1>1. Phase = "rests" /\ state = "IDLE"
  BY DEF MmuInit, ControlInit, Phase
<1>2. Nothing \in Element
  BY DEF Element
<1>3. ASSUME NEW rows \in Nat \ {0}, NEW beats \in Nat \ {0}, NEW source,
             NEW blank, blank = [k \in 1..beats |-> Nothing]
      PROVE  EngineInv("rests", LoadReset(blank), [row \in 0..(rows - 1) |-> blank],
                       source, rows, beats)
  <2>1. blank \in [1..beats -> Element] /\ 0 \in 0..(rows - 1) /\ 0 \in 0..rows /\ 1 \in 1..beats
    BY <1>2, <1>3
  <2> DEFINE Row == [1..beats -> Element]
             Adr == 0..(rows - 1)
  <2>2. blank \in Row /\ 0 \in Adr
    BY <2>1
  <2> HIDE DEF Row, Adr
  <2>3. LoadReset(blank) \in [state : {"IDLE", "AR", "R", "DONE"}, row : 0..rows, beat : 1..beats,
                              builder : Row, done : BOOLEAN, we : BOOLEAN,
                              waddr : Adr, wdata : Row]
    BY <2>1, <2>2 DEF LoadReset
  <2>4. [row \in Adr |-> blank] \in [Adr -> Row]
    BY <2>2
  <2>5. LoadReset(blank).state = "IDLE" /\ ~LoadReset(blank).done /\ ~LoadReset(blank).we
    BY DEF LoadReset
  <2> QED BY <2>3, <2>4, <2>5 DEF EngineInv, LoadKind, MemKind, Row, Adr
<1>4. LoadReset(BlankA) = loadA /\ LoadReset(BlankB) = loadB
      /\ aMem = [row \in 0..(M - 1) |-> BlankA] /\ bMem = [row \in 0..(K - 1) |-> BlankB]
  BY DEF MmuInit
<1>5. BlankA = [k \in 1..K |-> Nothing] /\ BlankB = [k \in 1..N |-> Nothing]
  BY DEF BlankA, BlankB
<1>6. EngineInv("rests", LoadReset(BlankA), [row \in 0..(M - 1) |-> BlankA], MatrixA(job), M, K)
  BY <1>3, <1>5, Tile
<1>7. EngineInv("rests", LoadReset(BlankB), [row \in 0..(K - 1) |-> BlankB], MatrixB(job), K, N)
  BY <1>3, <1>5, Tile
<1> QED BY <1>1, <1>4, <1>6, <1>7 DEF LoadInv, LoadedBeforeCompute

(* The engine in the phase after.                                          *)
LEMMA EngineGoesOn ==
  ASSUME NEW rows \in Nat \ {0}, NEW beats \in Nat \ {0},
         NEW source \in MemKind(rows, beats), NEW e, NEW mem, NEW phase,
         EngineInv(phase, e, mem, source, rows, beats),
         NEW hbm \in BOOLEAN, NEW start \in BOOLEAN, start <=> phase = "loads",
         phase \in {"loads", "loaded", "back", "rests"},
         NEW f, f = LoadNext(e, source, rows, beats, start, hbm),
         NEW mem2, mem2 = Written(mem, e.we, e.waddr, e.wdata),
         NEW phase2, NEW source2,
         phase = "loads" => phase2 = "loads" \/ (phase2 = "loaded" /\ e.done),
         phase = "loaded" => phase2 = "back",
         phase = "back" => phase2 = "rests",
         phase = "rests" => phase2 \in {"rests", "loads"},
         source2 = source \/ (phase = "rests" /\ phase2 = "loads")
  PROVE  /\ EngineInv(phase2, f, mem2, source2, rows, beats)
         /\ phase = "loads" /\ phase2 = "loaded" => mem2 = source
         /\ phase # "loads" => mem2 = mem
<1>1. mem2 = After(mem, e)
  BY DEF After
<1>2. /\ f \in LoadKind(rows, beats) /\ mem2 \in MemKind(rows, beats)
      /\ phase = "loads" => Loading(f, mem2, source, rows)
      /\ phase = "loads" /\ e.done =>
           mem2 = source /\ f.state = "DONE" /\ f.done /\ ~f.we
      /\ phase # "loads" => mem2 = mem /\ ~f.we
      /\ phase = "loaded" => f.state = "IDLE"
      /\ phase \in {"back", "rests"} => f.state = "IDLE" /\ ~f.done
  BY <1>1, LoadStep
<1>3. phase = "rests" /\ phase2 = "loads" => Loading(f, mem2, source2, rows)
  BY <1>2 DEF Loading
<1> QED BY <1>2, <1>3 DEF EngineInv

LEMMA LoadInvStep ==
  ASSUME ControlInv, LoadInv, MmuNext
  PROVE  LoadInv'
<1> PICK start \in BOOLEAN, hbm \in PortChoices : Tick(start, hbm)
  BY DEF MmuNext
<1>1. /\ Phase \in {"loads", "loaded", "back", "rests"}
      /\ Phase = "loads" <=> state = "LOAD_AB"
      /\ Phase = "loads" => Phase' = "loads" \/ (Phase' = "loaded" /\ Loaded)
      /\ Phase = "loaded" => Phase' = "back"
      /\ Phase = "back" => Phase' = "rests"
      /\ Phase = "rests" => Phase' \in {"rests", "loads"}
      /\ job' = job \/ (Phase = "rests" /\ Phase' = "loads")
      /\ state' = "COMPUTE" => state = "COMPUTE" \/ (Phase = "loads" /\ Phase' = "loaded")
  BY PhaseStep
<1>2. /\ loadA' = LoadNext(loadA, MatrixA(job), M, K, loadStart, hbm[PortA])
      /\ loadB' = LoadNext(loadB, MatrixB(job), K, N, loadStart, hbm[PortB])
      /\ aMem' = Written(aMem, loadA.we, loadA.waddr, loadA.wdata)
      /\ bMem' = Written(bMem, loadB.we, loadB.waddr, loadB.wdata)
  BY DEF Tick, Buffers
<1>3. hbm[PortA] \in BOOLEAN /\ hbm[PortB] \in BOOLEAN
  <2>1. Banks \in Nat
    BY BankAssumption
  <2>2. PortA \in Ports /\ PortB \in Ports
    BY <2>1 DEF PortA, PortB, Ports
  <2> QED BY <2>2 DEF PortChoices
<1>4. loadStart \in BOOLEAN /\ (loadStart <=> Phase = "loads") /\ job \in Nat
  BY <1>1 DEF ControlInv
<1>5. Loaded => loadA.done /\ loadB.done
  BY DEF Loaded
<1>6. MatrixA(job) \in MemKind(M, K) /\ MatrixB(job) \in MemKind(K, N)
  BY <1>4, Matrices
<1>7. \/ MatrixA(job') = MatrixA(job) /\ MatrixB(job') = MatrixB(job)
      \/ Phase = "rests" /\ Phase' = "loads"
  BY <1>1
<1>8. EngineInv(Phase, loadA, aMem, MatrixA(job), M, K)
      /\ EngineInv(Phase, loadB, bMem, MatrixB(job), K, N)
  BY DEF LoadInv
<1>9. /\ EngineInv(Phase', loadA', aMem', MatrixA(job'), M, K)
      /\ Phase = "loads" /\ Phase' = "loaded" => aMem' = MatrixA(job)
      /\ Phase # "loads" => aMem' = aMem
  <2>1. PICK p, q, s, s2, e, f, m, m2, h, st :
          /\ p = Phase /\ q = Phase' /\ s = MatrixA(job) /\ s2 = MatrixA(job')
          /\ e = loadA /\ f = loadA' /\ m = aMem /\ m2 = aMem' /\ h = hbm[PortA] /\ st = loadStart
    OBVIOUS
  <2>2. /\ M \in Nat \ {0} /\ K \in Nat \ {0} /\ s \in MemKind(M, K)
        /\ EngineInv(p, e, m, s, M, K) /\ h \in BOOLEAN
        /\ st \in BOOLEAN /\ (st <=> p = "loads")
        /\ p \in {"loads", "loaded", "back", "rests"}
        /\ f = LoadNext(e, s, M, K, st, h)
        /\ m2 = Written(m, e.we, e.waddr, e.wdata)
    BY <1>1, <1>2, <1>3, <1>4, <1>6, <1>8, <2>1, Tile
  <2>3. /\ p = "loads" => q = "loads" \/ (q = "loaded" /\ e.done)
        /\ p = "loaded" => q = "back"
        /\ p = "back" => q = "rests"
        /\ p = "rests" => q \in {"rests", "loads"}
        /\ s2 = s \/ (p = "rests" /\ q = "loads")
    BY <1>1, <1>5, <1>7, <2>1
  <2>4. /\ EngineInv(q, f, m2, s2, M, K)
        /\ p = "loads" /\ q = "loaded" => m2 = s
        /\ p # "loads" => m2 = m
    BY <2>2, <2>3, EngineGoesOn, SMTT(30)
  <2> QED BY <2>1, <2>4
<1>10. /\ EngineInv(Phase', loadB', bMem', MatrixB(job'), K, N)
       /\ Phase = "loads" /\ Phase' = "loaded" => bMem' = MatrixB(job)
       /\ Phase # "loads" => bMem' = bMem
  <2>1. PICK p, q, s, s2, e, f, m, m2, h, st :
          /\ p = Phase /\ q = Phase' /\ s = MatrixB(job) /\ s2 = MatrixB(job')
          /\ e = loadB /\ f = loadB' /\ m = bMem /\ m2 = bMem' /\ h = hbm[PortB] /\ st = loadStart
    OBVIOUS
  <2>2. /\ K \in Nat \ {0} /\ N \in Nat \ {0} /\ s \in MemKind(K, N)
        /\ EngineInv(p, e, m, s, K, N) /\ h \in BOOLEAN
        /\ st \in BOOLEAN /\ (st <=> p = "loads")
        /\ p \in {"loads", "loaded", "back", "rests"}
        /\ f = LoadNext(e, s, K, N, st, h)
        /\ m2 = Written(m, e.we, e.waddr, e.wdata)
    BY <1>1, <1>2, <1>3, <1>4, <1>6, <1>8, <2>1, Tile
  <2>3. /\ p = "loads" => q = "loads" \/ (q = "loaded" /\ e.done)
        /\ p = "loaded" => q = "back"
        /\ p = "back" => q = "rests"
        /\ p = "rests" => q \in {"rests", "loads"}
        /\ s2 = s \/ (p = "rests" /\ q = "loads")
    BY <1>1, <1>5, <1>7, <2>1
  <2>4. /\ EngineInv(q, f, m2, s2, K, N)
        /\ p = "loads" /\ q = "loaded" => m2 = s
        /\ p # "loads" => m2 = m
    BY <2>2, <2>3, EngineGoesOn, SMTT(30)
  <2> QED BY <2>1, <2>4
<1>11. LoadedBeforeCompute'
  <2> SUFFICES ASSUME state' = "COMPUTE"
               PROVE  aMem' = MatrixA(job') /\ bMem' = MatrixB(job')
    BY DEF LoadedBeforeCompute
  <2>1. CASE state = "COMPUTE"
    <3>1. Phase # "loads" /\ aMem = MatrixA(job) /\ bMem = MatrixB(job)
      BY <1>1, <2>1 DEF LoadInv, LoadedBeforeCompute
    <3>2. Phase' # "loads"
      BY DEF Phase
    <3> QED BY <1>7, <1>9, <1>10, <3>1, <3>2
  <2>2. CASE Phase = "loads" /\ Phase' = "loaded"
    BY <1>7, <1>9, <1>10, <2>2
  <2> QED BY <1>1, <2>1, <2>2
<1> QED BY <1>9, <1>10, <1>11 DEF LoadInv

-----------------------------------------------------------------------------
(* The array.  A row moves on by one place on every edge.                  *)

(* The way of a row through skews and mesh, in edges.                      *)
Way == K + N + 2

(* Rows of two beats and more make LATENCY at least that long.             *)
LEMMA WayAndSlip == Slip \in Nat /\ Way \in Nat /\ LATENCY = Way + Slip
BY Tile, RowAssumption DEF Slip, Way, LATENCY

LEMMA PartialGrows ==
  ASSUME NEW row, NEW r \in 1..K, NEW c
  PROVE  /\ r > 1 => Partial(row, r, c) = Partial(row, r - 1, c) \cup Product(row[r], w[r][c])
         /\ r = 1 => Partial(row, r, c) = Product(row[r], w[r][c])
<1>1. K \in Nat
  BY Tile
<1>2. ASSUME NEW q
      PROVE  \A x : x \in Partial(row, q, c) <=> \E k \in 1..q : x \in Product(row[k], w[k][c])
  BY DEF Partial
<1>3. CASE r > 1
  <2>1. 1..r = (1..(r - 1)) \cup {r}
    BY <1>1, <1>3
  <2>2. \A x : x \in Partial(row, r, c)
                 <=> x \in Partial(row, r - 1, c) \/ x \in Product(row[r], w[r][c])
    BY <1>2, <2>1
  <2> QED BY <1>3, <2>2
<1>4. CASE r = 1
  <2>1. 1..r = {r}
    BY <1>4
  <2>2. \A x : x \in Partial(row, r, c) <=> x \in Product(row[r], w[r][c])
    BY <1>2, <2>1
  <2> QED BY <1>4, <2>2
<1>5. r > 1 \/ r = 1
  BY <1>1
<1> QED BY <1>3, <1>4, <1>5

LEMMA WeightsStay ==
  ASSUME wDrive = Off, NEW d, NEW v, NEW x,
         ArrayTick(IF wDrive = Off THEN 0 ELSE wDrive + 1, d, v, x)
  PROVE  /\ \A r \in 1..K : w'[r] = w[r]
         /\ \A row, r, c : r \in 1..K => Partial(row, r, c)' = Partial(row, r, c)
         /\ \A row : RowTimesWeights(row)' = RowTimesWeights(row)
<1>1. \A r \in 1..K : w'[r] = w[r]
  <2>1. w' = [r \in 1..K |-> IF r = 0 THEN d ELSE w[r]]
    BY DEF ArrayTick
  <2> QED BY <2>1
<1>2. ASSUME NEW row, NEW r \in 1..K, NEW c
      PROVE  Partial(row, r, c)' = Partial(row, r, c)
  <2>1. \A k \in 1..r : k \in 1..K
    BY Tile
  <2> QED BY <1>1, <2>1 DEF Partial
<1>3. ASSUME NEW row
      PROVE  RowTimesWeights(row)' = RowTimesWeights(row)
  BY <1>1 DEF RowTimesWeights
<1> QED BY <1>1, <1>2, <1>3

LEMMA RowMoves ==
  ASSUME wDrive = Off, NEW d, NEW v, NEW x,
         ArrayTick(IF wDrive = Off THEN 0 ELSE wDrive + 1, d, v, x),
         NEW CONSTANT row, NEW CONSTANT a \in Nat \ {0}, RowAt(row, a)
  PROVE  RowAt(row, a + 1)'
<1>0. K \in Nat /\ N \in Nat /\ K > 0 /\ N > 0
  BY Tile
<1>1. ASSUME NEW r \in 1..K, NEW s \in 1..r, a + 1 = s
      PROVE  aSkew'[r][s] = row[r]
  <2>1. aSkew'[r][s] = IF s > 1 THEN aSkew[r][s - 1] ELSE IF v THEN x[r] ELSE Nothing
    BY DEF ArrayTick
  <2>2. s > 1 /\ s - 1 = a /\ s - 1 \in 1..r
    BY <1>0, <1>1
  <2> QED BY <2>1, <2>2 DEF RowAt
<1>2. ASSUME NEW r \in 1..K, NEW c \in 1..N, a + 1 = r + c
      PROVE  a1'[r][c] = row[r]
  <2>1. a1'[r][c] = IF c = 1 THEN aSkew[r][r] ELSE a1[r][c - 1]
    BY DEF ArrayTick, AIn
  <2>2. CASE c = 1
    <3>1. a = r /\ r \in 1..r
      BY <1>0, <1>2, <2>2
    <3> QED BY <2>1, <2>2, <3>1 DEF RowAt
  <2>3. CASE c # 1
    <3>1. c - 1 \in 1..N /\ a = r + (c - 1)
      BY <1>0, <1>2, <2>3
    <3> QED BY <2>1, <2>3, <3>1 DEF RowAt
  <2> QED BY <2>2, <2>3
<1>3. ASSUME NEW r \in 1..K, NEW c \in 1..N, a + 1 = r + c + 1
      PROVE  psum'[r][c] = Partial(row, r, c)'
  <2>1. psum'[r][c] = (IF r = 1 THEN {} ELSE psum[r - 1][c]) \cup Product(a1[r][c], w[r][c])
    BY DEF ArrayTick, PsumIn
  <2>2. a1[r][c] = row[r]
    <3>1. a = r + c
      BY <1>0, <1>3
    <3> QED BY <3>1 DEF RowAt
  <2>3. Partial(row, r, c)' = Partial(row, r, c)
    BY WeightsStay
  <2>4. CASE r = 1
    BY <2>1, <2>2, <2>3, <2>4, PartialGrows
  <2>5. CASE r # 1
    <3>1. r - 1 \in 1..K /\ a = (r - 1) + c + 1 /\ r > 1
      BY <1>0, <1>3, <2>5
    <3>2. psum[r - 1][c] = Partial(row, r - 1, c)
      BY <3>1 DEF RowAt
    <3> QED BY <2>1, <2>2, <2>3, <2>5, <3>1, <3>2, PartialGrows
  <2> QED BY <2>4, <2>5
<1>4. ASSUME NEW c \in 1..N, NEW s \in 1..(N + 1 - c), a + 1 = K + c + 1 + s
      PROVE  cSkew'[c][s] = Partial(row, K, c)'
  <2>1. cSkew'[c][s] = IF s > 1 THEN cSkew[c][s - 1] ELSE psum[K][c]
    BY DEF ArrayTick
  <2>2. K \in 1..K
    BY <1>0
  <2>3. Partial(row, K, c)' = Partial(row, K, c)
    BY <2>2, WeightsStay
  <2>4. CASE s > 1
    <3>1. s - 1 \in 1..(N + 1 - c) /\ a = K + c + 1 + (s - 1)
      BY <1>0, <1>4, <2>4
    <3> QED BY <2>1, <2>3, <2>4, <3>1 DEF RowAt
  <2>5. CASE ~(s > 1)
    <3>1. a = K + c + 1
      BY <1>0, <1>4, <2>5
    <3> QED BY <2>1, <2>2, <2>3, <2>5, <3>1 DEF RowAt
  <2> QED BY <2>4, <2>5
<1> QED BY <1>1, <1>2, <1>3, <1>4 DEF RowAt

LEMMA RowEnters ==
  ASSUME NEW q, NEW d, NEW v \in BOOLEAN, NEW x, ArrayTick(q, d, v, x),
         NEW CONSTANT row, row = IF v THEN x ELSE BlankA
  PROVE  RowAt(row, 1)'
<1>0. K \in Nat /\ N \in Nat /\ K > 0 /\ N > 0
  BY Tile
<1>1. ASSUME NEW r \in 1..K, NEW s \in 1..r, 1 = s
      PROVE  aSkew'[r][s] = row[r]
  <2>1. aSkew'[r][s] = IF v THEN x[r] ELSE Nothing
    BY <1>0, <1>1 DEF ArrayTick
  <2>2. ~v => row[r] = Nothing
    BY DEF BlankA
  <2> QED BY <2>1, <2>2
<1>2. \A r \in 1..K, c \in 1..N : ~(1 = r + c) /\ ~(1 = r + c + 1)
  BY <1>0
<1>3. ASSUME NEW c \in 1..N, NEW s \in 1..(N + 1 - c)
      PROVE  ~(1 = K + c + 1 + s)
  BY <1>0
<1> QED BY <1>1, <1>2, <1>3 DEF RowAt

(* Past the last place of the way there is none.                           *)
LEMMA NoPlace ==
  ASSUME NEW CONSTANT a \in Nat, a > Way
  PROVE  /\ \A r \in 1..K : \A s \in 1..r : a # s
         /\ \A r \in 1..K, c \in 1..N : a # r + c /\ a # r + c + 1
         /\ \A c \in 1..N : \A s \in 1..(N + 1 - c) : a # K + c + 1 + s
BY Tile DEF Way

(* A row of zeros leaves no products.                                      *)
LEMMA ZerosLeaveNothing ==
  /\ \A r \in 1..K : \A c : Partial(BlankA, r, c) = {}
  /\ RowTimesWeights(BlankA) = BlankC
<1>1. \A k \in 1..K : \A c : Product(BlankA[k], w[k][c]) = {}
  BY DEF Product, BlankA
<1>2. ASSUME NEW r \in 1..K, NEW c
      PROVE  UNION {Product(BlankA[k], w[k][c]) : k \in 1..r} = {}
  <2>1. \A k \in 1..r : Product(BlankA[k], w[k][c]) = {}
    <3>1. \A k \in 1..r : k \in 1..K
      BY Tile
    <3> QED BY <1>1, <3>1
  <2> QED BY <2>1
<1>3. K \in 1..K
  BY Tile
<1>4. \A c \in 1..N : UNION {Product(BlankA[k], w[k][c]) : k \in 1..K} = {}
  BY <1>2, <1>3
<1> QED BY <1>2, <1>4 DEF Partial, RowTimesWeights, BlankC

LEMMA EmptyIsZeros == Empty => \A a \in Nat \ {0} : RowAt(BlankA, a)
<1> SUFFICES ASSUME Empty, NEW a \in Nat \ {0} PROVE RowAt(BlankA, a)
  OBVIOUS
<1>1. \A r \in 1..K : BlankA[r] = Nothing
  BY DEF BlankA
<1>2. \A r \in 1..K : \A c : Partial(BlankA, r, c) = {}
  BY ZerosLeaveNothing
<1>3. K \in 1..K
  BY Tile
<1> QED BY <1>1, <1>2, <1>3 DEF Empty, RowAt

LEMMA ZerosAreEmpty == (\A a \in Nat \ {0} : RowAt(BlankA, a)) => Empty
<1> SUFFICES ASSUME \A a \in Nat \ {0} : RowAt(BlankA, a) PROVE Empty
  OBVIOUS
<1>0. K \in Nat /\ N \in Nat /\ K > 0 /\ N > 0
  BY Tile
<1>1. \A r \in 1..K : BlankA[r] = Nothing
  BY DEF BlankA
<1>2. \A r \in 1..K : \A c : Partial(BlankA, r, c) = {}
  BY ZerosLeaveNothing
<1>3. ASSUME NEW r \in 1..K, NEW s \in 1..r
      PROVE  aSkew[r][s] = Nothing
  <2>1. s \in Nat \ {0}
    OBVIOUS
  <2>2. RowAt(BlankA, s)
    BY <2>1
  <2> QED BY <1>1, <2>2 DEF RowAt
<1>4. ASSUME NEW r \in 1..K, NEW c \in 1..N
      PROVE  a1[r][c] = Nothing /\ psum[r][c] = {}
  <2>1. r + c \in Nat \ {0} /\ r + c + 1 \in Nat \ {0}
    BY <1>0
  <2>2. RowAt(BlankA, r + c) /\ RowAt(BlankA, r + c + 1)
    BY <2>1
  <2> QED BY <1>1, <1>2, <2>2 DEF RowAt
<1>5. ASSUME NEW c \in 1..N, NEW s \in 1..(N + 1 - c)
      PROVE  cSkew[c][s] = {}
  <2>1. K + c + 1 + s \in Nat \ {0} /\ K \in 1..K
    BY <1>0
  <2>2. RowAt(BlankA, K + c + 1 + s)
    BY <2>1
  <2> QED BY <1>2, <2>1, <2>2 DEF RowAt
<1> QED BY <1>3, <1>4, <1>5 DEF Empty

(* An empty array that is not fed stays empty, whatever weights it loads.  *)
LEMMA EmptyStays ==
  ASSUME Empty, NEW q, NEW d, NEW x, ArrayTick(q, d, FALSE, x)
  PROVE  Empty'
<1>0. K \in Nat /\ N \in Nat /\ K > 0 /\ N > 0
  BY Tile
<1>1. ASSUME NEW r \in 1..K, NEW s \in 1..r
      PROVE  aSkew'[r][s] = Nothing
  <2>1. s > 1 => s - 1 \in 1..r
    BY <1>0
  <2>2. aSkew'[r][s] = IF s > 1 THEN aSkew[r][s - 1] ELSE Nothing
    BY DEF ArrayTick
  <2> QED BY <2>1, <2>2 DEF Empty
<1>2. ASSUME NEW r \in 1..K, NEW c \in 1..N
      PROVE  a1'[r][c] = Nothing /\ psum'[r][c] = {}
  <2>1. (c # 1 => c - 1 \in 1..N) /\ (r # 1 => r - 1 \in 1..K) /\ r \in 1..r
    BY <1>0
  <2>2. a1'[r][c] = IF c = 1 THEN aSkew[r][r] ELSE a1[r][c - 1]
    BY DEF ArrayTick, AIn
  <2>3. psum'[r][c] = (IF r = 1 THEN {} ELSE psum[r - 1][c]) \cup Product(a1[r][c], w[r][c])
    BY DEF ArrayTick, PsumIn
  <2>4. Product(a1[r][c], w[r][c]) = {}
    BY DEF Empty, Product
  <2>5. a1'[r][c] = Nothing
    BY <2>1, <2>2 DEF Empty
  <2>6. psum'[r][c] = {}
    BY <2>1, <2>3, <2>4 DEF Empty
  <2> QED BY <2>5, <2>6
<1>3. ASSUME NEW c \in 1..N, NEW s \in 1..(N + 1 - c)
      PROVE  cSkew'[c][s] = {}
  <2>1. (s > 1 => s - 1 \in 1..(N + 1 - c)) /\ K \in 1..K
    BY <1>0
  <2>2. cSkew'[c][s] = IF s > 1 THEN cSkew[c][s - 1] ELSE psum[K][c]
    BY DEF ArrayTick
  <2> QED BY <2>1, <2>2 DEF Empty
<1> QED BY <1>1, <1>2, <1>3 DEF Empty

LEMMA RowLeaves ==
  ASSUME NEW row, RowAt(row, Way)
  PROVE  CRow = RowTimesWeights(row)
<1>0. K \in Nat /\ N \in Nat /\ K > 0 /\ N > 0
  BY Tile
<1>1. ASSUME NEW c \in 1..N
      PROVE  cSkew[c][N + 1 - c] = UNION {Product(row[k], w[k][c]) : k \in 1..K}
  <2>1. N + 1 - c \in 1..(N + 1 - c) /\ Way = K + c + 1 + (N + 1 - c)
    BY <1>0 DEF Way
  <2> QED BY <2>1 DEF RowAt, Partial
<1> QED BY <1>1 DEF CRow, RowTimesWeights

-----------------------------------------------------------------------------
(* The stream through the array.                                           *)

LEMMA Wraps ==
  ASSUME NEW m \in Nat \ {0}, NEW x \in 0..(m - 1)
  PROVE  (x + 1) % m = IF x + 1 < m THEN x + 1 ELSE 0
<1>1. CASE x + 1 < m
  BY <1>1
<1>2. CASE ~(x + 1 < m)
  <2>1. x + 1 = m
    BY <1>2
  <2>2. m % m = 0
    OBVIOUS
  <2> QED BY <1>2, <2>1, <2>2
<1> QED BY <1>1, <1>2

LEMMA Shifted ==
  ASSUME NEW m \in Nat \ {0}, NEW v \in [1..m -> BOOLEAN], NEW b \in BOOLEAN
  PROVE  /\ <<b>> \o SubSeq(v, 1, m - 1) \in [1..m -> BOOLEAN]
         /\ \A p \in 1..m :
              (<<b>> \o SubSeq(v, 1, m - 1))[p] = IF p = 1 THEN b ELSE v[p - 1]
<1>1. v \in Seq(BOOLEAN) /\ Len(v) = m
  OBVIOUS
<1>2. PICK u : u = SubSeq(v, 1, m - 1)
  OBVIOUS
<1>3. u \in Seq(BOOLEAN) /\ Len(u) = m - 1 /\ \A p \in 1..(m - 1) : u[p] = v[p]
  <2>1. CASE m = 1
    <3>1. u = << >>
      BY <1>1, <1>2, <2>1, EmptySeq
    <3> QED BY <2>1, <3>1
  <2>2. CASE m > 1
    BY <1>1, <1>2, <2>2, SubSeqProperties
  <2> QED BY <2>1, <2>2
<1>4. PICK t : t = <<b>> \o u
  OBVIOUS
<1>5. /\ t \in Seq(BOOLEAN) /\ Len(t) = m
      /\ \A p \in 1..m : t[p] = IF p = 1 THEN b ELSE u[p - 1]
  BY <1>3, <1>4
<1>6. t \in [1..m -> BOOLEAN]
  BY <1>5
<1> QED BY <1>2, <1>3, <1>4, <1>5, <1>6

LEMMA Long == LATENCY \in Nat /\ LATENCY > 1
BY Tile DEF LATENCY

LEMMA PipeBegins == MmuInit => PipeInv
<1> SUFFICES ASSUME MmuInit PROVE PipeInv
  OBVIOUS
<1>1. PipeTypes
  <2>1. Nothing \in Element
    BY DEF Element
  <2>2. driven = << >> /\ aData = BlankA /\ aRead = Off /\ aDrive = FALSE
    BY DEF MmuInit, ControlInit
  <2>3. validPipe = [i \in 1..LATENCY |-> FALSE]
    BY DEF MmuInit, ArrayInit
  <2>4. cMem = [row \in 0..(M - 1) |-> BlankC]
    BY DEF MmuInit
  <2>5. RowC(BlankC)
    BY DEF RowC, BlankC
  <2>6. driven \in Seq([1..K -> Element])
    BY <2>2
  <2>7. aData \in [1..K -> Element]
    BY <2>1, <2>2 DEF BlankA
  <2>8. aDrive \in BOOLEAN /\ validPipe \in [1..LATENCY -> BOOLEAN]
    BY <2>2, <2>3
  <2>9. cMem = [row \in 0..(M - 1) |-> cMem[row]] /\ \A row \in 0..(M - 1) : RowC(cMem[row])
    BY <2>4, <2>5
  <2> QED BY <2>2, <2>6, <2>7, <2>8, <2>9 DEF PipeTypes
<1>2. cstate = "IDLE" /\ state = "IDLE" /\ ~aDrive
  BY DEF MmuInit, ControlInit
<1>3. \A p \in 1..LATENCY : ~validPipe[p]
  BY DEF MmuInit, ArrayInit
<1>4. Empty
  <2>1. /\ aSkew = [r \in 1..K |-> [s \in 1..r |-> Nothing]]
        /\ a1 = [r \in 1..K |-> [c \in 1..N |-> Nothing]]
        /\ psum = [r \in 1..K |-> [c \in 1..N |-> {}]]
        /\ cSkew = [c \in 1..N |-> [s \in 1..(N + 1 - c) |-> {}]]
    BY DEF MmuInit, ArrayInit
  <2> QED BY <2>1 DEF Empty
<1> QED BY <1>1, <1>2, <1>3, <1>4 DEF PipeInv

(* What every edge does to the registers the stream passes through.        *)
LEMMA PipeTypesStep ==
  ASSUME ControlInv, LoadInv, PipeInv, MmuNext
  PROVE  PipeTypes'
<1> PICK start \in BOOLEAN, hbm \in PortChoices : Tick(start, hbm)
  BY DEF MmuNext
<1>0. PipeTypes
  BY DEF PipeInv
<1>1. aMem \in [0..(M - 1) -> [1..K -> Element]]
  BY DEF LoadInv, EngineInv, MemKind
<1>2. aData' \in [1..K -> Element]
  <2>1. aData' = IF aRead = Off THEN aData ELSE aMem[aRead]
    BY DEF Tick, Buffers, ReadOut
  <2> QED BY <1>0, <1>1, <2>1 DEF PipeTypes
<1>3. driven' \in Seq([1..K -> Element])
  <2>1. driven' = << >> \/ driven' = driven \/ driven' = Append(driven, aData)
    BY DEF Tick
  <2> DEFINE S == [1..K -> Element]
  <2>2. driven \in Seq(S) /\ aData \in S
    BY <1>0 DEF PipeTypes
  <2> HIDE DEF S
  <2>3. driven' \in Seq(S)
    <3>1. CASE driven' = << >>
      BY <3>1, EmptySeq
    <3>2. CASE driven' = Append(driven, aData)
      BY <2>2, <3>2, AppendProperties
    <3> QED BY <2>1, <2>2, <3>1, <3>2
  <2> QED BY <2>3 DEF S
<1>4. validPipe' \in [1..LATENCY -> BOOLEAN]
  <2>1. validPipe' = <<aDrive>> \o SubSeq(validPipe, 1, LATENCY - 1)
    BY DEF Tick, ArrayTick
  <2>2. validPipe \in [1..LATENCY -> BOOLEAN] /\ aDrive \in BOOLEAN
    BY <1>0 DEF PipeTypes
  <2> QED BY <2>1, <2>2, Long, Shifted
<1>5. cMem' = [row \in 0..(M - 1) |-> cMem'[row]] /\ \A row \in 0..(M - 1) : RowC(cMem'[row])
  <2>1. cMem' = IF CValid THEN [cMem EXCEPT ![cWr] = CRow] ELSE cMem
    BY DEF Tick, Buffers, Written
  <2>2. RowC(CRow)
    BY DEF RowC, CRow
  <2>3. cMem = [row \in 0..(M - 1) |-> cMem[row]] /\ \A row \in 0..(M - 1) : RowC(cMem[row])
    BY <1>0 DEF PipeTypes
  <2> HIDE DEF CRow, CValid
  <2>4. CASE CValid
    BY <2>1, <2>2, <2>3, <2>4
  <2>5. CASE ~CValid
    BY <2>1, <2>3, <2>5
  <2> QED BY <2>4, <2>5
<1>6. (aRead' = Off \/ aRead' \in 0..(M - 1)) /\ aDrive' \in BOOLEAN
  <2>1. CASE CtlStreamA(CValid)
    <3>1. cstate = "STREAM_A" /\ aRead' = (IF aCnt < M THEN aCnt ELSE Off)
      BY <2>1 DEF CtlStreamA
    <3>2. PICK n \in Nat : Streams(n)
      BY <3>1 DEF PipeInv
    <3>3. aCnt \in Nat
      BY <3>2, Tile DEF Streams, Counts, AtMost
    <3>4. aRead' = Off \/ aRead' \in 0..(M - 1)
      <4>1. CASE aCnt < M
        <5>1. aRead' = aCnt /\ aCnt \in 0..(M - 1)
          BY <3>1, <3>3, <4>1, Tile
        <5> QED BY <5>1
      <4>2. CASE ~(aCnt < M)
        BY <3>1, <4>2
      <4> QED BY <4>1, <4>2
    <3>5. aDrive' \in BOOLEAN
      <4>1. aDrive' = (aCnt < M)
        BY <2>1 DEF CtlStreamA
      <4> QED BY <4>1
    <3> QED BY <3>4, <3>5
  <2>2. CASE ~CtlStreamA(CValid)
    BY <2>2 DEF Tick, ControlTick, CtlIdle, CtlLoading, CtlLoaded, CtlLoadW, CtlStoreC,
                CtlDone, NoPulses
  <2> QED BY <2>1, <2>2
<1> QED BY <1>2, <1>3, <1>4, <1>5, <1>6 DEF PipeTypes

LEMMA CountsStep ==
  ASSUME PipeTypes, NEW CONSTANT n \in Nat, Counts(n), CtlStreamA(CValid),
         CValid <=> n - LATENCY \in 1..M,
         driven' = IF aDrive THEN Append(driven, aData) ELSE driven
  PROVE  Counts(n + 1)'
<1>0. M \in Nat /\ M > 0 /\ LATENCY \in Nat /\ LATENCY > 1
  BY Tile, Long
<1>1. PICK l \in Nat : l = LATENCY
  BY <1>0
<1>2. aCnt' = AtMost(n + 1, M)
  BY <1>0 DEF CtlStreamA, Counts, AtMost
<1>3. aDrive' <=> n + 1 \in 1..M
  <2>1. aDrive' <=> aCnt < M
    BY DEF CtlStreamA
  <2>2. aCnt = AtMost(n, M)
    BY DEF Counts
  <2> QED BY <1>0, <2>1, <2>2 DEF AtMost
<1>4. Len(driven') = IF n + 1 = 0 THEN 0 ELSE AtMost(n, M)
  <2>1. Len(driven') = IF aDrive THEN Len(driven) + 1 ELSE Len(driven)
    <3> DEFINE S == [1..K -> Element]
    <3>1. driven \in Seq(S)
      BY DEF PipeTypes
    <3> HIDE DEF S
    <3> QED BY <3>1
  <2>2. aDrive <=> n \in 1..M
    BY DEF Counts
  <2>3. Len(driven) = IF n = 0 THEN 0 ELSE AtMost(n - 1, M)
    BY DEF Counts
  <2> QED BY <1>0, <2>1, <2>2, <2>3 DEF AtMost
<1>5. cCnt' = IF CValid THEN cCnt + 1 ELSE cCnt
  BY DEF CtlStreamA
<1>6. cCnt = IF n <= l THEN 0 ELSE AtMost(n - l - 1, M)
  BY <1>1 DEF Counts
<1>7. CValid <=> n - l \in 1..M
  BY <1>1
<1>8. cCnt' = IF n + 1 <= l THEN 0 ELSE AtMost(n + 1 - l - 1, M)
  BY <1>0, <1>5, <1>6, <1>7 DEF AtMost
<1>9. cWr' = IF cCnt' < M THEN cCnt' ELSE 0
  <2>1. cWr = IF cCnt < M THEN cCnt ELSE 0
    BY DEF Counts
  <2>2. cWr' = IF CValid THEN (cWr + 1) % M ELSE cWr
    BY DEF CtlStreamA, Capture
  <2>3. CASE CValid
    <3>1. cCnt \in 0..(M - 1) /\ cWr = cCnt
      BY <1>0, <1>6, <1>7, <2>1, <2>3 DEF AtMost
    <3>2. M \in Nat \ {0} /\ cWr \in 0..(M - 1)
      BY <1>0, <3>1
    <3>3. (cWr + 1) % M = IF cWr + 1 < M THEN cWr + 1 ELSE 0
      BY <3>2, Wraps
    <3> QED BY <1>5, <2>2, <2>3, <3>1, <3>3
  <2>4. CASE ~CValid
    BY <1>5, <2>1, <2>2, <2>4
  <2> QED BY <2>3, <2>4
<1> QED BY <1>0, <1>1, <1>2, <1>3, <1>4, <1>8, <1>9 DEF Counts

LEMMA Captures ==
  ASSUME PipeTypes, NEW n \in Nat, Streams(n), CValid
  PROVE  /\ n - LATENCY \in 1..M /\ cCnt = n - LATENCY - 1 /\ cWr = cCnt
         /\ cCnt < Len(driven) /\ CRow = Result(cCnt)
<1>0. M \in Nat /\ M > 0 /\ LATENCY \in Nat /\ LATENCY > 1
  BY Tile, Long
<1>1. n - LATENCY \in 1..M
  BY <1>0 DEF Streams, CValid
<1>2. cCnt = n - LATENCY - 1 /\ cWr = cCnt /\ cCnt < Len(driven)
  BY <1>0, <1>1 DEF Streams, Counts, AtMost
<1>3. Way \in Nat \ {0} /\ n - Way = cCnt + 1 + Slip
  <2>1. Way \in Nat \ {0}
    BY Tile DEF Way
  <2> QED BY <1>0, <1>2, <2>1, WayAndSlip
<1>4. RowAt(RowDriven(cCnt + 1 + Slip), Way)
  BY <1>3 DEF Streams
<1>5. CRow = RowTimesWeights(RowDriven(cCnt + 1 + Slip))
  BY <1>4, RowLeaves
<1> QED BY <1>1, <1>2, <1>5 DEF Result

(* Edge n + 1 of the stream.                                               *)
LEMMA StreamsStep ==
  ASSUME PipeTypes, PipeTypes', wDrive = Off, NEW CONSTANT n \in Nat, Streams(n),
         CtlStreamA(CValid), state # "LOAD_AB",
         NEW start \in BOOLEAN, NEW hbm \in PortChoices, Tick(start, hbm)
  PROVE  /\ Streams(n + 1)'
         /\ driven' = IF aDrive THEN Append(driven, aData) ELSE driven
         /\ \A row : RowTimesWeights(row)' = RowTimesWeights(row)
<1>0. M \in Nat /\ M > 0 /\ LATENCY \in Nat /\ LATENCY > 1
  BY Tile, Long
<1>1. /\ driven' = IF aDrive THEN Append(driven, aData) ELSE driven
      /\ cMem' = Written(cMem, CValid, cWr, CRow)
      /\ ArrayTick(IF wDrive = Off THEN 0 ELSE wDrive + 1, bData, aDrive, aData)
  BY DEF Tick, Buffers
<1>2. CValid <=> n - LATENCY \in 1..M
  BY <1>0 DEF Streams, CValid
<1>3. Counts(n + 1)'
  BY <1>1, <1>2, CountsStep DEF Streams
<1>4. \A p \in 1..LATENCY : validPipe'[p] <=> (n + 1) - p \in 1..M
  <2>1. validPipe' = <<aDrive>> \o SubSeq(validPipe, 1, LATENCY - 1)
    BY <1>1 DEF ArrayTick
  <2>2. validPipe \in [1..LATENCY -> BOOLEAN] /\ aDrive \in BOOLEAN
    BY DEF PipeTypes
  <2>3. \A p \in 1..LATENCY : validPipe'[p] = IF p = 1 THEN aDrive ELSE validPipe[p - 1]
    BY <2>1, <2>2, Long, Shifted
  <2>4. aDrive <=> n \in 1..M
    BY DEF Streams, Counts
  <2>5. \A p \in 1..LATENCY : validPipe[p] <=> n - p \in 1..M
    BY DEF Streams
  <2> HIDE <2>1
  <2> TAKE p \in 1..LATENCY
  <2>6. CASE p = 1
    <3>1. validPipe'[p] <=> aDrive
      BY <2>3, <2>6
    <3> QED BY <1>0, <2>4, <2>6, <3>1
  <2>7. CASE p # 1
    <3>1. p - 1 \in 1..LATENCY /\ n - (p - 1) = (n + 1) - p
      BY <1>0, <2>7
    <3>2. validPipe'[p] <=> validPipe[p - 1]
      BY <2>3, <2>7
    <3> QED BY <2>5, <3>1, <3>2
  <2> QED BY <2>6, <2>7
<1>5. \A i \in 1..Len(driven) : i \in 1..Len(driven') /\ driven'[i] = driven[i]
  <2> DEFINE S == [1..K -> Element]
  <2>1. driven \in Seq(S) /\ aData \in S
    BY DEF PipeTypes
  <2> HIDE DEF S
  <2>2. CASE aDrive
    <3>1. driven' = Append(driven, aData)
      BY <1>1, <2>2
    <3> QED BY <2>1, <3>1, AppendProperties
  <2>3. CASE ~aDrive
    BY <1>1, <2>3
  <2> QED BY <2>2, <2>3
<1>6. Len(driven) = (IF n = 0 THEN 0 ELSE AtMost(n - 1, M))
      /\ Len(driven') = AtMost(n, M)
  BY <1>0, <1>3 DEF Streams, Counts
<1>7. ASSUME NEW CONSTANT i \in Int, i < n
      PROVE  RowDriven(i)' = RowDriven(i)
  <2>1. i \in 1..Len(driven') <=> i \in 1..Len(driven)
    BY <1>0, <1>6, <1>7 DEF AtMost
  <2> QED BY <1>5, <2>1 DEF RowDriven, BlankA
<1>8. \A row : RowTimesWeights(row)' = RowTimesWeights(row)
  BY <1>1, WeightsStay
<1>9. RowDriven(n)' = IF aDrive THEN aData ELSE BlankA
  <2>1. CASE aDrive
    <3>1. n \in 1..M
      BY <2>1 DEF Streams, Counts
    <3>2. Len(driven) = n - 1 /\ Len(driven') = n
      BY <1>0, <1>6, <3>1 DEF AtMost
    <3>3. driven'[n] = aData
      <4> DEFINE S == [1..K -> Element]
      <4>1. driven \in Seq(S) /\ aData \in S
        BY DEF PipeTypes
      <4> HIDE DEF S
      <4>2. driven' = Append(driven, aData)
        BY <1>1, <2>1
      <4>3. Append(driven, aData)[Len(driven) + 1] = aData
        BY <4>1, AppendProperties
      <4>4. Len(driven) + 1 = n
        BY <3>1, <3>2
      <4> QED BY <4>2, <4>3, <4>4
    <3>4. n \in 1..Len(driven')
      BY <3>1, <3>2
    <3> QED BY <2>1, <3>3, <3>4 DEF RowDriven
  <2>2. CASE ~aDrive
    <3>1. n \notin 1..M
      BY <2>2 DEF Streams, Counts
    <3>2. n \notin 1..Len(driven')
      BY <1>0, <1>6, <3>1 DEF AtMost
    <3> QED BY <2>2, <3>2 DEF RowDriven, BlankA
  <2> QED BY <2>1, <2>2
<1>10. ASSUME NEW CONSTANT a \in Nat \ {0}, NEW CONSTANT row, row = RowDriven((n + 1) - a)'
       PROVE  RowAt(row, a)'
  <2>1. CASE a = 1
    <3>1. (n + 1) - a = n
      BY <2>1
    <3>2. row = IF aDrive THEN aData ELSE BlankA
      BY <1>9, <1>10, <3>1
    <3>3. aDrive \in BOOLEAN
      BY DEF PipeTypes
    <3>4. RowAt(row, 1)'
      BY <1>1, <3>2, <3>3, RowEnters
    <3> QED BY <2>1, <3>4
  <2>2. CASE a # 1
    <3>1. PICK e : e = a - 1
      OBVIOUS
    <3>2. e \in Nat \ {0} /\ e + 1 = a /\ (n + 1) - a = n - e /\ n - e \in Int /\ n - e < n
      BY <2>2, <3>1
    <3>3. row = RowDriven(n - e)
      BY <1>7, <1>10, <3>2
    <3>4. RowAt(row, e)
      BY <3>2, <3>3 DEF Streams
    <3>5. RowAt(row, e + 1)'
      BY <1>1, <3>2, <3>4, RowMoves
    <3> QED BY <3>2, <3>5
  <2> QED BY <2>1, <2>2
<1>11. \A a \in Nat \ {0} : RowAt(RowDriven((n + 1) - a), a)'
  <2> TAKE a \in Nat \ {0}
  <2>1. PICK row : row = RowDriven((n + 1) - a)'
    OBVIOUS
  <2>2. RowAt(row, a)'
    BY <1>10, <2>1
  <2> QED BY <2>1, <2>2 DEF RowAt, Partial
<1>12. ASSUME NEW CONSTANT i \in 1..cCnt'
       PROVE  cMem'[i - 1] = Result(i - 1)'
  <2>1. cCnt' = IF CValid THEN cCnt + 1 ELSE cCnt
    BY DEF CtlStreamA
  <2>2. cCnt = IF n <= LATENCY THEN 0 ELSE AtMost(n - LATENCY - 1, M)
    BY DEF Streams, Counts
  <2>3. cCnt \in Nat /\ i \in Nat \ {0} /\ i + LATENCY <= n
    BY <1>0, <1>2, <2>1, <2>2 DEF AtMost
  <2>4. i + Slip \in Int /\ i + Slip < n /\ (i - 1) + 1 + Slip = i + Slip
    <3>1. Way > 0
      BY Tile DEF Way
    <3> QED BY <2>3, <3>1, WayAndSlip
  <2>5. Result(i - 1)' = Result(i - 1)
    <3>1. PICK row : row = RowDriven(i + Slip)
      OBVIOUS
    <3>2. RowDriven(i + Slip)' = row
      BY <1>7, <2>4, <3>1
    <3>3. RowTimesWeights(row)' = RowTimesWeights(row)
      BY <1>8
    <3>4. RowTimesWeights(RowDriven(i + Slip))' = RowTimesWeights(row)'
      BY <3>2 DEF RowTimesWeights
    <3>5. Result(i - 1) = RowTimesWeights(RowDriven(i + Slip))
      BY <2>4 DEF Result
    <3>6. Result(i - 1)' = RowTimesWeights(RowDriven(i + Slip))'
      BY <2>4 DEF Result
    <3> QED BY <3>1, <3>3, <3>4, <3>5, <3>6
  <2>6. cMem' = IF CValid THEN [cMem EXCEPT ![cWr] = CRow] ELSE cMem
    BY <1>1 DEF Written
  <2>7. cMem = [row \in 0..(M - 1) |-> cMem[row]]
    BY DEF PipeTypes
  <2>8. CASE i <= cCnt
    <3>1. i \in 1..cCnt
      BY <2>3, <2>8
    <3>2. cMem[i - 1] = Result(i - 1)
      BY <3>1 DEF Streams
    <3>3. CValid => cWr # i - 1
      <4>1. CValid => cWr = cCnt
        BY Captures
      <4> QED BY <2>3, <3>1, <4>1
    <3>4. cMem'[i - 1] = cMem[i - 1]
      BY <2>6, <2>7, <3>3
    <3> QED BY <2>5, <3>2, <3>4
  <2>9. CASE ~(i <= cCnt)
    <3>1. CValid /\ i = cCnt + 1
      BY <2>1, <2>3, <2>9
    <3>2. n - LATENCY \in 1..M /\ cCnt = n - LATENCY - 1 /\ cWr = cCnt /\ CRow = Result(cCnt)
      BY <3>1, Captures
    <3>3. cWr \in 0..(M - 1) /\ i - 1 = cWr
      BY <1>0, <2>3, <3>1, <3>2
    <3>4. cMem'[i - 1] = CRow
      BY <2>6, <2>7, <3>1, <3>3
    <3> QED BY <2>5, <3>2, <3>3, <3>4
  <2> QED BY <2>8, <2>9
<1> QED BY <1>1, <1>3, <1>4, <1>8, <1>11, <1>12 DEF Streams

LEMMA PipeInvStep ==
  ASSUME ControlInv, LoadInv, PipeInv, MmuNext
  PROVE  PipeInv'
<1> PICK start \in BOOLEAN, hbm \in PortChoices : Tick(start, hbm)
  BY DEF MmuNext
<1>0. M \in Nat /\ M > 0 /\ LATENCY \in Nat /\ LATENCY > 1
  BY Tile, Long
<1>1. PipeTypes /\ PipeTypes'
  BY PipeTypesStep DEF PipeInv
<1>2. /\ ControlTick(start, Loaded, AllStored, CValid)
      /\ driven' = IF state = "LOAD_AB" THEN << >>
                   ELSE IF aDrive THEN Append(driven, aData) ELSE driven
      /\ cMem' = Written(cMem, CValid, cWr, CRow)
      /\ ArrayTick(IF wDrive = Off THEN 0 ELSE wDrive + 1, bData, aDrive, aData)
  BY DEF Tick, Buffers
<1>3. CASE cstate = "STREAM_A"
  <2>1. state = "COMPUTE" /\ wDrive = Off
    BY <1>3 DEF ControlInv
  <2>2. CtlStreamA(CValid)
    BY <1>2, <1>3, <2>1 DEF ControlTick, CtlIdle, CtlLoading, CtlLoaded, CtlLoadW, CtlStoreC,
                            CtlDone
  <2>3. PICK n \in Nat : Streams(n)
    BY <1>3 DEF PipeInv
  <2>4. /\ Streams(n + 1)'
        /\ driven' = IF aDrive THEN Append(driven, aData) ELSE driven
        /\ \A row : RowTimesWeights(row)' = RowTimesWeights(row)
    BY <1>1, <2>1, <2>2, <2>3, StreamsStep
  <2>5. CASE Captured
    <3>1. cCnt = M /\ state' = "STORE_C" /\ cstate' = "IDLE" /\ (aDrive' <=> aCnt < M)
      BY <2>2, <2>5 DEF CtlStreamA, Captured
    <3>2. n > M + LATENCY /\ aCnt = M
      BY <1>0, <2>3, <3>1 DEF Streams, Counts, AtMost
    <3>3. \A p \in 1..LATENCY : ~validPipe'[p]
      BY <1>0, <2>4, <3>2 DEF Streams
    <3>4. ~aDrive /\ Len(driven) = M /\ driven' = driven
      BY <1>0, <2>3, <2>4, <3>2 DEF Streams, Counts, AtMost
    <3>5. \A row \in 0..(M - 1) : cMem'[row] = Result(row)'
      <4> TAKE row \in 0..(M - 1)
      <4>1. cCnt' = M
        <5>1. ~CValid
          BY <1>0, <2>3, <3>2 DEF Streams, CValid
        <5> QED BY <2>2, <3>1, <5>1 DEF CtlStreamA
      <4>2. row + 1 \in 1..M /\ (row + 1) - 1 = row
        BY <1>0
      <4>3. \A i \in 1..cCnt' : cMem'[i - 1] = Result(i - 1)'
        BY <2>4 DEF Streams
      <4>4. cMem'[(row + 1) - 1] = Result((row + 1) - 1)'
        BY <4>1, <4>2, <4>3
      <4> QED BY <4>2, <4>4
    <3>6. ~aDrive'
      BY <1>0, <3>1, <3>2
    <3>7. Empty'
      <4>1. ASSUME NEW CONSTANT a \in Nat \ {0}
            PROVE  RowAt(BlankA, a)'
        <5>1. CASE a > Way
          BY <5>1, NoPlace DEF RowAt
        <5>2. CASE ~(a > Way)
          <6>1. (n + 1) - a > M /\ Len(driven') = M
            BY <1>0, <3>2, <3>4, <5>2, WayAndSlip
          <6>2. RowDriven((n + 1) - a)' = BlankA
            BY <1>0, <6>1 DEF RowDriven, BlankA
          <6>3. RowAt(RowDriven((n + 1) - a), a)'
            BY <2>4 DEF Streams
          <6> QED BY <6>2, <6>3 DEF RowAt, Partial
        <5> QED BY <5>1, <5>2
      <4>2. (\A a \in Nat \ {0} : RowAt(BlankA, a))'
        BY <4>1
      <4>3. ((\A a \in Nat \ {0} : RowAt(BlankA, a)) => Empty)'
        BY ZerosAreEmpty, PTL
      <4> QED BY <4>2, <4>3
    <3> QED BY <1>1, <3>1, <3>3, <3>4, <3>5, <3>6, <3>7 DEF PipeInv
  <2>6. CASE ~Captured
    <3>1. cstate' = cstate /\ state' = state
      BY <2>2, <2>6 DEF CtlStreamA
    <3> QED BY <1>1, <1>3, <2>1, <2>4, <3>1 DEF PipeInv
  <2> QED BY <2>5, <2>6
<1>4. CASE cstate # "STREAM_A"
  <2>0. Empty'
    <3>1. Empty /\ aDrive = FALSE
      BY <1>1, <1>4 DEF PipeInv, PipeTypes
    <3>2. ArrayTick(IF wDrive = Off THEN 0 ELSE wDrive + 1, bData, FALSE, aData)
      BY <1>2, <3>1
    <3> QED BY <3>1, <3>2, EmptyStays
  <2>1. ~aDrive /\ \A p \in 1..LATENCY : ~validPipe[p]
    BY <1>4 DEF PipeInv
  <2>2. ~CValid
    BY <1>0, <2>1 DEF CValid
  <2>3. \A p \in 1..LATENCY : ~validPipe'[p]
    <3>1. validPipe' = <<aDrive>> \o SubSeq(validPipe, 1, LATENCY - 1)
      BY <1>2 DEF ArrayTick
    <3>2. validPipe \in [1..LATENCY -> BOOLEAN] /\ aDrive \in BOOLEAN
      BY <1>1 DEF PipeTypes
    <3>3. \A p \in 1..LATENCY : validPipe'[p] = IF p = 1 THEN aDrive ELSE validPipe[p - 1]
      BY <3>1, <3>2, Long, Shifted
    <3> HIDE <3>1
    <3> TAKE p \in 1..LATENCY
    <3>4. p # 1 => p - 1 \in 1..LATENCY
      BY <1>0
    <3> QED BY <2>1, <3>3, <3>4
  <2>4. ~aDrive' /\ cMem' = cMem
    <3>1. ~CtlStreamA(CValid)
      BY <1>4 DEF CtlStreamA
    <3>2. aDrive' = FALSE
      BY <1>2, <3>1 DEF ControlTick, CtlIdle, CtlLoading, CtlLoaded, CtlLoadW, CtlStoreC,
                        CtlDone, NoPulses
    <3> QED BY <1>2, <2>2, <3>2 DEF Written
  <2>5. CASE CtlLoaded(Loaded)
    <3>1. /\ state = "LOAD_AB" /\ state' = "COMPUTE" /\ cstate' = "LOAD_W"
          /\ aCnt' = 0 /\ cCnt' = 0 /\ cWr' = 0
      BY <2>5 DEF CtlLoaded
    <3> QED BY <1>1, <1>2, <2>0, <2>3, <2>4, <3>1 DEF PipeInv
  <2>6. CASE CtlLoadW(CValid)
    <3>1. /\ state = "COMPUTE" /\ cstate = "LOAD_W" /\ state' = "COMPUTE"
          /\ cstate' \in {"LOAD_W", "STREAM_A"}
          /\ aCnt' = aCnt /\ cCnt' = cCnt /\ cWr' = cWr
      BY <2>2, <2>6 DEF CtlLoadW, Capture
    <3>2. aCnt = 0 /\ cCnt = 0 /\ cWr = 0 /\ driven = << >>
      BY <3>1 DEF PipeInv
    <3>3. driven' = << >>
      BY <1>2, <2>1, <3>1, <3>2
    <3>4. Streams(0)'
      <4>1. Counts(0)'
        BY <1>0, <2>4, <3>1, <3>2, <3>3 DEF Counts, AtMost
      <4>2. \A p \in 1..LATENCY : validPipe'[p] <=> 0 - p \in 1..M
        BY <1>0, <2>3
      <4>3. Len(driven') = 0 /\ cCnt' = 0
        BY <3>1, <3>2, <3>3
      <4>4. 1..0 = {}
        OBVIOUS
      <4>5. \A a \in Nat \ {0} : RowAt(RowDriven(0 - a), a)'
        <5>1. (Empty => \A a \in Nat \ {0} : RowAt(BlankA, a))'
          BY EmptyIsZeros, PTL
        <5> TAKE a \in Nat \ {0}
        <5>2. RowAt(BlankA, a)'
          BY <2>0, <5>1
        <5>3. RowDriven(0 - a)' = BlankA
          BY <4>3, <4>4 DEF RowDriven, BlankA
        <5> QED BY <5>2, <5>3 DEF RowAt, Partial
      <4> QED BY <4>1, <4>2, <4>3, <4>4, <4>5 DEF Streams
    <3> QED BY <1>1, <2>0, <2>3, <2>4, <3>1, <3>2, <3>3, <3>4 DEF PipeInv
  <2>7. CASE CtlStoreC(AllStored, CValid) \/ CtlDone(start, CValid)
    <3>1. /\ state \in {"STORE_C", "DONE"} /\ cstate' = cstate
          /\ state' \in {"STORE_C", "DONE", "IDLE"}
      BY <2>7 DEF CtlStoreC, CtlDone
    <3>2. cstate = "IDLE" /\ wDrive = Off
      BY <3>1 DEF ControlInv
    <3>3. \A row : RowTimesWeights(row)' = RowTimesWeights(row)
      BY <1>2, <3>2, WeightsStay
    <3>4. driven' = driven
      BY <1>2, <2>1, <3>1
    <3>5. Len(driven) = M /\ \A row \in 0..(M - 1) : cMem[row] = Result(row)
      BY <3>1 DEF PipeInv
    <3>6. \A row \in 0..(M - 1) : Result(row)' = Result(row)
      <4> TAKE row \in 0..(M - 1)
      <4>1. PICK x : x = RowDriven(row + 1 + Slip)
        OBVIOUS
      <4>2. RowDriven(row + 1 + Slip)' = x
        BY <3>4, <4>1 DEF RowDriven, BlankA
      <4>3. RowTimesWeights(x)' = RowTimesWeights(x)
        BY <3>3
      <4> QED BY <4>1, <4>2, <4>3 DEF Result, RowTimesWeights
    <3>7. \A row \in 0..(M - 1) : cMem'[row] = Result(row)'
      BY <2>4, <3>5, <3>6
    <3> QED BY <1>1, <2>0, <2>3, <2>4, <3>1, <3>2, <3>4, <3>5, <3>7 DEF PipeInv
  <2>8. CASE CtlIdle(start, CValid) \/ CtlLoading(Loaded, CValid)
    <3>1. /\ state \in {"IDLE", "LOAD_AB"} /\ state' \in {"IDLE", "LOAD_AB"}
          /\ cstate' = cstate
      BY <2>8 DEF CtlIdle, CtlLoading
    <3>2. cstate = "IDLE"
      BY <3>1 DEF ControlInv
    <3> QED BY <1>1, <2>0, <2>3, <2>4, <3>1, <3>2 DEF PipeInv
  <2>9. ~CtlStreamA(CValid)
    BY <1>4 DEF CtlStreamA
  <2> QED BY <1>2, <2>5, <2>6, <2>7, <2>8, <2>9 DEF ControlTick
<1> QED BY <1>3, <1>4

-----------------------------------------------------------------------------
(* The store engines.                                                      *)

LEMMA AtLeastOnce ==
  ASSUME NEW x \in Nat, NEW y \in Nat, NEW z \in Nat, x < y
  PROVE  x * z + z <= y * z
<1>1. PICK d \in Nat : y = x + 1 + d
  <2>1. y - x - 1 \in Nat /\ y = x + 1 + (y - x - 1)
    OBVIOUS
  <2> QED BY <2>1
<1>2. y * z = x * z + z + d * z
  BY <1>1
<1>3. d * z \in Nat /\ x * z \in Nat
  OBVIOUS
<1> QED BY <1>2, <1>3

LEMMA BankTile ==
  Banks \in Nat \ {0} /\ BankRows \in Nat \ {0} /\ BankRows * Banks = M
<1>1. Banks \in Nat \ {0} /\ BankRows * Banks = M
  BY Tile, BankAssumption
<1>2. BankRows \in Nat
  BY <1>1, Tile DEF BankRows
<1>3. BankRows # 0
  BY <1>1, Tile
<1> QED BY <1>1, <1>2, <1>3

LEMMA Places ==
  ASSUME NEW b \in Bank, NEW r \in 0..(BankRows - 1)
  PROVE  /\ Place(b, r) \in 0..(M - 1)
         /\ \A q \in Bank, x \in 0..(BankRows - 1) : Place(q, x) = Place(b, r) => q = b /\ x = r
<1>1. Banks \in Nat \ {0} /\ BankRows \in Nat \ {0} /\ BankRows * Banks = M /\ M \in Nat
  BY BankTile, Tile
<1>2. PICK z \in Nat : z = BankRows
  BY <1>1
<1>3. b \in Nat /\ b < Banks /\ r \in Nat /\ r < z
  BY <1>1, <1>2 DEF Bank
<1>4. b * z + z <= Banks * z /\ Banks * z = M /\ b * z \in Nat
  <2>1. b * z + z <= Banks * z
    BY <1>1, <1>3, AtLeastOnce
  <2>2. Banks * z = M /\ b * z \in Nat
    BY <1>1, <1>2, <1>3
  <2> QED BY <2>1, <2>2
<1>5. Place(b, r) = b * z + r
  BY <1>2 DEF Place
<1>6. Place(b, r) \in 0..(M - 1)
  BY <1>1, <1>3, <1>4, <1>5
<1>7. ASSUME NEW q \in Bank, NEW x \in 0..(BankRows - 1), Place(q, x) = Place(b, r)
      PROVE  q = b /\ x = r
  <2>1. q \in Nat /\ x \in Nat /\ x < z /\ q * z \in Nat
    BY <1>1, <1>2 DEF Bank
  <2>2. q * z + x = b * z + r
    BY <1>2, <1>5, <1>7 DEF Place
  <2>3. ~(q < b)
    <3>1. q < b => q * z + z <= b * z
      BY <1>3, <2>1, AtLeastOnce
    <3> QED BY <1>3, <1>4, <2>1, <2>2, <3>1
  <2>4. ~(b < q)
    <3>1. b < q => b * z + z <= q * z
      BY <1>3, <2>1, AtLeastOnce
    <3> QED BY <1>3, <1>4, <2>1, <2>2, <3>1
  <2>5. q = b
    BY <1>3, <2>1, <2>3, <2>4
  <2> QED BY <1>3, <1>4, <2>1, <2>2, <2>5
<1> QED BY <1>6, <1>7

LEMMA EveryRowHasAPlace ==
  ASSUME NEW row \in 0..(M - 1)
  PROVE  \E b \in Bank, r \in 0..(BankRows - 1) : row = Place(b, r)
<1>1. Banks \in Nat \ {0} /\ BankRows \in Nat \ {0} /\ BankRows * Banks = M /\ M \in Nat
  BY BankTile, Tile
<1>2. PICK z \in Nat \ {0} : z = BankRows
  BY <1>1
<1>3. PICK q, r : q = row \div z /\ r = row % z
  OBVIOUS
<1>4. q \in Nat /\ r \in 0..(z - 1) /\ row = q * z + r
  BY <1>2, <1>3
<1>5. q < Banks
  <2>1. ~(q < Banks) => Banks * z <= q * z
    <3>1. CASE Banks = q
      BY <1>1, <1>2, <1>4, <3>1
    <3>2. CASE Banks < q
      <4>1. Banks * z + z <= q * z
        BY <1>1, <1>2, <1>4, <3>2, AtLeastOnce
      <4>2. Banks * z \in Nat /\ q * z \in Nat
        BY <1>1, <1>2, <1>4
      <4> QED BY <1>2, <4>1, <4>2
    <3> QED BY <1>1, <1>4, <3>1, <3>2
  <2>2. Banks * z = M /\ q * z \in Nat
    BY <1>1, <1>2, <1>4
  <2> QED BY <1>1, <1>4, <2>1, <2>2
<1>6. q \in Bank /\ row = Place(q, r)
  BY <1>1, <1>2, <1>4, <1>5 DEF Bank, Place
<1> QED BY <1>2, <1>4, <1>6

(* The beats of a bank's rows that the memory takes are those of its own   *)
(* engine.                                                                 *)
LEMMA OwnBeats ==
  ASSUME StoreInv, NEW hbm \in PortChoices, MemoryTakes(hbm),
         NEW b \in Bank, NEW r \in 0..(BankRows - 1), NEW c \in 1..N
  PROVE  hbmC'[Place(b, r)][c] =
           IF hbm[b] /\ stores[b].state = "W" /\ stores[b].row = r /\ stores[b].beat = c
           THEN stores[b].data[c] ELSE hbmC[Place(b, r)][c]
<1> DEFINE From == {q \in Bank : /\ hbm[q] /\ StoreSends(stores[q])
                                 /\ stores[q].beat = c
                                 /\ Place(q, stores[q].row) = Place(b, r)}
<1>1. Place(b, r) \in 0..(M - 1)
  BY Places
<1>2. hbmC'[Place(b, r)][c] = IF From = {} THEN hbmC[Place(b, r)][c]
                              ELSE StoreBeat(stores[CHOOSE q \in From : TRUE])
  BY <1>1 DEF MemoryTakes
<1>3. ASSUME NEW q \in From
      PROVE  q = b /\ stores[b].row = r /\ stores[b].state = "W"
  <2>1. q \in Bank /\ stores[q].state = "W" /\ Place(q, stores[q].row) = Place(b, r)
    BY <1>3 DEF StoreSends
  <2>2. stores[q] \in StoreKind(stores[q].data)
    BY <2>1 DEF StoreInv, BankInv
  <2>3. state = "STORE_C"
    BY <2>1 DEF StoreInv, BankInv
  <2>4. stores[q].row \in 0..(BankRows - 1)
    <3>1. stores[q].row < BankRows
      BY <2>1, <2>3 DEF StoreInv, BankInv, Storing
    <3>2. stores[q].row \in 0..BankRows
      BY <2>2 DEF StoreKind
    <3> QED BY <3>1, <3>2, BankTile
  <2> QED BY <2>1, <2>4, Places
<1>4. CASE hbm[b] /\ stores[b].state = "W" /\ stores[b].row = r /\ stores[b].beat = c
  <2>1. b \in From
    BY <1>4 DEF StoreSends
  <2>2. From # {} /\ (CHOOSE q \in From : TRUE) = b
    BY <1>3, <2>1
  <2> QED BY <1>2, <1>4, <2>2 DEF StoreBeat
<1>5. CASE ~(hbm[b] /\ stores[b].state = "W" /\ stores[b].row = r /\ stores[b].beat = c)
  <2>1. From = {}
    BY <1>3, <1>5
  <2> HIDE DEF From
  <2> QED BY <1>2, <1>5, <2>1
<1> QED BY <1>4, <1>5


(* The rows of a bank that an edge rushes: the row its engine is at.       *)
LEMMA OwnRush ==
  ASSUME StoreInv, NEW hbm \in PortChoices, NEW b \in Bank, NEW r \in 0..(BankRows - 1)
  PROVE  Place(b, r) \in Rushing(hbm)
           <=> stores[b].state = "AW" /\ stores[b].re /\ hbm[b] /\ stores[b].row = r
<1>1. ASSUME NEW q \in Bank, stores[q].state = "AW", Place(q, stores[q].row) = Place(b, r)
      PROVE  q = b /\ stores[b].row = r
  <2>1. stores[q] \in StoreKind(stores[q].data) /\ state = "STORE_C"
    BY <1>1 DEF StoreInv, BankInv
  <2>2. stores[q].row < BankRows /\ stores[q].row \in 0..BankRows
    BY <1>1, <2>1 DEF StoreInv, BankInv, Storing, StoreKind
  <2>3. stores[q].row \in 0..(BankRows - 1)
    BY <2>2, BankTile
  <2> QED BY <1>1, <2>3, Places
<1> QED BY <1>1 DEF Rushing

(* An engine's edge while the machine is in S_STORE_C.                     *)
LEMMA StoringStep ==
  ASSUME NEW CONSTANT b \in Bank, NEW CONSTANT s, NEW CONSTANT t, NEW h \in BOOLEAN,
         s \in StoreKind(s.data), Storing(s, b),
         t = StoreNext(s, cData[b], BankRows, N, TRUE, h),
         cMem' = cMem,
         cData'[b] = ReadOut(cData[b], cMem, IF s.re THEN b * BankRows + s.raddr ELSE Off),
         \A r \in 0..(BankRows - 1) : RowC(cMem[Place(b, r)]) /\ RowC(hbmC'[Place(b, r)]),
         \A r \in 0..(BankRows - 1), c \in 1..N :
           hbmC'[Place(b, r)][c] =
             IF h /\ s.state = "W" /\ s.row = r /\ s.beat = c
             THEN s.data[c] ELSE hbmC[Place(b, r)][c],
         \A r \in 0..(BankRows - 1) : RowC(hbmC[Place(b, r)]),
         \A r \in 0..(BankRows - 1) :
           Place(b, r) \in rushed'
             <=> Place(b, r) \in rushed \/ (s.state = "AW" /\ s.re /\ h /\ s.row = r)
  PROVE  t \in StoreKind(t.data) /\ Storing(t, b)'
<1>0. N \in Nat /\ N > 0 /\ BankRows \in Nat /\ BankRows > 0
  BY Tile, BankTile
<1>a. ASSUME NEW r \in 0..(BankRows - 1), NEW x, StoredAs(b, r, x), s.state # "AW" \/ s.row # r
      PROVE  StoredAs(b, r, x)'
  BY <1>a DEF StoredAs
<1>1. ASSUME NEW r \in 0..(BankRows - 1), InHbm(b, r),
             s.state \notin {"W", "AW"} \/ s.row # r
      PROVE  InHbm(b, r)'
  <2>1. \A c \in 1..N : hbmC'[Place(b, r)][c] = hbmC[Place(b, r)][c]
    BY <1>1
  <2>2. hbmC'[Place(b, r)] = hbmC[Place(b, r)]
    BY <2>1 DEF RowC
  <2> QED BY <1>1, <2>2 DEF InHbm, StoredAs
<1>b. ASSUME NEW r \in 0..(BankRows - 1), Place(b, r) \notin rushed,
             ~(s.state = "AW" /\ s.re /\ h /\ s.row = r)
      PROVE  Place(b, r) \notin rushed'
  BY <1>b
<1>c. s.row < BankRows => cMem[Place(b, s.row)]' = cMem[Place(b, s.row)]
  OBVIOUS
<1>2. \A r \in 0..(s.row - 1) : s.state # "IDLE" => InHbm(b, r)'
  <2> TAKE r \in 0..(s.row - 1)
  <2>1. s.row \in 0..BankRows
    BY DEF StoreKind
  <2>2. r \in 0..(BankRows - 1) /\ s.row # r
    BY <1>0, <2>1
  <2> QED BY <1>1, <2>2 DEF Storing
<1>3. CASE s.state = "IDLE"
  <2>1. t = [s EXCEPT !.re = TRUE, !.done = FALSE, !.row = 0, !.beat = 1, !.raddr = 0,
                      !.state = "AW"]
    BY <1>3 DEF StoreNext, StoreIdle, StoreKind
  <2>2. t \in StoreKind(t.data) /\ t.state = "AW" /\ t.row = 0 /\ t.re /\ t.raddr = 0 /\ ~t.done
    <3>1. 0 \in 0..BankRows /\ 1 \in 1..N /\ 0 \in 0..(BankRows - 1)
      BY <1>0
    <3> QED BY <2>1, <3>1 DEF StoreKind
  <2>3. 0..(0 - 1) = {}
    OBVIOUS
  <2>4. \A r \in 0..(BankRows - 1) : Place(b, r) \notin rushed'
    <3> TAKE r \in 0..(BankRows - 1)
    <3>1. Place(b, r) \notin rushed
      BY <1>3 DEF Storing
    <3>2. ~(s.state = "AW" /\ s.re /\ h /\ s.row = r)
      BY <1>3
    <3> QED BY <1>b, <3>1, <3>2
  <2>5. t.row < BankRows /\ ~(t.row > 0) /\ t.raddr = t.row
    <3>1. 0 < BankRows /\ ~(0 > 0)
      BY <1>0
    <3> QED BY <2>2, <3>1
  <2>6. \A r \in 0..(t.row - 1) : InHbm(b, r)'
    BY <2>2, <2>3
  <2> QED BY <2>2, <2>4, <2>5, <2>6 DEF Storing
<1>4. CASE s.state \in {"AW", "W", "B"} /\ s.re
  <2>1. s.state = "AW" /\ s.raddr = s.row /\ b * BankRows + s.raddr # Off
    <3>1. s.state = "AW" /\ s.raddr = s.row
      BY <1>4 DEF Storing
    <3>2. s.row \in 0..(BankRows - 1)
      BY <1>0, <1>4 DEF StoreKind, Storing
    <3>3. Place(b, s.row) \in 0..(M - 1)
      BY <3>2, Places
    <3> QED BY <3>1, <3>3, Tile DEF Place, Off
  <2>2. cData'[b] = cMem'[Place(b, s.row)]
    BY <1>4, <2>1 DEF ReadOut, Place
  <2>3. s.row \in 0..(BankRows - 1) /\ s.row < BankRows /\ ~s.done
    BY <1>0, <1>4 DEF StoreKind, Storing
  <2>4. CASE ~h
    <3>1. t = [s EXCEPT !.re = FALSE]
      BY <2>1, <2>4 DEF StoreNext, StoreKind
    <3>2. t \in StoreKind(t.data) /\ t.state = "AW" /\ t.row = s.row /\ ~t.re /\ ~t.done
      BY <2>1, <2>3, <3>1 DEF StoreKind
    <3>3. \A r \in 0..(BankRows - 1) : r > s.row \/ r = s.row => Place(b, r) \notin rushed'
      BY <1>b, <2>1, <2>4 DEF Storing
    <3> QED BY <1>2, <2>1, <2>2, <2>3, <3>2, <3>3 DEF Storing
  <2>5. CASE h
    <3>1. t = [s EXCEPT !.re = FALSE, !.data = cData[b], !.beat = 1, !.state = "W"]
      BY <2>1, <2>5 DEF StoreNext, StoreAw, StoreKind
    <3>2. t \in StoreKind(t.data) /\ t.state = "W" /\ t.row = s.row /\ ~t.re /\ ~t.done
          /\ t.beat = 1 /\ t.data = cData[b]
      <4>1. 1 \in 1..N
        BY <1>0
      <4> QED BY <2>3, <3>1, <4>1 DEF StoreKind
    <3>3. \A r \in 0..(BankRows - 1) : r > s.row => Place(b, r) \notin rushed'
      <4>1. \A r \in 0..(BankRows - 1) : r > s.row => Place(b, r) \notin rushed /\ s.row # r
        BY <2>3 DEF Storing
      <4> QED BY <1>b, <4>1
    <3>4. StoredAs(b, s.row, t.data)'
      <4>1. Place(b, s.row) \in rushed'
        BY <2>1, <2>3, <2>5, <1>4
      <4>2. s.row > 0 => cData[b] = cMem[Place(b, s.row - 1)]
        BY <1>4, <2>1 DEF Storing
      <4> QED BY <3>2, <4>1, <4>2 DEF StoredAs
    <3>5. 1..(1 - 1) = {}
      OBVIOUS
    <3> QED BY <1>2, <2>1, <2>2, <2>3, <3>2, <3>3, <3>4, <3>5 DEF Storing
  <2> QED BY <2>4, <2>5
<1>d. s.state \in {"AW", "W", "B"} /\ ~s.re =>
        /\ cData'[b] = cMem'[Place(b, s.row)] /\ s.row < BankRows /\ s.row \in 0..(BankRows - 1)
        /\ ~s.done
        /\ \A r \in 0..(BankRows - 1) :
             r > s.row \/ (s.state = "AW" /\ r = s.row) => Place(b, r) \notin rushed'
  <2> SUFFICES ASSUME s.state \in {"AW", "W", "B"}, ~s.re
               PROVE  /\ cData'[b] = cMem'[Place(b, s.row)] /\ s.row < BankRows
                      /\ s.row \in 0..(BankRows - 1) /\ ~s.done
                      /\ \A r \in 0..(BankRows - 1) :
                           r > s.row \/ (s.state = "AW" /\ r = s.row) => Place(b, r) \notin rushed'
    OBVIOUS
  <2>1. cData'[b] = cMem'[Place(b, s.row)]
    BY DEF Storing, ReadOut
  <2>2. s.row < BankRows /\ s.row \in 0..(BankRows - 1) /\ ~s.done
    BY <1>0 DEF Storing, StoreKind
  <2>3. \A r \in 0..(BankRows - 1) :
          r > s.row \/ (s.state = "AW" /\ r = s.row) => Place(b, r) \notin rushed'
    BY <1>b DEF Storing
  <2> QED BY <2>1, <2>2, <2>3
<1>5. CASE s.state = "AW" /\ ~s.re
  <2>1. CASE ~h
    <3>1. t = [s EXCEPT !.re = FALSE]
      BY <1>5, <2>1 DEF StoreNext, StoreKind
    <3>2. t \in StoreKind(t.data) /\ t.state = "AW" /\ t.row = s.row /\ ~t.re /\ ~t.done
      BY <1>5, <1>d, <3>1 DEF StoreKind
    <3> QED BY <1>2, <1>5, <1>d, <3>2 DEF Storing
  <2>2. CASE h
    <3>1. t = [s EXCEPT !.re = FALSE, !.data = cData[b], !.beat = 1, !.state = "W"]
      BY <1>5, <2>2 DEF StoreNext, StoreAw, StoreKind
    <3>2. t \in StoreKind(t.data) /\ t.state = "W" /\ t.row = s.row /\ ~t.re /\ ~t.done
          /\ t.beat = 1 /\ t.data = cData[b]
      <4>1. 1 \in 1..N
        BY <1>0
      <4> QED BY <1>5, <1>d, <3>1, <4>1 DEF StoreKind
    <3>3. StoredAs(b, s.row, t.data)'
      <4>1. Place(b, s.row) \notin rushed' /\ cData[b] = cMem[Place(b, s.row)]
        BY <1>5, <1>d DEF Storing
      <4> QED BY <3>2, <4>1 DEF StoredAs
    <3>4. 1..(1 - 1) = {}
      OBVIOUS
    <3> QED BY <1>2, <1>5, <1>d, <3>2, <3>3, <3>4 DEF Storing
  <2> QED BY <2>1, <2>2
<1>6. CASE s.state = "W" /\ ~s.re
  <2>1. s.row \in 0..(BankRows - 1) /\ s.beat \in 1..N /\ StoredAs(b, s.row, s.data)'
        /\ \A c \in 1..(s.beat - 1) : hbmC[Place(b, s.row)][c] = s.data[c]
    BY <1>6, <1>a, <1>d DEF StoreKind, Storing
  <2>2. CASE ~h
    <3>1. t = [s EXCEPT !.re = FALSE]
      BY <1>6, <2>2 DEF StoreNext, StoreKind
    <3>2. t \in StoreKind(t.data) /\ t.state = "W" /\ t.row = s.row /\ ~t.re /\ ~t.done
          /\ t.beat = s.beat /\ t.data = s.data
      BY <1>6, <1>d, <3>1 DEF StoreKind
    <3>3. \A c \in 1..(s.beat - 1) : hbmC'[Place(b, s.row)][c] = s.data[c]
      BY <1>0, <2>1, <2>2
    <3> QED BY <1>2, <1>6, <1>d, <2>1, <3>2, <3>3 DEF Storing
  <2>3. CASE h /\ s.beat # N
    <3>1. t = [s EXCEPT !.re = FALSE, !.beat = s.beat + 1]
      BY <1>6, <2>3 DEF StoreNext, StoreW, StoreKind
    <3>2. t \in StoreKind(t.data) /\ t.state = "W" /\ t.row = s.row /\ ~t.re /\ ~t.done
          /\ t.beat = s.beat + 1 /\ t.data = s.data
      <4>1. s.beat + 1 \in 1..N
        BY <1>0, <2>1, <2>3
      <4> QED BY <1>6, <1>d, <3>1, <4>1 DEF StoreKind
    <3>3. \A c \in 1..s.beat : hbmC'[Place(b, s.row)][c] = s.data[c]
      BY <1>0, <1>6, <2>1, <2>3
    <3>4. t.beat - 1 = s.beat
      <4>1. (s.beat + 1) - 1 = s.beat
        BY <2>1
      <4> QED BY <3>2, <4>1
    <3> QED BY <1>2, <1>6, <1>d, <2>1, <3>2, <3>3, <3>4 DEF Storing
  <2>4. CASE h /\ s.beat = N
    <3>1. t = [s EXCEPT !.re = FALSE, !.state = "B"]
      BY <1>6, <2>4 DEF StoreNext, StoreW, StoreKind
    <3>2. t \in StoreKind(t.data) /\ t.state = "B" /\ t.row = s.row /\ ~t.re /\ ~t.done
      BY <1>6, <1>d, <3>1 DEF StoreKind
    <3>3. \A c \in 1..N : hbmC'[Place(b, s.row)][c] = s.data[c]
      BY <1>0, <1>6, <2>1, <2>4
    <3>4. InHbm(b, s.row)'
      <4>1. ASSUME NEW x, RowC(x), s.data = x
            PROVE  hbmC'[Place(b, s.row)] = x
        BY <2>1, <3>3, <4>1 DEF RowC
      <4>2. CASE Place(b, s.row) \notin rushed'
        BY <2>1, <4>1, <4>2 DEF InHbm, StoredAs
      <4>3. CASE Place(b, s.row) \in rushed' /\ s.row > 0
        <5>1. s.row - 1 \in 0..(BankRows - 1)
          BY <1>0, <2>1, <4>3
        <5> QED BY <2>1, <4>1, <4>3, <5>1 DEF InHbm, StoredAs
      <4>4. CASE Place(b, s.row) \in rushed' /\ ~(s.row > 0)
        BY <4>4 DEF InHbm, StoredAs
      <4> QED BY <4>2, <4>3, <4>4
    <3> QED BY <1>2, <1>6, <1>d, <2>1, <3>2, <3>4 DEF Storing
  <2> QED BY <2>2, <2>3, <2>4
<1>7. CASE s.state = "B" /\ ~s.re /\ ~h
  <2>1. t = [s EXCEPT !.re = FALSE]
    BY <1>7 DEF StoreNext, StoreKind
  <2>2. t \in StoreKind(t.data) /\ t.state = "B" /\ t.row = s.row /\ ~t.re /\ ~t.done
    BY <1>7, <1>d, <2>1 DEF StoreKind
  <2>3. InHbm(b, s.row)'
    BY <1>1, <1>7, <1>d DEF Storing
  <2> QED BY <1>2, <1>7, <1>d, <2>2, <2>3 DEF Storing
<1>8. CASE s.state = "B" /\ ~s.re /\ h
  <2>1. s.row \in 0..(BankRows - 1) /\ InHbm(b, s.row) /\ ~s.done
    BY <1>8, <1>d DEF Storing
  <2>2. InHbm(b, s.row)'
    BY <1>1, <1>8, <2>1
  <2>3. \A r \in 0..((s.row + 1) - 1) : InHbm(b, r)'
    <3> TAKE r \in 0..((s.row + 1) - 1)
    <3>1. r = s.row \/ r \in 0..(s.row - 1)
      BY <2>1
    <3> QED BY <1>2, <1>8, <2>2, <3>1
  <2>4. CASE s.row = BankRows - 1
    <3>1. t = [s EXCEPT !.re = FALSE, !.row = s.row + 1, !.state = "DONE"]
      BY <1>8, <2>4 DEF StoreNext, StoreB, StoreKind
    <3>2. t \in StoreKind(t.data) /\ t.state = "DONE" /\ t.row = s.row + 1 /\ ~t.re
      <4>1. s.row + 1 \in 0..BankRows
        BY <1>0, <2>1
      <4> QED BY <1>8, <2>1, <3>1, <4>1 DEF StoreKind
    <3>3. t.row = BankRows
      <4>1. s.row + 1 = BankRows
        BY <1>0, <2>4
      <4> QED BY <3>2, <4>1
    <3>4. \A r \in 0..(BankRows - 1) : ~(r > t.row)
      <4>1. \A r \in 0..(BankRows - 1) : ~(r > BankRows)
        BY <1>0
      <4> QED BY <3>3, <4>1
    <3> QED BY <2>3, <3>2, <3>3, <3>4 DEF Storing
  <2>5. CASE s.row # BankRows - 1
    <3>1. t = [s EXCEPT !.re = TRUE, !.row = s.row + 1, !.raddr = s.row + 1, !.state = "AW"]
      BY <1>8, <2>5 DEF StoreNext, StoreB, StoreKind
    <3>2. t \in StoreKind(t.data) /\ t.state = "AW" /\ t.row = s.row + 1 /\ t.re
          /\ t.raddr = t.row /\ ~t.done
      <4>1. s.row + 1 \in 0..BankRows /\ s.row + 1 \in 0..(BankRows - 1)
        BY <1>0, <2>1, <2>5
      <4>2. /\ t.state = "AW" /\ t.row = s.row + 1 /\ t.re = TRUE /\ t.raddr = s.row + 1
            /\ t.done = s.done
        BY <3>1 DEF StoreKind
      <4>3. t \in StoreKind(t.data)
        BY <3>1, <4>1 DEF StoreKind
      <4> QED BY <2>1, <4>2, <4>3
    <3>3. t.row < BankRows
      <4>1. s.row + 1 < BankRows
        BY <1>0, <2>1, <2>5
      <4> QED BY <3>2, <4>1
    <3>4. t.row > 0 /\ cData'[b] = cMem'[Place(b, t.row - 1)]
      <4>1. (s.row + 1) - 1 = s.row /\ s.row + 1 > 0
        BY <2>1
      <4> QED BY <1>8, <1>d, <3>2, <4>1
    <3>5. \A r \in 0..(BankRows - 1) : r > t.row \/ r = t.row => Place(b, r) \notin rushed'
      <4>1. \A r \in 0..(BankRows - 1) : r > t.row \/ r = t.row => r > s.row
        <5>1. \A r \in 0..(BankRows - 1) : r > s.row + 1 \/ r = s.row + 1 => r > s.row
          BY <2>1
        <5>2. t.row = s.row + 1
          BY <3>2
        <5> QED BY <5>1, <5>2
      <4> QED BY <1>8, <1>d, <4>1
    <3> QED BY <2>3, <3>2, <3>3, <3>4, <3>5 DEF Storing
  <2> QED BY <2>4, <2>5
<1>9. CASE s.state = "DONE"
  <2>1. t = [s EXCEPT !.re = FALSE, !.done = TRUE, !.state = "DONE"]
    BY <1>9 DEF StoreNext, StoreKind
  <2>2. t \in StoreKind(t.data) /\ t.state = "DONE" /\ t.row = s.row /\ ~t.re
    BY <1>9, <2>1 DEF StoreKind
  <2>3. \A r \in 0..(BankRows - 1) : ~(r > t.row)
    <3>1. \A r \in 0..(BankRows - 1) : ~(r > BankRows)
      BY <1>0
    <3>2. t.row = BankRows
      BY <1>9, <2>2 DEF Storing
    <3> QED BY <3>1, <3>2
  <2> QED BY <1>2, <1>9, <2>2, <2>3 DEF Storing
<1>10. s.state \in {"IDLE", "AW", "W", "B", "DONE"} /\ s.re \in BOOLEAN
  BY DEF StoreKind
<1> QED BY <1>3, <1>4, <1>5, <1>6, <1>7, <1>8, <1>9, <1>10

LEMMA StoreBegins == MmuInit => StoreInv
<1> SUFFICES ASSUME MmuInit PROVE StoreInv
  OBVIOUS
<1>1. \A row \in 0..(M - 1) : RowC(hbmC[row])
  BY DEF MmuInit, RowC, BlankC
<1>2. ASSUME NEW b \in Bank
      PROVE  BankInv(stores[b], b)
  <2>1. stores[b] = StoreReset(BlankC)
    BY DEF MmuInit
  <2>2. 0 \in 0..BankRows /\ 1 \in 1..N /\ 0 \in 0..(BankRows - 1)
    BY BankTile, Tile
  <2>3. state = "IDLE"
    BY DEF MmuInit, ControlInit
  <2>4. stores[b] \in StoreKind(stores[b].data)
    BY <2>1, <2>2 DEF StoreReset, StoreKind
  <2>5. ~stores[b].re /\ stores[b].state = "IDLE"
    BY <2>1 DEF StoreReset
  <2> QED BY <2>3, <2>4, <2>5 DEF BankInv
<1> QED BY <1>1, <1>2 DEF StoreInv

LEMMA StoreInvStep ==
  ASSUME ControlInv, PipeInv, StoreInv, MmuNext
  PROVE  StoreInv'
<1> PICK start \in BOOLEAN, hbm \in PortChoices : Tick(start, hbm)
  BY DEF MmuNext
<1>1. \A row \in 0..(M - 1) : RowC(hbmC'[row])
  BY DEF Tick, MemoryTakes, RowC
<1>2. \A row \in 0..(M - 1) : RowC(cMem[row]) /\ RowC(hbmC[row])
  BY DEF PipeInv, PipeTypes, StoreInv
<1>3. /\ ControlTick(start, Loaded, AllStored, CValid) /\ MemoryTakes(hbm)
      /\ cMem' = Written(cMem, CValid, cWr, CRow)
  BY DEF Tick, Buffers
<1>4. cstate # "STREAM_A" => cMem' = cMem
  <2>1. LATENCY \in 1..LATENCY
    BY Long
  <2> QED BY <1>3, <2>1 DEF PipeInv, CValid, Written
<1>5. ASSUME NEW CONSTANT b \in Bank
      PROVE  BankInv(stores[b], b)'
  <2>1. PICK s, t, h, st : s = stores[b] /\ t = stores'[b] /\ h = hbm[b] /\ st = storeStart
    OBVIOUS
  <2>2. t = StoreNext(s, cData[b], BankRows, N, st, h)
    BY <2>1 DEF Tick
  <2>3. /\ BankInv(s, b) /\ s \in StoreKind(s.data)
        /\ st \in BOOLEAN /\ (st <=> state = "STORE_C") /\ h \in BOOLEAN
    <3>1. b \in Ports
      BY BankTile DEF Bank, Ports, PortB
    <3> QED BY <2>1, <3>1 DEF StoreInv, BankInv, ControlInv, PortChoices
  <2>4. \A r \in 0..(BankRows - 1), c \in 1..N :
          hbmC'[Place(b, r)][c] = IF h /\ s.state = "W" /\ s.row = r /\ s.beat = c
                                  THEN s.data[c] ELSE hbmC[Place(b, r)][c]
    BY <1>3, <2>1, OwnBeats
  <2>5. \A r \in 0..(BankRows - 1) : /\ RowC(cMem[Place(b, r)]) /\ RowC(hbmC[Place(b, r)])
                                     /\ RowC(hbmC'[Place(b, r)])
    BY <1>1, <1>2, Places
  <2>6. cData'[b] = ReadOut(cData[b], cMem, IF s.re THEN b * BankRows + s.raddr ELSE Off)
    BY <2>1 DEF Tick, Buffers
  <2>a. rushed' = IF state = "LOAD_AB" THEN {} ELSE rushed \cup Rushing(hbm)
    BY DEF Tick
  <2>b. state # "LOAD_AB" => \A r \in 0..(BankRows - 1) :
          Place(b, r) \in rushed'
            <=> Place(b, r) \in rushed \/ (s.state = "AW" /\ s.re /\ h /\ s.row = r)
    BY <2>1, <2>a, OwnRush
  <2>c. state \in {"IDLE", "LOAD_AB", "COMPUTE"} => Rushing(hbm) = {}
    BY DEF StoreInv, BankInv, Rushing
  <2>7. CASE state = "STORE_C"
    <3>1. st = TRUE /\ Storing(s, b) /\ cMem' = cMem
      BY <1>4, <2>3, <2>7 DEF BankInv, ControlInv
    <3>2. t = StoreNext(s, cData[b], BankRows, N, TRUE, h)
      BY <2>2, <3>1
    <3>3. t \in StoreKind(t.data) /\ Storing(t, b)'
      BY <2>3, <2>4, <2>5, <2>6, <2>7, <2>b, <3>1, <3>2, StoringStep
    <3>4. state' = IF AllStored THEN "DONE" ELSE "STORE_C"
      BY <1>3, <2>7 DEF ControlTick, CtlIdle, CtlLoading, CtlLoaded, CtlLoadW, CtlStreamA,
                        CtlStoreC, CtlDone
    <3>5. CASE AllStored
      <4>1. s.done /\ s.state = "DONE" /\ s.row = BankRows
        BY <2>1, <3>1, <3>5 DEF AllStored, Storing
      <4>2. t.state = "DONE" /\ t.row = BankRows /\ ~t.re
        BY <2>3, <3>2, <4>1 DEF StoreNext, StoreKind
      <4>3. \A r \in 0..(BankRows - 1) : InHbm(b, r)'
        BY <3>3, <4>2 DEF Storing
      <4> QED BY <2>1, <3>3, <3>4, <3>5, <4>2, <4>3 DEF BankInv
    <3>6. CASE ~AllStored
      BY <2>1, <3>3, <3>4, <3>6 DEF BankInv
    <3> QED BY <3>5, <3>6
  <2>8. CASE state # "STORE_C"
    <3>1. ~st /\ ~s.re /\ s.state \in {"IDLE", "DONE"}
      BY <2>3, <2>8 DEF BankInv
    <3>2. /\ t \in StoreKind(t.data) /\ t.state = "IDLE" /\ ~t.re
          /\ s.state = "IDLE" => ~t.done
      BY <2>2, <2>3, <3>1 DEF StoreNext, StoreIdle, StoreKind
    <3>3. CASE state = "DONE"
      <4>1. state' \in {"DONE", "IDLE"}
        BY <1>3, <3>3 DEF ControlTick, CtlIdle, CtlLoading, CtlLoaded, CtlLoadW, CtlStreamA,
                          CtlStoreC, CtlDone
      <4>2. cMem' = cMem
        BY <1>4, <3>3 DEF ControlInv
      <4>3. \A r \in 0..(BankRows - 1) : InHbm(b, r)'
        <5> TAKE r \in 0..(BankRows - 1)
        <5>1. InHbm(b, r)
          BY <2>3, <3>3 DEF BankInv
        <5>2. \A c \in 1..N : hbmC'[Place(b, r)][c] = hbmC[Place(b, r)][c]
          BY <2>4, <3>1
        <5>3. hbmC'[Place(b, r)] = hbmC[Place(b, r)]
          BY <2>5, <5>2 DEF RowC
        <5>4. Place(b, r) \in rushed' <=> Place(b, r) \in rushed
          BY <2>b, <3>1, <3>3
        <5> QED BY <4>2, <5>1, <5>3, <5>4 DEF InHbm, StoredAs
      <4> QED BY <2>1, <3>2, <4>1, <4>3 DEF BankInv
    <3>4. CASE state \in {"IDLE", "LOAD_AB", "COMPUTE"}
      <4>1. s.state = "IDLE"
        BY <2>3, <3>4 DEF BankInv
      <4>2. state' \in {"IDLE", "LOAD_AB", "COMPUTE", "STORE_C"}
        BY <1>3, <3>4 DEF ControlTick, CtlIdle, CtlLoading, CtlLoaded, CtlLoadW, CtlStreamA,
                          CtlStoreC, CtlDone
      <4>3. state' \in {"COMPUTE", "STORE_C"} => rushed' = {}
        <5>1. state' \in {"COMPUTE", "STORE_C"} => state \in {"LOAD_AB", "COMPUTE"}
          BY <1>3, <3>4 DEF ControlTick, CtlIdle, CtlLoading, CtlLoaded, CtlLoadW, CtlStreamA,
                            CtlStoreC, CtlDone
        <5>2. state = "COMPUTE" => rushed = {}
          BY <2>3 DEF BankInv
        <5> QED BY <2>a, <2>c, <5>1, <5>2
      <4>4. rushed' = {} => Storing(t, b)'
        BY <3>2, <4>1 DEF Storing
      <4> QED BY <2>1, <3>2, <4>1, <4>2, <4>3, <4>4 DEF BankInv
    <3> QED BY <2>8, <3>3, <3>4 DEF ControlInv
  <2> QED BY <2>7, <2>8
<1> QED BY <1>1, <1>5 DEF StoreInv

-----------------------------------------------------------------------------
(* The theorems.                                                           *)

LEMMA Stutters ==
  ASSUME UNCHANGED mmuVars
  PROVE  /\ ControlInv => ControlInv'
         /\ LoadInv => LoadInv'
         /\ PipeInv => PipeInv'
         /\ StoreInv => StoreInv'
<1>1. /\ state' = state /\ cstate' = cstate /\ loadStart' = loadStart
      /\ storeStart' = storeStart /\ fsmDone' = fsmDone /\ aRead' = aRead /\ bRead' = bRead
      /\ wDrive' = wDrive /\ aDrive' = aDrive /\ wCnt' = wCnt /\ aCnt' = aCnt
      /\ cCnt' = cCnt /\ cWr' = cWr
  BY DEF mmuVars, controlVars
<1>2. /\ aSkew' = aSkew /\ a1' = a1 /\ w' = w /\ psum' = psum /\ cSkew' = cSkew
      /\ validPipe' = validPipe
  BY DEF mmuVars, arrayVars
<1>3. /\ loadA' = loadA /\ loadB' = loadB /\ stores' = stores /\ job' = job /\ driven' = driven
      /\ rushed' = rushed
      /\ aMem' = aMem /\ aData' = aData /\ bMem' = bMem /\ cMem' = cMem /\ cData' = cData
      /\ hbmC' = hbmC
  BY DEF mmuVars, bufferVars
<1>4. ControlInv => ControlInv'
  BY <1>1, <1>3 DEF ControlInv
<1>5. LoadInv => LoadInv'
  <2>1. Phase' = Phase
    BY <1>1 DEF Phase
  <2>2. LoadedBeforeCompute => LoadedBeforeCompute'
    BY <1>1, <1>3 DEF LoadedBeforeCompute
  <2>3. loadA' = loadA /\ loadB' = loadB /\ aMem' = aMem /\ bMem' = bMem /\ job' = job
    BY <1>3
  <2>4. ASSUME LoadInv
        PROVE  /\ EngineInv(Phase', loadA', aMem', MatrixA(job'), M, K)
               /\ EngineInv(Phase', loadB', bMem', MatrixB(job'), K, N)
    BY <2>1, <2>3, <2>4, Zenon DEF LoadInv
  <2>5. ASSUME LoadInv
        PROVE  LoadInv'
    <3>1. LoadedBeforeCompute'
      BY <2>2, <2>5 DEF LoadInv
    <3> QED BY <2>4, <2>5, <3>1 DEF LoadInv
  <2> QED BY <2>5
<1>6. PipeInv => PipeInv'
  <2>1. PipeTypes => PipeTypes'
    BY <1>1, <1>2, <1>3 DEF PipeTypes
  <2>2. \A n \in Nat : Streams(n) => Streams(n)'
    <3> TAKE n \in Nat
    <3>1. Counts(n) => Counts(n)'
      BY <1>1, <1>3 DEF Counts
    <3>2. \A a : RowAt(RowDriven(n - a), a)' <=> RowAt(RowDriven(n - a), a)
      <4>1. \A i : RowDriven(i)' = RowDriven(i)
        BY <1>3 DEF RowDriven, BlankA
      <4>2. \A row, r, c : Partial(row, r, c)' = Partial(row, r, c)
        BY <1>2 DEF Partial
      <4> QED BY <1>2, <4>1, <4>2 DEF RowAt
    <3>3. \A i : Result(i)' = Result(i)
      BY <1>2, <1>3 DEF Result, RowDriven, BlankA, RowTimesWeights
    <3> QED BY <1>1, <1>2, <1>3, <3>1, <3>2, <3>3 DEF Streams
  <2>3. \A row \in 0..(M - 1) : Result(row)' = Result(row)
    BY <1>2, <1>3 DEF Result, RowDriven, BlankA, RowTimesWeights
  <2>4. Empty' <=> Empty
    BY <1>2 DEF Empty
  <2> QED BY <1>1, <1>2, <1>3, <2>1, <2>2, <2>3, <2>4 DEF PipeInv
<1>7. StoreInv => StoreInv'
  BY <1>1, <1>3 DEF StoreInv, BankInv, Storing, InHbm, StoredAs
<1> QED BY <1>4, <1>5, <1>6, <1>7

MmuInv == ControlInv /\ LoadInv

(* Whatever the tile, and whenever the memory ports answer: the engines'   *)
(* done is a level that outlives their work, yet when control loads and    *)
(* feeds the array both buffers hold the matrices of this kernel whole     *)
(* (mmu_control.sv S_LOAD_AB, mmu_load_engine.sv).                         *)
THEOREM LoadedHolds == MmuSpec => []LoadedBeforeCompute
<1>1. MmuInit => MmuInv
  BY ControlBegins, LoadBegins DEF MmuInv
<1>2. MmuInv /\ [MmuNext]_mmuVars => MmuInv'
  <2> SUFFICES ASSUME MmuInv, [MmuNext]_mmuVars PROVE MmuInv'
    OBVIOUS
  <2>1. CASE MmuNext
    BY <2>1, ControlStep, LoadInvStep DEF MmuInv
  <2>2. CASE UNCHANGED mmuVars
    BY <2>2, Stutters DEF MmuInv
  <2> QED BY <2>1, <2>2
<1>3. MmuInv => LoadedBeforeCompute
  BY DEF MmuInv, LoadInv
<1> QED BY <1>1, <1>2, <1>3, PTL DEF MmuSpec

PipedInv == MmuInv /\ PipeInv

LEMMA PipedStep ==
  ASSUME PipedInv, [MmuNext]_mmuVars
  PROVE  PipedInv'
<1>1. CASE MmuNext
  BY <1>1, ControlStep, LoadInvStep, PipeInvStep DEF PipedInv, MmuInv
<1>2. CASE UNCHANGED mmuVars
  BY <1>2, Stutters DEF PipedInv, MmuInv
<1> QED BY <1>1, <1>2

LEMMA PipeCaptures ==
  ASSUME PipeInv
  PROVE  CapturesWhatWasDriven
<1> SUFFICES ASSUME CValid
             PROVE  cWr < Len(driven) /\ CRow = Result(cWr)
  BY DEF CapturesWhatWasDriven
<1>1. LATENCY \in 1..LATENCY
  BY Long
<1>2. cstate = "STREAM_A"
  BY <1>1 DEF PipeInv, CValid
<1>3. PICK n \in Nat : Streams(n)
  BY <1>2 DEF PipeInv
<1> QED BY <1>3, Captures DEF PipeInv

LEMMA PipedBegins == MmuInit => PipedInv
BY ControlBegins, LoadBegins, PipeBegins DEF PipedInv, MmuInv

(* For every mesh and number of rows: the rows written to the C buffer are *)
(* the array's successive rows, whole, from the one driven Slip rows after *)
(* the first, and zeros behind the last (mmu_systolic_array.sv).           *)
THEOREM CapturesHolds == MmuSpec => []CapturesWhatWasDriven
<1>1. MmuInit => PipedInv
  BY PipedBegins
<1>2. PipedInv /\ [MmuNext]_mmuVars => PipedInv'
  BY PipedStep
<1>3. PipedInv => CapturesWhatWasDriven
  BY PipeCaptures DEF PipedInv
<1> QED BY <1>1, <1>2, <1>3, PTL DEF MmuSpec

LEMMA DoneIsStored ==
  ASSUME ControlInv, PipeInv, StoreInv
  PROVE  DoneMeansStored
<1> SUFFICES ASSUME fsmDone
             PROVE  /\ Len(driven) = M
                    /\ \A b \in Bank, r \in 0..(BankRows - 1) :
                         IF Place(b, r) \notin rushed THEN hbmC[Place(b, r)] = Result(Place(b, r))
                         ELSE r > 0 => hbmC[Place(b, r)] = Result(Place(b, r) - 1)
  BY DEF DoneMeansStored
<1>1. state = "DONE"
  BY DEF ControlInv
<1>2. Len(driven) = M /\ \A row \in 0..(M - 1) : cMem[row] = Result(row)
  BY <1>1 DEF PipeInv
<1>3. ASSUME NEW b \in Bank, NEW r \in 0..(BankRows - 1)
      PROVE  IF Place(b, r) \notin rushed THEN hbmC[Place(b, r)] = Result(Place(b, r))
             ELSE r > 0 => hbmC[Place(b, r)] = Result(Place(b, r) - 1)
  <2>1. StoredAs(b, r, hbmC[Place(b, r)])
    BY <1>1 DEF StoreInv, BankInv, InHbm
  <2>2. cMem[Place(b, r)] = Result(Place(b, r))
    BY <1>2, Places
  <2>3. r > 0 => cMem[Place(b, r - 1)] = Result(Place(b, r) - 1)
    <3> SUFFICES ASSUME r > 0 PROVE cMem[Place(b, r - 1)] = Result(Place(b, r) - 1)
      OBVIOUS
    <3>1. r - 1 \in 0..(BankRows - 1)
      BY BankTile
    <3>2. Place(b, r - 1) \in 0..(M - 1) /\ Place(b, r) \in 0..(M - 1)
      BY <3>1, Places
    <3>3. Place(b, r - 1) = Place(b, r) - 1
      <4>1. b * BankRows \in Nat
        BY BankTile DEF Bank
      <4> QED BY <4>1 DEF Place
    <3> QED BY <1>2, <3>2, <3>3
  <2> QED BY <2>1, <2>2, <2>3 DEF StoredAs
<1> QED BY <1>2, <1>3

StoredInv == PipedInv /\ StoreInv

LEMMA StoredBegins == MmuInit => StoredInv
BY PipedBegins, StoreBegins DEF StoredInv

LEMMA StoredStep == StoredInv /\ [MmuNext]_mmuVars => StoredInv'
<1> SUFFICES ASSUME StoredInv, [MmuNext]_mmuVars PROVE StoredInv'
  OBVIOUS
<1>1. PipedInv'
  BY PipedStep DEF StoredInv
<1>2. CASE MmuNext
  BY <1>1, <1>2, StoreInvStep DEF StoredInv, PipedInv, MmuInv
<1>3. CASE UNCHANGED mmuVars
  BY <1>1, <1>3, Stutters DEF StoredInv
<1> QED BY <1>2, <1>3

LEMMA StoredMeans == StoredInv => DoneMeansStored
BY DoneIsStored DEF StoredInv, PipedInv, MmuInv

(* For every tile and number of banks, and ports that answer whenever they *)
(* like: the done that the host polls means that every row the unit        *)
(* computed is in HBM in its place, but for the rows whose AW was taken on *)
(* the first edge of its offer, where the row before it is                 *)
(* (mmu_store_engine.sv S_AW, mmu_control.sv S_DONE).                      *)
THEOREM DoneHolds == MmuSpec => []DoneMeansStored
BY StoredBegins, StoredStep, StoredMeans, PTL DEF MmuSpec

(* The unit as mmu_pkg.sv sizes it: 2K + 2N - 2 is 126 edges, the way 66,  *)
(* and the stream of 32 rows is over before the first c_valid.  Every row  *)
(* that done promises, and that was not rushed, is stored as zeros.        *)
THEOREM CodeTileStoresZeros ==
  ASSUME M = 32, N = 32, K = 32
  PROVE  MmuSpec => [](fsmDone => \A b \in Bank, r \in 0..(BankRows - 1) :
                                   Place(b, r) \notin rushed => hbmC[Place(b, r)] = BlankC)
<1> DEFINE Zeros == fsmDone => \A b \in Bank, r \in 0..(BankRows - 1) :
                                 Place(b, r) \notin rushed => hbmC[Place(b, r)] = BlankC
<1>1. StoredInv => Zeros
  <2> SUFFICES ASSUME StoredInv, fsmDone, NEW b \in Bank, NEW r \in 0..(BankRows - 1),
                      Place(b, r) \notin rushed
               PROVE  hbmC[Place(b, r)] = BlankC
    OBVIOUS
  <2>1. hbmC[Place(b, r)] = Result(Place(b, r)) /\ Len(driven) = M
    BY StoredMeans DEF DoneMeansStored
  <2>2. Place(b, r) \in 0..(M - 1)
    BY Places
  <2>3. Place(b, r) + 1 + Slip > M
    BY <2>2 DEF Slip
  <2>4. RowDriven(Place(b, r) + 1 + Slip) = BlankA
    BY <2>1, <2>2, <2>3 DEF RowDriven
  <2> QED BY <2>1, <2>4, ZerosLeaveNothing DEF Result
<1> HIDE DEF Zeros
<1>2. MmuSpec => []Zeros
  BY <1>1, StoredBegins, StoredStep, PTL DEF MmuSpec
<1> QED BY <1>2 DEF Zeros
=============================================================================
