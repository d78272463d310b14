--------------------------- MODULE SystolicArray ----------------------------
(***************************************************************************)
(* mmu_systolic_array.sv with its processing elements (mmu_systolic_pe.sv),*)
(* one clock edge at a time: input skew, mesh, output skew, valid pipe.    *)
(*                                                                         *)
(* An activation or a weight is a name or Nothing (the number zero); a     *)
(* partial sum is the set of products <<activation, weight>> added so far. *)
(* Every sum of numbers the array can form is one reading of such a set.   *)
(***************************************************************************)
EXTENDS MmuPkg, Sequences

CONSTANT Nothing   \* the number zero

(* Mutation of LATENCY: without the cycle of the absorbed A register.      *)
LATENCYNoAreg == 2 * K + 2 * N - 3

LATENCY == 2 * K + 2 * N - 2

VARIABLES
  aSkew,      \* a_skew
  a1,         \* A1 of each element, which is its a_out
  w,          \* B1 of each element, the weight
  psum,       \* P of each element
  cSkew,      \* c_skew
  validPipe   \* valid_pipe

arrayVars == <<aSkew, a1, w, psum, cSkew, validPipe>>

(* After reset; the weights are not reset, the fabric starts them at zero. *)
ArrayInit ==
  /\ aSkew = [r \in 1..K |-> [s \in 1..r |-> Nothing]]
  /\ a1 = [r \in 1..K |-> [c \in 1..N |-> Nothing]]
  /\ w = [r \in 1..K |-> [c \in 1..N |-> Nothing]]
  /\ psum = [r \in 1..K |-> [c \in 1..N |-> {}]]
  /\ cSkew = [c \in 1..N |-> [s \in 1..(N + 1 - c) |-> {}]]
  /\ validPipe = [i \in 1..LATENCY |-> FALSE]

Product(a, b) == IF Nothing \in {a, b} THEN {} ELSE {<<a, b>>}

(* The activation an element sees, and the partial sum from above.         *)
AIn(r, c)    == IF c = 1 THEN aSkew[r][r] ELSE a1[r][c - 1]
PsumIn(r, c) == IF r = 1 THEN {} ELSE psum[r - 1][c]

CValid == validPipe[LATENCY]
CRow   == [c \in 1..N |-> cSkew[c][N + 1 - c]]

(* One clock edge: wRow is the row to load with wData, or 0.               *)
ArrayTick(wRow, wData, aValid, aRow) ==
  /\ aSkew' = [r \in 1..K |-> [s \in 1..r |->
                 IF s > 1 THEN aSkew[r][s - 1] ELSE IF aValid THEN aRow[r] ELSE Nothing]]
  /\ a1' = [r \in 1..K |-> [c \in 1..N |-> AIn(r, c)]]
  /\ w' = [r \in 1..K |-> IF r = wRow THEN wData ELSE w[r]]
  /\ psum' = [r \in 1..K |-> [c \in 1..N |->
                PsumIn(r, c) \cup Product(a1[r][c], w[r][c])]]
  /\ cSkew' = [c \in 1..N |-> [s \in 1..(N + 1 - c) |->
                 IF s > 1 THEN cSkew[c][s - 1] ELSE psum[K][c]]]
  /\ validPipe' = <<aValid>> \o SubSeq(validPipe, 1, LATENCY - 1)

(* For the properties: a row of activations times the weights in the array.*)
RowTimesWeights(aRow) ==
  [c \in 1..N |-> UNION {Product(aRow[k], w[k][c]) : k \in 1..K}]
=============================================================================
