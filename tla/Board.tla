------------------------------- MODULE Board -------------------------------
(***************************************************************************)
(* The board that the bring-up tools of src/host look at (external), and   *)
(* the shell they are started from: one tool at a time, which may be       *)
(* killed.  What is wrong with the board is a record: lanes of the CSR     *)
(* write path stuck at 0 or 1, CSRs whose writes vanish and what they read *)
(* then, a register path, a DMA write path, a reset FSM, sub-IPs or a chip *)
(* that do not work, and the BAR layout of the loaded bitstream.           *)
(***************************************************************************)
EXTENDS Naturals, Sequences, FiniteSets

CONSTANTS
  Width,      \* bits of a CSR, 16 in the code
  Names,      \* the CSRs csr_selftest.py writes, in order
  Boards,     \* the boards there are
  MaxTools,   \* bound on tools started
  MaxDrops    \* bound on CSR writes lost now and then

Bits == 0..(Width - 1)
Csrs == {Names[i] : i \in DOMAIN Names}

BoardKind ==
  [lane0 : SUBSET Bits, lane1 : SUBSET Bits, dead : SUBSET Csrs, deadReads : SUBSET Bits,
   devices : BOOLEAN, lite : BOOLEAN, h2c : BOOLEAN, fsm : {"ok", "stuckSet", "stuckClear"},
   subIps : BOOLEAN, chip : BOOLEAN, layout : {"post", "pre", "none"}]

ASSUME BoardAssumption ==
  /\ Width \in Nat \ {0} /\ Names \in Seq(Csrs) /\ Names # <<>>
  /\ \A i, j \in DOMAIN Names : Names[i] = Names[j] => i = j
  /\ Boards \subseteq BoardKind
  /\ MaxTools \in Nat /\ MaxDrops \in Nat

VARIABLES
  board,    \* what is wrong with it
  tool,     \* the tool that runs, "none", or "hung" for a host that hangs
  tools,    \* tools started so far
  csr,      \* the CSRs, as sets of bits
  drops,    \* CSR writes lost now and then
  reg3,     \* scratch register of the regmap
  bram,     \* head: the first 128 bytes of DATA; rest: the others of 1 KB
  clean     \* the chip was reset after the last DMA write

boardVars == <<board, tool, tools, csr, drops, reg3, bram, clean>>
memVars   == <<reg3, bram, clean>>

BoardInit ==
  /\ board \in Boards
  /\ tool = "none" /\ tools = 0
  /\ csr = [n \in Csrs |-> {}] /\ drops = 0
  /\ reg3 = "0" /\ bram = [head |-> "other", rest |-> "other"] /\ clean = FALSE

Start(t) ==
  /\ tool = "none" /\ tools < MaxTools
  /\ tool' = t /\ tools' = tools + 1
  /\ UNCHANGED <<board, csr, drops, memVars>>

(* Between two tools the board may get worse, or be programmed anew.       *)
Change ==
  /\ tool = "none" /\ tools < MaxTools
  /\ \E b \in Boards \ {board} : board' = b
  /\ tools' = tools + 1
  /\ UNCHANGED <<tool, csr, drops, memVars>>

(* A CSR write as the board takes it, and a read.                          *)
Stored(n, v) == IF n \in board.dead THEN csr
                ELSE [csr EXCEPT ![n] = (v \ board.lane0) \cup board.lane1]
Reads(c, n)  == IF n \in board.dead THEN board.deadReads ELSE c[n]
=============================================================================
