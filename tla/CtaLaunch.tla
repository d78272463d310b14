----------------------------- MODULE CtaLaunch -----------------------------
(***************************************************************************)
(* Launching CTAs and waiting for them: csr_write, csr_read, launch_cta,   *)
(* wait_for_cta_done and reset_chip of src/host/mini_dice.py, on the       *)
(* three backends, with the chip's control registers (external).           *)
(*                                                                         *)
(* A write, of a CSR or of SOFT_RESET, is posted: it is on its way (link)  *)
(* when write32 returns.  On hardware a read comes after every posted      *)
(* write, but the link may lose a write; the co-simulation loses none, but *)
(* a read may overtake writes; the mock is a dictionary.  The chip clears  *)
(* its complete bit when it takes START, sets it when a CTA is done, and   *)
(* may hang.                                                               *)
(***************************************************************************)
EXTENDS Naturals, Sequences

CONSTANTS
  Backends,   \* the backends a run may use
  NRegs,      \* launch registers: STARTPC, THREAD_COUNT, CSRX0..7
  Shared,     \* those that have the same value for every CTA
  MaxCta,     \* bound on launches
  MaxDrops,   \* bound on the writes the link loses
  MaxUnderWay \* bound on the writes under way when a reset is asked for

Regs == 1..NRegs

ASSUME LaunchAssumption ==
  /\ Backends \subseteq {"hw", "cosim", "mock"}
  /\ NRegs \in Nat \ {0} /\ Shared \subseteq Regs
  /\ MaxCta \in Nat /\ MaxDrops \in Nat /\ MaxUnderWay \in Nat

VARIABLES
  backend,    \* MiniDice.mock and MiniDice.cosim
  pc,         \* where the driver is
  cta,        \* number of the CTA launched last
  reg,        \* the next launch register to write
  warned,     \* the read-back before START found a mismatch and said so
  expired,    \* the deadline of the call in progress has passed
  outcome,    \* of the launch, as its caller sees it
  why,        \* which TimeoutError a failed wait raised
  link,       \* posted writes on their way to the chip
  csr,        \* the launch registers of the chip
  complete,   \* bit 0 of REG_STATUS
  running,    \* the CTAs the chip is running
  taken,      \* the CTA whose START the chip took last
  finished,   \* the CTAs the chip has completed
  rstBit,     \* SOFT_RESET bit of the regmap
  drops,      \* writes lost so far
  resetLost,  \* history: the link has lost the write of the last reset_chip
  leftover,   \* history: CTAs the last reset_chip left running, its write lost or late
  early       \* history: the last launch began before the reset was over

driverVars == <<backend, pc, cta, reg, warned, expired, outcome, why>>
chipVars   == <<csr, complete, running, taken, finished, rstBit>>
histVars   == <<resetLost, leftover, early>>
launchVars == <<driverVars, chipVars, link, drops, histVars>>

(* The value launch_cta gives a register; an override of test_vector.py    *)
(* makes it differ from CTA to CTA.  0 is what a reset leaves.             *)
Want(c, r) == IF r \in Shared THEN 0 ELSE c

Start     == 0
SoftReset == NRegs + 1
Write(r, v) == [reg |-> r, val |-> v]

(* CTAs whose START the chip has still to take.                            *)
StartsUnderWay == {link[i].val : i \in {j \in DOMAIN link : link[j].reg = Start}}

LaunchInit ==
  /\ backend \in Backends
  /\ pc = "idle" /\ cta = 0 /\ reg = 1
  /\ warned = FALSE /\ expired = FALSE
  /\ outcome = "idle" /\ why = "none"
  /\ link = <<>>
  /\ csr = [r \in Regs |-> 0] /\ complete = FALSE
  /\ running = {} /\ taken = 0 /\ finished = {}
  /\ rstBit = 0 /\ drops = 0
  /\ resetLost = FALSE /\ leftover = {} /\ early = FALSE

(***************************************************************************)
(* launch_cta.                                                             *)
(***************************************************************************)
LaunchCta ==
  /\ pc = "idle" /\ cta < MaxCta
  /\ cta' = cta + 1 /\ reg' = 1
  /\ pc' = "program" /\ outcome' = "pending"
  /\ warned' = FALSE /\ why' = "none"
  /\ early' = (link # <<>> \/ rstBit = 1)
  /\ UNCHANGED <<backend, expired, chipVars, link, drops, resetLost, leftover>>

(* One csr_write of the launch registers.                                  *)
ProgramCsr ==
  /\ pc = "program"
  /\ IF backend = "mock"
     THEN csr' = [csr EXCEPT ![reg] = Want(cta, reg)] /\ UNCHANGED link
     ELSE link' = Append(link, Write(reg, Want(cta, reg))) /\ UNCHANGED csr
  /\ IF reg < NRegs
     THEN reg' = reg + 1 /\ UNCHANGED pc
     ELSE reg' = 1 /\ pc' = IF backend = "hw" THEN "verify" ELSE "pulse"
  /\ UNCHANGED <<backend, cta, warned, expired, outcome, why,
                 complete, running, taken, finished, rstBit, drops, histVars>>

(* Mutation of Mismatch: only STARTPC is read back.                        *)
MismatchOfFirst(c) == csr[1] # Want(c, 1)

Mismatch(c) == \E r \in Regs : csr[r] # Want(c, r)

(* The read-back of hardware launches: nothing else writes the registers,  *)
(* so its ten reads are one step.  A mismatch is printed, and START        *)
(* follows all the same.                                                   *)
VerifyCsrs ==
  /\ pc = "verify" /\ link = <<>>
  /\ warned' = Mismatch(cta)
  /\ pc' = "pulse"
  /\ UNCHANGED <<backend, cta, reg, expired, outcome, why, chipVars, link, drops, histVars>>

(* CTRL.START; the caller goes on to wait_for_cta_done, whose deadline     *)
(* starts now.  On the mock both calls clear STATUS.                       *)
PulseStart ==
  /\ pc = "pulse"
  /\ IF backend = "mock"
     THEN complete' = FALSE /\ taken' = cta /\ UNCHANGED link
     ELSE link' = Append(link, Write(Start, cta)) /\ UNCHANGED <<complete, taken>>
  /\ pc' = "drop" /\ expired' = FALSE
  /\ UNCHANGED <<backend, cta, reg, warned, outcome, why, csr, running, finished, rstBit, drops,
                 histVars>>

(***************************************************************************)
(* wait_for_cta_done: phase 1 polls until complete is 0, phase 2 until it  *)
(* is 1; a poll that finds the other value looks at the clock after it.    *)
(***************************************************************************)
CanRead == backend = "hw" => link = <<>>

(* Mutation of PollDrop: no phase 1; the first poll is phase 2's.          *)
PollDropAtOnce ==
  /\ pc = "drop" /\ CanRead
  /\ pc' = "rise"
  /\ UNCHANGED <<backend, cta, reg, warned, expired, outcome, why, chipVars, link, drops, histVars>>

PollDrop ==
  /\ pc = "drop" /\ CanRead
  /\ IF complete
     THEN pc' = "dropLate" /\ UNCHANGED <<complete, finished>>
     ELSE /\ pc' = "rise"
          /\ IF backend = "mock"
             THEN complete' = TRUE /\ finished' = finished \cup {cta}
             ELSE UNCHANGED <<complete, finished>>
  /\ UNCHANGED <<backend, cta, reg, warned, expired, outcome, why,
                 csr, running, taken, rstBit, link, drops, histVars>>

PollRise ==
  /\ pc = "rise" /\ CanRead
  /\ IF complete THEN pc' = "idle" /\ outcome' = "done" ELSE pc' = "riseLate" /\ UNCHANGED outcome
  /\ UNCHANGED <<backend, cta, reg, warned, expired, why, chipVars, link, drops, histVars>>

(* Mutation of CheckDeadline: phase 2 forgets to look at the clock.        *)
CheckDeadlineInDropOnly ==
  /\ pc \in {"dropLate", "riseLate"}
  /\ IF expired /\ pc = "dropLate"
     THEN pc' = "failed" /\ outcome' = "failed" /\ why' = "never dropped"
     ELSE pc' = (IF pc = "dropLate" THEN "drop" ELSE "rise") /\ UNCHANGED <<outcome, why>>
  /\ UNCHANGED <<backend, cta, reg, warned, expired, chipVars, link, drops, histVars>>

CheckDeadline ==
  /\ pc \in {"dropLate", "riseLate"}
  /\ IF expired
     THEN /\ pc' = "failed" /\ outcome' = "failed"
          /\ why' = IF pc = "dropLate" THEN "never dropped" ELSE "never set"
     ELSE /\ pc' = IF pc = "dropLate" THEN "drop" ELSE "rise"
          /\ UNCHANGED <<outcome, why>>
  /\ UNCHANGED <<backend, cta, reg, warned, expired, chipVars, link, drops, histVars>>

(* The clock passes the deadline.  A posted write takes microseconds, the  *)
(* deadline is seconds away.                                               *)
Expire ==
  /\ pc \in {"drop", "dropLate", "rise", "riseLate", "reset"} /\ ~expired /\ link = <<>>
  /\ expired' = TRUE
  /\ UNCHANGED <<backend, pc, cta, reg, warned, outcome, why, chipVars, link, drops, histVars>>

(***************************************************************************)
(* reset_chip, with which run_test begins: after a failed wait or a        *)
(* successful one.                                                         *)
(***************************************************************************)
ResetChip ==
  /\ pc \in {"idle", "failed"} /\ Len(link) <= MaxUnderWay
  /\ IF backend = "mock"
     THEN pc' = "idle" /\ outcome' = "idle" /\ UNCHANGED link
     ELSE pc' = "reset" /\ outcome' = "failed" /\ link' = Append(link, Write(SoftReset, 1))
  /\ expired' = FALSE /\ why' = "none" /\ resetLost' = FALSE
  /\ UNCHANGED <<backend, cta, reg, warned, chipVars, drops, leftover, early>>

(* What a reset leaves running whose write was lost or is still on its way *)
(* when reset_chip returns; one whose write has arrived has to stop all.   *)
LeftByReset == IF resetLost \/ link # <<>> THEN running \cup StartsUnderWay ELSE {}

(* Mutation of ResetPoll: does not wait for the bit to clear.              *)
ResetPollOnce ==
  /\ pc = "reset"
  /\ pc' = "idle" /\ outcome' = "idle" /\ leftover' = LeftByReset
  /\ UNCHANGED <<backend, cta, reg, warned, expired, why, chipVars, link, drops, resetLost, early>>

(* The loop looks at the clock first, so a bit that clears after the last  *)
(* look is not seen.  A clear bit says that the pulse is over, or that the *)
(* write never set it: lost, or overtaken by this read.                    *)
ResetPoll ==
  /\ pc = "reset"
  /\ \/ expired /\ pc' = "failed" /\ UNCHANGED <<outcome, leftover>>
     \/ /\ ~expired /\ CanRead /\ rstBit = 0
        /\ pc' = "idle" /\ outcome' = "idle" /\ leftover' = LeftByReset
  /\ UNCHANGED <<backend, cta, reg, warned, expired, why, chipVars, link, drops, resetLost, early>>

(***************************************************************************)
(* The link and the chip.                                                  *)
(***************************************************************************)
(* What the chip makes of a START while it runs a CTA is not known: it may *)
(* go on with either, with both or with none.                              *)
Deliver ==
  /\ link # <<>>
  /\ LET w == Head(link)
     IN  \/ /\ w.reg = Start
            /\ running' \in IF running = {} THEN {{w.val}} ELSE SUBSET (running \cup {w.val})
            /\ complete' = FALSE /\ taken' = w.val
            /\ UNCHANGED <<csr, rstBit>>
         \/ /\ w.reg = SoftReset /\ rstBit' = 1
            /\ UNCHANGED <<csr, complete, running, taken>>
         \/ /\ w.reg \in Regs /\ csr' = [csr EXCEPT ![w.reg] = w.val]
            /\ UNCHANGED <<complete, running, taken, rstBit>>
  /\ link' = Tail(link)
  /\ UNCHANGED <<driverVars, finished, drops, histVars>>

LoseWrite ==
  /\ backend = "hw" /\ link # <<>> /\ drops < MaxDrops
  /\ link' = Tail(link) /\ drops' = drops + 1
  /\ resetLost' = (resetLost \/ Head(link).reg = SoftReset)
  /\ UNCHANGED <<driverVars, chipVars, leftover, early>>

ChipCompletes ==
  /\ \E c \in running : running' = running \ {c} /\ finished' = finished \cup {c}
  /\ complete' = TRUE
  /\ UNCHANGED <<driverVars, csr, taken, rstBit, link, drops, histVars>>

(* The soft-reset pulse; the bit clears itself at its end.                 *)
ResetPulse ==
  /\ rstBit = 1
  /\ rstBit' = 0
  /\ csr' = [r \in Regs |-> 0]
  /\ complete' = FALSE /\ running' = {}
  /\ UNCHANGED <<driverVars, taken, finished, link, drops, histVars>>

-----------------------------------------------------------------------------
Poll == PollDrop \/ PollRise \/ CheckDeadline \/ ResetPoll
Driver == LaunchCta \/ ProgramCsr \/ VerifyCsrs \/ PulseStart \/ Poll \/ ResetChip
Chip   == Deliver \/ LoseWrite \/ ChipCompletes \/ ResetPulse

LaunchNext == Driver \/ Expire \/ Chip

(* The driver's loops run, the clock advances, the link moves.  Nothing    *)
(* makes the chip complete a CTA or end a reset.                           *)
LaunchSpec == LaunchInit /\ [][LaunchNext]_launchVars
                /\ WF_launchVars(Poll) /\ WF_launchVars(Expire) /\ WF_launchVars(Deliver)

-----------------------------------------------------------------------------
Writes == [reg : Regs \cup {Start, SoftReset}, val : Nat]

DriverTypeOK ==
  /\ backend \in Backends
  /\ pc \in {"idle", "program", "verify", "pulse", "drop", "dropLate", "rise", "riseLate",
             "failed", "reset"}
  /\ cta \in 0..MaxCta /\ reg \in Regs
  /\ warned \in BOOLEAN /\ expired \in BOOLEAN
  /\ outcome \in {"idle", "pending", "done", "failed"}
  /\ why \in {"none", "never dropped", "never set"}

ChipTypeOK ==
  /\ csr \in [Regs -> Nat] /\ complete \in BOOLEAN
  /\ running \subseteq 1..MaxCta /\ taken \in 0..MaxCta /\ finished \subseteq 1..MaxCta
  /\ rstBit \in {0, 1}
  /\ leftover \subseteq 1..MaxCta /\ resetLost \in BOOLEAN /\ early \in BOOLEAN

LinkTypeOK == link \in Seq(Writes) /\ drops \in 0..MaxDrops

LaunchTypeOK == DriverTypeOK /\ ChipTypeOK /\ LinkTypeOK

(* A wait that returns speaks of its own CTA: neither a complete bit left  *)
(* by the CTA before, nor a lost or overtaken START, nor a CTA given up    *)
(* and reset makes it return (wait_for_cta_done, phase 1; reset_chip).     *)
(* The one exception: a CTA that still ran when reset_chip returned, its   *)
(* write lost or overtaken by its poll, has completed since.               *)
DoneMeansThisCta == outcome = "done" => cta \in finished \/ leftover \cap finished # {}

(* The chip never runs a CTA with launch registers that are not this       *)
(* CTA's, unless the read-back said so before START.  A lost write may     *)
(* leave the value of the CTA before (launch_cta, write-readback).  Only a *)
(* reset pulse that comes after reset_chip has returned can clear them.    *)
NoSilentGarbageStart ==
  cta \in running /\ (\E r \in Regs : csr[r] # Want(cta, r)) => warned \/ early

(* Every wait and every reset comes back, with a result or a TimeoutError, *)
(* even if the chip hangs.                                                 *)
WaitReturns == (pc \in {"drop", "rise", "reset"}) ~> (pc \in {"idle", "failed"})

(* The message of phase 1's TimeoutError: "complete_sticky never dropped   *)
(* after CTRL.START pulse".  The bit drops when the chip takes START.      *)
NeverDroppedIsTrue == why = "never dropped" => taken # cta

Service == INSTANCE CtaService
ImplementsCtaService == Service!ServiceSpec
=============================================================================
