------------------------------ MODULE Bringup ------------------------------
(***************************************************************************)
(* Bringing up a board: the self-test, the smoke tests and the probes of   *)
(* src/host started in any order on a board that keeps its state between   *)
(* them, may change between them, and on which any of them may be killed.  *)
(***************************************************************************)
EXTENDS CsrSelftest, Smoketest, BoardProbes

bringupVars == <<boardVars, selftestVars, smokeVars, probeVars>>

BringupInit == BoardInit /\ SelftestInit /\ SmokeInit /\ ProbesInit

Selftest == /\ \/ StartSelftest \/ SelftestRaises \/ SelftestHangs
               \/ TryPattern \/ SumUp \/ SelftestKilled
            /\ UNCHANGED <<smokeVars, probeVars>>
Smoke    == /\ StartSmoke \/ SmokeTests \/ SmokeKilled
            /\ UNCHANGED <<selftestVars, probeVars>>
Probes   == /\ StartInfo \/ InfoMain \/ StartProbeBar \/ ProbeOne \/ ProbesDone
            /\ UNCHANGED <<selftestVars, smokeVars>>

(* What the tools have said was about the board before.                    *)
BoardChanges == /\ Change
                /\ ForgetSelftest /\ ForgetSmoke /\ ForgetProbes

BringupNext == Selftest \/ Smoke \/ Probes \/ BoardChanges

BringupSpec == BringupInit /\ [][BringupNext]_bringupVars

-----------------------------------------------------------------------------
Values == SUBSET Bits

BringupTypeOK ==
  /\ board \in Boards /\ tool \in {"none", "selftest", "smoke", "info", "probe", "hung"}
  /\ csr \in [Csrs -> Values] /\ drops \in 0..MaxDrops
  /\ perOff \in [Csrs -> [landed : 0..Total, diff : Values, missrb : SUBSET Values]]
  /\ perRound \in Seq(Nat) /\ passed \in Seq(BOOLEAN)
  /\ bram \in [head : {"other", "ramp7", "ramp1"}, rest : {"other", "ramp7"}]

Lanes == board.lane0 \cup board.lane1

(* The verdict names the fault of a path that always fails in the same     *)
(* way, in however many rounds: stuck lanes, and all of them; or CSRs that *)
(* take nothing and read something no pattern is (_verdict).               *)
VerdictNamesTheFault ==
  verdict # "none" /\ drops = 0 =>
    /\ board.dead = {} /\ Lanes \notin {{}, Bits} => verdict = "BIT-data-lane" /\ AllDiff = Lanes
    /\ board.dead \notin {{}, Csrs} /\ Lanes = {} /\ board.deadReads \notin Range(Patterns)
         => verdict = "OFFSET-addr-decode"

(* A path that always fails in the same way is never called intermittent,  *)
(* whatever an earlier, killed run left in the CSRs (_verdict, per_round). *)
IntermittentIsReal == verdict = "INTERMITTENT-cdc-race" => drops > 0

(* The legend of csr_selftest.py: "HARD-readback0=all writes vanish->read  *)
(* 0".                                                                     *)
VanishedWritesAreHard ==
  verdict # "none" /\ board.dead = Csrs /\ board.deadReads = {} => verdict = "HARD-readback0"

(* The suite does not pass on a board with a dead path, whatever suites    *)
(* before, killed ones among them, have left in the register and the BRAM  *)
(* for the loopbacks to find (main).                                       *)
DeadPathNeverPasses ==
  exitCode = "0" => board.devices /\ board.lite /\ board.h2c /\ board.fsm # "stuckSet"

(* After a suite that passed, the scratch register is clean and the chip   *)
(* has been reset after the last DMA write (the order of TESTS).           *)
CleanAfterPass == exitCode = "0" /\ board.fsm = "ok" => reg3 = "0" /\ clean
=============================================================================
