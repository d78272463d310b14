----------------------------- MODULE Smoketest -----------------------------
(***************************************************************************)
(* src/host/smoketest.py on hardware: the tests in order, on a board that  *)
(* keeps what earlier suites, also killed ones, have left.                 *)
(***************************************************************************)
EXTENDS Board

VARIABLES
  step,       \* number of the test to come
  passed,     \* results
  exitCode    \* "none" while no suite has ended since the last start

smokeVars == <<step, passed, exitCode>>

SmokeInit == step = 1 /\ passed = <<>> /\ exitCode = "none"

ForgetSmoke == step' = 1 /\ passed' = <<>> /\ exitCode' = "none"

StartSmoke == Start("smoke") /\ ForgetSmoke

Running(k) == tool = "smoke" /\ step = k

EndTest(ok) == passed' = Append(passed, ok) /\ step' = step + 1 /\ UNCHANGED exitCode

(* Without the devices the driver cannot be opened: main gives up.         *)
TestXdmaDevices ==
  /\ Running(1)
  /\ IF board.devices THEN EndTest(TRUE) /\ UNCHANGED tool
     ELSE tool' = "none" /\ exitCode' = "1" /\ UNCHANGED <<step, passed>>
  /\ UNCHANGED <<board, tools, csr, drops, memVars>>

(* The eight patterns, of which the first is the start state; the register *)
(* is cleaned after the last, and left at the first that does not return.  *)
RegmapPatterns == <<"0", "f", "5", "a", "dead", "cafe", "1234", "8765">>

(* Mutation of TestRegmapLoopback: the last pattern stays.                 *)
TestRegmapLoopbackDirty ==
  /\ Running(2)
  /\ LET got(i) == IF board.lite THEN RegmapPatterns[i] ELSE reg3
         ok     == \A i \in DOMAIN RegmapPatterns : got(i) = RegmapPatterns[i]
     IN  EndTest(ok) /\ reg3' = IF board.lite THEN "8765" ELSE reg3
  /\ UNCHANGED <<board, tool, tools, csr, drops, bram, clean>>

TestRegmapLoopback ==
  /\ Running(2)
  /\ LET got(i) == IF board.lite THEN RegmapPatterns[i] ELSE reg3
         ok     == \A i \in DOMAIN RegmapPatterns : got(i) = RegmapPatterns[i]
     IN  EndTest(ok) /\ reg3' = IF board.lite THEN "0" ELSE reg3
  /\ UNCHANGED <<board, tool, tools, csr, drops, bram, clean>>

(* H2C writes a pattern over head and rest, C2H reads both.                *)
TestDmaLoopback ==
  /\ Running(3)
  /\ bram' = IF board.h2c THEN [head |-> "ramp7", rest |-> "ramp7"] ELSE bram
  /\ EndTest(bram' = [head |-> "ramp7", rest |-> "ramp7"])
  /\ clean' = FALSE
  /\ UNCHANGED <<board, tool, tools, csr, drops, reg3>>

(* Mutation of UnalignedPattern: the pattern of the test before.           *)
SamePattern == "ramp7"

(* The counting pattern of the unaligned test.                             *)
UnalignedPattern == "ramp1"

TestDmaLoopbackUnaligned ==
  /\ Running(4)
  /\ bram' = IF board.h2c THEN [bram EXCEPT !.head = UnalignedPattern] ELSE bram
  /\ EndTest(bram'.head = UnalignedPattern)
  /\ clean' = FALSE
  /\ UNCHANGED <<board, tool, tools, csr, drops, reg3>>

(* reset_chip: the bit is set and polled until it reads 0.  It reads 0 at  *)
(* once if the write does not arrive or the bit cannot be set.             *)
TestSoftReset ==
  /\ Running(5)
  /\ LET bit == board.lite /\ board.fsm = "stuckSet"
     IN  EndTest(~bit)
  /\ clean' = (board.lite /\ board.fsm = "ok")
  /\ UNCHANGED <<board, tool, tools, csr, drops, reg3, bram>>

EndSuite ==
  /\ Running(6)
  /\ exitCode' = IF \A i \in DOMAIN passed : passed[i] THEN "0" ELSE "1"
  /\ tool' = "none"
  /\ UNCHANGED <<board, tools, csr, drops, memVars, step, passed>>

(* Killed between two tests, or in the regmap test with a pattern in the   *)
(* register: what stays is in the board.                                   *)
SmokeKilled ==
  /\ tool = "smoke" /\ tool' = "none"
  /\ \/ UNCHANGED reg3
     \/ step = 2 /\ board.lite /\ reg3' \in {RegmapPatterns[i] : i \in DOMAIN RegmapPatterns}
  /\ ForgetSmoke
  /\ UNCHANGED <<board, tools, csr, drops, bram, clean>>

SmokeTests == \/ TestXdmaDevices \/ TestRegmapLoopback \/ TestDmaLoopback
              \/ TestDmaLoopbackUnaligned \/ TestSoftReset \/ EndSuite
=============================================================================
