--------------------------- MODULE Bringup_proofs ---------------------------
(***************************************************************************)
(* Theorems about Bringup: for every set of boards, every list of CSRs and *)
(* width, any number of tools started, killed or not, in any order.        *)
(***************************************************************************)
EXTENDS Bringup, TLAPS, FiniteSetTheorems, SequenceTheorems

-----------------------------------------------------------------------------
(* The smoke tests.  Each result tells what the board is like, once those  *)
(* before it have put the register and the BRAM into a known state.        *)

PassedSoFar ==
  /\ step \in 1..6 /\ passed \in Seq(BOOLEAN) /\ Len(passed) = step - 1
  /\ step > 1 => board.devices
  /\ step > 2 /\ passed[2] => board.lite /\ reg3 = "0"
  /\ step = 4 /\ passed[3] /\ ~board.h2c => bram.head = "ramp7"
  /\ step > 4 /\ passed[3] /\ passed[4] => board.h2c
  /\ step > 5 /\ passed[5] /\ board.lite => board.fsm # "stuckSet"
  /\ step > 5 => clean = (board.lite /\ board.fsm = "ok")

SmokeInv ==
  /\ board \in BoardKind
  /\ tool = "smoke" => exitCode = "none" /\ PassedSoFar
  /\ DeadPathNeverPasses /\ CleanAfterPass

LEMMA AppendTo ==
  ASSUME NEW s \in Seq(BOOLEAN), NEW x \in BOOLEAN
  PROVE  /\ Append(s, x) \in Seq(BOOLEAN) /\ Len(Append(s, x)) = Len(s) + 1
         /\ \A i \in 1..Len(s) : Append(s, x)[i] = s[i]
         /\ Append(s, x)[Len(s) + 1] = x
BY AppendProperties

LEMMA SmokeBegins == BringupInit => SmokeInv
BY BoardAssumption
   DEF BringupInit, BoardInit, SmokeInit, SmokeInv, DeadPathNeverPasses, CleanAfterPass

LEMMA SmokeStarts ==
  ASSUME SmokeInv, StartSmoke
  PROVE  SmokeInv'
<1>1. /\ board' = board /\ exitCode' = "none" /\ step' = 1 /\ passed' = <<>>
  BY DEF StartSmoke, Start, ForgetSmoke
<1>2. PassedSoFar'
  BY <1>1 DEF PassedSoFar
<1> QED BY <1>1, <1>2 DEF SmokeInv, DeadPathNeverPasses, CleanAfterPass

LEMMA RegmapTest ==
  ASSUME SmokeInv, TestRegmapLoopback
  PROVE  /\ EndTest(board.lite)
         /\ reg3' = IF board.lite THEN "0" ELSE reg3
<1> DEFINE got(i) == IF board.lite THEN RegmapPatterns[i] ELSE reg3
           ok     == \A i \in DOMAIN RegmapPatterns : got(i) = RegmapPatterns[i]
<1>1. EndTest(ok) /\ reg3' = IF board.lite THEN "0" ELSE reg3
  BY DEF TestRegmapLoopback
<1>2. ok \in BOOLEAN
  OBVIOUS
<1>3. ok = board.lite
  <2>1. board.lite \in BOOLEAN
    BY DEF SmokeInv, BoardKind
  <2>2. board.lite => ok
    OBVIOUS
  <2>3. 1 \in DOMAIN RegmapPatterns /\ 2 \in DOMAIN RegmapPatterns
        /\ RegmapPatterns[1] = "0" /\ RegmapPatterns[2] = "f"
    BY DEF RegmapPatterns
  <2>4. ~board.lite => ~ok
    BY <2>3
  <2> HIDE DEF ok
  <2> QED BY <1>2, <2>1, <2>2, <2>4
<1> HIDE DEF ok
<1> QED BY <1>1, <1>3

(* A test that leaves the suite running appends its result.                *)
LEMMA TestEnds ==
  ASSUME SmokeInv, tool = "smoke", tool' = "smoke", board' = board,
         NEW ok \in BOOLEAN, EndTest(ok), step < 6
  PROVE  /\ step' = step + 1 /\ step' \in 1..6 /\ passed' \in Seq(BOOLEAN)
         /\ Len(passed') = step' - 1 /\ exitCode' = "none"
         /\ \A i \in 1..(step - 1) : passed'[i] = passed[i]
         /\ passed'[step] = ok
<1>1. /\ step \in 1..6 /\ passed \in Seq(BOOLEAN) /\ Len(passed) = step - 1
      /\ exitCode = "none"
  BY DEF SmokeInv, PassedSoFar
<1>2. step' = step + 1 /\ passed' = Append(passed, ok) /\ exitCode' = exitCode
  BY DEF EndTest
<1> QED BY <1>1, <1>2, AppendTo

LEMMA SmokeTestKeeps ==
  ASSUME SmokeInv, SmokeTests
  PROVE  SmokeInv'
<1> USE DEF Running
<1>1. tool = "smoke" /\ board' = board /\ board \in BoardKind
  BY DEF SmokeTests, SmokeInv, TestXdmaDevices, TestRegmapLoopback, TestDmaLoopback,
         TestDmaLoopbackUnaligned, TestSoftReset, EndSuite
<1>2. exitCode = "none" /\ PassedSoFar
  BY <1>1 DEF SmokeInv
<1>3. SUFFICES /\ tool' = "smoke" => exitCode' = "none" /\ PassedSoFar'
               /\ tool' # "smoke" => DeadPathNeverPasses' /\ CleanAfterPass'
  BY <1>1 DEF SmokeInv, DeadPathNeverPasses, CleanAfterPass
<1>4. CASE TestXdmaDevices
  <2>1. CASE board.devices
    <3>1. step = 1 /\ EndTest(TRUE) /\ tool' = "smoke"
      BY <1>1, <1>4, <2>1 DEF TestXdmaDevices
    <3>2. /\ step' = 2 /\ passed' \in Seq(BOOLEAN) /\ Len(passed') = 1 /\ exitCode' = "none"
      <4>1. step' = step + 1 /\ passed' = Append(passed, TRUE) /\ exitCode' = "none"
        BY <1>2, <3>1 DEF EndTest
      <4> QED BY <1>2, <3>1, <4>1, AppendTo DEF PassedSoFar
    <3> QED BY <1>1, <2>1, <3>1, <3>2 DEF PassedSoFar
  <2>2. CASE ~board.devices
    <3>1. tool' = "none" /\ exitCode' = "1"
      BY <1>4, <2>2 DEF TestXdmaDevices
    <3> QED BY <3>1 DEF DeadPathNeverPasses, CleanAfterPass
  <2> QED BY <2>1, <2>2
<1>5. CASE TestRegmapLoopback
  <2>1. step = 2 /\ tool' = "smoke" /\ EndTest(board.lite) /\ board.lite \in BOOLEAN
        /\ reg3' = IF board.lite THEN "0" ELSE reg3
    BY <1>1, <1>5, RegmapTest DEF TestRegmapLoopback, BoardKind
  <2> QED BY <1>1, <1>2, <2>1, TestEnds DEF PassedSoFar
<1>6. CASE TestDmaLoopback
  <2> DEFINE ok == bram' = [head |-> "ramp7", rest |-> "ramp7"]
  <2>1. step = 3 /\ tool' = "smoke" /\ EndTest(ok) /\ ok \in BOOLEAN /\ reg3' = reg3
    BY <1>1, <1>6 DEF TestDmaLoopback
  <2>2. ok => bram'.head = "ramp7"
    OBVIOUS
  <2> HIDE DEF ok
  <2> QED BY <1>1, <1>2, <2>1, <2>2, TestEnds DEF PassedSoFar
<1>7. CASE TestDmaLoopbackUnaligned
  <2> DEFINE ok == bram'.head = UnalignedPattern
  <2>1. step = 4 /\ tool' = "smoke" /\ EndTest(ok) /\ ok \in BOOLEAN /\ reg3' = reg3
    BY <1>1, <1>7 DEF TestDmaLoopbackUnaligned
  <2>2. passed[3] /\ ~board.h2c => ~ok
    BY <1>2, <1>7, <2>1 DEF TestDmaLoopbackUnaligned, UnalignedPattern, PassedSoFar
  <2> HIDE DEF ok
  <2> QED BY <1>1, <1>2, <2>1, <2>2, TestEnds DEF PassedSoFar
<1>8. CASE TestSoftReset
  <2> DEFINE ok == ~(board.lite /\ board.fsm = "stuckSet")
  <2>1. step = 5 /\ tool' = "smoke" /\ EndTest(ok) /\ reg3' = reg3
        /\ clean' = (board.lite /\ board.fsm = "ok")
    BY <1>1, <1>8 DEF TestSoftReset
  <2>0. ok \in BOOLEAN
    OBVIOUS
  <2>2. /\ step' = 6 /\ passed' \in Seq(BOOLEAN) /\ Len(passed') = 5 /\ exitCode' = "none"
        /\ \A i \in 1..4 : passed'[i] = passed[i]
        /\ passed'[5] = ok
    <3> HIDE DEF ok
    <3>1. /\ step' = step + 1 /\ passed' \in Seq(BOOLEAN) /\ Len(passed') = step' - 1
          /\ exitCode' = "none" /\ passed'[step] = ok
          /\ \A i \in 1..(step - 1) : passed'[i] = passed[i]
      BY <1>1, <2>0, <2>1, TestEnds
    <3> QED BY <2>1, <3>1
  <2>3. passed'[5] /\ board.lite => board.fsm # "stuckSet"
    BY <2>2
  <2>4. /\ board.devices /\ (passed[2] => board.lite /\ reg3 = "0")
        /\ (passed[3] /\ passed[4] => board.h2c)
    BY <1>2, <2>1 DEF PassedSoFar
  <2> HIDE DEF ok
  <2> QED BY <1>1, <2>1, <2>2, <2>3, <2>4 DEF PassedSoFar
<1>9. CASE EndSuite
  <2>1. step = 6 /\ tool' = "none" /\ reg3' = reg3 /\ clean' = clean
        /\ exitCode' = IF \A i \in DOMAIN passed : passed[i] THEN "0" ELSE "1"
    BY <1>9 DEF EndSuite, memVars
  <2>2. exitCode' = "0" => \A i \in 1..5 : passed[i]
    <3>1. DOMAIN passed = 1..5
      BY <1>2, <2>1 DEF PassedSoFar
    <3> QED BY <2>1, <3>1
  <2>3. exitCode' = "0" =>
          /\ board.devices /\ board.lite /\ reg3 = "0" /\ board.h2c
          /\ board.fsm # "stuckSet" /\ clean = (board.lite /\ board.fsm = "ok")
    BY <1>2, <2>1, <2>2 DEF PassedSoFar
  <2> QED BY <1>1, <2>1, <2>3 DEF DeadPathNeverPasses, CleanAfterPass
<1> QED BY <1>4, <1>5, <1>6, <1>7, <1>8, <1>9 DEF SmokeTests

(* The other tools leave the register and the chip as they are.            *)
LEMMA SmokeKeptBy ==
  ASSUME SmokeInv, UNCHANGED <<smokeVars, board, memVars>>, tool' # "smoke"
  PROVE  SmokeInv'
BY DEF SmokeInv, DeadPathNeverPasses, CleanAfterPass, smokeVars, memVars

LEMMA SmokeStep ==
  ASSUME SmokeInv, [BringupNext]_bringupVars
  PROVE  SmokeInv'
<1>1. CASE Selftest
  <2>1. UNCHANGED <<smokeVars, board, memVars>> /\ tool' # "smoke"
    BY <1>1 DEF Selftest, StartSelftest, SelftestRaises, SelftestHangs, TryPattern, SumUp,
                SelftestKilled, Start
  <2> QED BY <2>1, SmokeKeptBy
<1>2. CASE Smoke
  <2>1. CASE StartSmoke
    BY <2>1, SmokeStarts
  <2>2. CASE SmokeTests
    BY <2>2, SmokeTestKeeps
  <2>3. CASE SmokeKilled
    <3>1. board' = board /\ tool' = "none" /\ exitCode' = "none"
      BY <2>3 DEF SmokeKilled, ForgetSmoke
    <3> QED BY <3>1 DEF SmokeInv, DeadPathNeverPasses, CleanAfterPass
  <2> QED BY <1>2, <2>1, <2>2, <2>3 DEF Smoke
<1>3. CASE Probes
  <2>1. UNCHANGED <<smokeVars, board, memVars>> /\ tool' # "smoke"
    BY <1>3 DEF Probes, StartInfo, InfoMain, StartProbeBar, ProbeOne, ProbesDone, Start
  <2> QED BY <2>1, SmokeKeptBy
<1>4. CASE BoardChanges
  <2>1. board' \in BoardKind /\ tool' = "none" /\ exitCode' = "none"
    BY <1>4, BoardAssumption DEF BoardChanges, Change, ForgetSmoke
  <2> QED BY <2>1 DEF SmokeInv, DeadPathNeverPasses, CleanAfterPass
<1>5. CASE UNCHANGED bringupVars
  <2>1. UNCHANGED <<smokeVars, tool, board, memVars>>
    BY <1>5 DEF bringupVars, boardVars, memVars
  <2> QED BY <2>1 DEF SmokeInv, PassedSoFar, DeadPathNeverPasses, CleanAfterPass,
                       smokeVars, memVars
<1> QED BY <1>1, <1>2, <1>3, <1>4, <1>5 DEF BringupNext

-----------------------------------------------------------------------------
(* The self-test.  While no write is lost, the counts are those of the     *)
(* patterns tried so far that land, and whether one lands depends on the   *)
(* board alone.                                                            *)

NamesCount == Len(Names)
NPats      == Len(Patterns)

Back(n, v)  == IF n \in board.dead THEN board.deadReads ELSE (v \ board.lane0) \cup board.lane1
Differ(v, w) == (v \ w) \cup (w \ v)

Lands(n, q) == Back(n, Patterns[q]) = Patterns[q]

(* Pattern q of CSR number j in round r has been tried.                    *)
Tried(r, j, q) ==
  \/ r < at[1]
  \/ r = at[1] /\ j < at[2]
  \/ r = at[1] /\ j = at[2] /\ q < at[3]

TriedOn(n) ==
  {p \in (1..Rounds) \X (1..NPats) :
     \E j \in 1..NamesCount : Names[j] = n /\ Tried(p[1], j, p[2])}
LandedOn(n) == {p \in TriedOn(n) : Lands(n, p[2])}
DiffOn(n) ==
  {b \in Bits : \E p \in TriedOn(n) : b \in Differ(Patterns[p[2]], Back(n, Patterns[p[2]]))}

LandedIn(r) ==
  {p \in (1..NamesCount) \X (1..NPats) : Tried(r, p[1], p[2]) /\ Lands(Names[p[1]], p[2])}

AtInv ==
  /\ at \in (1..(Rounds + 1)) \X (1..NamesCount) \X (1..NPats)
  /\ at[1] > Rounds => at[2] = 1 /\ at[3] = 1

CountsInv ==
  /\ \A n \in Csrs : /\ perOff[n].landed = Cardinality(LandedOn(n))
                     /\ perOff[n].diff = DiffOn(n)
  /\ \A r \in DOMAIN perRound : perRound[r] = Cardinality(LandedIn(r))

(* A sweep is in progress, or has been summed up.                          *)
Counted == tool = "selftest" \/ verdict # "none"

OffKind == [landed : Nat, diff : SUBSET Bits, missrb : SUBSET (SUBSET Bits)]

SelftestInv ==
  /\ board \in BoardKind /\ drops \in Nat /\ csr \in [Csrs -> SUBSET Bits]
  /\ perOff \in [Csrs -> OffKind]
  /\ perRound \in Seq(Nat) /\ AtInv
  /\ \A n \in Csrs : perOff[n].landed <= Cardinality(TriedOn(n))
  /\ Counted => /\ Len(perRound) = IF at[1] > Rounds THEN Rounds ELSE at[1]
                /\ drops = 0 => CountsInv
  /\ tool = "selftest" => verdict = "none"
  /\ verdict # "none" => at[1] > Rounds /\ verdict = Verdict

-----------------------------------------------------------------------------
(* The patterns.                                                           *)

LEMMA Consts ==
  /\ Width \in Nat \ {0} /\ Rounds \in Nat \ {0}
  /\ NamesCount \in Nat \ {0} /\ \A j \in 1..NamesCount : Names[j] \in Csrs
  /\ \A n \in Csrs : \E j \in 1..NamesCount : Names[j] = n
  /\ \A i, j \in 1..NamesCount : Names[i] = Names[j] => i = j
BY BoardAssumption, RoundsAssumption DEF NamesCount, Csrs

LEMMA PatternFacts ==
  /\ Patterns \in Seq(SUBSET Bits) /\ NPats = 2 * Width + 20
  /\ \A b \in Bits : /\ b + 1 \in 1..NPats /\ Patterns[b + 1] = {b}
                     /\ Width + b + 1 \in 1..NPats /\ Patterns[Width + b + 1] = Bits \ {b}
<1> DEFINE A == [i \in 1..Width |-> {i - 1}]
           B == [i \in 1..Width |-> Bits \ {i - 1}]
           C == [i \in 1..16 |-> Nibble(i - 1)]
           D == << {b \in Bits : b % 2 = 1}, {b \in Bits : b % 2 = 0}, Bits, {0} >>
           S == SUBSET Bits
<1>1. Width \in Nat /\ Width > 0
  BY Consts
<1>2. A \in Seq(S) /\ Len(A) = Width /\ \A i \in 1..Width : A[i] = {i - 1}
  <2>1. \A i \in 1..Width : {i - 1} \in S
    BY <1>1 DEF Bits
  <2>2. A \in [1..Width -> S]
    BY <2>1
  <2> HIDE DEF S
  <2> QED BY <1>1, <2>2, IsASeq
<1>3. B \in Seq(S) /\ Len(B) = Width /\ \A i \in 1..Width : B[i] = Bits \ {i - 1}
  <2>1. B \in [1..Width -> S]
    OBVIOUS
  <2> HIDE DEF S
  <2> QED BY <1>1, <2>1, IsASeq
<1>4. C \in Seq(S) /\ Len(C) = 16
  <2>1. \A i \in 1..16 : Nibble(i - 1) \in S
    BY DEF Nibble
  <2>2. C \in [1..16 -> S]
    BY <2>1
  <2> HIDE DEF S
  <2> QED BY <2>2, IsASeq
<1>5. D \in Seq(S) /\ Len(D) = 4
  <2>1. {0} \in S
    BY <1>1 DEF Bits
  <2>2. {b \in Bits : b % 2 = 1} \in S /\ {b \in Bits : b % 2 = 0} \in S /\ Bits \in S
    OBVIOUS
  <2> HIDE DEF S
  <2> QED BY <2>1, <2>2
<1>6. Patterns = ((A \o B) \o C) \o D
  BY DEF Patterns
<1> HIDE DEF A, B, C, D, S
<1>7. /\ A \o B \in Seq(S) /\ Len(A \o B) = 2 * Width
      /\ \A i \in 1..Width : (A \o B)[i] = {i - 1} /\ (A \o B)[Width + i] = Bits \ {i - 1}
  <2>1. /\ A \o B \in Seq(S) /\ Len(A \o B) = Width + Width
        /\ \A i \in 1..(Width + Width) : (A \o B)[i] = IF i <= Width THEN A[i] ELSE B[i - Width]
    <3>1. /\ A \o B \in Seq(S) /\ Len(A \o B) = Len(A) + Len(B)
          /\ \A i \in 1..(Len(A) + Len(B)) :
               (A \o B)[i] = IF i <= Len(A) THEN A[i] ELSE B[i - Len(A)]
      <4>1. A \in Seq(S) /\ B \in Seq(S)
        BY <1>2, <1>3
      <4> QED BY <4>1, ConcatProperties
    <3> QED BY <1>1, <1>2, <1>3, <3>1
  <2>2. \A i \in 1..Width : i \in 1..(Width + Width) /\ Width + i \in 1..(Width + Width)
                            /\ i <= Width /\ ~(Width + i <= Width) /\ Width + i - Width = i
    BY <1>1
  <2> QED BY <1>1, <1>2, <1>3, <2>1, <2>2
<1> DEFINE E == A \o B
<1> HIDE DEF E
<1>8. /\ E \o C \in Seq(S) /\ Len(E \o C) = 2 * Width + 16
      /\ \A i \in 1..(2 * Width) : (E \o C)[i] = E[i]
  <2>1. E \in Seq(S) /\ Len(E) = 2 * Width
    BY <1>7 DEF E
  <2>2. /\ E \o C \in Seq(S) /\ Len(E \o C) = Len(E) + Len(C)
        /\ \A i \in 1..(Len(E) + Len(C)) : (E \o C)[i] = IF i <= Len(E) THEN E[i] ELSE C[i - Len(E)]
    BY <1>4, <2>1, ConcatProperties
  <2> QED BY <1>1, <1>4, <2>1, <2>2
<1> DEFINE F == E \o C
<1> HIDE DEF F
<1>9. /\ F \o D \in Seq(S) /\ Len(F \o D) = 2 * Width + 20
      /\ \A i \in 1..(2 * Width) : (F \o D)[i] = E[i]
  <2>1. F \in Seq(S) /\ Len(F) = 2 * Width + 16 /\ \A i \in 1..(2 * Width) : F[i] = E[i]
    BY <1>8 DEF F
  <2>2. /\ F \o D \in Seq(S) /\ Len(F \o D) = Len(F) + Len(D)
        /\ \A i \in 1..(Len(F) + Len(D)) : (F \o D)[i] = IF i <= Len(F) THEN F[i] ELSE D[i - Len(F)]
    BY <1>5, <2>1, ConcatProperties
  <2> QED BY <1>1, <1>5, <2>1, <2>2
<1>10. Patterns \in Seq(S) /\ NPats = 2 * Width + 20
       /\ \A i \in 1..(2 * Width) : Patterns[i] = E[i]
  BY <1>6, <1>9 DEF NPats, E, F
<1>11. ASSUME NEW b \in Bits
       PROVE  /\ b + 1 \in 1..NPats /\ Patterns[b + 1] = {b}
              /\ Width + b + 1 \in 1..NPats /\ Patterns[Width + b + 1] = Bits \ {b}
  <2>1. b \in Nat /\ b + 1 \in 1..Width
    BY <1>1 DEF Bits
  <2>2. b + 1 \in 1..NPats /\ Width + b + 1 \in 1..NPats
        /\ b + 1 \in 1..(2 * Width) /\ Width + b + 1 \in 1..(2 * Width)
    BY <1>1, <1>10, <2>1
  <2>3. Width + (b + 1) = Width + b + 1 /\ (b + 1) - 1 = b
    BY <1>1, <2>1
  <2>4. E[b + 1] = {b} /\ E[Width + b + 1] = Bits \ {b}
    BY <1>7, <2>1, <2>3 DEF E
  <2> QED BY <1>10, <2>2, <2>4
<1> QED BY <1>10, <1>11 DEF S

LEMMA PatternTypes ==
  NPats \in Nat \ {0} /\ \A q \in 1..NPats : Patterns[q] \in SUBSET Bits
<1>1. NPats \in Nat \ {0}
  BY PatternFacts, Consts
<1>2. \A q \in 1..Len(Patterns) : Patterns[q] \in SUBSET Bits
  <2> DEFINE S == SUBSET Bits
  <2>1. Patterns \in Seq(S)
    BY PatternFacts
  <2> HIDE DEF S
  <2>2. \A q \in 1..Len(Patterns) : Patterns[q] \in S
    BY <2>1, ElementOfSeq
  <2> QED BY <2>2 DEF S
<1> QED BY <1>1, <1>2 DEF NPats

-----------------------------------------------------------------------------
(* One pattern.                                                            *)

(* The place in the sweep after TryPattern.                                *)
NextPlace ==
  CASE ~(at[3] = NPats)                    -> <<at[1], at[2], at[3] + 1>>
    [] at[3] = NPats /\ at[2] # NamesCount -> <<at[1], at[2] + 1, 1>>
    [] OTHER                               -> <<at[1] + 1, 1, 1>>

LEMMA AfterPattern ==
  ASSUME AtInv, at[1] <= Rounds, at' = NextPlace
  PROVE  /\ AtInv'
         /\ at[1] \in 1..Rounds /\ at[2] \in 1..NamesCount /\ at[3] \in 1..NPats
         /\ \A r \in 1..Rounds, j \in 1..NamesCount, q \in 1..NPats :
              Tried(r, j, q)' <=> Tried(r, j, q) \/ (r = at[1] /\ j = at[2] /\ q = at[3])
         /\ ~Tried(at[1], at[2], at[3])
         /\ at'[1] = IF at[3] = NPats /\ at[2] = NamesCount THEN at[1] + 1 ELSE at[1]
<1>1. /\ Rounds \in Nat /\ NamesCount \in Nat /\ NamesCount > 0
      /\ NPats \in Nat /\ NPats > 0
  BY Consts, PatternTypes
<1>2. at[1] \in 1..Rounds /\ at[2] \in 1..NamesCount /\ at[3] \in 1..NPats
  BY <1>1 DEF AtInv
<1> DEFINE a == at[1]
           b == at[2]
           c == at[3]
           x == at'[1]
           y == at'[2]
           z == at'[3]
<1>3. \/ c # NPats /\ at' = <<a, b, c + 1>>
      \/ c = NPats /\ b # NamesCount /\ at' = <<a, b + 1, 1>>
      \/ c = NPats /\ b = NamesCount /\ at' = <<a + 1, 1, 1>>
  BY DEF NextPlace
<1>4. \/ c # NPats /\ x = a /\ y = b /\ z = c + 1
      \/ c = NPats /\ b # NamesCount /\ x = a /\ y = b + 1 /\ z = 1
      \/ c = NPats /\ b = NamesCount /\ x = a + 1 /\ y = 1 /\ z = 1
  BY <1>3
<1>5. at' = <<x, y, z>>
  BY <1>3
<1>6. a \in 1..Rounds /\ b \in 1..NamesCount /\ c \in 1..NPats
  BY <1>2
<1>7. /\ x \in 1..(Rounds + 1) /\ y \in 1..NamesCount /\ z \in 1..NPats
      /\ x > Rounds => y = 1 /\ z = 1
  <2> HIDE DEF a, b, c, x, y, z
  <2> QED BY <1>1, <1>4, <1>6
<1>8. \A r \in 1..Rounds, j \in 1..NamesCount, q \in 1..NPats :
        Tried(r, j, q)' <=> Tried(r, j, q) \/ (r = at[1] /\ j = at[2] /\ q = at[3])
  <2> SUFFICES ASSUME NEW r \in 1..Rounds, NEW j \in 1..NamesCount, NEW q \in 1..NPats
               PROVE  Tried(r, j, q)' <=> Tried(r, j, q) \/ (r = a /\ j = b /\ q = c)
    OBVIOUS
  <2>1. Tried(r, j, q) <=> r < a \/ (r = a /\ (j < b \/ (j = b /\ q < c)))
    BY DEF Tried
  <2>2. Tried(r, j, q)' <=> r < x \/ (r = x /\ (j < y \/ (j = y /\ q < z)))
    BY DEF Tried
  <2> HIDE DEF a, b, c, x, y, z
  <2>3. r < x \/ (r = x /\ (j < y \/ (j = y /\ q < z)))
         <=> (r < a \/ (r = a /\ (j < b \/ (j = b /\ q < c)))) \/ (r = a /\ j = b /\ q = c)
    BY <1>1, <1>4, <1>6
  <2> QED BY <2>1, <2>2, <2>3
<1>9. ~Tried(a, b, c)
  BY <1>6 DEF Tried
<1>10. AtInv'
  BY <1>1, <1>5, <1>7 DEF AtInv
<1>11. x = IF c = NPats /\ b = NamesCount THEN a + 1 ELSE a
  <2> HIDE DEF a, b, c, x, y, z
  <2> QED BY <1>4
<1> QED BY <1>2, <1>8, <1>9, <1>10, <1>11

LEMMA ReadsBack ==
  ASSUME SelftestInv, NEW n \in Csrs, NEW v \in SUBSET Bits
  PROVE  /\ Reads(Stored(n, v), n) = Back(n, v)
         /\ Stored(n, v) \in [Csrs -> SUBSET Bits]
         /\ Back(n, v) \in SUBSET Bits
<1>1. /\ csr \in [Csrs -> SUBSET Bits]
      /\ board.lane0 \in SUBSET Bits /\ board.lane1 \in SUBSET Bits
      /\ board.deadReads \in SUBSET Bits
  BY DEF SelftestInv, BoardKind
<1>2. (v \ board.lane0) \cup board.lane1 \in SUBSET Bits
  BY <1>1
<1> QED BY <1>1, <1>2 DEF Reads, Stored, Back

(* A step of the sweep that reads rb back.                                 *)
Hit(v, rb) == IF rb = v THEN 1 ELSE 0

RoundEnds == at[3] = NPats /\ at[2] = NamesCount /\ at[1] < Rounds

Takes(n, v, rb) ==
  /\ perOff' = [perOff EXCEPT ![n] = Noted(@, v, rb)]
  /\ LET counted == [perRound EXCEPT ![Len(perRound)] = @ + Hit(v, rb)]
     IN  perRound' = IF RoundEnds THEN Append(counted, 0) ELSE counted

LEMMA PatternDoes ==
  ASSUME SelftestInv, TryPattern,
         NEW n, NEW v, n = Names[at[2]], v = Patterns[at[3]]
  PROVE  /\ tool = "selftest" /\ tool' = tool /\ verdict' = verdict /\ board' = board
         /\ at[1] <= Rounds /\ at' = NextPlace
         /\ n \in Csrs /\ v \in SUBSET Bits
         /\ drops' \in Nat /\ csr' \in [Csrs -> SUBSET Bits]
         /\ \E rb \in SUBSET Bits : Takes(n, v, rb) /\ (drops' = 0 => drops = 0 /\ rb = Back(n, v))
<1>1. at[2] \in 1..NamesCount /\ at[3] \in 1..NPats
  BY Consts DEF SelftestInv, AtInv
<1>2. n \in Csrs /\ v \in SUBSET Bits
  BY <1>1, Consts, PatternTypes
<1> DEFINE c(lost)  == IF lost THEN csr ELSE Stored(n, v)
           rb(lost) == Reads(c(lost), n)
<1>3. PICK lost \in BOOLEAN :
        /\ drops' = drops + IF lost THEN 1 ELSE 0
        /\ csr' = c(lost)
        /\ Takes(n, v, rb(lost))
  BY DEF TryPattern, NextRound, NPats, NamesCount, Takes, Hit, RoundEnds
<1>4. at' = NextPlace
  BY DEF TryPattern, NextPlace, NPats, NamesCount
<1>5. rb(lost) \in SUBSET Bits /\ c(lost) \in [Csrs -> SUBSET Bits]
      /\ (~lost => rb(lost) = Back(n, v))
  <2>1. csr \in [Csrs -> SUBSET Bits] /\ board.deadReads \in SUBSET Bits
    BY DEF SelftestInv, BoardKind
  <2> QED BY <1>2, <2>1, ReadsBack DEF Reads
<1>6. drops \in Nat
  BY DEF SelftestInv
<1>7. drops' \in Nat /\ (drops' = 0 => drops = 0 /\ ~lost)
  BY <1>3, <1>6
<1>8. tool = "selftest" /\ tool' = tool /\ verdict' = verdict /\ board' = board /\ at[1] <= Rounds
  BY DEF TryPattern
<1> HIDE DEF rb, c
<1> QED BY <1>2, <1>3, <1>4, <1>5, <1>7, <1>8

LEMMA PairSets ==
  /\ IsFiniteSet((1..Rounds) \X (1..NPats))
  /\ Cardinality((1..Rounds) \X (1..NPats)) = Rounds * NPats
  /\ IsFiniteSet((1..NamesCount) \X (1..NPats))
<1>1. Rounds \in Nat /\ NPats \in Nat /\ NamesCount \in Nat
  BY Consts, PatternTypes
<1>2. \A k \in Nat : IsFiniteSet(1..k) /\ Cardinality(1..k) = k
  <2> SUFFICES ASSUME NEW k \in Nat PROVE IsFiniteSet(1..k) /\ Cardinality(1..k) = k
    OBVIOUS
  <2>1. IsFiniteSet(1..k) /\ Cardinality(1..k) = IF 1 > k THEN 0 ELSE k - 1 + 1
    BY FS_Interval
  <2> QED BY <2>1
<1> DEFINE R == 1..Rounds
           P == 1..NPats
           N == 1..NamesCount
<1>3. IsFiniteSet(R) /\ IsFiniteSet(P) /\ IsFiniteSet(N)
      /\ Cardinality(R) = Rounds /\ Cardinality(P) = NPats
  BY <1>1, <1>2
<1> HIDE DEF R, P, N
<1>4. /\ IsFiniteSet(R \X P) /\ Cardinality(R \X P) = Cardinality(R) * Cardinality(P)
      /\ IsFiniteSet(N \X P)
  BY <1>3, FS_Product
<1>5. Cardinality(R \X P) = Rounds * NPats
  BY <1>3, <1>4
<1> QED BY <1>4, <1>5 DEF R, P, N

LEMMA CountsFinite ==
  /\ \A n : /\ IsFiniteSet(TriedOn(n)) /\ IsFiniteSet(LandedOn(n))
            /\ Cardinality(TriedOn(n)) \in Nat /\ Cardinality(LandedOn(n)) \in Nat
  /\ \A r : IsFiniteSet(LandedIn(r)) /\ Cardinality(LandedIn(r)) \in Nat
<1>1. ASSUME NEW n
      PROVE  /\ IsFiniteSet(TriedOn(n)) /\ IsFiniteSet(LandedOn(n))
             /\ Cardinality(TriedOn(n)) \in Nat /\ Cardinality(LandedOn(n)) \in Nat
  <2>1. TriedOn(n) \subseteq (1..Rounds) \X (1..NPats) /\ LandedOn(n) \subseteq TriedOn(n)
    BY DEF TriedOn, LandedOn
  <2>2. IsFiniteSet(TriedOn(n))
    BY <2>1, PairSets, FS_Subset
  <2>3. IsFiniteSet(LandedOn(n))
    BY <2>1, <2>2, FS_Subset
  <2> QED BY <2>2, <2>3, FS_CardinalityType
<1>2. ASSUME NEW r
      PROVE  IsFiniteSet(LandedIn(r)) /\ Cardinality(LandedIn(r)) \in Nat
  <2>1. LandedIn(r) \subseteq (1..NamesCount) \X (1..NPats)
    BY DEF LandedIn
  <2>2. IsFiniteSet(LandedIn(r))
    BY <2>1, PairSets, FS_Subset
  <2> QED BY <2>2, FS_CardinalityType
<1> QED BY <1>1, <1>2

(* The sets grow by the pattern tried.                                     *)
LEMMA SetsGrow ==
  ASSUME AtInv, at[1] <= Rounds, at' = NextPlace, board' = board,
         NEW a, NEW b, NEW c, a = at[1], b = at[2], c = at[3],
         NEW n, NEW v, n = Names[b], v = Patterns[c]
  PROVE  /\ TriedOn(n)' = TriedOn(n) \cup {<<a, c>>}
         /\ <<a, c>> \notin TriedOn(n)
         /\ \A m \in Csrs : m # n => TriedOn(m)' = TriedOn(m)
         /\ \A r \in 1..Rounds : r # a => LandedIn(r)' = LandedIn(r)
         /\ LandedIn(a)' = LandedIn(a) \cup IF Back(n, v) = v THEN {<<b, c>>} ELSE {}
         /\ <<b, c>> \notin LandedIn(a)
<1>1. /\ a \in 1..Rounds /\ b \in 1..NamesCount /\ c \in 1..NPats
      /\ \A r \in 1..Rounds, j \in 1..NamesCount, q \in 1..NPats :
           Tried(r, j, q)' <=> Tried(r, j, q) \/ (r = a /\ j = b /\ q = c)
      /\ ~Tried(a, b, c)
  BY AfterPattern
<1>2. /\ \A j \in 1..NamesCount : Names[j] = n => j = b
      /\ n = Names[b]
  BY <1>1, Consts
<1>3. \A m : TriedOn(m)' =
        {p \in (1..Rounds) \X (1..NPats) :
           \E j \in 1..NamesCount : Names[j] = m /\ Tried(p[1], j, p[2])'}
  BY DEF TriedOn
<1>4. \A r : LandedIn(r)' =
        {p \in (1..NamesCount) \X (1..NPats) : Tried(r, p[1], p[2])' /\ Lands(Names[p[1]], p[2])}
  <2>1. \A m, q : Lands(m, q)' <=> Lands(m, q)
    BY DEF Lands, Back
  <2> QED BY <2>1 DEF LandedIn
<1>5. Lands(n, c) <=> Back(n, v) = v
  BY DEF Lands
<1>6. TriedOn(n)' = TriedOn(n) \cup {<<a, c>>} /\ <<a, c>> \notin TriedOn(n)
  <2>1. ASSUME NEW p \in (1..Rounds) \X (1..NPats)
        PROVE  p \in TriedOn(n)' <=> p \in TriedOn(n) \/ p = <<a, c>>
    <3>1. p = <<p[1], p[2]>> /\ p[1] \in 1..Rounds /\ p[2] \in 1..NPats
      OBVIOUS
    <3>2. p \in TriedOn(n)' <=> Tried(p[1], b, p[2])'
      BY <1>1, <1>2, <1>3
    <3>3. p \in TriedOn(n) <=> Tried(p[1], b, p[2])
      BY <1>1, <1>2 DEF TriedOn
    <3>4. Tried(p[1], b, p[2])' <=> Tried(p[1], b, p[2]) \/ (p[1] = a /\ p[2] = c)
      BY <1>1, <3>1
    <3>5. p = <<a, c>> <=> p[1] = a /\ p[2] = c
      BY <3>1
    <3> QED BY <3>2, <3>3, <3>4, <3>5
  <2>2. <<a, c>> \in (1..Rounds) \X (1..NPats)
    BY <1>1
  <2>3. TriedOn(n)' \subseteq (1..Rounds) \X (1..NPats)
        /\ TriedOn(n) \subseteq (1..Rounds) \X (1..NPats)
    BY <1>3 DEF TriedOn
  <2>4. <<a, c>> \notin TriedOn(n)
    <3>1. <<a, c>>[1] = a /\ <<a, c>>[2] = c
      OBVIOUS
    <3>2. \A p \in TriedOn(n) : Tried(p[1], b, p[2])
      BY <1>2 DEF TriedOn
    <3> QED BY <1>1, <3>1, <3>2
  <2> QED BY <2>1, <2>2, <2>3, <2>4
<1>7. ASSUME NEW m \in Csrs, m # n PROVE TriedOn(m)' = TriedOn(m)
  <2>1. ASSUME NEW p \in (1..Rounds) \X (1..NPats), NEW j \in 1..NamesCount, Names[j] = m
        PROVE  Tried(p[1], j, p[2])' <=> Tried(p[1], j, p[2])
    <3>1. p[1] \in 1..Rounds /\ p[2] \in 1..NPats
      OBVIOUS
    <3>2. j # b
      BY <1>2, <1>7, <2>1
    <3> QED BY <1>1, <3>1, <3>2
  <2> QED BY <1>3, <2>1 DEF TriedOn
<1>8. ASSUME NEW r \in 1..Rounds, NEW p \in (1..NamesCount) \X (1..NPats)
      PROVE  p \in LandedIn(r)' <=> \/ p \in LandedIn(r)
                                    \/ r = a /\ p = <<b, c>> /\ Lands(n, c)
  <2>1. p = <<p[1], p[2]>> /\ p[1] \in 1..NamesCount /\ p[2] \in 1..NPats
    OBVIOUS
  <2>2. p \in LandedIn(r)' <=> Tried(r, p[1], p[2])' /\ Lands(Names[p[1]], p[2])
    BY <1>4
  <2>3. p \in LandedIn(r) <=> Tried(r, p[1], p[2]) /\ Lands(Names[p[1]], p[2])
    BY DEF LandedIn
  <2>4. Tried(r, p[1], p[2])' <=> Tried(r, p[1], p[2]) \/ (r = a /\ p[1] = b /\ p[2] = c)
    BY <1>1, <2>1
  <2>5. p = <<b, c>> <=> p[1] = b /\ p[2] = c
    BY <2>1
  <2> QED BY <1>2, <2>2, <2>3, <2>4, <2>5
<1>9. \A r : /\ LandedIn(r)' \subseteq (1..NamesCount) \X (1..NPats)
             /\ LandedIn(r) \subseteq (1..NamesCount) \X (1..NPats)
  BY <1>4 DEF LandedIn
<1>10. \A r \in 1..Rounds : r # a => LandedIn(r)' = LandedIn(r)
  BY <1>8, <1>9
<1>11. LandedIn(a)' = LandedIn(a) \cup IF Lands(n, c) THEN {<<b, c>>} ELSE {}
  <2>1. <<b, c>> \in (1..NamesCount) \X (1..NPats)
    BY <1>1
  <2>2. LandedIn(a)' \subseteq (1..NamesCount) \X (1..NPats)
        /\ LandedIn(a) \subseteq (1..NamesCount) \X (1..NPats)
    BY <1>9
  <2>3. \A p \in (1..NamesCount) \X (1..NPats) :
          p \in LandedIn(a)' <=> p \in LandedIn(a) \/ (p = <<b, c>> /\ Lands(n, c))
    BY <1>1, <1>8
  <2> DEFINE L == LandedIn(a)
             M == LandedIn(a)'
             X == (1..NamesCount) \X (1..NPats)
  <2>4. /\ <<b, c>> \in X /\ M \subseteq X /\ L \subseteq X
        /\ \A p \in X : p \in M <=> p \in L \/ (p = <<b, c>> /\ Lands(n, c))
    BY <2>1, <2>2, <2>3
  <2> HIDE DEF L, M, X
  <2>5. M = L \cup IF Lands(n, c) THEN {<<b, c>>} ELSE {}
    BY <2>4
  <2> QED BY <2>5 DEF L, M
<1>12. <<b, c>> \notin LandedIn(a)
  <2>1. <<b, c>>[1] = b /\ <<b, c>>[2] = c
    OBVIOUS
  <2>2. \A p \in LandedIn(a) : Tried(a, p[1], p[2])
    BY DEF LandedIn
  <2> QED BY <1>1, <2>1, <2>2
<1> QED BY <1>5, <1>6, <1>7, <1>10, <1>11, <1>12

(* What a sweep remembers keeps its types.                                 *)
LEMMA NotedTypes ==
  ASSUME NEW d \in OffKind,
         NEW v \in SUBSET Bits, NEW rb \in SUBSET Bits
  PROVE  /\ Noted(d, v, rb) \in OffKind
         /\ Noted(d, v, rb).landed = d.landed + Hit(v, rb)
         /\ Noted(d, v, rb).diff = d.diff \cup Differ(v, rb)
<1> USE DEF Hit, OffKind
<1>1. CASE rb = v
  <2>1. Noted(d, v, rb) = [d EXCEPT !.landed = d.landed + 1]
    BY <1>1 DEF Noted
  <2>2. Differ(v, rb) = {}
    BY <1>1 DEF Differ
  <2> QED BY <1>1, <2>1, <2>2
<1>2. CASE rb # v
  <2> DEFINE D == d.diff \cup (v \ rb) \cup (rb \ v)
             M == d.missrb \cup {rb}
  <2>1. Noted(d, v, rb) = [d EXCEPT !.diff = D, !.missrb = M]
    BY <1>2 DEF Noted
  <2>2. D \in SUBSET Bits /\ M \in SUBSET (SUBSET Bits)
    OBVIOUS
  <2>3. D = d.diff \cup Differ(v, rb)
    BY DEF Differ
  <2> HIDE DEF D, M
  <2>4. Noted(d, v, rb) = [landed |-> d.landed, diff |-> D, missrb |-> M]
    BY <2>1
  <2>5. d.landed \in Nat
    OBVIOUS
  <2> DEFINE SB == SUBSET Bits
             SSB == SUBSET SB
  <2>6. D \in SB /\ M \in SSB
    BY <2>2
  <2> HIDE DEF SB, SSB
  <2>7. Noted(d, v, rb) \in [landed : Nat, diff : SB, missrb : SSB]
    BY <2>4, <2>5, <2>6
  <2>8. Noted(d, v, rb).landed = d.landed + 0 /\ Noted(d, v, rb).diff = D
    BY <2>4, <2>5
  <2> QED BY <1>2, <2>3, <2>7, <2>8 DEF SB, SSB
<1> QED BY <1>1, <1>2

(* The landed patterns of a round, after the list of rounds.               *)
LEMMA RoundsKept ==
  ASSUME NEW s \in Seq(Nat), s # <<>>, NEW k \in {0, 1}, NEW again \in BOOLEAN,
         NEW t, t = LET counted == [s EXCEPT ![Len(s)] = @ + k]
                    IN  IF again THEN Append(counted, 0) ELSE counted
  PROVE  /\ t \in Seq(Nat) /\ Len(t) = Len(s) + IF again THEN 1 ELSE 0
         /\ t[Len(s)] = s[Len(s)] + k
         /\ \A r \in 1..(Len(s) - 1) : t[r] = s[r]
         /\ again => t[Len(s) + 1] = 0
<1> DEFINE m == Len(s)
           x == s[m] + k
           counted == [s EXCEPT ![m] = x]
<1>1. m \in Nat \ {0} /\ s \in [1..m -> Nat]
  BY LenProperties, EmptySeq
<1>2. t = IF again THEN Append(counted, 0) ELSE counted
  OBVIOUS
<1>3. x \in Nat /\ x = s[m] + k
  BY <1>1
<1> HIDE DEF m, x
<1>4. counted \in [1..m -> Nat] /\ counted[m] = x /\ \A r \in 1..(m - 1) : counted[r] = s[r]
  <2>1. m \in 1..m
    BY <1>1
  <2> QED BY <1>1, <1>3, <2>1
<1> HIDE DEF counted
<1>5. counted \in Seq(Nat) /\ Len(counted) = m
  BY <1>1, <1>4, IsASeq
<1>6. /\ Append(counted, 0) \in Seq(Nat) /\ Len(Append(counted, 0)) = m + 1
      /\ \A r \in 1..m : Append(counted, 0)[r] = counted[r]
      /\ Append(counted, 0)[m + 1] = 0
  BY <1>5, AppendProperties
<1>7. m \in 1..m /\ \A r \in 1..(m - 1) : r \in 1..m
  BY <1>1
<1>8. CASE again
  <2>1. /\ t \in Seq(Nat) /\ Len(t) = m + 1 /\ t[m] = x /\ t[m + 1] = 0
        /\ \A r \in 1..(m - 1) : t[r] = s[r]
    BY <1>2, <1>4, <1>6, <1>7, <1>8
  <2> QED BY <1>3, <1>8, <2>1 DEF m
<1>9. CASE ~again
  <2>1. /\ t \in Seq(Nat) /\ Len(t) = m + 0 /\ t[m] = x
        /\ \A r \in 1..(m - 1) : t[r] = s[r]
    BY <1>1, <1>2, <1>4, <1>5, <1>9
  <2> QED BY <1>3, <1>9, <2>1 DEF m
<1> QED BY <1>8, <1>9

LEMMA TryKeepsTypes ==
  ASSUME SelftestInv, TryPattern
  PROVE  /\ board' \in BoardKind /\ drops' \in Nat /\ csr' \in [Csrs -> SUBSET Bits]
         /\ perOff' \in [Csrs -> OffKind]
         /\ perRound' \in Seq(Nat) /\ AtInv'
         /\ Len(perRound') = IF at'[1] > Rounds THEN Rounds ELSE at'[1]
         /\ tool' = "selftest" /\ verdict' = "none"
<1>0. PICK n, v : n = Names[at[2]] /\ v = Patterns[at[3]]
  OBVIOUS
<1>1. PICK rb \in SUBSET Bits : Takes(n, v, rb)
  BY <1>0, PatternDoes
<1>2. /\ tool = "selftest" /\ tool' = tool /\ verdict' = verdict /\ board' = board
      /\ at[1] <= Rounds /\ at' = NextPlace
      /\ n \in Csrs /\ v \in SUBSET Bits
      /\ drops' \in Nat /\ csr' \in [Csrs -> SUBSET Bits]
  BY <1>0, PatternDoes
<1>3. /\ board \in BoardKind /\ perOff \in [Csrs -> OffKind] /\ verdict = "none"
      /\ perRound \in Seq(Nat) /\ Len(perRound) = at[1] /\ AtInv
  BY <1>2, Consts DEF SelftestInv, AtInv, Counted
<1>4. /\ AtInv' /\ at[1] \in 1..Rounds
      /\ at'[1] = IF at[3] = NPats /\ at[2] = NamesCount THEN at[1] + 1 ELSE at[1]
  BY <1>2, <1>3, AfterPattern
<1>5. perOff' \in [Csrs -> OffKind]
  <2>1. Noted(perOff[n], v, rb) \in OffKind
    BY <1>2, <1>3, NotedTypes
  <2> QED BY <1>1, <1>2, <1>3, <2>1 DEF Takes
<1>6. perRound' \in Seq(Nat) /\ Len(perRound') = at[1] + IF RoundEnds THEN 1 ELSE 0
  <2> DEFINE k == Hit(v, rb)
  <2>1. k \in {0, 1} /\ RoundEnds \in BOOLEAN
    BY DEF Hit, RoundEnds
  <2>2. perRound # <<>>
    BY <1>3, <1>4, EmptySeq
  <2>3. perRound' = LET counted == [perRound EXCEPT ![Len(perRound)] = @ + k]
                    IN  IF RoundEnds THEN Append(counted, 0) ELSE counted
    BY <1>1 DEF Takes
  <2> HIDE DEF k
  <2>4. /\ perRound' \in Seq(Nat)
        /\ Len(perRound') = Len(perRound) + IF RoundEnds THEN 1 ELSE 0
    BY <1>3, <2>1, <2>2, <2>3, RoundsKept
  <2> QED BY <1>3, <2>4
<1>7. Len(perRound') = IF at'[1] > Rounds THEN Rounds ELSE at'[1]
  BY <1>4, <1>6, Consts DEF RoundEnds
<1> QED BY <1>2, <1>3, <1>4, <1>5, <1>6, <1>7

(* The counts are those of the patterns that land.                         *)
LEMMA CountsGrow ==
  ASSUME SelftestInv, TryPattern, drops' = 0
  PROVE  CountsInv'
<1>0. PICK a, b, c, n, v :
        a = at[1] /\ b = at[2] /\ c = at[3] /\ n = Names[b] /\ v = Patterns[c]
  OBVIOUS
<1> DEFINE rb == Back(n, v)
           k == Hit(v, rb)
<1>1. Takes(n, v, rb) /\ drops = 0 /\ rb \in SUBSET Bits
  BY <1>0, PatternDoes
<1>2. /\ tool = "selftest" /\ board' = board
      /\ a <= Rounds /\ at' = NextPlace
      /\ n \in Csrs /\ v \in SUBSET Bits
  BY <1>0, PatternDoes
<1>3. /\ perOff \in [Csrs -> OffKind] /\ perRound \in Seq(Nat)
      /\ Len(perRound) = a /\ AtInv /\ CountsInv
  BY <1>0, <1>1, <1>2, Consts DEF SelftestInv, AtInv, Counted
<1>4. /\ AtInv' /\ a \in 1..Rounds /\ b \in 1..NamesCount /\ c \in 1..NPats
      /\ at'[1] = IF c = NPats /\ b = NamesCount THEN a + 1 ELSE a
  BY <1>0, <1>2, <1>3, AfterPattern
<1>5. /\ TriedOn(n)' = TriedOn(n) \cup {<<a, c>>}
      /\ <<a, c>> \notin TriedOn(n)
      /\ \A m \in Csrs : m # n => TriedOn(m)' = TriedOn(m)
      /\ \A r \in 1..Rounds : r # a => LandedIn(r)' = LandedIn(r)
      /\ LandedIn(a)' = LandedIn(a) \cup IF rb = v THEN {<<b, c>>} ELSE {}
      /\ <<b, c>> \notin LandedIn(a)
  <2>1. at[1] <= Rounds /\ at' = NextPlace /\ board' = board /\ AtInv
    BY <1>0, <1>2, <1>3
  <2> QED BY <1>0, <2>1, SetsGrow
<1>6. \A m, q : Lands(m, q)' <=> Lands(m, q)
  BY <1>2 DEF Lands, Back
<1>7. Lands(n, c) <=> rb = v
  BY <1>0 DEF Lands
<1>8. \A m : LandedOn(m)' = {p \in TriedOn(m)' : Lands(m, p[2])}
  BY <1>6 DEF LandedOn
<1>9. \A m : DiffOn(m)' = {e \in Bits : \E p \in TriedOn(m)' :
                             e \in Differ(Patterns[p[2]], Back(m, Patterns[p[2]]))}
  BY <1>2 DEF DiffOn, Back
<1>10. Differ(v, rb) \in SUBSET Bits
  BY <1>1, <1>2 DEF Differ
<1>11. DiffOn(n)' = DiffOn(n) \cup Differ(v, rb)
  <2>1. \A p \in TriedOn(n)' : p \in TriedOn(n) \/ p = <<a, c>>
    BY <1>5
  <2>2. \A e \in Bits : e \in DiffOn(n)' <=> e \in DiffOn(n) \/ e \in Differ(v, rb)
    <3> SUFFICES ASSUME NEW e \in Bits
                 PROVE  e \in DiffOn(n)' <=> e \in DiffOn(n) \/ e \in Differ(v, rb)
      OBVIOUS
    <3> DEFINE Told(q) == e \in Differ(Patterns[q], Back(n, Patterns[q]))
    <3>1. e \in DiffOn(n)' <=> \E p \in TriedOn(n)' : Told(p[2])
      BY <1>9
    <3>2. e \in DiffOn(n) <=> \E p \in TriedOn(n) : Told(p[2])
      BY DEF DiffOn
    <3>3. Told(c) <=> e \in Differ(v, rb)
      BY <1>0
    <3>4. <<a, c>>[2] = c
      OBVIOUS
    <3> HIDE DEF Told
    <3> QED BY <1>5, <3>1, <3>2, <3>3, <3>4
  <2>3. DiffOn(n)' \subseteq Bits /\ DiffOn(n) \subseteq Bits
    BY <1>9 DEF DiffOn
  <2> QED BY <1>10, <2>2, <2>3
<1>12. LandedOn(n)' = LandedOn(n) \cup IF rb = v THEN {<<a, c>>} ELSE {}
  <2>1. <<a, c>>[2] = c
    OBVIOUS
  <2>2. CASE rb = v
    BY <1>5, <1>7, <1>8, <2>1, <2>2 DEF LandedOn
  <2>3. CASE rb # v
    BY <1>5, <1>7, <1>8, <2>1, <2>3 DEF LandedOn
  <2> QED BY <2>2, <2>3
<1>13. <<a, c>> \notin LandedOn(n)
  BY <1>5 DEF LandedOn
<1>14. \A m \in Csrs : m # n => LandedOn(m)' = LandedOn(m) /\ DiffOn(m)' = DiffOn(m)
  BY <1>5, <1>8, <1>9 DEF LandedOn, DiffOn
<1>15. Cardinality(LandedOn(n)') = Cardinality(LandedOn(n)) + k
  <2> DEFINE L == LandedOn(n)
             p == <<a, c>>
  <2>1. IsFiniteSet(L) /\ Cardinality(L) \in Nat /\ p \notin L
    BY <1>13, CountsFinite
  <2> HIDE DEF L, p
  <2>2. Cardinality(L \cup {p}) = Cardinality(L) + 1
    BY <2>1, FS_AddElement
  <2>3. L \cup {} = L /\ Cardinality(L) = Cardinality(L) + 0
    BY <2>1
  <2> QED BY <1>12, <2>2, <2>3 DEF L, p, Hit
<1>16. Cardinality(LandedIn(a)') = Cardinality(LandedIn(a)) + k
  <2> DEFINE L == LandedIn(a)
             p == <<b, c>>
  <2>1. IsFiniteSet(L) /\ Cardinality(L) \in Nat /\ p \notin L
    BY <1>5, CountsFinite
  <2> HIDE DEF L, p
  <2>2. Cardinality(L \cup {p}) = Cardinality(L) + 1
    BY <2>1, FS_AddElement
  <2>3. L \cup {} = L /\ Cardinality(L) = Cardinality(L) + 0
    BY <2>1
  <2> QED BY <1>5, <2>2, <2>3 DEF L, p, Hit
<1>17. ASSUME NEW m \in Csrs
       PROVE  perOff'[m].landed = Cardinality(LandedOn(m)') /\ perOff'[m].diff = DiffOn(m)'
  <2>1. CASE m = n
    <3>1. perOff[n] \in OffKind
      BY <1>2, <1>3
    <3>2. perOff'[n] = Noted(perOff[n], v, rb)
      BY <1>1, <1>2, <1>3 DEF Takes
    <3>3. perOff'[n].landed = perOff[n].landed + k
          /\ perOff'[n].diff = perOff[n].diff \cup Differ(v, rb)
      <4>1. PICK d, w : d = perOff[n] /\ w = rb
        OBVIOUS
      <4>2. d \in OffKind /\ v \in SUBSET Bits /\ w \in SUBSET Bits
        BY <1>1, <1>2, <3>1, <4>1
      <4>3. Noted(d, v, w).landed = d.landed + Hit(v, w)
            /\ Noted(d, v, w).diff = d.diff \cup Differ(v, w)
        BY <4>2, NotedTypes
      <4> QED BY <3>2, <4>1, <4>3
    <3>4. perOff[n].landed = Cardinality(LandedOn(n)) /\ perOff[n].diff = DiffOn(n)
      BY <1>2, <1>3 DEF CountsInv
    <3> QED BY <1>11, <1>15, <2>1, <3>3, <3>4
  <2>2. CASE m # n
    <3>1. perOff'[m] = perOff[m]
      BY <1>1, <1>3, <2>2 DEF Takes
    <3> QED BY <1>3, <1>14, <2>2, <3>1 DEF CountsInv
  <2> QED BY <2>1, <2>2
<1>18. ASSUME NEW r \in DOMAIN perRound'
       PROVE  perRound'[r] = Cardinality(LandedIn(r)')
  <2>1. k \in {0, 1} /\ RoundEnds \in BOOLEAN
    BY DEF Hit, RoundEnds
  <2>2. perRound # <<>> /\ perRound \in Seq(Nat) /\ Len(perRound) = a
    BY <1>3, <1>4, EmptySeq
  <2>3. perRound' = LET counted == [perRound EXCEPT ![Len(perRound)] = @ + k]
                    IN  IF RoundEnds THEN Append(counted, 0) ELSE counted
    BY <1>1 DEF Takes
  <2>4. \A s \in 1..a : perRound[s] = Cardinality(LandedIn(s))
    <3>1. DOMAIN perRound = 1..a
      BY <2>2
    <3> QED BY <1>3, <3>1 DEF CountsInv
  <2>5. RoundEnds => a + 1 = at'[1] /\ a + 1 \in 1..Rounds /\ at' = <<a + 1, 1, 1>>
    BY <1>0, <1>2, <1>4, Consts DEF NextPlace, RoundEnds
  <2> HIDE DEF k
  <2>6. /\ perRound' \in Seq(Nat) /\ Len(perRound') = a + IF RoundEnds THEN 1 ELSE 0
        /\ perRound'[a] = perRound[a] + k
        /\ \A s \in 1..(a - 1) : perRound'[s] = perRound[s]
        /\ RoundEnds => perRound'[a + 1] = 0
    <3>1. /\ perRound' \in Seq(Nat) /\ Len(perRound') = Len(perRound) + IF RoundEnds THEN 1 ELSE 0
          /\ perRound'[Len(perRound)] = perRound[Len(perRound)] + k
          /\ \A s \in 1..(Len(perRound) - 1) : perRound'[s] = perRound[s]
          /\ RoundEnds => perRound'[Len(perRound) + 1] = 0
      BY <2>1, <2>2, <2>3, RoundsKept
    <3> QED BY <2>2, <3>1
  <2>7. r \in 1..(a - 1) \/ r = a \/ (RoundEnds /\ r = a + 1)
    <3>1. DOMAIN perRound' = 1..Len(perRound')
      BY <2>6
    <3> QED BY <1>4, <2>6, <3>1
  <2>8. CASE r \in 1..(a - 1)
    <3>1. r \in 1..Rounds /\ r # a /\ r \in 1..a
      BY <1>4, <2>8, Consts
    <3>2. LandedIn(r)' = LandedIn(r)
      BY <1>5, <3>1
    <3> QED BY <2>4, <2>6, <2>8, <3>1, <3>2
  <2>9. CASE r = a
    BY <1>4, <1>16, <2>4, <2>6, <2>9
  <2>10. CASE RoundEnds /\ r = a + 1
    <3>1. LandedIn(r)' = {}
      <4>1. at' = <<r, 1, 1>>
        BY <2>5, <2>10
      <4>2. \A j \in 1..NamesCount, q \in 1..NPats : ~Tried(r, j, q)'
        BY <1>4, <2>10, <4>1, Consts, PatternTypes DEF Tried
      <4>3. \A p \in LandedIn(r)' :
              p[1] \in 1..NamesCount /\ p[2] \in 1..NPats /\ Tried(r, p[1], p[2])'
        BY DEF LandedIn
      <4> QED BY <4>2, <4>3
    <3> QED BY <2>6, <2>10, <3>1, FS_EmptySet
  <2> QED BY <2>7, <2>8, <2>9, <2>10
<1> QED BY <1>17, <1>18 DEF CountsInv

(* With or without losses, no more has landed than was tried.              *)
LEMMA LandedBound ==
  ASSUME SelftestInv, TryPattern, NEW m \in Csrs
  PROVE  perOff'[m].landed <= Cardinality(TriedOn(m)')
<1>0. PICK a, b, c, n, v :
        a = at[1] /\ b = at[2] /\ c = at[3] /\ n = Names[b] /\ v = Patterns[c]
  OBVIOUS
<1>1. PICK rb \in SUBSET Bits : Takes(n, v, rb)
  BY <1>0, PatternDoes
<1>2. /\ board' = board /\ at[1] <= Rounds /\ at' = NextPlace /\ AtInv
      /\ n \in Csrs /\ v \in SUBSET Bits
  BY <1>0, PatternDoes DEF SelftestInv
<1>3. perOff \in [Csrs -> OffKind] /\ \A i \in Csrs : perOff[i].landed <= Cardinality(TriedOn(i))
  BY DEF SelftestInv
<1>4. /\ TriedOn(n)' = TriedOn(n) \cup {<<a, c>>}
      /\ <<a, c>> \notin TriedOn(n)
      /\ \A i \in Csrs : i # n => TriedOn(i)' = TriedOn(i)
  <2>1. at[1] <= Rounds /\ at' = NextPlace /\ board' = board /\ AtInv
    BY <1>2
  <2>2. /\ TriedOn(n)' = TriedOn(n) \cup {<<a, c>>}
        /\ <<a, c>> \notin TriedOn(n)
        /\ \A l \in Csrs : l # n => TriedOn(l)' = TriedOn(l)
    BY <1>0, <2>1, SetsGrow
  <2> QED BY <2>2
<1>5. CASE m # n
  <2>1. perOff'[m] = perOff[m]
    BY <1>1, <1>3, <1>5 DEF Takes
  <2> QED BY <1>3, <1>4, <1>5, <2>1
<1>6. CASE m = n
  <2> DEFINE T == TriedOn(n)
             p == <<a, c>>
  <2>1. IsFiniteSet(T) /\ Cardinality(T) \in Nat /\ p \notin T
    BY <1>4, CountsFinite
  <2> HIDE DEF T, p
  <2>2. Cardinality(T \cup {p}) = Cardinality(T) + 1
    BY <2>1, FS_AddElement
  <2>3. PICK d : d = perOff[n]
    OBVIOUS
  <2>4. d \in OffKind /\ d.landed <= Cardinality(T)
    BY <1>2, <1>3, <2>3 DEF T
  <2>5. perOff'[n] = Noted(d, v, rb)
    BY <1>1, <1>2, <1>3, <2>3 DEF Takes
  <2>6. Noted(d, v, rb).landed = d.landed + Hit(v, rb)
    BY <1>2, <2>4, NotedTypes
  <2>7. d.landed \in Nat /\ Hit(v, rb) \in {0, 1}
    BY <2>4 DEF OffKind, Hit
  <2>8. TriedOn(n)' = T \cup {p}
    BY <1>4 DEF T, p
  <2>9. perOff'[n].landed <= Cardinality(T) + 1
    BY <2>1, <2>4, <2>5, <2>6, <2>7
  <2> QED BY <1>6, <2>2, <2>8, <2>9
<1> QED BY <1>5, <1>6

LEMMA TryKeeps ==
  ASSUME SelftestInv, TryPattern
  PROVE  SelftestInv'
BY TryKeepsTypes, CountsGrow, LandedBound DEF SelftestInv, Counted

-----------------------------------------------------------------------------
(* The rest of a step.                                                     *)

(* Before the first pattern nothing has been tried.                        *)
LEMMA NothingTried ==
  at = <<1, 1, 1>> =>
    /\ AtInv
    /\ \A n : LandedOn(n) = {} /\ DiffOn(n) = {}
    /\ \A r \in 1..Rounds : LandedIn(r) = {}
<1> SUFFICES ASSUME at = <<1, 1, 1>>
             PROVE  /\ AtInv
                    /\ \A n : LandedOn(n) = {} /\ DiffOn(n) = {}
                    /\ \A r \in 1..Rounds : LandedIn(r) = {}
  OBVIOUS
<1>1. Rounds \in Nat \ {0} /\ NamesCount \in Nat \ {0} /\ NPats \in Nat \ {0}
  BY Consts, PatternTypes
<1>2. AtInv
  BY <1>1 DEF AtInv
<1>3. \A r \in 1..Rounds, j \in 1..NamesCount, q \in 1..NPats : ~Tried(r, j, q)
  BY <1>1 DEF Tried
<1>4. \A n : TriedOn(n) = {}
  <2> SUFFICES ASSUME NEW n, NEW p \in TriedOn(n) PROVE FALSE
    OBVIOUS
  <2>1. p[1] \in 1..Rounds /\ p[2] \in 1..NPats
        /\ \E j \in 1..NamesCount : Tried(p[1], j, p[2])
    BY DEF TriedOn
  <2> QED BY <1>3, <2>1
<1>5. \A r \in 1..Rounds : LandedIn(r) = {}
  <2> SUFFICES ASSUME NEW r \in 1..Rounds, NEW p \in LandedIn(r) PROVE FALSE
    OBVIOUS
  <2>1. p[1] \in 1..NamesCount /\ p[2] \in 1..NPats /\ Tried(r, p[1], p[2])
    BY DEF LandedIn
  <2> QED BY <1>3, <2>1
<1> QED BY <1>2, <1>4, <1>5 DEF LandedOn, DiffOn

LEMMA NothingTypes ==
  /\ Nothing \in [Csrs -> OffKind]
  /\ \A n \in Csrs : Nothing[n].landed <= Cardinality(TriedOn(n))
BY CountsFinite DEF Nothing, OffKind

LEMMA TriedCounted == \A n : Cardinality(TriedOn(n)) \in Nat
BY CountsFinite

LEMMA NothingBound ==
  ASSUME perOff' = Nothing
  PROVE  \A n \in Csrs : perOff'[n].landed <= Cardinality(TriedOn(n)')
<1>1. (\A n : Cardinality(TriedOn(n)) \in Nat)'
  BY TriedCounted, PTL
<1>2. ASSUME NEW n \in Csrs
      PROVE  perOff'[n].landed <= Cardinality(TriedOn(n)')
  <2> DEFINE k == Cardinality(TriedOn(n)')
  <2>1. k \in Nat
    BY <1>1
  <2>2. perOff'[n].landed = 0
    BY DEF Nothing
  <2> HIDE DEF k
  <2>3. 0 <= k
    BY <2>1
  <2> QED BY <2>2, <2>3 DEF k
<1> QED BY <1>2

LEMMA SelftestBegins == BringupInit => SelftestInv
<1> SUFFICES ASSUME BringupInit PROVE SelftestInv
  OBVIOUS
<1>1. /\ board \in BoardKind /\ drops = 0 /\ csr \in [Csrs -> SUBSET Bits]
      /\ tool = "none" /\ at = <<1, 1, 1>> /\ perOff = Nothing /\ perRound = <<>>
      /\ verdict = "none"
  BY BoardAssumption DEF BringupInit, BoardInit, SelftestInit
<1> QED BY <1>1, NothingTypes, NothingTried DEF SelftestInv, Counted

LEMMA SelftestForgets ==
  ASSUME ForgetSelftest, tool' # "selftest", board' \in BoardKind, SelftestInv,
         UNCHANGED <<csr, drops>>
  PROVE  SelftestInv'
<1>1. at' = <<1, 1, 1>> /\ perOff' = Nothing /\ perRound' = <<>> /\ verdict' = "none"
  BY DEF ForgetSelftest
<1>2. AtInv'
  BY <1>1, Consts, PatternTypes DEF AtInv
<1>3. drops' \in Nat /\ csr' \in [Csrs -> SUBSET Bits]
  BY DEF SelftestInv
<1> QED BY <1>1, <1>2, <1>3, NothingTypes, NothingBound DEF SelftestInv, Counted

LEMMA SelftestStarts ==
  ASSUME SelftestInv, StartSelftest
  PROVE  SelftestInv'
<1>1. /\ at' = <<1, 1, 1>> /\ perOff' = Nothing /\ perRound' = <<0>> /\ verdict' = "none"
      /\ tool' = "selftest" /\ UNCHANGED <<board, csr, drops>>
  BY DEF StartSelftest, Start
<1>2. /\ AtInv'
      /\ \A n : LandedOn(n)' = {} /\ DiffOn(n)' = {}
      /\ \A r \in 1..Rounds : LandedIn(r)' = {}
  <2>1. (at = <<1, 1, 1>> =>
           /\ AtInv
           /\ \A n : LandedOn(n) = {} /\ DiffOn(n) = {}
           /\ \A r \in 1..Rounds : LandedIn(r) = {})'
    BY NothingTried, PTL
  <2> QED BY <1>1, <2>1
<1>3. perRound' \in Seq(Nat) /\ Len(perRound') = 1 /\ DOMAIN perRound' = {1} /\ perRound'[1] = 0
  BY <1>1
<1>4. CountsInv'
  <2>1. \A n \in Csrs : perOff'[n].landed = 0 /\ perOff'[n].diff = {}
    BY <1>1 DEF Nothing
  <2>2. 1 \in 1..Rounds /\ Cardinality({}) = 0
    BY Consts, FS_EmptySet
  <2> QED BY <1>2, <1>3, <2>1, <2>2 DEF CountsInv
<1>5. at'[1] = 1 /\ 1 <= Rounds
  BY <1>1, Consts
<1> QED BY <1>1, <1>2, <1>3, <1>4, <1>5, NothingTypes, NothingBound, Consts DEF SelftestInv, Counted

(* The other tools leave what the self-test has counted as it is.          *)
LEMMA SelftestSame ==
  ASSUME SelftestInv, UNCHANGED <<selftestVars, board, csr, drops>>,
         tool' = "selftest" => tool = "selftest"
  PROVE  SelftestInv'
<1>1. /\ at' = at /\ perOff' = perOff /\ perRound' = perRound /\ verdict' = verdict
      /\ board' = board /\ csr' = csr /\ drops' = drops
  BY DEF selftestVars
<1>2. AtInv' <=> AtInv
  BY <1>1 DEF AtInv
<1>3. CountsInv' <=> CountsInv
  BY <1>1 DEF CountsInv, LandedOn, DiffOn, LandedIn, TriedOn, Tried, Lands, Back
<1>5. \A n : TriedOn(n)' = TriedOn(n)
  BY <1>1 DEF TriedOn, Tried
<1>4. Verdict' = Verdict
  BY <1>1 DEF Verdict, AllMiss, AllDiff, SomeRoundsDiffer
<1> QED BY <1>1, <1>2, <1>3, <1>4, <1>5 DEF SelftestInv, Counted

LEMMA SumUpKeeps ==
  ASSUME SelftestInv, SumUp
  PROVE  SelftestInv'
<1>1. /\ at' = at /\ perOff' = perOff /\ perRound' = perRound
      /\ board' = board /\ csr' = csr /\ drops' = drops
      /\ tool = "selftest" /\ tool' = "none" /\ at[1] > Rounds /\ verdict' = Verdict
  BY DEF SumUp
<1>2. AtInv' <=> AtInv
  BY <1>1 DEF AtInv
<1>3. CountsInv' <=> CountsInv
  BY <1>1 DEF CountsInv, LandedOn, DiffOn, LandedIn, TriedOn, Tried, Lands, Back
<1>5. \A n : TriedOn(n)' = TriedOn(n)
  BY <1>1 DEF TriedOn, Tried
<1>4. Verdict' = Verdict
  BY <1>1 DEF Verdict, AllMiss, AllDiff, SomeRoundsDiffer
<1> QED BY <1>1, <1>2, <1>3, <1>4, <1>5 DEF SelftestInv, Counted

LEMMA SelftestStep ==
  ASSUME SelftestInv, [BringupNext]_bringupVars
  PROVE  SelftestInv'
<1>1. CASE Selftest
  <2>1. CASE StartSelftest
    BY <2>1, SelftestStarts
  <2>2. CASE TryPattern
    BY <2>2, TryKeeps
  <2>3. CASE SumUp
    BY <2>3, SumUpKeeps
  <2>4. CASE SelftestKilled
    <3>1. board' \in BoardKind /\ tool' = "none" /\ ForgetSelftest /\ UNCHANGED <<csr, drops>>
      BY <2>4 DEF SelftestKilled, SelftestInv
    <3> QED BY <3>1, SelftestForgets
  <2>5. CASE SelftestRaises \/ SelftestHangs
    <3>1. board' \in BoardKind /\ tool' # "selftest" /\ ForgetSelftest /\ UNCHANGED <<csr, drops>>
      BY <2>5 DEF SelftestRaises, SelftestHangs, SelftestInv
    <3> QED BY <3>1, SelftestForgets
  <2> QED BY <1>1, <2>1, <2>2, <2>3, <2>4, <2>5 DEF Selftest
<1>2. CASE Smoke
  <2>1. UNCHANGED <<selftestVars, board, csr, drops>> /\ tool' # "selftest"
    BY <1>2 DEF Smoke, StartSmoke, Start, SmokeTests, SmokeKilled, TestXdmaDevices, Running,
                TestRegmapLoopback, TestDmaLoopback, TestDmaLoopbackUnaligned, TestSoftReset,
                EndSuite
  <2> QED BY <2>1, SelftestSame
<1>3. CASE Probes
  <2>1. UNCHANGED <<selftestVars, board, csr, drops>> /\ tool' # "selftest"
    BY <1>3 DEF Probes, StartInfo, InfoMain, StartProbeBar, ProbeOne, ProbesDone, Start
  <2> QED BY <2>1, SelftestSame
<1>4. CASE BoardChanges
  <2>1. board' \in BoardKind /\ tool' = "none" /\ ForgetSelftest /\ UNCHANGED <<csr, drops>>
    BY <1>4, BoardAssumption DEF BoardChanges, Change
  <2> QED BY <2>1, SelftestForgets
<1>5. CASE UNCHANGED bringupVars
  <2>1. UNCHANGED <<selftestVars, board, csr, drops>> /\ tool' = tool
    BY <1>5 DEF bringupVars, boardVars
  <2> QED BY <2>1, SelftestSame
<1> QED BY <1>1, <1>2, <1>3, <1>4, <1>5 DEF BringupNext

-----------------------------------------------------------------------------
(* What the counts of a whole sweep say.                                   *)

LEMMA SweepOver ==
  ASSUME SelftestInv, verdict # "none", drops = 0
  PROVE  /\ \A n \in Csrs : /\ TriedOn(n) = (1..Rounds) \X (1..NPats)
                            /\ perOff[n].landed = Cardinality(LandedOn(n))
                            /\ perOff[n].diff = DiffOn(n)
         /\ ~SomeRoundsDiffer
         /\ verdict = Verdict
<1>1. at[1] > Rounds /\ verdict = Verdict /\ CountsInv /\ Len(perRound) = Rounds
      /\ perRound \in Seq(Nat) /\ at[1] \in Nat
  BY Consts DEF SelftestInv, Counted, AtInv
<1>2. \A r \in 1..Rounds : \A j, q : Tried(r, j, q)
  BY <1>1, Consts DEF Tried
<1>3. ASSUME NEW n \in Csrs PROVE TriedOn(n) = (1..Rounds) \X (1..NPats)
  <2>1. PICK j \in 1..NamesCount : Names[j] = n
    BY Consts
  <2>2. \A p \in (1..Rounds) \X (1..NPats) : p[1] \in 1..Rounds
    OBVIOUS
  <2> QED BY <1>2, <2>1, <2>2 DEF TriedOn
<1>4. \A r, s \in 1..Rounds : LandedIn(r) = LandedIn(s)
  BY <1>2 DEF LandedIn
<1>5. DOMAIN perRound = 1..Rounds
  BY <1>1
<1>6. ~SomeRoundsDiffer
  BY <1>1, <1>4, <1>5 DEF SomeRoundsDiffer, CountsInv
<1> QED BY <1>1, <1>3, <1>6 DEF CountsInv

LEMMA FullAndZero ==
  ASSUME SelftestInv, verdict # "none", drops = 0, NEW n \in Csrs
  PROVE  /\ perOff[n].landed = Total <=> \A q \in 1..NPats : Lands(n, q)
         /\ perOff[n].landed = 0 <=> \A q \in 1..NPats : ~Lands(n, q)
<1> DEFINE P == (1..Rounds) \X (1..NPats)
           L == LandedOn(n)
<1>1. perOff[n].landed = Cardinality(L) /\ L = {p \in P : Lands(n, p[2])}
  BY SweepOver DEF LandedOn
<1>2. IsFiniteSet(P) /\ Cardinality(P) = Total
  BY PairSets DEF Total, NPats
<1>3. \A q \in 1..NPats : <<1, q>> \in P /\ <<1, q>>[2] = q
  BY Consts
<1>4. \A p \in P : p[2] \in 1..NPats
  OBVIOUS
<1>5. L \subseteq P
  BY <1>1
<1>6. L = P <=> \A q \in 1..NPats : Lands(n, q)
  BY <1>1, <1>3, <1>4
<1>7. L = {} <=> \A q \in 1..NPats : ~Lands(n, q)
  BY <1>1, <1>3, <1>4
<1> HIDE DEF P, L
<1>8. Cardinality(L) = Total <=> L = P
  BY <1>2, <1>5, FS_Subset
<1>9. Cardinality(L) = 0 <=> L = {}
  BY <1>2, <1>5, FS_Subset, FS_EmptySet
<1> QED BY <1>1, <1>6, <1>7, <1>8, <1>9

(* _verdict in terms of what lands.                                        *)
LEMMA VerdictOf ==
  ASSUME SelftestInv, verdict # "none", drops = 0,
         NEW full, full = {n \in Csrs : \A q \in 1..NPats : Lands(n, q)},
         NEW zero, zero = {n \in Csrs : \A q \in 1..NPats : ~Lands(n, q)}
  PROVE  /\ verdict # "INTERMITTENT-cdc-race"
         /\ full # Csrs /\ zero # Csrs /\ full # {} /\ zero # {} => verdict = "OFFSET-addr-decode"
         /\ full = {} /\ zero = {} /\ AllDiff # {} /\ AllDiff # Bits => verdict = "BIT-data-lane"
<1>1. full = {n \in Csrs : perOff[n].landed = Total}
  BY FullAndZero
<1>2. zero = {n \in Csrs : perOff[n].landed = 0}
  BY FullAndZero
<1>3. Csrs # {}
  BY Consts
<1>4. ~SomeRoundsDiffer /\ verdict = Verdict
  BY SweepOver
<1>5. verdict =
        CASE full = Csrs -> "PASS-write-ok"
          [] full # Csrs /\ zero = Csrs ->
               IF AllMiss \subseteq {{}} THEN "HARD-readback0" ELSE "HARD-drop-garbage"
          [] full # Csrs /\ zero # Csrs /\ full # {} /\ zero # {} -> "OFFSET-addr-decode"
          [] OTHER ->
               IF SomeRoundsDiffer THEN "INTERMITTENT-cdc-race"
               ELSE IF AllDiff # {} /\ AllDiff # Bits THEN "BIT-data-lane"
               ELSE "PARTIAL-see-lines"
  BY <1>1, <1>2, <1>4 DEF Verdict
<1> QED BY <1>3, <1>4, <1>5

(* Stuck lanes let some pattern through.  Where they let none, every write *)
(* drops, and that is what the verdict then says.                          *)
LanesLetThrough ==
  \A b \in Boards : b.lane0 \cup b.lane1 \notin {{}, Bits} =>
    \E q \in DOMAIN Patterns : (Patterns[q] \ b.lane0) \cup b.lane1 = Patterns[q]

(* A stuck lane, and no other, shows: in the walking 1 or the walking 0.   *)
LEMMA LanesShow ==
  ASSUME SelftestInv, board.dead = {}, NEW n \in Csrs
  PROVE  /\ \A q \in 1..NPats : Differ(Patterns[q], Back(n, Patterns[q])) \subseteq Lanes
         /\ \A b \in Lanes : \E q \in 1..NPats : b \in Differ(Patterns[q], Back(n, Patterns[q]))
<1>1. \A v : Back(n, v) = (v \ board.lane0) \cup board.lane1
  BY DEF Back
<1>2. board.lane0 \subseteq Bits /\ board.lane1 \subseteq Bits
  BY DEF SelftestInv, BoardKind
<1>3. \A v : Differ(v, Back(n, v)) \subseteq Lanes
  BY <1>1 DEF Differ, Lanes
<1>4. ASSUME NEW b \in Lanes
      PROVE  \E q \in 1..NPats : b \in Differ(Patterns[q], Back(n, Patterns[q]))
  <2>1. b \in Bits
    BY <1>2 DEF Lanes
  <2>2. CASE b \in board.lane1
    <3>1. Width + b + 1 \in 1..NPats /\ Patterns[Width + b + 1] = Bits \ {b}
      BY <2>1, PatternFacts
    <3>2. b \in Differ(Bits \ {b}, Back(n, Bits \ {b}))
      BY <1>1, <2>2 DEF Differ
    <3> QED BY <3>1, <3>2
  <2>3. CASE b \notin board.lane1
    <3>1. b + 1 \in 1..NPats /\ Patterns[b + 1] = {b}
      BY <2>1, PatternFacts
    <3>2. b \in Differ({b}, Back(n, {b}))
      BY <1>1, <2>3 DEF Differ, Lanes
    <3> QED BY <3>1, <3>2
  <2> QED BY <2>2, <2>3
<1> QED BY <1>3, <1>4

LEMMA NamesTheLanes ==
  ASSUME SelftestInv, verdict # "none", drops = 0, LanesLetThrough, board \in Boards,
         board.dead = {}, Lanes \notin {{}, Bits}
  PROVE  verdict = "BIT-data-lane" /\ AllDiff = Lanes
<1> DEFINE full == {n \in Csrs : \A q \in 1..NPats : Lands(n, q)}
           zero == {n \in Csrs : \A q \in 1..NPats : ~Lands(n, q)}
<1>1. PICK b : b \in Lanes
  BY DEF Lanes
<1>2. full = {}
  <2> SUFFICES ASSUME NEW n \in Csrs, \A q \in 1..NPats : Lands(n, q) PROVE FALSE
    OBVIOUS
  <2>1. PICK q \in 1..NPats : b \in Differ(Patterns[q], Back(n, Patterns[q]))
    BY <1>1, LanesShow
  <2>2. Back(n, Patterns[q]) = Patterns[q]
    BY <2>1 DEF Lands
  <2> QED BY <2>1, <2>2 DEF Differ
<1>3. zero = {}
  <2> SUFFICES ASSUME NEW n \in Csrs, \A q \in 1..NPats : ~Lands(n, q) PROVE FALSE
    OBVIOUS
  <2>1. PICK q \in DOMAIN Patterns :
          (Patterns[q] \ board.lane0) \cup board.lane1 = Patterns[q]
    BY DEF LanesLetThrough, Lanes
  <2>2. q \in 1..NPats
    BY <2>1, PatternFacts DEF NPats
  <2> QED BY <2>1, <2>2 DEF Lands, Back
<1>4. AllDiff = Lanes
  <2>1. Csrs # {}
    BY Consts
  <2>2. \A n \in Csrs : perOff[n].diff = DiffOn(n) /\ TriedOn(n) = (1..Rounds) \X (1..NPats)
    BY SweepOver
  <2>3. Lanes \subseteq Bits
    BY DEF Lanes, SelftestInv, BoardKind
  <2>4. ASSUME NEW n \in Csrs PROVE DiffOn(n) = Lanes
    <3>1. \A p \in (1..Rounds) \X (1..NPats) : p[2] \in 1..NPats
      OBVIOUS
    <3>2. \A q \in 1..NPats : <<1, q>> \in (1..Rounds) \X (1..NPats) /\ <<1, q>>[2] = q
      BY Consts
    <3>3. DiffOn(n) \subseteq Lanes
      BY <2>2, <3>1, LanesShow DEF DiffOn
    <3>4. ASSUME NEW e \in Lanes PROVE e \in DiffOn(n)
      <4>1. PICK q \in 1..NPats : e \in Differ(Patterns[q], Back(n, Patterns[q]))
        BY LanesShow
      <4> QED BY <2>2, <2>3, <3>2, <4>1 DEF DiffOn
    <3> QED BY <3>3, <3>4
  <2> QED BY <2>1, <2>2, <2>4 DEF AllDiff
<1> HIDE DEF full, zero
<1>5. full = {n \in Csrs : \A q \in 1..NPats : Lands(n, q)}
      /\ zero = {n \in Csrs : \A q \in 1..NPats : ~Lands(n, q)}
  BY DEF full, zero
<1> QED BY <1>2, <1>3, <1>4, <1>5, VerdictOf

LEMMA NamesTheDead ==
  ASSUME SelftestInv, verdict # "none", drops = 0,
         board.dead \notin {{}, Csrs}, Lanes = {}, board.deadReads \notin Range(Patterns)
  PROVE  verdict = "OFFSET-addr-decode"
<1> DEFINE full == {n \in Csrs : \A q \in 1..NPats : Lands(n, q)}
           zero == {n \in Csrs : \A q \in 1..NPats : ~Lands(n, q)}
<1>1. board.dead \subseteq Csrs /\ board.lane0 = {} /\ board.lane1 = {}
  BY DEF SelftestInv, BoardKind, Lanes
<1>2. \A q \in 1..NPats : Patterns[q] \in Range(Patterns)
  BY PatternFacts DEF Range, NPats
<1>3. NPats \in Nat \ {0} /\ 1 \in 1..NPats
  BY PatternTypes
<1>4. \A n \in Csrs : n \in board.dead => \A q \in 1..NPats : ~Lands(n, q)
  BY <1>2 DEF Lands, Back
<1>5. \A n \in Csrs : n \notin board.dead => \A q \in 1..NPats : Lands(n, q)
  BY <1>1 DEF Lands, Back
<1>6. full = Csrs \ board.dead /\ zero = board.dead
  BY <1>1, <1>3, <1>4, <1>5
<1> HIDE DEF full, zero
<1>7. full = {n \in Csrs : \A q \in 1..NPats : Lands(n, q)}
      /\ zero = {n \in Csrs : \A q \in 1..NPats : ~Lands(n, q)}
  BY DEF full, zero
<1>8. full # Csrs /\ zero # Csrs /\ full # {} /\ zero # {}
  BY <1>1, <1>6
<1> QED BY <1>7, <1>8, VerdictOf

-----------------------------------------------------------------------------
(* Types.                                                                  *)

BramKind == [head : {"other", "ramp7", "ramp1"}, rest : {"other", "ramp7"}]

RestInv ==
  /\ tool \in {"none", "selftest", "smoke", "info", "probe", "hung"}
  /\ drops \in 0..MaxDrops /\ passed \in Seq(BOOLEAN) /\ bram \in BramKind

LEMMA SmokeTestTypes ==
  ASSUME RestInv, SmokeInv, SmokeTests
  PROVE  RestInv'
<1> USE DEF Running
<1>1. /\ tool' \in {"none", "smoke"} /\ drops' = drops
  BY DEF SmokeTests, TestXdmaDevices, TestRegmapLoopback, TestDmaLoopback,
         TestDmaLoopbackUnaligned, TestSoftReset, EndSuite
<1>2. bram' \in BramKind
  <2>1. bram' = bram \/ bram' = [head |-> "ramp7", rest |-> "ramp7"]
        \/ bram' = [bram EXCEPT !.head = "ramp1"]
    BY DEF SmokeTests, TestXdmaDevices, TestRegmapLoopback, TestDmaLoopback, UnalignedPattern,
           TestDmaLoopbackUnaligned, TestSoftReset, EndSuite, memVars
  <2> QED BY <2>1 DEF RestInv, BramKind
<1>3. passed' \in Seq(BOOLEAN)
  <2>1. ASSUME NEW ok \in BOOLEAN, passed' = Append(passed, ok) PROVE passed' \in Seq(BOOLEAN)
    BY <2>1, AppendTo DEF RestInv
  <2>2. CASE SmokeTests /\ passed' = passed
    BY <2>2 DEF RestInv
  <2>3. CASE TestXdmaDevices
    <3>1. passed' = passed \/ passed' = Append(passed, TRUE)
      BY <2>3 DEF TestXdmaDevices, EndTest
    <3> QED BY <2>1, <3>1 DEF RestInv
  <2>4. CASE TestRegmapLoopback
    <3>1. passed' = Append(passed, board.lite) /\ board.lite \in BOOLEAN
      BY <2>4, RegmapTest DEF EndTest, SmokeInv, BoardKind
    <3> QED BY <2>1, <3>1
  <2>5. CASE TestDmaLoopback
    <3> DEFINE ok == bram' = [head |-> "ramp7", rest |-> "ramp7"]
    <3>1. passed' = Append(passed, ok) /\ ok \in BOOLEAN
      BY <2>5 DEF TestDmaLoopback, EndTest
    <3> HIDE DEF ok
    <3> QED BY <2>1, <3>1
  <2>6. CASE TestDmaLoopbackUnaligned
    <3> DEFINE ok == bram'.head = UnalignedPattern
    <3>1. passed' = Append(passed, ok) /\ ok \in BOOLEAN
      BY <2>6 DEF TestDmaLoopbackUnaligned, EndTest
    <3> HIDE DEF ok
    <3> QED BY <2>1, <3>1
  <2>7. CASE TestSoftReset
    <3> DEFINE ok == ~(board.lite /\ board.fsm = "stuckSet")
    <3>1. passed' = Append(passed, ok) /\ ok \in BOOLEAN
      BY <2>7 DEF TestSoftReset, EndTest
    <3> HIDE DEF ok
    <3> QED BY <2>1, <3>1
  <2>8. CASE EndSuite
    BY <2>8 DEF EndSuite, RestInv
  <2> QED BY <2>3, <2>4, <2>5, <2>6, <2>7, <2>8 DEF SmokeTests
<1> QED BY <1>1, <1>2, <1>3 DEF RestInv

LEMMA RestStep ==
  ASSUME RestInv, SmokeInv, [BringupNext]_bringupVars
  PROVE  RestInv'
<1>1. CASE Selftest
  <2>1. /\ tool' \in {"none", "selftest", "hung"} /\ passed' = passed /\ bram' = bram
    BY <1>1 DEF Selftest, StartSelftest, SelftestRaises, SelftestHangs, TryPattern, SumUp,
                SelftestKilled, Start, memVars, smokeVars
  <2>2. drops' \in 0..MaxDrops
    <3>1. drops \in Nat /\ drops \in 0..MaxDrops /\ MaxDrops \in Nat
      BY BoardAssumption DEF RestInv
    <3>2. CASE TryPattern
      <4>1. \E lost \in BOOLEAN : /\ lost => drops < MaxDrops
                                  /\ drops' = drops + IF lost THEN 1 ELSE 0
        BY <3>2 DEF TryPattern
      <4> QED BY <3>1, <4>1
    <3>3. CASE StartSelftest \/ SelftestRaises \/ SelftestHangs \/ SumUp \/ SelftestKilled
      BY <3>1, <3>3 DEF StartSelftest, SelftestRaises, SelftestHangs, SumUp, SelftestKilled, Start
    <3> QED BY <1>1, <3>2, <3>3 DEF Selftest
  <2> QED BY <2>1, <2>2 DEF RestInv
<1>2. CASE Smoke
  <2>1. CASE SmokeTests
    BY <2>1, SmokeTestTypes
  <2>2. CASE StartSmoke \/ SmokeKilled
    <3>1. tool' \in {"none", "smoke"} /\ drops' = drops /\ passed' = <<>> /\ bram' = bram
      BY <2>2 DEF StartSmoke, SmokeKilled, Start, ForgetSmoke, memVars
    <3> QED BY <3>1 DEF RestInv
  <2> QED BY <1>2, <2>1, <2>2 DEF Smoke
<1>3. CASE Probes
  BY <1>3 DEF Probes, StartInfo, InfoMain, StartProbeBar, ProbeOne, ProbesDone, Start, RestInv,
              memVars, smokeVars
<1>4. CASE BoardChanges
  BY <1>4 DEF BoardChanges, Change, ForgetSmoke, RestInv, memVars
<1>5. CASE UNCHANGED bringupVars
  BY <1>5 DEF bringupVars, boardVars, smokeVars, RestInv
<1> QED BY <1>1, <1>2, <1>3, <1>4, <1>5 DEF BringupNext

LEMMA BoardOfBoards == BringupSpec => [](board \in Boards)
<1>1. BringupInit => board \in Boards
  BY DEF BringupInit, BoardInit
<1>2. board \in Boards /\ [BringupNext]_bringupVars => (board \in Boards)'
  <2> SUFFICES ASSUME board \in Boards, [BringupNext]_bringupVars
               PROVE  board' \in Boards
    OBVIOUS
  <2>1. CASE Selftest
    BY <2>1 DEF Selftest, StartSelftest, SelftestRaises, SelftestHangs, TryPattern, SumUp,
                SelftestKilled, Start
  <2>2. CASE Smoke
    BY <2>2 DEF Smoke, StartSmoke, Start, SmokeTests, SmokeKilled, TestXdmaDevices, Running,
                TestRegmapLoopback, TestDmaLoopback, TestDmaLoopbackUnaligned, TestSoftReset,
                EndSuite
  <2>3. CASE Probes
    BY <2>3 DEF Probes, StartInfo, InfoMain, StartProbeBar, ProbeOne, ProbesDone, Start
  <2>4. CASE BoardChanges
    BY <2>4 DEF BoardChanges, Change
  <2>5. CASE UNCHANGED bringupVars
    BY <2>5 DEF bringupVars, boardVars
  <2> QED BY <2>1, <2>2, <2>3, <2>4, <2>5 DEF BringupNext
<1> QED BY <1>1, <1>2, PTL DEF BringupSpec

(* No CSR counts more patterns than a sweep has.                           *)
LEMMA LandedInRange ==
  ASSUME SelftestInv, NEW n \in Csrs
  PROVE  perOff[n].landed \in 0..Total
<1> DEFINE P == (1..Rounds) \X (1..NPats)
           T == TriedOn(n)
<1>1. IsFiniteSet(P) /\ Cardinality(P) = Total
  BY PairSets DEF Total, NPats
<1>2. T \subseteq P
  BY DEF TriedOn
<1>3. perOff[n].landed \in Nat /\ perOff[n].landed <= Cardinality(T)
  BY DEF SelftestInv, OffKind
<1> HIDE DEF P, T
<1>4. Cardinality(T) <= Cardinality(P) /\ Cardinality(T) \in Nat /\ Cardinality(P) \in Nat
  BY <1>1, <1>2, FS_Subset, FS_CardinalityType
<1> QED BY <1>1, <1>3, <1>4

LEMMA TypesFrom ==
  SelftestInv /\ RestInv /\ board \in Boards => BringupTypeOK
<1> SUFFICES ASSUME SelftestInv, RestInv, board \in Boards PROVE BringupTypeOK
  OBVIOUS
<1> DEFINE SB == SUBSET Bits
           SSB == SUBSET SB
           N == 0..Total
<1>1. perOff \in [Csrs -> [landed : N, diff : SB, missrb : SSB]]
  <2>1. perOff \in [Csrs -> [landed : Nat, diff : SB, missrb : SSB]]
    BY DEF SelftestInv, OffKind
  <2>2. \A n \in Csrs : perOff[n].landed \in N
    BY LandedInRange
  <2> HIDE DEF SB, SSB, N
  <2>3. \A n \in Csrs : perOff[n] \in [landed : N, diff : SB, missrb : SSB]
    BY <2>1, <2>2
  <2> QED BY <2>1, <2>3
<1>2. csr \in [Csrs -> SB] /\ perRound \in Seq(Nat)
  BY DEF SelftestInv
<1> QED BY <1>1, <1>2 DEF BringupTypeOK, RestInv, BramKind, Values

-----------------------------------------------------------------------------
(* Theorems.                                                               *)

(* The inductive invariants of the tools hold in every state.              *)
THEOREM BringupInvHolds == BringupSpec => [](SmokeInv /\ SelftestInv)
<1>1. BringupInit => SmokeInv /\ SelftestInv
  BY SmokeBegins, SelftestBegins
<1>2. SmokeInv /\ SelftestInv /\ [BringupNext]_bringupVars => (SmokeInv /\ SelftestInv)'
  BY SmokeStep, SelftestStep
<1> QED BY <1>1, <1>2, PTL DEF BringupSpec

(* Every variable keeps its type; no CSR counts more than a sweep tries.   *)
THEOREM BringupTypes == BringupSpec => []BringupTypeOK
<1>1. BringupInit => RestInv
  BY BoardAssumption DEF BringupInit, BoardInit, SmokeInit, RestInv, BramKind
<1>2. RestInv /\ SmokeInv /\ [BringupNext]_bringupVars => RestInv'
  BY RestStep
<1> QED BY <1>1, <1>2, TypesFrom, BoardOfBoards, BringupInvHolds, PTL DEF BringupSpec

(* The suite does not pass on a board with a dead path (main, with the     *)
(* loopbacks and reset_chip), whatever suites before it have left behind.  *)
THEOREM DeadPathsNeverPass == BringupSpec => []DeadPathNeverPasses
<1>1. SmokeInv => DeadPathNeverPasses
  BY DEF SmokeInv
<1> QED BY <1>1, BringupInvHolds, PTL

(* A suite that passed has left the register clean and the chip reset.     *)
THEOREM PassLeavesItClean == BringupSpec => []CleanAfterPass
<1>1. SmokeInv => CleanAfterPass
  BY DEF SmokeInv
<1> QED BY <1>1, BringupInvHolds, PTL

(* A fault that always acts the same way is not called intermittent        *)
(* (per_round, _verdict), whatever a killed run has left in the CSRs.      *)
THEOREM OnlyDropsAreIntermittent == BringupSpec => []IntermittentIsReal
<1>1. SelftestInv => IntermittentIsReal
  <2> SUFFICES ASSUME SelftestInv, verdict = "INTERMITTENT-cdc-race", drops = 0 PROVE FALSE
    BY DEF IntermittentIsReal, SelftestInv
  <2> DEFINE full == {n \in Csrs : \A q \in 1..NPats : Lands(n, q)}
             zero == {n \in Csrs : \A q \in 1..NPats : ~Lands(n, q)}
  <2>1. verdict # "INTERMITTENT-cdc-race"
    <3>1. PICK f, z : f = full /\ z = zero
      OBVIOUS
    <3> QED BY <3>1, VerdictOf
  <2> QED BY <2>1
<1> QED BY <1>1, BringupInvHolds, PTL

(* The verdict names stuck lanes, all of them, and dead CSRs (_verdict).   *)
THEOREM VerdictHolds ==
  ASSUME LanesLetThrough
  PROVE  BringupSpec => []VerdictNamesTheFault
<1>1. SelftestInv /\ board \in Boards => VerdictNamesTheFault
  BY NamesTheLanes, NamesTheDead DEF VerdictNamesTheFault
<1> QED BY <1>1, BoardOfBoards, BringupInvHolds, PTL
=============================================================================
