---------------------------- MODULE CsrSelftest ----------------------------
(***************************************************************************)
(* src/host/csr_selftest.py: writes patterns to CSRs, reads each back and  *)
(* gives the write path a verdict.                                         *)
(***************************************************************************)
EXTENDS Board, SequencesExt

CONSTANT Rounds   \* --rounds

ASSUME RoundsAssumption == Rounds \in Nat \ {0}

VARIABLES
  at,         \* round, name and pattern to come
  perOff,     \* per CSR: landed, diff and missrb
  perRound,   \* landed per round
  verdict     \* "none" before the summary

selftestVars == <<at, perOff, perRound, verdict>>

(* _patterns: a walking 1, a walking 0, the nibbles i*0x1111, and four     *)
(* more.                                                                   *)
Nibble(i) == {b \in Bits : (i \div (2 ^ (b % 4))) % 2 = 1}
Patterns ==
  [i \in 1..Width |-> {i - 1}] \o [i \in 1..Width |-> Bits \ {i - 1}]
    \o [i \in 1..16 |-> Nibble(i - 1)]
    \o << {b \in Bits : b % 2 = 1}, {b \in Bits : b % 2 = 0}, Bits, {0} >>

Nothing == [n \in Csrs |-> [landed |-> 0, diff |-> {}, missrb |-> {}]]

SelftestInit == at = <<1, 1, 1>> /\ perOff = Nothing /\ perRound = <<>> /\ verdict = "none"

ForgetSelftest ==
  at' = <<1, 1, 1>> /\ perOff' = Nothing /\ perRound' = <<>> /\ verdict' = "none"

StartSelftest ==
  /\ Start("selftest")
  /\ at' = <<1, 1, 1>> /\ perOff' = Nothing /\ perRound' = <<0>> /\ verdict' = "none"

(* from_env raises without the devices.                                    *)
SelftestRaises ==
  /\ tool = "selftest" /\ ~board.devices
  /\ tool' = "none" /\ ForgetSelftest
  /\ UNCHANGED <<board, tools, csr, drops, memVars>>

(* The first csr_read of a chip that does not answer never returns.        *)
SelftestHangs ==
  /\ tool = "selftest" /\ board.devices /\ ~board.chip
  /\ tool' = "hung" /\ ForgetSelftest
  /\ UNCHANGED <<board, tools, csr, drops, memVars>>

(* Mutation of Noted: the differing bits of the last miss only.            *)
NotedLast(d, v, rb) ==
  IF rb = v THEN [d EXCEPT !.landed = @ + 1]
  ELSE [d EXCEPT !.diff = (v \ rb) \cup (rb \ v), !.missrb = @ \cup {rb}]

Noted(d, v, rb) ==
  IF rb = v THEN [d EXCEPT !.landed = @ + 1]
  ELSE [d EXCEPT !.diff = @ \cup (v \ rb) \cup (rb \ v), !.missrb = @ \cup {rb}]

(* Mutation of NextRound: landed goes on counting in the next round.       *)
NextRoundOnTop(r) == Append(r, Last(r))

NextRound(r) == Append(r, 0)

(* One pattern: write, read back and note; the read comes after the posted *)
(* write.                                                                  *)
TryPattern ==
  /\ tool = "selftest" /\ board.devices /\ board.chip /\ at[1] <= Rounds
  /\ \E lost \in BOOLEAN :
       LET n  == Names[at[2]]
           v  == Patterns[at[3]]
           c  == IF lost THEN csr ELSE Stored(n, v)
           rb == Reads(c, n)
           lastName == at[2] = Len(Names)
           lastPat  == at[3] = Len(Patterns)
           counted  == [perRound EXCEPT ![Len(perRound)] = @ + IF rb = v THEN 1 ELSE 0]
       IN  /\ lost => drops < MaxDrops
           /\ drops' = drops + IF lost THEN 1 ELSE 0
           /\ csr' = c
           /\ perOff' = [perOff EXCEPT ![n] = Noted(@, v, rb)]
           /\ at' = CASE ~lastPat -> <<at[1], at[2], at[3] + 1>>
                      [] lastPat /\ ~lastName -> <<at[1], at[2] + 1, 1>>
                      [] OTHER -> <<at[1] + 1, 1, 1>>
           /\ perRound' = IF lastPat /\ lastName /\ at[1] < Rounds
                          THEN NextRound(counted) ELSE counted
  /\ UNCHANGED <<board, tool, tools, memVars, verdict>>

Total   == Rounds * Len(Patterns)
AllMiss == UNION {perOff[n].missrb : n \in Csrs}
AllDiff == UNION {perOff[n].diff : n \in Csrs}
SomeRoundsDiffer == \E i, j \in DOMAIN perRound : perRound[i] # perRound[j]

(* _verdict: the first that applies.                                       *)
Verdict ==
  LET full == {n \in Csrs : perOff[n].landed = Total}
      zero == {n \in Csrs : perOff[n].landed = 0}
  IN  CASE full = Csrs -> "PASS-write-ok"
        [] full # Csrs /\ zero = Csrs ->
             IF AllMiss \subseteq {{}} THEN "HARD-readback0" ELSE "HARD-drop-garbage"
        [] full # Csrs /\ zero # Csrs /\ full # {} /\ zero # {} -> "OFFSET-addr-decode"
        [] OTHER ->
             IF SomeRoundsDiffer THEN "INTERMITTENT-cdc-race"
             ELSE IF AllDiff # {} /\ AllDiff # Bits THEN "BIT-data-lane"
             ELSE "PARTIAL-see-lines"

(* summarize and main.                                                     *)
SumUp ==
  /\ tool = "selftest" /\ at[1] > Rounds
  /\ verdict' = Verdict
  /\ tool' = "none"
  /\ UNCHANGED <<board, tools, csr, drops, memVars, at, perOff, perRound>>

(* Killed, the tool leaves no more than what is in the CSRs.               *)
SelftestKilled ==
  /\ tool = "selftest" /\ tool' = "none"
  /\ ForgetSelftest
  /\ UNCHANGED <<board, tools, csr, drops, memVars>>
=============================================================================
