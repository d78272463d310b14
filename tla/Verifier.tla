------------------------------ MODULE Verifier ------------------------------
(***************************************************************************)
(* src/host/verifier.py: actual writes against expected ones.  A write is  *)
(* an address, its data and its strobes.                                   *)
(***************************************************************************)
EXTENDS Naturals, Sequences, SequencesExt

(* One turn of the loop in check: the first expected entry not matched yet *)
(* that is the same write.                                                 *)
MatchOne(acc, a, expected) ==
  LET free == {i \in DOMAIN expected \ acc.matched : expected[i] = a}
  IN  IF free = {} THEN [acc EXCEPT !.unexpected = Append(@, a)]
      ELSE [acc EXCEPT !.matched = @ \cup {Min(free)}]

(* check                                                                   *)
Check(actual, expected) ==
  LET one(acc, a) == MatchOne(acc, a, expected)
      end         == FoldLeft(one, [matched |-> {}, unexpected |-> <<>>], actual)
  IN  [ok |-> end.matched = DOMAIN expected /\ end.unexpected = <<>>,
       matched |-> end.matched, unexpected |-> end.unexpected]

(* by_addr_exp and by_addr_act: the entries of an address, in their order. *)
IndicesAt(writes, addr) ==
  LET add(is, i) == IF writes[i].addr = addr THEN Append(is, i) ELSE is
  IN  FoldLeft(add, <<>>, [i \in 1..Len(writes) |-> i])

(* Mutation of Rows: an entry counts as matched if one of its address is.  *)
RowsByAddress(actual, expected, matched, addr) ==
  LET exps == IndicesAt(expected, addr)
      acts == IndicesAt(actual, addr)
      row(i) == CASE i > Len(exps)                         -> "UNEXPECTED"
                  [] Range(exps) \cap matched = {}         -> "MISSING"
                  [] i > Len(acts)                         -> "none"
                  [] OTHER                                 -> "OK"
  IN  [i \in 1..(IF Len(exps) > Len(acts) THEN Len(exps) ELSE Len(acts)) |-> row(i)]

(* The rows _format_report prints for an address: the expected and the     *)
(* actual entries of it side by side, in the order of the lists.           *)
Rows(actual, expected, matched, addr) ==
  LET exps == IndicesAt(expected, addr)
      acts == IndicesAt(actual, addr)
      row(i) == CASE i > Len(exps)            -> "UNEXPECTED"
                  [] exps[i] \notin matched   -> "MISSING"
                  [] i > Len(acts)            -> "none"
                  [] OTHER                    -> "OK"
  IN  [i \in 1..(IF Len(exps) > Len(acts) THEN Len(exps) ELSE Len(acts)) |-> row(i)]
=============================================================================
