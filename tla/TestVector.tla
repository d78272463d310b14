----------------------------- MODULE TestVector -----------------------------
(***************************************************************************)
(* The test-vector files and what src/host/test_vector.py reads out of     *)
(* them.  A mem file is a sequence of text lines; an entry "@ADDR HEX" has *)
(* an address and the 32-bit words of its hex string as they are written,  *)
(* the most significant first.  A META line has LineWords words, 64 in the *)
(* code, and may be written shorter.  Addresses count words.               *)
(***************************************************************************)
EXTENDS Naturals, Sequences, FiniteSetsExt

CONSTANT LineWords

ASSUME LineAssumption == LineWords \in Nat \ {0}

Entry(a, words) == [kind |-> "entry", addr |-> a, words |-> words]
Comment         == [kind |-> "comment", addr |-> 0, words |-> <<>>]

(* Only well-formed entries count; of two with one address, the later.     *)
LoadMemfileMap(lines) ==
  LET at(a)   == {i \in DOMAIN lines : lines[i].kind = "entry" /\ lines[i].addr = a}
      entries == {i \in DOMAIN lines : lines[i].kind = "entry"}
  IN  [a \in {lines[i].addr : i \in entries} |-> lines[Max(at(a))].words]

(* Word i from the right; past the left end it is 0.                       *)
ExtractHexWordLsbFirst(words, i) == IF i < Len(words) THEN words[Len(words) - i] ELSE 0

MetaRead32(meta, w) ==
  LET line == w \div LineWords
  IN  IF line \in DOMAIN meta THEN ExtractHexWordLsbFirst(meta[line], w % LineWords) ELSE 0

BitstreamRead32(bs, w) ==
  IF w \in DOMAIN bs THEN ExtractHexWordLsbFirst(bs[w], 0) ELSE 0

(* per_cta_csr_overrides of load_runtime_json: indexed by cta_id.x, an     *)
(* entry for the same x replaces the one before, CTAs without one have the *)
(* empty override.                                                         *)
PerCtaOverrides(json) ==
  LET at(x) == {i \in DOMAIN json.overrides : json.overrides[i].x = x}
      xs    == {json.overrides[i].x : i \in DOMAIN json.overrides}
  IN  IF xs = {} THEN <<>>
      ELSE [x \in 0..Max(xs) |-> IF at(x) = {} THEN <<>> ELSE json.overrides[Max(at(x))].vals]

EffectiveCsrs(csrs, perCta, c) ==
  [k \in DOMAIN csrs |-> IF c \in DOMAIN perCta
                         THEN IF k \in DOMAIN perCta[c] THEN perCta[c][k] ELSE csrs[k]
                         ELSE csrs[k]]

(* grid_size of load_cta_desc.                                             *)
NumCtas(grid) == grid[1] * grid[2] * grid[3]
=============================================================================
