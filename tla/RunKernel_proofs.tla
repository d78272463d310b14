-------------------------- MODULE RunKernel_proofs --------------------------
(***************************************************************************)
(* Theorems about RunKernel: for every sweep of every set of test vectors, *)
(* on each of the three backends, with any number of failed transfers.     *)
(***************************************************************************)
EXTENDS RunKernel, TLAPS, FiniteSetTheorems, SequenceTheorems, WellFoundedInduction

(* Every test vector launches a CTA.                                       *)
SomethingToDo == \A v \in Vectors : NumCtas(v.grid) >= 1

(* What a seeded slot can tell: no wrong value equals the echo, and of the *)
(* writes to one slot all or none store what the echo has there.           *)
EchoTells ==
  /\ WrongData \notin 0..(EchoTop - 1)
  /\ \A v \in Vectors : \A e, f \in Range(v.json.writes) :
       e.addr = f.addr /\ e.addr < EchoTop /\ e.data = e.addr => f.data = f.addr

-----------------------------------------------------------------------------
(* The inductive invariant.                                                *)

InTest  == Stages \ {"connect", "next", "exit"}
Seeded  == {"baseline", "launch", "wait", "hang", "readBack", "hangReadBack"}
HasMeta == Seeded \cup {"bs", "echo"}
HasBs   == Seeded \cup {"echo"}

SeededSlots == 0..(EchoTop - 1)

Answers == [kind : {"ack", "rd32", "line"}, val : Nat]

Memory == [meta : [Words -> Nat], bs : [Words -> Nat], data : [DataAddrs -> Nat]]

(* What the chip runs, and what it and the driver know of the CTAs.        *)
ChipTypes ==
  /\ running \in 0..test /\ others \subseteq [cta : 1..cta, test : 1..test]
  /\ cta \in Nat /\ finished \subseteq 0..cta /\ (running # 0 => cta > 0)
  /\ aligned \in BOOLEAN
  /\ backend # "cosim" => late = <<>> /\ aligned

(* Where the sweep is, and whose CTA the chip may be running.              *)
FlowInv ==
  /\ KernelTypeOK /\ ChipTypes
  /\ mem \in Memory /\ idx \in Nat \ {0}
  /\ baseline \in Seq(Nat) /\ actual \in Seq(Nat)
  /\ results \in Seq(BOOLEAN) /\ landed \in Seq(BOOLEAN)
  /\ Len(results) = IF pc \in InTest THEN test - 1 ELSE test
  /\ pc \in InTest => test # 0 /\ csrValues = Vector.json.csr /\ verdict = NoVerdict
  /\ pc = "resetWrite" => running < test
  /\ pc \in {"resetPoll", "meta", "bs", "echo", "baseline"} => running = 0 /\ stored = {}
  /\ pc \in {"launch", "wait", "hang", "readBack", "hangReadBack"} => running \in {0, test}

(* Undisturbed, the chip runs the CTA launched last or none.               *)
CtaInv ==
  /\ pc \in {"hang", "hangReadBack"} => outcome = "failed"
  /\ Undisturbed =>
       /\ pc \in HasMeta \cup {"meta"} => others = {}
       /\ pc = "wait" /\ cta \in finished => running = 0
       /\ pc \in {"launch", "readBack"} => running = 0

(* Answers nobody has taken: none is a line once the slots are seeded, and *)
(* once a CTA of the test is done there are none.                          *)
AnswerInv ==
  aligned =>
    /\ pc \in Seeded => \A i \in DOMAIN late : late[i].kind # "line"
    /\ pc = "wait" => \A i \in DOMAIN late : late[i].kind = "ack"
    /\ pc = "launch" /\ idx > 1 => late = <<>>
    /\ pc = "readBack" /\ SomethingToDo => late = <<>>

(* The chip runs a CTA of the test in progress, or of the one just ended.  *)
OwnCta == running # 0 /\ running = test

(* The images are in the BRAM, also under a CTA that outlives its test.    *)
ImageInv ==
  aligned =>
    /\ pc \in HasMeta \/ OwnCta => Verified(mem.meta, MetaImage)
    /\ pc \in HasBs \/ OwnCta => Verified(mem.bs, BsImage)

Touched == {s[1] : s \in stored}

(* A slot has the echo, or what the chip stored there last.                *)
SlotInv ==
  Undisturbed /\ pc \in Seeded =>
    /\ \A a \in SeededSlots : mem.data[a] = a \/ <<a, mem.data[a]>> \in stored
    /\ \A a \in Touched : <<a, mem.data[a]>> \in stored
    /\ \A s \in stored : \E e \in Range(Expected) : s[1] = e.addr /\ s[2] \in {e.data, WrongData}

(* The read-back lists: their lengths, and undisturbed, what the slots had *)
(* when they were read.                                                    *)
LengthInv ==
  /\ pc \in InTest \ Seeded => idx = 1 /\ baseline = <<>>
  /\ pc \in InTest \ {"readBack", "hangReadBack"} => actual = <<>>
  /\ pc = "baseline" => Len(baseline) = idx - 1 /\ idx - 1 <= Len(Expected)
  /\ backend # "mock" /\ pc \in Seeded \ {"baseline"} => Len(baseline) = Len(Expected)
  /\ pc \in {"hang", "readBack", "hangReadBack"} => backend # "mock"
  /\ pc \in {"readBack", "hangReadBack"} => Len(actual) = idx - 1 /\ idx - 1 <= Len(Expected)

ValueInv ==
  Undisturbed =>
    /\ pc \in Seeded => \A i \in DOMAIN baseline :
         /\ \/ mem.data[Expected[i].addr] = baseline[i]
            \/ <<Expected[i].addr, mem.data[Expected[i].addr]>> \in stored
         /\ Expected[i].addr < EchoTop => baseline[i] = Expected[i].addr
    /\ pc \in {"readBack", "hangReadBack"} =>
         /\ \A i \in DOMAIN actual :
              \/ actual[i] = baseline[i]
              \/ <<Expected[i].addr, actual[i]>> \in stored
         /\ pc = "readBack" => \A i \in DOMAIN actual : actual[i] = mem.data[Expected[i].addr]

ListInv == LengthInv /\ ValueInv

VerdictInv ==
  /\ Undisturbed =>
       /\ verdict.wrong \subseteq Touched
       /\ verdict.missing # {} /\ outcome = "done" => running = 0
  /\ EchoTells => DiagnosisIsTrue
  /\ ReportShowsEveryFailure

OverrideInv ==
  pc = "wait" => csrs = EffectiveCsrs(Vector.json.csr, PerCtaOverrides(Vector.json), idx - 1)

KernelInv ==
  /\ FlowInv /\ CtaInv /\ AnswerInv /\ ImageInv /\ SlotInv /\ ListInv /\ VerdictInv
  /\ OverrideInv /\ PassMeansStored

-----------------------------------------------------------------------------
(* Largest and least elements, and induction.                              *)

LEMMA MaxOfFinite ==
  ASSUME NEW S, S \subseteq Nat, IsFiniteSet(S), S # {}
  PROVE  Max(S) \in S /\ \A y \in S : Max(S) >= y
<1> DEFINE Above(x) == {y \in S : y > x}
           R == StrictSubsetOrdering(S)
           D == {Above(x) : x \in S}
<1>1. D \subseteq FiniteSubsetsOf(S) /\ D # {}
  <2>1. \A x \in S : Above(x) \subseteq S /\ IsFiniteSet(Above(x))
    BY FS_Subset
  <2> QED BY <2>1 DEF FiniteSubsetsOf
<1>2. IsWellFoundedOn(R, FiniteSubsetsOf(S))
  BY FS_StrictSubsetOrderingWellFounded
<1>3. \E d \in D : \A e \in D : ~(<<e, d>> \in R)
  <2> HIDE DEF R, D
  <2> QED BY <1>1, <1>2, WFMin
<1>4. PICK x \in S : \A y \in S : ~(<<Above(y), Above(x)>> \in R)
  BY <1>3
<1>5. \A y \in S : y > x => <<Above(y), Above(x)>> \in R
  <2> SUFFICES ASSUME NEW y \in S, y > x PROVE <<Above(y), Above(x)>> \in R
    OBVIOUS
  <2>1. y \in Above(x) /\ y \notin Above(y)
    OBVIOUS
  <2>2. Above(y) \subseteq Above(x) /\ Above(x) \subseteq S
    <3>1. \A z \in S : z > y => z > x
      OBVIOUS
    <3> QED BY <3>1
  <2> HIDE DEF Above
  <2> QED BY <2>1, <2>2 DEF StrictSubsetOrdering
<1>6. \A y \in S : x >= y
  <2>1. \A y \in S : ~(y > x)
    BY <1>4, <1>5
  <2> QED BY <2>1
<1> HIDE DEF Above, R, D
<1>7. \E z \in S : \A y \in S : z >= y
  BY <1>6
<1> QED BY <1>7, Zenon DEF Max

LEMMA NatInduction0 ==
  ASSUME NEW T, 0 \in T, \A n \in Nat : n \in T => n + 1 \in T
  PROVE  Nat \subseteq T
<1> SUFFICES ASSUME NEW n \in Nat, n \notin T PROVE FALSE
  OBVIOUS
<1> DEFINE In == {k \in 0..n : k \in T /\ \A j \in 0..k : j \in T}
<1>1. In \subseteq Nat /\ IsFiniteSet(In) /\ 0 \in In
  <2>1. In \subseteq 0..n /\ IsFiniteSet(0..n)
    BY FS_Interval
  <2> QED BY <2>1, FS_Subset
<1> HIDE DEF In
<1>2. Max(In) \in In /\ \A y \in In : Max(In) >= y
  BY <1>1, MaxOfFinite
<1>3. PICK m \in In : m = Max(In)
  BY <1>2
<1>4. m \in Nat /\ m + 1 \in T /\ m # n /\ \A j \in 0..(m + 1) : j \in T
  BY <1>3 DEF In
<1>5. m + 1 \in In
  BY <1>3, <1>4 DEF In
<1>6. m >= m + 1
  BY <1>2, <1>3, <1>5
<1> QED BY <1>4, <1>6

LEMMA MinOfTwo ==
  ASSUME NEW a \in Nat, NEW b \in Nat
  PROVE  Min({a, b}) \in Nat /\ Min({a, b}) <= a /\ Min({a, b}) <= b
<1>1. \E x \in {a, b} : \A y \in {a, b} : x =< y
  BY a <= b \/ b <= a
<1> QED BY <1>1 DEF Min

(* The indices of a sequence at which something holds.                     *)
LEMMA LastIndex ==
  ASSUME NEW n \in Nat, NEW S, S \subseteq 1..n, S # {}
  PROVE  Max(S) \in S /\ \A y \in S : Max(S) >= y
<1>1. IsFiniteSet(1..n)
  BY FS_Interval
<1>2. IsFiniteSet(S)
  BY <1>1, FS_Subset
<1>3. S \subseteq Nat
  OBVIOUS
<1> QED BY <1>2, <1>3, MaxOfFinite

LEMMA FirstIndex ==
  ASSUME NEW n \in Nat, NEW S, S \subseteq 1..n, S # {}
  PROVE  Min(S) \in S /\ \A y \in S : Min(S) =< y
<1> DEFINE In == {k \in 0..n : \A y \in S : y > k}
<1>1. In \subseteq 0..n /\ In \subseteq Nat /\ 0 \in In
  OBVIOUS
<1>2. IsFiniteSet(In)
  <2>1. IsFiniteSet(0..n) /\ In \in SUBSET (0..n)
    BY <1>1, FS_Interval
  <2> QED BY <2>1, FS_Subset
<1> HIDE DEF In
<1>3. PICK m \in In : \A k \in In : m >= k
  BY <1>1, <1>2, MaxOfFinite
<1>4. m \in Nat /\ m < n /\ \A y \in S : y >= m + 1
  <2>1. m \in Nat /\ m <= n /\ \A y \in S : y > m
    BY DEF In
  <2>2. PICK y \in S : TRUE
    OBVIOUS
  <2>3. y \in 1..n /\ y > m
    BY <2>1, <2>2
  <2>4. \A z \in S : z >= m + 1
    BY <2>1
  <2> QED BY <2>1, <2>3, <2>4
<1>5. m + 1 \in S
  <2> SUFFICES ASSUME m + 1 \notin S PROVE FALSE
    OBVIOUS
  <2>1. \A y \in S : y > m + 1
    BY <1>4
  <2>2. m + 1 \in In
    BY <1>4, <2>1 DEF In
  <2> QED BY <1>3, <1>4, <2>2
<1>6. \E x \in S : \A y \in S : x =< y
  BY <1>4, <1>5
<1> QED BY <1>6, Zenon DEF Min

-----------------------------------------------------------------------------
(* What the files give.                                                    *)

(* The entries for an address.                                             *)
EntriesAt(lines, a) == {i \in DOMAIN lines : lines[i].kind = "entry" /\ lines[i].addr = a}

LEMMA LineTypes ==
  ASSUME NEW lines, lines \in MemLines
  PROVE  /\ Len(lines) \in Nat /\ DOMAIN lines = 1..Len(lines)
         /\ \A i \in DOMAIN lines : lines[i].addr \in Nat /\ lines[i].words \in Seq(Nat)
<1> DEFINE L == [kind : {"entry", "comment"}, addr : Nat, words : Seq(Nat)]
<1>1. lines \in Seq(L)
  BY DEF MemLines
<1>2. \A l \in L : l.addr \in Nat /\ l.words \in Seq(Nat)
  OBVIOUS
<1> HIDE DEF L
<1>3. Len(lines) \in Nat /\ DOMAIN lines = 1..Len(lines) /\ \A i \in 1..Len(lines) : lines[i] \in L
  BY <1>1
<1> QED BY <1>2, <1>3

LEMMA LastEntry ==
  ASSUME NEW lines, lines \in MemLines, NEW a, EntriesAt(lines, a) # {}
  PROVE  /\ Max(EntriesAt(lines, a)) \in EntriesAt(lines, a)
         /\ lines[Max(EntriesAt(lines, a))].words \in Seq(Nat)
<1>1. EntriesAt(lines, a) \subseteq 1..Len(lines) /\ Len(lines) \in Nat
  BY LineTypes DEF EntriesAt
<1>2. Max(EntriesAt(lines, a)) \in EntriesAt(lines, a)
  BY <1>1, LastIndex
<1> QED BY <1>2, LineTypes DEF EntriesAt

LEMMA MemfileMap ==
  ASSUME NEW lines, lines \in MemLines
  PROVE  /\ IsFiniteSet(DOMAIN LoadMemfileMap(lines)) /\ DOMAIN LoadMemfileMap(lines) \subseteq Nat
         /\ \A a : a \in DOMAIN LoadMemfileMap(lines) <=> EntriesAt(lines, a) # {}
         /\ \A a \in DOMAIN LoadMemfileMap(lines) :
              LoadMemfileMap(lines)[a] = lines[Max(EntriesAt(lines, a))].words
<1> DEFINE entries == {j \in DOMAIN lines : lines[j].kind = "entry"}
           addrs == {lines[i].addr : i \in entries}
           f == [i \in entries |-> lines[i].addr]
<1>1. LoadMemfileMap(lines) = [a \in addrs |-> lines[Max(EntriesAt(lines, a))].words]
  BY DEF LoadMemfileMap, EntriesAt
<1>2. IsFiniteSet(addrs)
  <2>1. IsFiniteSet(DOMAIN lines) /\ entries \in SUBSET DOMAIN lines
    BY LineTypes, FS_Interval
  <2>2. IsFiniteSet(entries)
    BY <2>1, FS_Subset
  <2>3. f \in Surjection(entries, addrs)
    BY DEF Surjection
  <2> QED BY <2>2, <2>3, FS_Surjection
<1>3. addrs \subseteq Nat
  BY LineTypes
<1>4. \A a : a \in addrs <=> EntriesAt(lines, a) # {}
  BY DEF EntriesAt
<1> QED BY <1>1, <1>2, <1>3, <1>4

LEMMA HexWord ==
  ASSUME NEW words \in Seq(Nat), NEW i \in Nat
  PROVE  /\ ExtractHexWordLsbFirst(words, i) \in Nat
         /\ ExtractHexWordLsbFirst(words, i) =
              IF Len(words) - i < 1 THEN 0 ELSE words[Len(words) - i]
BY DEF ExtractHexWordLsbFirst

LEMMA MetaWord ==
  ASSUME NEW lines, lines \in MemLines, NEW w \in Nat
  PROVE  /\ MetaRead32(LoadMemfileMap(lines), w) \in Nat
         /\ MetaRead32(LoadMemfileMap(lines), w) = FileWord(lines, LineWords, w)
<1> DEFINE at == EntriesAt(lines, w \div LineWords)
           words == lines[Max(at)].words
<1>1. w % LineWords \in Nat
  BY LineAssumption
<1>2. FileWord(lines, LineWords, w) =
        IF at = {} \/ Len(words) - (w % LineWords) < 1 THEN 0
                                                       ELSE words[Len(words) - (w % LineWords)]
  BY DEF FileWord, EntriesAt
<1>3. CASE at # {}
  <2>1. words \in Seq(Nat)
    BY <1>3, LastEntry
  <2>2. MetaRead32(LoadMemfileMap(lines), w) = ExtractHexWordLsbFirst(words, w % LineWords)
    BY <1>3, MemfileMap DEF MetaRead32
  <2> QED BY <1>1, <1>2, <1>3, <2>1, <2>2, HexWord
<1>4. CASE at = {}
  BY <1>2, <1>4, MemfileMap DEF MetaRead32
<1> QED BY <1>3, <1>4

LEMMA BsWord ==
  ASSUME NEW lines, lines \in MemLines, NEW w \in Nat
  PROVE  /\ BitstreamRead32(LoadMemfileMap(lines), w) \in Nat
         /\ BitstreamRead32(LoadMemfileMap(lines), w) = FileWord(lines, 1, w)
<1> DEFINE at == EntriesAt(lines, w)
           words == lines[Max(at)].words
<1>1. w \div 1 = w /\ w % 1 = 0
  OBVIOUS
<1>2. FileWord(lines, 1, w) =
        IF at = {} \/ Len(words) - 0 < 1 THEN 0 ELSE words[Len(words) - 0]
  BY <1>1 DEF FileWord, EntriesAt
<1>3. CASE at # {}
  <2>1. words \in Seq(Nat)
    BY <1>3, LastEntry
  <2>2. BitstreamRead32(LoadMemfileMap(lines), w) = ExtractHexWordLsbFirst(words, 0)
    BY <1>3, MemfileMap DEF BitstreamRead32
  <2> QED BY <1>2, <1>3, <2>1, <2>2, HexWord
<1>4. CASE at = {}
  BY <1>2, <1>4, MemfileMap DEF BitstreamRead32
<1> QED BY <1>3, <1>4

LEMMA AppendAt ==
  ASSUME NEW S, NEW s \in Seq(S), NEW x \in S
  PROVE  /\ Append(s, x) \in Seq(S) /\ Len(Append(s, x)) = Len(s) + 1
         /\ Append(s, x)[Len(s) + 1] = x
         /\ \A i \in 1..Len(s) : Append(s, x)[i] = s[i]
OBVIOUS

-----------------------------------------------------------------------------
(* The loops of check and of _format_report over the writes.  The fold of  *)
(* a loop is a function on sets of indices, built one index at a time.     *)

Unmatched == [matched |-> {}, unexpected |-> <<>>]

MatchLoop(A, E) == [over |-> "matches", writes |-> A, expected |-> E, start |-> Unmatched]
IndexLoop(A, a) == [over |-> "indices", writes |-> A, addr |-> a, start |-> <<>>]

Turn(loop, acc, k) ==
  IF loop.over = "matches" THEN MatchOne(acc, loop.writes[k], loop.expected)
  ELSE IF loop.writes[k].addr = loop.addr THEN Append(acc, k) ELSE acc

(* f is the loop's state after the turns for the indices s.                *)
IsLoop(f, n, loop) ==
  f = [s \in SUBSET (1..n) |->
         IF s = {} THEN loop.start ELSE Turn(loop, f[s \ {Max(s)}], Max(s))]

LEMMA LoopExists ==
  ASSUME NEW loop
  PROVE  \A n \in Nat : \E f : IsLoop(f, n, loop)
<1> DEFINE T == {n \in Nat : \E f : IsLoop(f, n, loop)}
<1>1. 0 \in T
  <2> DEFINE g == [s \in SUBSET (1..0) |-> loop.start]
  <2>1. \A s \in SUBSET (1..0) : s = {}
    OBVIOUS
  <2>2. IsLoop(g, 0, loop)
    BY <2>1 DEF IsLoop
  <2> QED BY <2>2
<1>2. ASSUME NEW n \in Nat, n \in T
      PROVE  n + 1 \in T
  <2>1. PICK f : IsLoop(f, n, loop)
    BY <1>2
  <2> DEFINE g == [s \in SUBSET (1..(n + 1)) |->
                     IF n + 1 \in s THEN Turn(loop, f[s \ {n + 1}], n + 1) ELSE f[s]]
             step(h, s) == IF s = {} THEN loop.start ELSE Turn(loop, h[s \ {Max(s)}], Max(s))
  <2>2. ASSUME NEW s \in SUBSET (1..(n + 1))
        PROVE  g[s] = step(g, s)
    <3>1. CASE n + 1 \in s
      <4>1. Max(s) = n + 1
        <5>1. n + 1 \in Nat /\ s \subseteq 1..(n + 1) /\ s # {}
          BY <3>1
        <5>2. Max(s) \in s /\ \A y \in s : Max(s) >= y
          BY <5>1, LastIndex
        <5>3. Max(s) \in 1..(n + 1) /\ Max(s) >= n + 1
          BY <3>1, <5>1, <5>2
        <5> QED BY <5>3
      <4>2. s \ {n + 1} \in SUBSET (1..(n + 1)) /\ n + 1 \notin s \ {n + 1}
        OBVIOUS
      <4>3. g[s \ {n + 1}] = f[s \ {n + 1}]
        BY <4>2
      <4> QED BY <3>1, <4>1, <4>3
    <3>2. CASE n + 1 \notin s
      <4>1. s \in SUBSET (1..n)
        BY <3>2
      <4>2. g[s] = f[s]
        BY <3>2
      <4>3. f[s] = step(f, s)
        BY <2>1, <4>1 DEF IsLoop
      <4>4. ASSUME s # {} PROVE g[s \ {Max(s)}] = f[s \ {Max(s)}]
        <5>1. s \ {Max(s)} \in SUBSET (1..(n + 1)) /\ n + 1 \notin s \ {Max(s)}
          BY <3>2
        <5> QED BY <5>1
      <4> QED BY <4>2, <4>3, <4>4
    <3> QED BY <3>1, <3>2
  <2>3. g = [s \in SUBSET (1..(n + 1)) |-> step(g, s)]
    <3>1. g = [s \in SUBSET (1..(n + 1)) |-> g[s]]
      OBVIOUS
    <3> HIDE DEF g, step
    <3> QED BY <2>2, <3>1
  <2>4. IsLoop(g, n + 1, loop)
    BY <2>3 DEF IsLoop
  <2> QED BY <2>4
<1> HIDE DEF T
<1>3. Nat \subseteq T
  BY <1>1, <1>2, NatInduction0
<1> QED BY <1>3 DEF T

(* check runs such a loop over all of the actual writes.                   *)
LEMMA CheckIsLoop ==
  ASSUME NEW A, NEW E, NEW n \in Nat, DOMAIN A = 1..n
  PROVE  \E f : /\ IsLoop(f, n, MatchLoop(A, E))
                /\ Check(A, E) = [ok |-> f[1..n].matched = DOMAIN E /\ f[1..n].unexpected = <<>>,
                                  matched |-> f[1..n].matched, unexpected |-> f[1..n].unexpected]
<1> DEFINE IsFold(g) == g = [s \in SUBSET (1..n) |->
                              IF s = {} THEN Unmatched ELSE MatchOne(g[s \ {Max(s)}], A[Max(s)], E)]
           f == CHOOSE g : IsFold(g)
<1>1. \A g : IsFold(g) <=> IsLoop(g, n, MatchLoop(A, E))
  BY DEF IsLoop, MatchLoop, Turn
<1>2. IsFold(f)
  <2>1. \E g : IsFold(g)
    BY <1>1, LoopExists
  <2> HIDE DEF IsFold
  <2> QED BY <2>1
<1>3. Check(A, E) = [ok |-> f[1..n].matched = DOMAIN E /\ f[1..n].unexpected = <<>>,
                     matched |-> f[1..n].matched, unexpected |-> f[1..n].unexpected]
  BY DEF Check, FoldLeft, MapThenFoldSet, Unmatched
<1> HIDE DEF f, IsFold
<1> QED BY <1>1, <1>2, <1>3

(* _format_report runs one over the writes of an address.                  *)
LEMMA IndicesAtIsLoop ==
  ASSUME NEW A, NEW a, NEW n \in Nat, Len(A) = n
  PROVE  \E f : IsLoop(f, n, IndexLoop(A, a)) /\ IndicesAt(A, a) = f[1..n]
<1> DEFINE is == [i \in 1..n |-> i]
           add(acc, i) == IF A[i].addr = a THEN Append(acc, i) ELSE acc
           IsFold(g) == g = [s \in SUBSET (1..n) |->
                              IF s = {} THEN <<>> ELSE add(g[s \ {Max(s)}], is[Max(s)])]
           f == CHOOSE g : IsFold(g)
<1>1. \A g : IsFold(g) <=> IsLoop(g, n, IndexLoop(A, a))
  <2> DEFINE loop == IndexLoop(A, a)
  <2>1. ASSUME NEW s \in SUBSET (1..n), s # {} PROVE is[Max(s)] = Max(s)
    BY <2>1, LastIndex
  <2>2. \A acc, k : Turn(loop, acc, k) = add(acc, k) /\ loop.start = <<>>
    BY DEF IndexLoop, Turn
  <2> HIDE DEF is, add, loop
  <2>3. \A g : \A s \in SUBSET (1..n) :
          (IF s = {} THEN <<>> ELSE add(g[s \ {Max(s)}], is[Max(s)]))
          = (IF s = {} THEN loop.start ELSE Turn(loop, g[s \ {Max(s)}], Max(s)))
    BY <2>1, <2>2
  <2> QED BY <2>3 DEF IsLoop, loop
<1>2. IsFold(f)
  <2>1. \E g : IsFold(g)
    BY <1>1, LoopExists
  <2> HIDE DEF IsFold
  <2> QED BY <2>1
<1>3. IndicesAt(A, a) = f[1..n]
  BY DEF IndicesAt, FoldLeft, MapThenFoldSet
<1> HIDE DEF f, IsFold
<1> QED BY <1>1, <1>2, <1>3

(* What holds before the loop and is kept by a turn of it for the next     *)
(* entry holds after it: sets of indices stand for the turns taken.        *)
LEMMA LoopKeeps ==
  ASSUME NEW loop, NEW n \in Nat, NEW f, IsLoop(f, n, loop), NEW Good,
         <<loop.start, {}>> \in Good,
         \A k \in 1..n : \A acc : <<acc, 1..(k - 1)>> \in Good =>
            <<Turn(loop, acc, k), 1..k>> \in Good
  PROVE  <<f[1..n], 1..n>> \in Good
<1> DEFINE T == {k \in Nat : k <= n => <<f[1..k], 1..k>> \in Good}
<1>1. 0 \in T
  <2>1. 1..0 = {} /\ {} \in SUBSET (1..n)
    OBVIOUS
  <2>2. f[{}] = loop.start
    BY <2>1 DEF IsLoop
  <2> QED BY <2>1, <2>2
<1>2. ASSUME NEW k \in Nat, k \in T
      PROVE  k + 1 \in T
  <2> SUFFICES ASSUME k + 1 <= n PROVE <<f[1..(k + 1)], 1..(k + 1)>> \in Good
    OBVIOUS
  <2>1. k + 1 \in 1..n /\ <<f[1..k], 1..k>> \in Good /\ (k + 1) - 1 = k
    BY <1>2
  <2>2. <<Turn(loop, f[1..k], k + 1), 1..(k + 1)>> \in Good
    BY <2>1
  <2>3. f[1..(k + 1)] = Turn(loop, f[1..k], k + 1)
    <3> DEFINE s == 1..(k + 1)
    <3>1. s \in SUBSET (1..n) /\ s # {} /\ k + 1 \in s
      <4>1. k + 1 \in s
        OBVIOUS
      <4>2. s \subseteq 1..n
        OBVIOUS
      <4> QED BY <4>1, <4>2
    <3>2. Max(s) = k + 1
      <4>1. Max(s) \in s /\ \A y \in s : Max(s) >= y
        BY <3>1, LastIndex
      <4> QED BY <3>1, <4>1
    <3>3. s \ {k + 1} = 1..k
      OBVIOUS
    <3> HIDE DEF s
    <3>4. f[s] = Turn(loop, f[s \ {Max(s)}], Max(s))
      BY <3>1 DEF IsLoop
    <3> QED BY <3>2, <3>3, <3>4 DEF s
  <2> QED BY <2>2, <2>3
<1> HIDE DEF T
<1>3. n \in T
  BY <1>1, <1>2, NatInduction0
<1> QED BY <1>3 DEF T

(* Every entry that check matches is one of the actual writes.             *)
LEMMA MatchedAreActual ==
  ASSUME NEW A, NEW E, NEW n \in Nat, NEW m \in Nat, DOMAIN A = 1..n, DOMAIN E = 1..m
  PROVE  /\ Check(A, E).ok => Check(A, E).matched = 1..m
         /\ \A j \in Check(A, E).matched : \E i \in 1..n : A[i] = E[j]
<1>1. PICK f : /\ IsLoop(f, n, MatchLoop(A, E))
               /\ Check(A, E) = [ok |-> f[1..n].matched = DOMAIN E /\ f[1..n].unexpected = <<>>,
                                 matched |-> f[1..n].matched, unexpected |-> f[1..n].unexpected]
  BY CheckIsLoop
<1> DEFINE loop == MatchLoop(A, E)
           Accs == [matched : SUBSET (1..m), unexpected : Seq(Range(A))]
           Good == {p \in Accs \X SUBSET (1..n) :
                      \A j \in p[1].matched : \E i \in p[2] : A[i] = E[j]}
<1>2. <<Unmatched, {}>> \in Good
  <2>1. <<>> \in Seq(Range(A))
    OBVIOUS
  <2>2. Unmatched \in Accs /\ Unmatched.matched = {}
    BY <2>1 DEF Unmatched
  <2> QED BY <2>2
<1>3. ASSUME NEW k \in 1..n, NEW acc, <<acc, 1..(k - 1)>> \in Good
      PROVE  <<MatchOne(acc, A[k], E), 1..k>> \in Good
  <2> DEFINE free == {i \in DOMAIN E \ acc.matched : E[i] = A[k]}
             next == MatchOne(acc, A[k], E)
  <2>1. /\ acc \in Accs /\ 1..k \in SUBSET (1..n) /\ 1..(k - 1) \subseteq 1..k /\ k \in 1..k
        /\ \A j \in acc.matched : \E i \in 1..(k - 1) : A[i] = E[j]
    BY <1>3
  <2>2. CASE free = {}
    <3>1. next = [acc EXCEPT !.unexpected = Append(acc.unexpected, A[k])]
      BY <2>2 DEF MatchOne
    <3>2. A[k] \in Range(A)
      BY DEF Range
    <3>3. Append(acc.unexpected, A[k]) \in Seq(Range(A))
      BY <2>1, <3>2
    <3>4. next \in Accs /\ next.matched = acc.matched
      BY <2>1, <3>1, <3>3
    <3> QED BY <2>1, <3>4
  <2>3. CASE free # {}
    <3>1. free \subseteq 1..m /\ Min(free) \in free
      BY <2>3, FirstIndex
    <3>2. next = [acc EXCEPT !.matched = acc.matched \cup {Min(free)}]
      BY <2>3 DEF MatchOne
    <3>3. next \in Accs /\ next.matched = acc.matched \cup {Min(free)}
      BY <2>1, <3>1, <3>2
    <3>4. E[Min(free)] = A[k]
      BY <3>1
    <3> QED BY <2>1, <3>3, <3>4
  <2> QED BY <2>2, <2>3
<1>4. <<f[1..n], 1..n>> \in Good
  <2>1. loop.start = Unmatched /\ \A acc, k : Turn(loop, acc, k) = MatchOne(acc, A[k], E)
    BY DEF MatchLoop, Turn
  <2> HIDE DEF Good, loop
  <2>2. IsLoop(f, n, loop)
    BY <1>1 DEF loop
  <2> QED BY <1>2, <1>3, <2>1, <2>2, LoopKeeps
<1>5. \A j \in f[1..n].matched : \E i \in 1..n : A[i] = E[j]
  BY <1>4
<1> DEFINE c == f[1..n]
<1> HIDE DEF c
<1>6. Check(A, E) = [ok |-> c.matched = DOMAIN E /\ c.unexpected = <<>>,
                     matched |-> c.matched, unexpected |-> c.unexpected]
  BY <1>1 DEF c
<1>7. Check(A, E).matched = c.matched
  BY <1>6
<1> DEFINE all == c.matched = DOMAIN E /\ c.unexpected = <<>>
<1>8. Check(A, E).ok => c.matched = 1..m
  <2>1. all => c.matched = 1..m
    OBVIOUS
  <2>2. Check(A, E) = [ok |-> all, matched |-> c.matched, unexpected |-> c.unexpected]
    BY <1>6
  <2> HIDE DEF all
  <2>3. Check(A, E).ok = all
    BY <2>2
  <2> QED BY <2>1, <2>3
<1>9. \A j \in c.matched : \E i \in 1..n : A[i] = E[j]
  BY <1>5 DEF c
<1>10. \A j \in Check(A, E).matched : \E i \in 1..n : A[i] = E[j]
  BY <1>7, <1>9
<1> QED BY <1>7, <1>8, <1>10

(* Two lists with the same addresses have their entries of an address at   *)
(* the same indices, which are all there are of it.                        *)
LEMMA SameIndices ==
  ASSUME NEW A, NEW E, NEW a, NEW n \in Nat, Len(A) = n, Len(E) = n,
         \A i \in 1..n : A[i].addr = E[i].addr
  PROVE  IndicesAt(A, a) = IndicesAt(E, a)
<1>1. PICK f : IsLoop(f, n, IndexLoop(A, a)) /\ IndicesAt(A, a) = f[1..n]
  BY IndicesAtIsLoop
<1>2. PICK g : IsLoop(g, n, IndexLoop(E, a)) /\ IndicesAt(E, a) = g[1..n]
  BY IndicesAtIsLoop
<1> DEFINE loop == IndexLoop(A, a)
           X == {g[s] : s \in SUBSET (1..n)}
           Good == {p \in X \X SUBSET (1..n) : p[1] = g[p[2]]}
<1>3. <<loop.start, {}>> \in Good
  <2>1. loop.start = <<>> /\ g[{}] = <<>> /\ {} \in SUBSET (1..n)
    BY <1>2 DEF IndexLoop, IsLoop
  <2>2. g[{}] \in X
    BY <2>1
  <2> HIDE DEF X, loop
  <2> QED BY <2>1, <2>2
<1>4. ASSUME NEW k \in 1..n, NEW acc, <<acc, 1..(k - 1)>> \in Good
      PROVE  <<Turn(loop, acc, k), 1..k>> \in Good
  <2> DEFINE s == 1..k
  <2>1. acc = g[1..(k - 1)]
    BY <1>4
  <2>2. s \in SUBSET (1..n) /\ s # {} /\ s \ {k} = 1..(k - 1) /\ k \in s
    <3>1. s \subseteq 1..n
      OBVIOUS
    <3>2. s # {} /\ k \in s
      <4>1. k \in s
        OBVIOUS
      <4> HIDE DEF s
      <4> QED BY <4>1
    <3>3. s \ {k} = 1..(k - 1)
      OBVIOUS
    <3> QED BY <3>1, <3>2, <3>3
  <2>3. Max(s) = k
    <3>1. Max(s) \in s /\ \A y \in s : Max(s) >= y
      BY <2>2, LastIndex
    <3> QED BY <2>2, <3>1
  <2>4. g[s] = Turn(IndexLoop(E, a), g[s \ {Max(s)}], Max(s))
    <3> HIDE DEF s
    <3> QED BY <1>2, <2>2 DEF IsLoop
  <2>5. \A x : Turn(IndexLoop(E, a), x, k) = Turn(loop, x, k)
    BY DEF IndexLoop, Turn
  <2> HIDE DEF s, loop
  <2>6. g[s] = Turn(loop, acc, k)
    BY <2>1, <2>2, <2>3, <2>4, <2>5
  <2>7. g[s] \in X
    BY <2>2
  <2> HIDE DEF X
  <2>8. <<g[s], s>> \in Good
    BY <2>2, <2>7
  <2> QED BY <2>6, <2>8 DEF s
<1>5. <<f[1..n], 1..n>> \in Good
  <2> HIDE DEF Good, loop
  <2>1. IsLoop(f, n, loop)
    BY <1>1 DEF loop
  <2> QED BY <1>3, <1>4, <2>1, LoopKeeps
<1>6. f[1..n] = g[1..n]
  BY <1>5
<1> QED BY <1>1, <1>2, <1>6

(* What is is of the entries with the indices s.                           *)
Lists(is, s, A, a) ==
  /\ \A i \in 1..Len(is) : A[is[i]].addr = a
  /\ \A j \in s : A[j].addr = a => \E i \in 1..Len(is) : is[i] = j

LEMMA AllIndices ==
  ASSUME NEW A, NEW a, NEW n \in Nat, Len(A) = n
  PROVE  /\ IndicesAt(A, a) \in Seq(1..n)
         /\ \A i \in 1..Len(IndicesAt(A, a)) : A[IndicesAt(A, a)[i]].addr = a
         /\ \A j \in 1..n :
              A[j].addr = a => \E i \in 1..Len(IndicesAt(A, a)) : IndicesAt(A, a)[i] = j
<1>1. PICK f : IsLoop(f, n, IndexLoop(A, a)) /\ IndicesAt(A, a) = f[1..n]
  BY IndicesAtIsLoop
<1> DEFINE loop == IndexLoop(A, a)
           Good == {p \in Seq(1..n) \X SUBSET (1..n) : Lists(p[1], p[2], A, a)}
<1>g. \A x, s : <<x, s>> \in Good <=> x \in Seq(1..n) /\ s \in SUBSET (1..n) /\ Lists(x, s, A, a)
  OBVIOUS
<1> HIDE DEF Good
<1>2. <<loop.start, {}>> \in Good
  <2>1. loop.start = <<>>
    BY DEF IndexLoop
  <2>2. <<>> \in Seq(1..n) /\ Len(<<>>) = 0
    OBVIOUS
  <2> HIDE DEF loop
  <2>3. Lists(<<>>, {}, A, a)
    BY <2>2 DEF Lists
  <2> QED BY <1>g, <2>1, <2>2, <2>3
<1>3. ASSUME NEW k \in 1..n, NEW acc, <<acc, 1..(k - 1)>> \in Good
      PROVE  <<Turn(loop, acc, k), 1..k>> \in Good
  <2> DEFINE next == Turn(loop, acc, k)
  <2>1. /\ acc \in Seq(1..n) /\ 1..k \in SUBSET (1..n) /\ 1..k = 1..(k - 1) \cup {k}
        /\ \A i \in 1..Len(acc) : A[acc[i]].addr = a
        /\ \A j \in 1..(k - 1) : A[j].addr = a => \E i \in 1..Len(acc) : acc[i] = j
    <3>1. acc \in Seq(1..n) /\ Lists(acc, 1..(k - 1), A, a)
      BY <1>g, <1>3
    <3>2. 1..k \in SUBSET (1..n) /\ 1..k = 1..(k - 1) \cup {k}
      OBVIOUS
    <3> QED BY <3>1, <3>2 DEF Lists
  <2>2. next = IF A[k].addr = a THEN Append(acc, k) ELSE acc
    BY DEF IndexLoop, Turn
  <2> HIDE DEF next
  <2>3. CASE A[k].addr = a
    <3>1. /\ next \in Seq(1..n) /\ Len(next) = Len(acc) + 1 /\ next[Len(acc) + 1] = k
          /\ \A i \in 1..Len(acc) : next[i] = acc[i]
      BY <2>1, <2>2, <2>3, AppendAt
    <3>2. Len(acc) \in Nat
      BY <2>1
    <3>3. ASSUME NEW i \in 1..Len(next) PROVE A[next[i]].addr = a
      <4>1. CASE i = Len(acc) + 1
        BY <2>3, <3>1, <4>1
      <4>2. CASE i # Len(acc) + 1
        <5>1. i \in 1..Len(acc)
          BY <3>1, <3>2, <4>2
        <5> QED BY <2>1, <3>1, <5>1
      <4> QED BY <4>1, <4>2
    <3>4. ASSUME NEW j \in 1..k, A[j].addr = a PROVE \E i \in 1..Len(next) : next[i] = j
      <4>1. CASE j = k
        <5>1. Len(acc) + 1 \in 1..Len(next)
          BY <3>1, <3>2
        <5> QED BY <3>1, <4>1, <5>1
      <4>2. CASE j # k
        <5>1. PICK i \in 1..Len(acc) : acc[i] = j
          BY <2>1, <3>4, <4>2
        <5>2. i \in 1..Len(next) /\ next[i] = j
          BY <3>1, <3>2, <5>1
        <5> QED BY <5>2
      <4> QED BY <4>1, <4>2
    <3>5. Lists(next, 1..k, A, a)
      BY <3>3, <3>4 DEF Lists
    <3> QED BY <1>g, <2>1, <3>1, <3>5 DEF next
  <2>4. CASE A[k].addr # a
    <3>1. next = acc
      BY <2>2, <2>4
    <3>2. Lists(acc, 1..k, A, a)
      <4>1. \A j \in 1..k : A[j].addr = a => j \in 1..(k - 1)
        BY <2>1, <2>4
      <4> QED BY <2>1, <4>1 DEF Lists
    <3> QED BY <1>g, <2>1, <3>1, <3>2 DEF next
  <2> QED BY <2>3, <2>4
<1>4. <<f[1..n], 1..n>> \in Good
  <2> HIDE DEF loop
  <2>1. IsLoop(f, n, loop)
    BY <1>1 DEF loop
  <2> QED BY <1>2, <1>3, <2>1, LoopKeeps
<1> DEFINE is == f[1..n]
<1> HIDE DEF is
<1>5. IndicesAt(A, a) = is /\ is \in Seq(1..n) /\ Lists(is, 1..n, A, a)
  BY <1>1, <1>4, <1>g DEF is
<1> QED BY <1>5 DEF Lists

(* Of the writes to a, as many are matched as were taken, or fewer if one  *)
(* was unexpected.                                                         *)
At(s, list, a) == {i \in s : list[i].addr = a}
Surplus(acc, a) == IF \E u \in Range(acc.unexpected) : u.addr = a THEN 1 ELSE 0
Balanced(acc, s, A, E, a) ==
  Cardinality(At(acc.matched, E, a)) + Surplus(acc, a) <= Cardinality(At(s, A, a))

LEMMA AtTypes ==
  ASSUME NEW n \in Nat, NEW s \in SUBSET (1..n), NEW list, NEW a
  PROVE  IsFiniteSet(At(s, list, a)) /\ Cardinality(At(s, list, a)) \in Nat
<1>1. At(s, list, a) \in SUBSET (1..n)
  BY DEF At
<1>2. IsFiniteSet(1..n)
  BY FS_Interval
<1>3. IsFiniteSet(At(s, list, a))
  BY <1>1, <1>2, FS_Subset
<1> QED BY <1>3, FS_CardinalityType

LEMMA AtAdd ==
  ASSUME NEW n \in Nat, NEW s \in SUBSET (1..n), NEW k \in 1..n, k \notin s, NEW list, NEW a
  PROVE  Cardinality(At(s \cup {k}, list, a)) =
           IF list[k].addr = a THEN Cardinality(At(s, list, a)) + 1 ELSE Cardinality(At(s, list, a))
<1>1. k \notin At(s, list, a)
  BY DEF At
<1>3. IsFiniteSet(At(s, list, a))
  BY AtTypes
<1>2. At(s \cup {k}, list, a) = IF list[k].addr = a THEN At(s, list, a) \cup {k} ELSE At(s, list, a)
  BY DEF At
<1> QED BY <1>1, <1>2, <1>3, FS_AddElement

LEMMA LoopIsBalanced ==
  ASSUME NEW A, NEW E, NEW a, NEW n \in Nat, DOMAIN A = 1..n, DOMAIN E = 1..n
  PROVE  /\ Check(A, E).matched \in SUBSET (1..n)
         /\ Balanced(Check(A, E), 1..n, A, E, a)
<1>1. PICK f : /\ IsLoop(f, n, MatchLoop(A, E))
               /\ Check(A, E) = [ok |-> f[1..n].matched = DOMAIN E /\ f[1..n].unexpected = <<>>,
                                 matched |-> f[1..n].matched, unexpected |-> f[1..n].unexpected]
  BY CheckIsLoop
<1> DEFINE loop == MatchLoop(A, E)
           Accs == [matched : SUBSET (1..n), unexpected : Seq(Range(A))]
           Good == {p \in Accs \X SUBSET (1..n) : Balanced(p[1], p[2], A, E, a)}
<1>g. \A x, s : <<x, s>> \in Good <=> x \in Accs /\ s \in SUBSET (1..n) /\ Balanced(x, s, A, E, a)
  OBVIOUS
<1> HIDE DEF Good
<1>2. <<loop.start, {}>> \in Good
  <2>1. <<>> \in Seq(Range(A)) /\ Range(<<>>) = {}
    BY DEF Range
  <2>2. Unmatched \in Accs /\ Unmatched.matched = {} /\ Unmatched.unexpected = <<>>
    BY <2>1 DEF Unmatched
  <2>3. Surplus(Unmatched, a) = 0
    BY <2>1, <2>2 DEF Surplus
  <2>4. At({}, E, a) = {} /\ At({}, A, a) = {} /\ Cardinality({}) = 0
    BY FS_EmptySet DEF At
  <2>5. Balanced(Unmatched, {}, A, E, a)
    <3>1. 0 + 0 <= 0
      OBVIOUS
    <3> QED BY <2>2, <2>3, <2>4, <3>1 DEF Balanced
  <2>6. loop.start = Unmatched
    BY DEF MatchLoop
  <2> QED BY <1>g, <2>2, <2>5, <2>6
<1>3. ASSUME NEW k \in 1..n, NEW acc, <<acc, 1..(k - 1)>> \in Good
      PROVE  <<Turn(loop, acc, k), 1..k>> \in Good
  <2> DEFINE free == {i \in DOMAIN E \ acc.matched : E[i] = A[k]}
             next == MatchOne(acc, A[k], E)
             before == 1..(k - 1)
             now == Cardinality(At(1..k, A, a))
             was == Cardinality(At(before, A, a))
  <2>1. /\ acc \in Accs /\ 1..k \in SUBSET (1..n) /\ before \in SUBSET (1..n)
        /\ k \notin before /\ 1..k = before \cup {k}
    <3>1. acc \in Accs
      BY <1>g, <1>3
    <3>2. 1..k \in SUBSET (1..n) /\ before \in SUBSET (1..n)
      OBVIOUS
    <3>3. k \notin before /\ 1..k = before \cup {k}
      OBVIOUS
    <3> QED BY <3>1, <3>2, <3>3
  <2>2. Cardinality(At(acc.matched, E, a)) + Surplus(acc, a) <= was
    BY <1>g, <1>3 DEF Balanced
  <2> HIDE DEF before
  <2>3. now = (IF A[k].addr = a THEN was + 1 ELSE was) /\ was \in Nat /\ now \in Nat
    <3> DEFINE s == before \cup {k}
    <3>1. Cardinality(At(s, A, a)) = IF A[k].addr = a THEN was + 1 ELSE was
      BY <2>1, AtAdd
    <3>2. was \in Nat
      BY <2>1, AtTypes
    <3>3. now = Cardinality(At(s, A, a))
      BY <2>1
    <3> HIDE DEF was, now, s
    <3> QED BY <3>1, <3>2, <3>3
  <2>4. Cardinality(At(acc.matched, E, a)) \in Nat /\ Surplus(acc, a) \in 0..1
    <3>1. acc.matched \in SUBSET (1..n)
      BY <2>1
    <3>2. Cardinality(At(acc.matched, E, a)) \in Nat
      BY <3>1, AtTypes
    <3> QED BY <3>2 DEF Surplus
  <2>5. CASE free = {}
    <3>1. next = [acc EXCEPT !.unexpected = Append(acc.unexpected, A[k])]
      BY <2>5 DEF MatchOne
    <3>2. A[k] \in Range(A)
      BY DEF Range
    <3>3. /\ Append(acc.unexpected, A[k]) \in Seq(Range(A))
          /\ \A u \in Range(Append(acc.unexpected, A[k])) : u \in Range(acc.unexpected) \/ u = A[k]
      <4> DEFINE old == acc.unexpected
                 new == Append(old, A[k])
      <4>1. old \in Seq(Range(A))
        BY <2>1
      <4> HIDE DEF old
      <4>2. /\ new \in Seq(Range(A)) /\ Len(new) = Len(old) + 1 /\ new[Len(old) + 1] = A[k]
            /\ \A i \in 1..Len(old) : new[i] = old[i]
        BY <3>2, <4>1, AppendAt
      <4> HIDE DEF new
      <4>3. ASSUME NEW u \in Range(new) PROVE u \in Range(old) \/ u = A[k]
        <5>1. PICK i \in 1..Len(new) : u = new[i]
          BY <4>2 DEF Range
        <5>2. i # Len(old) + 1 => i \in 1..Len(old)
          BY <4>1, <4>2
        <5>3. \A j \in 1..Len(old) : old[j] \in Range(old)
          BY <4>1 DEF Range
        <5> QED BY <4>2, <5>1, <5>2, <5>3
      <4> QED BY <4>2, <4>3 DEF old, new
    <3>4. next \in Accs /\ next.matched = acc.matched
          /\ next.unexpected = Append(acc.unexpected, A[k])
      BY <2>1, <3>1, <3>3
    <3>5. Surplus(next, a) \in 0..1 /\ (A[k].addr # a => Surplus(next, a) <= Surplus(acc, a))
      BY <3>3, <3>4 DEF Surplus
    <3> HIDE DEF next, now, was
    <3>6. Cardinality(At(next.matched, E, a)) + Surplus(next, a) <= now
      BY <2>2, <2>3, <2>4, <3>4, <3>5
    <3> QED BY <1>g, <2>1, <3>4, <3>6 DEF Balanced, now, next, MatchLoop, Turn
  <2>6. CASE free # {}
    <3> DEFINE j == Min(free)
    <3>1. free \subseteq 1..n /\ j \in free
      BY <2>6, FirstIndex
    <3>2. next = [acc EXCEPT !.matched = acc.matched \cup {j}]
      BY <2>6 DEF MatchOne
    <3>3. E[j] = A[k] /\ j \in 1..n /\ j \notin acc.matched
      BY <3>1
    <3> HIDE DEF j, free
    <3>4. next \in Accs /\ next.matched = acc.matched \cup {j} /\ next.unexpected = acc.unexpected
      BY <2>1, <3>2, <3>3
    <3>5. Cardinality(At(acc.matched \cup {j}, E, a)) =
            IF E[j].addr = a THEN Cardinality(At(acc.matched, E, a)) + 1
                             ELSE Cardinality(At(acc.matched, E, a))
      <4>1. acc.matched \in SUBSET (1..n)
        BY <2>1
      <4> QED BY <3>3, <4>1, AtAdd
    <3>6. Surplus(next, a) = Surplus(acc, a)
      BY <3>4 DEF Surplus
    <3> HIDE DEF next, now, was
    <3>7. Cardinality(At(next.matched, E, a)) + Surplus(next, a) <= now
      BY <2>2, <2>3, <2>4, <3>3, <3>4, <3>5, <3>6
    <3> QED BY <1>g, <2>1, <3>4, <3>7 DEF Balanced, now, next, MatchLoop, Turn
  <2> QED BY <2>5, <2>6
<1>4. <<f[1..n], 1..n>> \in Good
  <2> HIDE DEF loop
  <2>1. IsLoop(f, n, loop)
    BY <1>1 DEF loop
  <2> QED BY <1>2, <1>3, <2>1, LoopKeeps
<1> DEFINE c == f[1..n]
<1>5. c \in Accs /\ Balanced(c, 1..n, A, E, a)
  BY <1>4, <1>g
<1> HIDE DEF c
<1>6. Check(A, E).matched = c.matched /\ Check(A, E).unexpected = c.unexpected
  BY <1>1 DEF c
<1> QED BY <1>5, <1>6 DEF Balanced, Surplus

(* The rows of an address show a failure exactly if one of its expected    *)
(* writes is not matched, or one of its actual writes is unexpected.       *)
ShowFailure(rows) == \E i \in DOMAIN rows : rows[i] # "OK"
Unsettled(A, E, a) ==
  \/ \E i \in DOMAIN E \ Check(A, E).matched : E[i].addr = a
  \/ \E u \in Range(Check(A, E).unexpected) : u.addr = a

LEMMA RowsShowFailures ==
  ASSUME NEW A, NEW E, NEW a, NEW n \in Nat,
         Len(A) = n, Len(E) = n, DOMAIN A = 1..n, DOMAIN E = 1..n,
         \A i \in 1..n : A[i].addr = E[i].addr
  PROVE  ShowFailure(Rows(A, E, Check(A, E).matched, a)) <=> Unsettled(A, E, a)
<1> DEFINE c == Check(A, E)
           matched == c.matched
           rows == Rows(A, E, matched, a)
           exps == IndicesAt(E, a)
<1>1. IndicesAt(A, a) = exps
  BY SameIndices
<1>2. /\ exps \in Seq(1..n) /\ Len(exps) \in Nat
      /\ \A i \in 1..Len(exps) : exps[i] \in 1..n /\ E[exps[i]].addr = a
      /\ \A j \in 1..n : E[j].addr = a => \E i \in 1..Len(exps) : exps[i] = j
  <2>1. exps \in Seq(1..n)
    BY AllIndices
  <2>2. \A i \in 1..Len(exps) : exps[i] \in 1..n
    <3> HIDE DEF exps
    <3> QED BY <2>1
  <2>3. Len(exps) \in Nat
    <3> HIDE DEF exps
    <3> QED BY <2>1
  <2> QED BY <2>1, <2>2, <2>3, AllIndices
<1>3. rows = [i \in 1..Len(exps) |-> IF exps[i] \notin matched THEN "MISSING" ELSE "OK"]
  <2> HIDE DEF exps, matched
  <2>1. \A i \in 1..Len(exps) : ~(i > Len(exps))
    BY <1>2
  <2> QED BY <1>1, <1>2, <2>1 DEF Rows, exps
<1> HIDE DEF exps, rows
<1>4. (\E i \in DOMAIN rows : rows[i] # "OK") <=> \E i \in 1..Len(exps) : exps[i] \notin matched
  BY <1>3
<1>5. (\E i \in 1..Len(exps) : exps[i] \notin matched) <=> \E j \in 1..n \ matched : E[j].addr = a
  <2> HIDE DEF matched
  <2>1. ASSUME NEW i \in 1..Len(exps), exps[i] \notin matched
        PROVE  \E j \in 1..n \ matched : E[j].addr = a
    BY <1>2, <2>1
  <2>2. ASSUME NEW j \in 1..n \ matched, E[j].addr = a
        PROVE  \E i \in 1..Len(exps) : exps[i] \notin matched
    BY <1>2, <2>2
  <2> QED BY <2>1, <2>2
<1>6. (\E u \in Range(c.unexpected) : u.addr = a) => \E j \in 1..n \ matched : E[j].addr = a
  <2> SUFFICES ASSUME \E u \in Range(c.unexpected) : u.addr = a,
                      \A j \in 1..n : E[j].addr = a => j \in matched
               PROVE  FALSE
    OBVIOUS
  <2>1. Surplus(c, a) = 1
    BY DEF Surplus
  <2>2. matched \in SUBSET (1..n) /\ Balanced(c, 1..n, A, E, a)
    BY LoopIsBalanced
  <2>3. At(matched, E, a) = At(1..n, A, a)
    BY <2>2 DEF At
  <2>4. Cardinality(At(1..n, A, a)) \in Nat
    BY AtTypes
  <2> QED BY <2>1, <2>2, <2>3, <2>4 DEF Balanced
<1> QED BY <1>4, <1>5, <1>6 DEF rows, ShowFailure, Unsettled

-----------------------------------------------------------------------------
(* Types of what the invariant speaks of.                                  *)

LEMMA VectorTypes ==
  ASSUME FlowInv, test # 0
  PROVE  /\ Vector \in Vectors /\ test \in 1..Len(sweep)
         /\ Vector.meta \in MemLines /\ Vector.bs \in MemLines
         /\ Len(Expected) \in Nat /\ DOMAIN Expected = 1..Len(Expected)
         /\ \A i \in 1..Len(Expected) :
              /\ Expected[i] \in [addr : Nat, data : Nat, strb : Nat]
              /\ Expected[i].addr \in DataAddrs /\ Expected[i].addr \in Nat
              /\ Expected[i].data \in Nat
         /\ Range(Expected) = {Expected[i] : i \in 1..Len(Expected)}
<1>1. sweep \in Seq(Vectors) /\ test \in 1..Len(sweep)
  BY SweepAssumption DEF FlowInv, KernelTypeOK
<1>2. Vector \in Vectors
  BY <1>1 DEF Vector
<1>3. Vector.meta \in MemLines /\ Vector.bs \in MemLines
      /\ Expected \in Seq([addr : Nat, data : Nat, strb : Nat])
  BY <1>2, VectorAssumption DEF Expected
<1>4. \A e \in Range(Expected) : e.addr \in DataAddrs
  <2> DEFINE addrs == {w.addr : w \in Range(Expected)}
  <2>1. addrs \in {{w.addr : w \in Range(v.json.writes)} : v \in Vectors}
    BY <1>2 DEF Expected
  <2>2. addrs \subseteq DataAddrs
    <3> HIDE DEF addrs
    <3> QED BY <2>1 DEF DataAddrs
  <2> QED BY <2>2
<1> DEFINE W == [addr : Nat, data : Nat, strb : Nat]
<1>5. /\ Len(Expected) \in Nat /\ DOMAIN Expected = 1..Len(Expected)
      /\ \A i \in 1..Len(Expected) : Expected[i] \in W
  <2> HIDE DEF W
  <2>1. Expected \in Seq(W)
    BY <1>3 DEF W
  <2> QED BY <2>1
<1>6. Range(Expected) = {Expected[i] : i \in 1..Len(Expected)}
  BY <1>5 DEF Range
<1> QED BY <1>1, <1>2, <1>3, <1>4, <1>5, <1>6

(* The words of the two files that fit a region.                           *)
LEMMA ImageTypes ==
  ASSUME FlowInv, test # 0
  PROVE  /\ \E n \in 0..RegionWords : DOMAIN MetaImage = 0..(n - 1)
         /\ \E n \in 0..RegionWords : DOMAIN BsImage = 0..(n - 1)
         /\ \A w \in DOMAIN MetaImage :
              MetaImage[w] \in Nat /\ MetaImage[w] = FileWord(Vector.meta, LineWords, w)
         /\ \A w \in DOMAIN BsImage :
              BsImage[w] \in Nat /\ BsImage[w] = FileWord(Vector.bs, 1, w)
<1>1. Vector.meta \in MemLines /\ Vector.bs \in MemLines /\ RegionWords \in Nat
  BY VectorTypes, SweepAssumption
<1>2. ASSUME NEW d, IsFiniteSet(d), d \subseteq Nat, d # {} PROVE Max(d) \in Nat
  BY <1>2, MaxOfFinite
<1>3. /\ \E n \in 0..RegionWords : DOMAIN MetaImage = 0..(n - 1)
      /\ \A w \in DOMAIN MetaImage : MetaImage[w] = MetaRead32(LoadMemfileMap(Vector.meta), w)
  <2> DEFINE meta == LoadMemfileMap(Vector.meta)
             end == IF DOMAIN meta = {} THEN 0 ELSE (Max(DOMAIN meta) + 1) * LineWords
  <2>1. end \in Nat
    <3>1. CASE DOMAIN meta = {}
      BY <3>1
    <3>2. CASE DOMAIN meta # {}
      <4>1. Max(DOMAIN meta) \in Nat
        BY <1>1, <1>2, <3>2, MemfileMap
      <4> QED BY <3>2, <4>1, LineAssumption
    <3> QED BY <3>1, <3>2
  <2>2. MetaImage = [w \in 0..(Min({end, RegionWords}) - 1) |-> MetaRead32(meta, w)]
    BY DEF MetaImage
  <2> HIDE DEF end
  <2>3. Min({end, RegionWords}) \in 0..RegionWords
    BY <1>1, <2>1, MinOfTwo
  <2> QED BY <2>2, <2>3
<1>4. /\ \E n \in 0..RegionWords : DOMAIN BsImage = 0..(n - 1)
      /\ \A w \in DOMAIN BsImage : BsImage[w] = BitstreamRead32(LoadMemfileMap(Vector.bs), w)
  <2> DEFINE bs == LoadMemfileMap(Vector.bs)
             end == IF DOMAIN bs = {} THEN 0 ELSE Max(DOMAIN bs) + 1
  <2>1. end \in Nat
    <3>1. CASE DOMAIN bs = {}
      BY <3>1
    <3>2. CASE DOMAIN bs # {}
      <4>1. Max(DOMAIN bs) \in Nat
        BY <1>1, <1>2, <3>2, MemfileMap
      <4> QED BY <3>2, <4>1
    <3> QED BY <3>1, <3>2
  <2>2. BsImage = [w \in 0..(Min({end, RegionWords}) - 1) |-> BitstreamRead32(bs, w)]
    BY DEF BsImage
  <2> HIDE DEF end
  <2>3. Min({end, RegionWords}) \in 0..RegionWords
    BY <1>1, <2>1, MinOfTwo
  <2> QED BY <2>2, <2>3
<1>5. \A w \in DOMAIN MetaImage : w \in Nat
  BY <1>3
<1>6. \A w \in DOMAIN BsImage : w \in Nat
  BY <1>4
<1> QED BY <1>1, <1>3, <1>4, <1>5, <1>6, MetaWord, BsWord

(* The beats of a co-simulation write hold the whole image.                *)
LEMMA BeatsHold ==
  ASSUME NEW n \in Nat, NEW image, DOMAIN image = 0..(n - 1),
         \A w \in DOMAIN image : image[w] \in Nat
  PROVE  /\ DOMAIN image \subseteq DOMAIN Beats(image)
         /\ \A w \in DOMAIN Beats(image) : Beats(image)[w] \in Nat
         /\ \A w \in DOMAIN image : Beats(image)[w] = image[w]
<1> DEFINE padded == ((n + BeatWords - 1) \div BeatWords) * BeatWords
<1>1. Cardinality(DOMAIN image) = n
  BY FS_Interval
<1>2. Beats(image) = [w \in 0..(padded - 1) |-> IF w < n THEN image[w] ELSE 0]
  BY <1>1 DEF Beats
<1>3. padded \in Int /\ padded >= n
  <2> DEFINE B == BeatWords
             x == n + B - 1
             q == x \div B
  <2>1. B \in Nat /\ B > 0 /\ x \in Nat
    BY SweepAssumption
  <2>2. q \in Nat /\ x = q * B + (x % B) /\ x % B \in 0..(B - 1)
    BY <2>1
  <2> DEFINE y == q * B
  <2>3. y \in Int
    BY <2>1, <2>2
  <2> HIDE DEF y, q
  <2>4. x = y + (x % B)
    BY <2>2 DEF y
  <2>5. y >= n
    BY <2>1, <2>2, <2>3, <2>4
  <2> QED BY <2>3, <2>5 DEF y, q
<1> HIDE DEF padded
<1> QED BY <1>2, <1>3

LEMMA OverHas ==
  ASSUME NEW D, NEW region \in [D -> Nat], NEW sent,
         \A w \in DOMAIN sent : sent[w] \in Nat
  PROVE  /\ Over(region, sent) \in [D -> Nat]
         /\ \A w \in D \cap DOMAIN sent : Over(region, sent)[w] = sent[w]
BY DEF Over

-----------------------------------------------------------------------------
(* The queue of answers.                                                   *)

LEMMA LeftTypes ==
  ASSUME NEW own \in Answers, late \in Seq(Answers)
  PROVE  /\ Left(own) \in Seq(Answers) /\ Len(Left(own)) = Len(late)
         /\ late = <<>> => Left(own) = <<>> /\ Taken(own) = own
         /\ late # <<>> => Taken(own) = late[1]
         /\ \A i \in 1..Len(Left(own)) :
              Left(own)[i] = own \/ (i + 1 \in DOMAIN late /\ Left(own)[i] = late[i + 1])
<1> DEFINE q == Append(late, own)
<1>1. /\ q \in Seq(Answers) /\ Len(q) = Len(late) + 1 /\ Len(late) \in Nat /\ q # <<>>
      /\ DOMAIN late = 1..Len(late)
      /\ \A i \in 1..Len(q) : q[i] = IF i = Len(late) + 1 THEN own ELSE late[i]
  OBVIOUS
<1> HIDE DEF q
<1>2. /\ Tail(q) \in Seq(Answers) /\ Len(Tail(q)) = Len(late)
      /\ \A i \in 1..Len(Tail(q)) : Tail(q)[i] = q[i + 1]
  BY <1>1, HeadTailProperties
<1>3. Head(q) = q[1]
  BY <1>1
<1>4. Left(own) = Tail(q) /\ Taken(own) = Head(q)
  BY DEF Left, Taken, q
<1>5. late = <<>> => Len(late) = 0
  OBVIOUS
<1>6. late = <<>> => Tail(q) = <<>>
  BY <1>2, <1>5, EmptySeq
<1>7. late # <<>> => Len(late) >= 1
  OBVIOUS
<1>8. \A i \in 1..Len(Tail(q)) :
        Tail(q)[i] = own \/ (i + 1 \in DOMAIN late /\ Tail(q)[i] = late[i + 1])
  BY <1>1, <1>2
<1> QED BY <1>1, <1>2, <1>3, <1>4, <1>5, <1>6, <1>7, <1>8

LEMMA LeftByWritesTypes ==
  ASSUME late \in Seq(Answers)
  PROVE  /\ LeftByWrites \in Seq(Answers) /\ Len(LeftByWrites) = Len(late)
         /\ late = <<>> => LeftByWrites = <<>>
         /\ \A i \in DOMAIN LeftByWrites : LeftByWrites[i].kind = "ack"
<1>1. Answer("ack", 0) \in Answers /\ Answer("ack", 0).kind = "ack"
  BY DEF Answer, Answers
<1>2. Len(late) \in Nat /\ DOMAIN late = 1..Len(late)
  OBVIOUS
<1>3. LeftByWrites = [i \in 1..Len(late) |-> Answer("ack", 0)]
  BY <1>2 DEF LeftByWrites
<1>4. LeftByWrites \in Seq(Answers) /\ Len(LeftByWrites) = Len(late)
  BY <1>1, <1>2, <1>3
<1>5. late = <<>> => Len(LeftByWrites) = 0
  BY <1>4
<1> QED BY <1>1, <1>3, <1>4, <1>5, EmptySeq

(* A read that fits takes its own answer if none before it is of its kind. *)
LEMMA OwnTaken ==
  ASSUME NEW own \in Answers, late \in Seq(Answers), aligned, Fits(own),
         \A i \in DOMAIN late : late[i].kind # own.kind
  PROVE  late = <<>> /\ Taken(own) = own /\ Left(own) = <<>>
<1>1. late # <<>> => 1 \in DOMAIN late
  OBVIOUS
<1>2. late = <<>>
  BY <1>1, LeftTypes DEF Fits
<1> QED BY <1>2, LeftTypes

(* An answer is a step of the queue: what is left has the length of what   *)
(* was there, and nothing is new in it but the call's own answer.          *)
LEMMA LeftKinds ==
  ASSUME NEW own \in Answers, late \in Seq(Answers), NEW k, own.kind # k,
         \A i \in DOMAIN late : late[i].kind # k
  PROVE  \A i \in DOMAIN Left(own) : Left(own)[i].kind # k
<1>1. DOMAIN Left(own) = 1..Len(Left(own))
  BY LeftTypes
<1> QED BY <1>1, LeftTypes

-----------------------------------------------------------------------------
(* Steps within a test, and steps that end one.                            *)

LEMMA SameTest ==
  ASSUME UNCHANGED <<sweep, test>>
  PROVE  Vector' = Vector /\ Expected' = Expected /\ MetaImage' = MetaImage /\ BsImage' = BsImage
<1>1. Vector' = Vector
  BY DEF Vector
<1> QED BY <1>1 DEF Expected, MetaImage, BsImage

(* No step mends a broken frame, and only the end of a reset tells anew    *)
(* what CTAs have outlived it.                                             *)
Calmer == (Undisturbed' => Undisturbed) /\ (aligned' => aligned)

LEMMA StaysCalm ==
  ASSUME UNCHANGED <<leftover, aligned>>
  PROVE  Calmer
BY DEF Calmer, Undisturbed

LEMMA ImageKept ==
  ASSUME ImageInv, aligned' => aligned,
         UNCHANGED <<sweep, test>>, mem'.meta = mem.meta, mem'.bs = mem.bs,
         (pc' \in HasMeta \/ OwnCta') => (pc \in HasMeta \/ OwnCta),
         (pc' \in HasBs \/ OwnCta') => (pc \in HasBs \/ OwnCta)
  PROVE  ImageInv'
<1>1. MetaImage' = MetaImage /\ BsImage' = BsImage
  BY SameTest
<1>2. Verified(mem.meta, MetaImage) => Verified(mem'.meta, MetaImage')
  BY <1>1
<1>3. Verified(mem.bs, BsImage) => Verified(mem'.bs, BsImage')
  BY <1>1
<1> QED BY <1>2, <1>3 DEF ImageInv

LEMMA SlotKept ==
  ASSUME SlotInv, Calmer, UNCHANGED <<sweep, test, mem, stored>>, pc' \in Seeded => pc \in Seeded
  PROVE  SlotInv'
<1>1. Expected' = Expected
  BY SameTest
<1>2. Undisturbed' => Undisturbed
  BY DEF Calmer
<1> QED BY <1>1, <1>2 DEF SlotInv, Touched, SeededSlots

(* A test's own CTAs and the others, numbered as they were launched.       *)
LEMMA AllRunningTypes ==
  ASSUME ChipTypes, test \in Nat
  PROVE  /\ AllRunning \subseteq [cta : 1..cta, test : 1..test]
         /\ AllRunning = {} <=> others = {} /\ running = 0
<1>1. running # 0 => Cta_(cta, running) \in [cta : 1..cta, test : 1..test]
  <2>1. running # 0 => cta \in 1..cta /\ running \in 1..test
    BY DEF ChipTypes
  <2> QED BY <2>1 DEF Cta_
<1>2. AllRunning = others \cup (IF running = 0 THEN {} ELSE {Cta_(cta, running)})
  BY DEF AllRunning
<1>3. others \subseteq [cta : 1..cta, test : 1..test]
  BY DEF ChipTypes
<1>4. CASE running = 0
  BY <1>2, <1>3, <1>4
<1>5. CASE running # 0
  <2>1. AllRunning = others \cup {Cta_(cta, running)}
    BY <1>2, <1>5
  <2> QED BY <1>1, <1>3, <1>5, <2>1
<1> QED BY <1>4, <1>5

LEMMA LaterCtas ==
  ASSUME NEW c \in Nat, NEW c1 \in Nat, c <= c1, NEW t \in Nat, NEW t1 \in Nat, t <= t1,
         NEW S, S \subseteq [cta : 1..c, test : 1..t]
  PROVE  S \subseteq [cta : 1..c1, test : 1..t1]
<1>1. 1..c \subseteq 1..c1 /\ 1..t \subseteq 1..t1
  OBVIOUS
<1>2. [cta : 1..c, test : 1..t] \subseteq [cta : 1..c1, test : 1..t1]
  BY <1>1, Zenon
<1> QED BY <1>2

LEMMA NoVerdictYet ==
  ASSUME verdict' = NoVerdict
  PROVE  VerdictInv'
BY DEF VerdictInv, NoVerdict, DiagnosisIsTrue, ReportShowsEveryFailure

LEMMA WithinTest ==
  ASSUME KernelInv, pc \in InTest, pc' \in InTest, UNCHANGED <<sweepVars, csrValues, verdict>>,
         mem' \in Memory, idx' \in Nat \ {0}, baseline' \in Seq(Nat), actual' \in Seq(Nat),
         late' \in Seq(Answers), Len(late') <= faults', faults' \in 0..MaxFaults,
         ChipTypes',
         (pc = "resetWrite" => running < test)',
         (pc \in {"resetPoll", "meta", "bs", "echo", "baseline"} => running = 0 /\ stored = {})',
         (pc \in {"launch", "wait", "hang", "readBack", "hangReadBack"} => running \in {0, test})'
  PROVE  FlowInv' /\ VerdictInv' /\ PassMeansStored'
<1>1. Vector' = Vector
  BY SameTest DEF sweepVars
<1>2. verdict' = NoVerdict
  BY DEF KernelInv, FlowInv
<1>3. VerdictInv'
  BY <1>2, NoVerdictYet
<1>4. PassMeansStored'
  BY DEF KernelInv, PassMeansStored, sweepVars
<1>5. KernelTypeOK'
  BY DEF KernelInv, FlowInv, KernelTypeOK, ChipTypes, sweepVars, InTest, Answers
<1>6. FlowInv'
  BY <1>1, <1>2, <1>5 DEF KernelInv, FlowInv, sweepVars
<1> QED BY <1>3, <1>4, <1>6

LEMMA EndsTest ==
  ASSUME KernelInv, pc \in InTest, NEW ok \in BOOLEAN, EndTest(ok),
         ok /\ backend # "mock" => HasLanded \/ ~Undisturbed,
         mem' \in Memory, idx' \in Nat \ {0}, UNCHANGED <<baseline, actual>>,
         late' \in Seq(Answers), Len(late') <= faults', faults' \in 0..MaxFaults,
         ChipTypes', ImageInv', VerdictInv'
  PROVE  KernelInv'
<1> DEFINE hasLanded == HasLanded \/ ~Undisturbed
<1>1. hasLanded \in BOOLEAN /\ (ok /\ backend # "mock" => hasLanded)
  OBVIOUS
<1>2. /\ results' = Append(results, ok) /\ landed' = Append(landed, hasLanded)
      /\ md' = HandleAfterTest /\ pc' = "next"
      /\ UNCHANGED <<backend, sweep, test, exit>>
  BY DEF EndTest
<1> HIDE DEF hasLanded
<1>3. results \in Seq(BOOLEAN) /\ landed \in Seq(BOOLEAN) /\ Len(landed) = Len(results)
      /\ Len(results) = test - 1 /\ test \in Nat /\ test # 0
  BY SweepAssumption DEF KernelInv, FlowInv, KernelTypeOK
<1>4. /\ results' \in Seq(BOOLEAN) /\ landed' \in Seq(BOOLEAN)
      /\ Len(results') = test /\ Len(landed') = test
  BY <1>1, <1>2, <1>3
<1>5. KernelTypeOK'
  <2>1. md' \in {"none", "open", "closed"}
    BY <1>2 DEF KernelInv, FlowInv, KernelTypeOK, HandleAfterTest
  <2>2. pc' \in Stages
    BY <1>2 DEF Stages
  <2> QED BY <1>2, <1>4, <2>1, <2>2 DEF KernelInv, FlowInv, KernelTypeOK, ChipTypes, Answers
<1>6. pc' \notin InTest /\ pc' \notin Seeded /\ pc' = "next"
  BY <1>2 DEF InTest, Seeded
<1>7. FlowInv'
  BY <1>2, <1>4, <1>5, <1>6 DEF KernelInv, FlowInv
<1>8. PassMeansStored'
  <2> SUFFICES ASSUME backend # "mock", NEW i \in 1..test, results'[i]
               PROVE  landed'[i]
    BY <1>2, <1>4 DEF PassMeansStored
  <2>1. CASE i = test
    <3>1. results'[i] = ok /\ landed'[i] = hasLanded
      <4>1. i = Len(results) + 1 /\ i = Len(landed) + 1
        BY <1>3, <2>1
      <4>2. Append(results, ok)[Len(results) + 1] = ok
        BY <1>3, AppendAt
      <4>3. Append(landed, hasLanded)[Len(landed) + 1] = hasLanded
        BY <1>1, <1>3, AppendAt
      <4> QED BY <1>2, <4>1, <4>2, <4>3, Zenon
    <3> QED BY <1>1, <3>1
  <2>2. CASE i # test
    <3>1. i \in DOMAIN results /\ results'[i] = results[i] /\ landed'[i] = landed[i]
      <4>1. i \in 1..Len(results) /\ i \in 1..Len(landed) /\ i \in DOMAIN results
        BY <1>3, <2>2
      <4>2. Append(results, ok)[i] = results[i]
        BY <1>3, <4>1, AppendAt
      <4>3. Append(landed, hasLanded)[i] = landed[i]
        BY <1>1, <1>3, <4>1, AppendAt
      <4> QED BY <1>2, <4>1, <4>2, <4>3, Zenon
    <3> QED BY <3>1 DEF KernelInv, PassMeansStored
  <2> QED BY <2>1, <2>2
<1>9. CtaInv' /\ AnswerInv' /\ SlotInv' /\ ListInv' /\ OverrideInv'
  BY <1>2, <1>6 DEF CtaInv, AnswerInv, SlotInv, ListInv, LengthInv, ValueInv, OverrideInv, HasMeta
<1> QED BY <1>7, <1>8, <1>9 DEF KernelInv

-----------------------------------------------------------------------------
(* The reset and the preloads.                                             *)

LEMMA Raises ==
  ASSUME KernelInv, pc \in InTest, Exception, UNCHANGED testVars,
         mem' \in Memory, idx' \in Nat \ {0},
         late' \in Seq(Answers), Len(late') <= faults', faults' \in 0..MaxFaults,
         ChipTypes', ImageInv'
  PROVE  KernelInv'
<1>1. verdict' = NoVerdict /\ UNCHANGED <<baseline, actual>>
  BY DEF testVars, KernelInv, FlowInv
<1>2. VerdictInv'
  BY <1>1, NoVerdictYet
<1> QED BY <1>1, <1>2, EndsTest DEF Exception

(* What the invariant says of the types of a state.                        *)
LEMMA InvTypes ==
  ASSUME KernelInv
  PROVE  /\ late \in Seq(Answers) /\ Len(late) <= faults /\ Len(late) \in Nat
         /\ faults \in 0..MaxFaults /\ MaxFaults \in Nat
         /\ mem \in Memory /\ idx \in Nat \ {0} /\ baseline \in Seq(Nat) /\ actual \in Seq(Nat)
         /\ test \in Nat /\ running \in 0..test /\ cta \in Nat /\ finished \subseteq 0..cta
         /\ (pc \in InTest => test # 0)
         /\ (backend # "cosim" => late = <<>> /\ aligned) /\ aligned \in BOOLEAN /\ ChipTypes
BY SweepAssumption DEF KernelInv, FlowInv, KernelTypeOK, ChipTypes, Answers

(* The chip's and the driver's view of the CTAs stays as it was.           *)
LEMMA ChipTypesKept ==
  ASSUME ChipTypes, UNCHANGED <<running, others, cta, finished, aligned, test, backend>>,
         late = <<>> => late' = <<>>
  PROVE  ChipTypes'
BY DEF ChipTypes

LEMMA AnswerTypes ==
  /\ Answer("ack", 0) \in Answers /\ Answer("ack", 0).kind = "ack"
  /\ Answer("rd32", 0) \in Answers /\ Answer("rd32", 0).kind = "rd32"
  /\ \A v \in Nat : Answer("line", v) \in Answers /\ Answer("line", v).kind = "line"
                    /\ Answer("line", v).val = v
BY DEF Answer, Answers

LEMMA ResetWriteKeeps ==
  ASSUME KernelInv, ResetWrite
  PROVE  KernelInv'
<1>1. /\ pc = "resetWrite" /\ pc' = "resetPoll" /\ running' = 0 /\ stored' = {}
      /\ late' = Left(Answer("ack", 0)) /\ outcome' = "failed"
      /\ \/ others' = {} /\ UNCHANGED faults
         \/ faults < MaxFaults /\ faults' = faults + 1 /\ others' = AllRunning
      /\ UNCHANGED <<sweepVars, idx, testVars, cta, finished, leftover, mem, aligned>>
  BY DEF ResetWrite, Cta!BeginReset
<1>2. /\ late' \in Seq(Answers) /\ Len(late') <= faults' /\ (late = <<>> => late' = <<>>)
      /\ faults' \in 0..MaxFaults
  BY <1>1, InvTypes, AnswerTypes, LeftTypes
<1>3. pc \in InTest /\ pc' \in InTest \ Seeded /\ pc' \notin HasMeta /\ pc' \notin HasBs
      /\ 0 \in 0..test
  BY <1>1, InvTypes DEF InTest, Stages, Seeded, HasMeta, HasBs
<1>4. ChipTypes'
  <2>1. others' \subseteq [cta : 1..cta, test : 1..test]
    <3>1. others' = {} \/ others' = AllRunning
      BY <1>1
    <3> QED BY <3>1, InvTypes, AllRunningTypes
  <2>2. UNCHANGED <<backend, test, cta, finished, aligned>>
    BY <1>1 DEF sweepVars
  <2> QED BY <1>1, <1>2, <1>3, <2>1, <2>2 DEF ChipTypes, KernelInv, FlowInv
<1>5. FlowInv' /\ VerdictInv' /\ PassMeansStored'
  BY <1>1, <1>2, <1>3, <1>4, InvTypes, WithinTest DEF testVars
<1>6. CtaInv' /\ OverrideInv' /\ AnswerInv'
  BY <1>1, <1>3 DEF CtaInv, OverrideInv, AnswerInv
<1>7. ImageInv'
  BY <1>1, <1>3 DEF ImageInv, OwnCta
<1>8. SlotInv' /\ ListInv'
  BY <1>1, <1>3 DEF KernelInv, SlotInv, ListInv, LengthInv, ValueInv, testVars, Seeded
<1> QED BY <1>5, <1>6, <1>7, <1>8 DEF KernelInv

LEMMA ResetPollKeeps ==
  ASSUME KernelInv, ResetPoll
  PROVE  KernelInv'
<1>1. /\ pc = "resetPoll" /\ late' = Left(Answer("rd32", 0))
      /\ UNCHANGED <<idx, testVars, mem, running, others, stored, aligned, faults>>
  BY DEF ResetPoll, chipVars, runVars
<1>2. \/ pc' = "resetPoll" /\ UNCHANGED <<sweepVars, cta, finished>>
      \/ /\ pc' = "meta" /\ UNCHANGED <<sweepVars, cta, finished>>
         /\ leftover' = {o.cta : o \in others}
      \/ Exception /\ UNCHANGED ctaVars
  BY <1>1 DEF ResetPoll, ResetEnds, Cta!EndReset, ctaVars
<1>3. /\ late' \in Seq(Answers) /\ Len(late') <= faults /\ (late = <<>> => late' = <<>>)
  BY <1>1, InvTypes, AnswerTypes, LeftTypes
<1>4. pc \in InTest \ Seeded /\ running = 0 /\ stored = {}
  BY <1>1 DEF InTest, Stages, Seeded, KernelInv, FlowInv
<1>5. ChipTypes'
  <2>1. UNCHANGED <<backend, test, cta, finished>>
    BY <1>2 DEF sweepVars, Exception, EndTest, ctaVars
  <2> QED BY <1>1, <1>3, <2>1, InvTypes, ChipTypesKept
<1>6. CASE /\ pc' \in {"resetPoll", "meta"} /\ UNCHANGED <<sweepVars, cta, finished>>
           /\ pc' = "meta" => leftover' = {o.cta : o \in others}
  <2>1. pc' \in InTest \ Seeded /\ pc' \notin HasMeta /\ pc' \notin HasBs
    BY <1>6 DEF InTest, Stages, Seeded, HasMeta, HasBs
  <2>2. FlowInv' /\ VerdictInv' /\ PassMeansStored'
    BY <1>1, <1>3, <1>4, <1>5, <1>6, <2>1, InvTypes, WithinTest DEF testVars
  <2>3. CtaInv' /\ OverrideInv'
    <3>1. pc' = "meta" /\ Undisturbed' => others' = {}
      BY <1>1, <1>6 DEF Undisturbed
    <3> QED BY <1>6, <2>1, <3>1 DEF CtaInv, OverrideInv
  <2>4. AnswerInv'
    BY <1>6, <2>1 DEF AnswerInv
  <2>5. ImageInv'
    BY <1>1, <1>4, <2>1 DEF ImageInv, OwnCta
  <2>6. SlotInv' /\ ListInv'
    BY <1>1, <1>4, <2>1, <1>6 DEF KernelInv, SlotInv, ListInv, LengthInv, ValueInv, testVars, Seeded
  <2> QED BY <2>2, <2>3, <2>4, <2>5, <2>6 DEF KernelInv
<1>7. CASE Exception
  <2>1. UNCHANGED <<backend, sweep, test, mem, running, faults, idx>> /\ pc' = "next"
    BY <1>1, <1>7 DEF Exception, EndTest
  <2>2. ImageInv'
    BY <1>4, <2>1 DEF ImageInv, OwnCta, HasMeta, HasBs, Seeded
  <2> QED BY <1>1, <1>3, <1>4, <1>5, <1>7, <2>1, <2>2, InvTypes, Raises
<1> QED BY <1>2, <1>6, <1>7

(* One preload: it ends with the image in the region, or the test fails.   *)
LEMMA PreloadDoes ==
  ASSUME KernelInv, NEW r \in {"meta", "bs", "data"}, NEW image, NEW next,
         NEW n \in Nat, DOMAIN image = 0..(n - 1), DOMAIN image \subseteq DOMAIN mem[r],
         \A w \in DOMAIN image : image[w] \in Nat,
         Preload(r, image, next)
  PROVE  /\ mem' \in Memory
         /\ \A q \in {"meta", "bs", "data"} \ {r} : mem'[q] = mem[q]
         /\ \/ pc' = next /\ UNCHANGED sweepVars /\ (aligned => Verified(mem'[r], image))
            \/ Exception
         /\ late' \in Seq(Answers) /\ Len(late') <= faults' /\ faults' \in 0..MaxFaults
         /\ late = <<>> => late' = <<>>
         /\ image # <<>> => \A i \in DOMAIN late' : late'[i].kind = "ack"
<1> DEFINE sent == IF backend = "cosim" /\ r # "data" THEN Beats(image) ELSE image
           lost == /\ backend = "hw" \/ ~aligned
                   /\ faults < MaxFaults /\ faults' = faults + 1 /\ mem' = mem
           done == faults' = faults /\ mem' = [mem EXCEPT ![r] = Over(@, sent)]
           D == DOMAIN mem[r]
<1>1. /\ mem \in Memory /\ mem[r] \in [D -> Nat]
      /\ D = IF r = "data" THEN DataAddrs ELSE Words
  BY InvTypes DEF Memory
<1>2. CASE DOMAIN image = {}
  <2>1. pc' = next /\ UNCHANGED <<sweepVars, mem, late, faults>>
    BY <1>2 DEF Preload
  <2>2. Verified(mem'[r], image)
    BY <1>2 DEF Verified
  <2>3. image = <<>>
    BY <1>2
  <2> QED BY <2>1, <2>2, <2>3, InvTypes
<1>3. CASE DOMAIN image # {}
  <2>1. /\ lost \/ done
        /\ late' = LeftByWrites
        /\ IF backend = "hw" /\ ~Verified(mem'[r], image)
           THEN Exception ELSE pc' = next /\ UNCHANGED sweepVars
    BY <1>3 DEF Preload
  <2>2. /\ \A w \in DOMAIN sent : sent[w] \in Nat
        /\ \A w \in DOMAIN image : w \in DOMAIN sent /\ sent[w] = image[w]
    BY BeatsHold
  <2> HIDE DEF sent
  <2>3. CASE done
    <3>1. Over(mem[r], sent) \in [D -> Nat]
          /\ \A w \in D \cap DOMAIN sent : Over(mem[r], sent)[w] = sent[w]
      BY <1>1, <2>2, OverHas
    <3>2. mem'[r] = Over(mem[r], sent) /\ mem' \in Memory
          /\ \A q \in {"meta", "bs", "data"} \ {r} : mem'[q] = mem[q]
      BY <1>1, <2>3, <3>1 DEF Memory
    <3>3. Verified(mem'[r], image)
      BY <2>2, <3>1, <3>2 DEF Verified
    <3> QED BY <2>1, <2>3, <3>2, <3>3, InvTypes, LeftByWritesTypes
  <2>4. CASE lost
    <3>1. /\ mem' = mem /\ faults' = faults + 1 /\ faults < MaxFaults
          /\ aligned => backend = "hw"
      BY <2>4
    <3> QED BY <1>1, <2>1, <3>1, InvTypes, LeftByWritesTypes
  <2> QED BY <2>1, <2>3, <2>4
<1> QED BY <1>2, <1>3

LEMMA PreloadMetaKeeps ==
  ASSUME KernelInv, PreloadMeta
  PROVE  KernelInv'
<1>1. /\ pc = "meta" /\ Preload("meta", MetaImage, "bs")
      /\ UNCHANGED <<idx, testVars, ctaVars, running, others, stored, aligned>>
  BY DEF PreloadMeta, runVars
<1>2. pc \in InTest \ Seeded /\ running = 0 /\ stored = {} /\ test # 0
  BY <1>1 DEF InTest, Stages, Seeded, KernelInv, FlowInv
<1>3. /\ mem' \in Memory
      /\ \/ pc' = "bs" /\ UNCHANGED sweepVars /\ (aligned => Verified(mem'.meta, MetaImage))
         \/ Exception
      /\ late' \in Seq(Answers) /\ Len(late') <= faults' /\ faults' \in 0..MaxFaults
      /\ late = <<>> => late' = <<>>
  <2>1. PICK n \in 0..RegionWords : DOMAIN MetaImage = 0..(n - 1)
    BY <1>2, ImageTypes DEF KernelInv
  <2>2. n \in Nat /\ DOMAIN MetaImage \subseteq DOMAIN mem.meta
    BY <2>1, SweepAssumption, InvTypes DEF Memory, Words
  <2>3. \A w \in DOMAIN MetaImage : MetaImage[w] \in Nat
    BY <1>2, ImageTypes DEF KernelInv
  <2> DEFINE image == MetaImage
  <2> HIDE DEF image
  <2>4. /\ DOMAIN image = 0..(n - 1) /\ DOMAIN image \subseteq DOMAIN mem.meta
        /\ \A w \in DOMAIN image : image[w] \in Nat
        /\ Preload("meta", image, "bs")
    BY <1>1, <2>1, <2>2, <2>3 DEF image
  <2>5. /\ mem' \in Memory
        /\ \/ pc' = "bs" /\ UNCHANGED sweepVars /\ (aligned => Verified(mem'.meta, image))
           \/ Exception
        /\ late' \in Seq(Answers) /\ Len(late') <= faults' /\ faults' \in 0..MaxFaults
        /\ late = <<>> => late' = <<>>
    BY <2>2, <2>4, PreloadDoes
  <2> QED BY <2>5 DEF image
<1>6. ChipTypes' /\ Calmer
  <2>1. UNCHANGED <<backend, test, cta, finished, leftover>>
    BY <1>1, <1>3 DEF sweepVars, Exception, EndTest, ctaVars
  <2> QED BY <1>1, <1>3, <2>1, InvTypes, ChipTypesKept, StaysCalm
<1>4. CASE pc' = "bs" /\ UNCHANGED sweepVars /\ (aligned => Verified(mem'.meta, MetaImage))
  <2>1. pc' \in InTest \ Seeded /\ pc' \notin HasBs
    BY <1>4 DEF InTest, Stages, Seeded, HasBs
  <2>2. FlowInv' /\ VerdictInv' /\ PassMeansStored'
    BY <1>1, <1>2, <1>3, <1>4, <2>1, <1>6, InvTypes, WithinTest DEF testVars
  <2>3. CtaInv' /\ OverrideInv'
    BY <1>1, <1>2, <1>4, <1>6 DEF KernelInv, CtaInv, OverrideInv, Calmer, HasMeta, Seeded
  <2>4. AnswerInv'
    BY <1>4, <2>1 DEF AnswerInv
  <2>5. ImageInv'
    <3>1. MetaImage' = MetaImage
      BY <1>4, SameTest DEF sweepVars
    <3> QED BY <1>1, <1>2, <1>4, <2>1, <3>1 DEF ImageInv, OwnCta
  <2>6. SlotInv' /\ ListInv'
    BY <1>1, <1>2, <2>1, <1>4 DEF KernelInv, SlotInv, ListInv, LengthInv, ValueInv, testVars, Seeded
  <2> QED BY <2>2, <2>3, <2>4, <2>5, <2>6 DEF KernelInv
<1>5. CASE Exception
  <2>1. UNCHANGED <<backend, sweep, test, running, idx>> /\ pc' = "next"
    BY <1>1, <1>5 DEF Exception, EndTest
  <2>2. ImageInv'
    BY <1>2, <2>1 DEF ImageInv, OwnCta, HasMeta, HasBs, Seeded
  <2> QED BY <1>1, <1>2, <1>3, <1>5, <1>6, <2>1, <2>2, InvTypes, Raises
<1> QED BY <1>3, <1>4, <1>5

LEMMA PreloadBsKeeps ==
  ASSUME KernelInv, PreloadBs
  PROVE  KernelInv'
<1>1. /\ pc = "bs" /\ Preload("bs", BsImage, "echo")
      /\ UNCHANGED <<idx, testVars, ctaVars, running, others, stored, aligned>>
  BY DEF PreloadBs, runVars
<1>2. pc \in InTest \ Seeded /\ pc \in HasMeta /\ running = 0 /\ stored = {} /\ test # 0
  BY <1>1 DEF InTest, Stages, Seeded, HasMeta, KernelInv, FlowInv
<1>3. /\ mem' \in Memory /\ mem'.meta = mem.meta
      /\ \/ pc' = "echo" /\ UNCHANGED sweepVars /\ (aligned => Verified(mem'.bs, BsImage))
         \/ Exception
      /\ late' \in Seq(Answers) /\ Len(late') <= faults' /\ faults' \in 0..MaxFaults
      /\ late = <<>> => late' = <<>>
  <2>1. PICK n \in 0..RegionWords : DOMAIN BsImage = 0..(n - 1)
    BY <1>2, ImageTypes DEF KernelInv
  <2>2. n \in Nat /\ DOMAIN BsImage \subseteq DOMAIN mem.bs
    BY <2>1, SweepAssumption, InvTypes DEF Memory, Words
  <2>3. \A w \in DOMAIN BsImage : BsImage[w] \in Nat
    BY <1>2, ImageTypes DEF KernelInv
  <2> DEFINE image == BsImage
  <2> HIDE DEF image
  <2>4. /\ DOMAIN image = 0..(n - 1) /\ DOMAIN image \subseteq DOMAIN mem.bs
        /\ \A w \in DOMAIN image : image[w] \in Nat
        /\ Preload("bs", image, "echo")
    BY <1>1, <2>1, <2>2, <2>3 DEF image
  <2>5. /\ mem' \in Memory /\ mem'.meta = mem.meta
        /\ \/ pc' = "echo" /\ UNCHANGED sweepVars /\ (aligned => Verified(mem'.bs, image))
           \/ Exception
        /\ late' \in Seq(Answers) /\ Len(late') <= faults' /\ faults' \in 0..MaxFaults
        /\ late = <<>> => late' = <<>>
    BY <2>2, <2>4, PreloadDoes
  <2> QED BY <2>5 DEF image
<1>6. ChipTypes' /\ Calmer
  <2>1. UNCHANGED <<backend, test, cta, finished, leftover>>
    BY <1>1, <1>3 DEF sweepVars, Exception, EndTest, ctaVars
  <2> QED BY <1>1, <1>3, <2>1, InvTypes, ChipTypesKept, StaysCalm
<1>4. CASE pc' = "echo" /\ UNCHANGED sweepVars /\ (aligned => Verified(mem'.bs, BsImage))
  <2>1. pc' \in InTest \ Seeded
    BY <1>4 DEF InTest, Stages, Seeded
  <2>2. FlowInv' /\ VerdictInv' /\ PassMeansStored'
    BY <1>1, <1>2, <1>3, <1>4, <2>1, <1>6, InvTypes, WithinTest DEF testVars
  <2>3. CtaInv' /\ OverrideInv'
    BY <1>1, <1>2, <1>4, <1>6 DEF KernelInv, CtaInv, OverrideInv, Calmer, HasMeta, Seeded
  <2>4. AnswerInv'
    BY <1>4, <2>1 DEF AnswerInv
  <2>5. ImageInv'
    <3>1. MetaImage' = MetaImage /\ BsImage' = BsImage
      BY <1>4, SameTest DEF sweepVars
    <3>2. aligned => Verified(mem.meta, MetaImage)
      BY <1>2 DEF KernelInv, ImageInv
    <3> QED BY <1>1, <1>3, <1>4, <3>1, <3>2 DEF ImageInv
  <2>6. SlotInv' /\ ListInv'
    BY <1>1, <1>2, <2>1, <1>4 DEF KernelInv, SlotInv, ListInv, LengthInv, ValueInv, testVars, Seeded
  <2> QED BY <2>2, <2>3, <2>4, <2>5, <2>6 DEF KernelInv
<1>5. CASE Exception
  <2>1. UNCHANGED <<backend, sweep, test, running, idx>> /\ pc' = "next"
    BY <1>1, <1>5 DEF Exception, EndTest
  <2>2. ImageInv'
    BY <1>2, <2>1 DEF ImageInv, OwnCta, HasMeta, HasBs, Seeded
  <2> QED BY <1>1, <1>2, <1>3, <1>5, <1>6, <2>1, <2>2, InvTypes, Raises
<1> QED BY <1>3, <1>4, <1>5

LEMMA PreloadEchoKeeps ==
  ASSUME KernelInv, PreloadEcho
  PROVE  KernelInv'
<1> DEFINE next == IF backend = "mock" THEN "launch" ELSE "baseline"
<1>1. /\ pc = "echo" /\ Preload("data", EchoImage, next)
      /\ UNCHANGED <<idx, testVars, ctaVars, running, others, stored, aligned>>
  BY DEF PreloadEcho, runVars
<1>2. pc \in InTest \ Seeded /\ pc \in HasBs /\ pc \in HasMeta
      /\ running = 0 /\ stored = {} /\ test # 0
  BY <1>1 DEF InTest, Stages, Seeded, HasMeta, HasBs, KernelInv, FlowInv
<1>3. /\ mem' \in Memory /\ mem'.meta = mem.meta /\ mem'.bs = mem.bs
      /\ \/ pc' = next /\ UNCHANGED sweepVars /\ (aligned => Verified(mem'.data, EchoImage))
         \/ Exception
      /\ late' \in Seq(Answers) /\ Len(late') <= faults' /\ faults' \in 0..MaxFaults
      /\ late = <<>> => late' = <<>>
      /\ \A i \in DOMAIN late' : late'[i].kind = "ack"
  <2>1. EchoTop \in Nat \ {0}
    BY SweepAssumption
  <2>2. EchoImage = [a \in 0..(EchoTop - 1) |-> a]
    BY DEF EchoImage
  <2>3. DOMAIN EchoImage \subseteq DOMAIN mem.data
    <3>1. 0..(EchoTop - 1) \subseteq DataAddrs
      <4> DEFINE written == UNION {{w.addr : w \in Range(v.json.writes)} : v \in Vectors}
      <4>1. DataAddrs = written \cup 0..(EchoTop - 1)
        BY DEF DataAddrs
      <4> HIDE DEF written
      <4> QED BY <4>1
    <3>2. DOMAIN mem.data = DataAddrs
      BY InvTypes DEF Memory
    <3> QED BY <2>2, <3>1, <3>2
  <2>4. EchoImage # <<>> /\ DOMAIN EchoImage = 0..(EchoTop - 1)
        /\ \A w \in DOMAIN EchoImage : EchoImage[w] \in Nat
    <3>1. 0 \in DOMAIN EchoImage /\ 0 \notin DOMAIN <<>>
      BY <2>1, <2>2
    <3> QED BY <2>1, <2>2, <3>1
  <2> DEFINE n == EchoTop
  <2> HIDE DEF next
  <2> QED BY <1>1, <2>1, <2>3, <2>4, PreloadDoes
<1>6. ChipTypes' /\ Calmer
  <2>1. UNCHANGED <<backend, test, cta, finished, leftover>>
    BY <1>1, <1>3 DEF sweepVars, Exception, EndTest, ctaVars
  <2> QED BY <1>1, <1>3, <2>1, InvTypes, ChipTypesKept, StaysCalm
<1>4. CASE pc' = next /\ UNCHANGED sweepVars /\ (aligned => Verified(mem'.data, EchoImage))
  <2>1. pc' \in InTest /\ pc' \in Seeded /\ pc' \in {"launch", "baseline"}
        /\ (pc' = "launch" <=> backend = "mock")
    BY <1>4 DEF InTest, Stages, Seeded
  <2>2. FlowInv' /\ VerdictInv' /\ PassMeansStored'
    BY <1>1, <1>2, <1>3, <1>4, <2>1, <1>6, InvTypes, WithinTest DEF testVars
  <2>3. CtaInv' /\ OverrideInv'
    BY <1>1, <1>2, <1>4, <1>6, <2>1 DEF KernelInv, CtaInv, OverrideInv, Calmer, HasMeta, Seeded
  <2>4. idx = 1 /\ baseline = <<>> /\ actual = <<>>
    BY <1>1, <1>2 DEF KernelInv, ListInv, LengthInv
  <2>5. AnswerInv'
    BY <1>1, <1>3, <1>4, <2>1, <2>4, InvTypes DEF AnswerInv
  <2>6. ImageInv'
    BY <1>1, <1>2, <1>3, <1>4, <1>6, ImageKept DEF KernelInv, sweepVars, OwnCta
  <2>7. SlotInv'
    <3>1. aligned' => \A a \in SeededSlots : mem'.data[a] = a
      BY <1>1, <1>4 DEF Verified, EchoImage, SeededSlots
    <3>2. Touched' = {} /\ stored' = {} /\ SeededSlots' = SeededSlots
      BY <1>1, <1>2 DEF Touched, SeededSlots
    <3> QED BY <3>1, <3>2 DEF SlotInv, Undisturbed
  <2>8. ListInv'
    <3>1. Len(Expected') \in Nat
      <4>1. Expected' = Expected
        BY <1>4, SameTest DEF sweepVars
      <4> QED BY <1>2, <4>1, VectorTypes DEF KernelInv
    <3>2. baseline' = <<>> /\ actual' = <<>> /\ idx' = 1 /\ backend' = backend
      BY <1>1, <1>4, <2>4 DEF testVars, sweepVars
    <3> QED BY <2>1, <3>1, <3>2 DEF ListInv, LengthInv, ValueInv, Seeded
  <2> QED BY <2>2, <2>3, <2>5, <2>6, <2>7, <2>8 DEF KernelInv
<1>5. CASE Exception
  <2>1. UNCHANGED <<backend, sweep, test, running, idx>> /\ pc' = "next"
    BY <1>1, <1>5 DEF Exception, EndTest
  <2>2. ImageInv'
    BY <1>2, <2>1 DEF ImageInv, OwnCta, HasMeta, HasBs, Seeded
  <2> QED BY <1>1, <1>2, <1>3, <1>5, <1>6, <2>1, <2>2, InvTypes, Raises
<1> QED BY <1>3, <1>4, <1>5

-----------------------------------------------------------------------------
(* Reading the slots, and the loop over the CTAs.                          *)

(* What a read of a slot gives: its word in the memory, or an exception;   *)
(* inside a frame, any word.                                               *)
LEMMA ReadSlotDoes ==
  ASSUME KernelInv, pc \in SlotReads, NEW list \in Seq(Nat), NEW list1, NEW other,
         LET own == Answer("line", mem.data[Expected[idx].addr])
         IN  /\ idx <= Len(Expected)
             /\ late' = Left(own)
             /\ IF Fits(own)
                THEN /\ \E v \in ReadAs(own, Expected[idx].data) : list1 = Append(list, v)
                     /\ idx' = idx + 1 /\ UNCHANGED <<sweepVars, pc>>
                ELSE Exception /\ list1 = list /\ UNCHANGED idx
  PROVE  /\ idx \in 1..Len(Expected) /\ Expected[idx].addr \in DataAddrs
         /\ mem.data[Expected[idx].addr] \in Nat
         /\ late' \in Seq(Answers) /\ Len(late') <= faults /\ (late = <<>> => late' = <<>>)
         /\ \/ /\ \E v \in Nat :
                    /\ list1 = Append(list, v)
                    /\ aligned => v = mem.data[Expected[idx].addr] /\ late' = <<>>
               /\ idx' = idx + 1 /\ UNCHANGED <<sweepVars, pc>>
            \/ Exception /\ list1 = list /\ UNCHANGED idx
<1> DEFINE value == mem.data[Expected[idx].addr]
           own == Answer("line", value)
           data == Expected[idx].data
<1>1. pc \in InTest /\ pc \in Seeded
  BY DEF SlotReads, InTest, Stages, Seeded
<1>2. idx \in 1..Len(Expected) /\ Expected[idx].addr \in DataAddrs /\ test # 0 /\ data \in Nat
  <2>1. idx \in 1..Len(Expected) /\ test # 0
    BY <1>1, InvTypes, VectorTypes DEF KernelInv
  <2>2. Expected[idx] \in [addr : Nat, data : Nat, strb : Nat] /\ Expected[idx].addr \in DataAddrs
    BY <2>1, VectorTypes DEF KernelInv
  <2> QED BY <2>1, <2>2
<1>3. value \in Nat
  BY <1>2, InvTypes DEF Memory
<1>4. /\ late' = Left(own)
      /\ IF Fits(own)
         THEN /\ \E v \in ReadAs(own, data) : list1 = Append(list, v)
              /\ idx' = idx + 1 /\ UNCHANGED <<sweepVars, pc>>
         ELSE Exception /\ list1 = list /\ UNCHANGED idx
  OBVIOUS
<1> HIDE DEF value, data
<1>5. own \in Answers /\ own.kind = "line" /\ own.val = value
  BY <1>3, AnswerTypes
<1>6. aligned => \A i \in DOMAIN late : late[i].kind # "line"
  BY <1>1 DEF KernelInv, AnswerInv
<1> HIDE DEF own
<1>7. late' \in Seq(Answers) /\ Len(late') <= faults /\ (late = <<>> => late' = <<>>)
  BY <1>4, <1>5, InvTypes, LeftTypes
<1>8. Fits(own) /\ aligned => late' = <<>> /\ Taken(own) = own
  BY <1>4, <1>5, <1>6, InvTypes, OwnTaken
<1>9. ASSUME Fits(own), NEW v \in ReadAs(own, data)
      PROVE  v \in Nat /\ (aligned => v = value /\ late' = <<>>)
  BY <1>2, <1>3, <1>5, <1>8, <1>9, SweepAssumption DEF ReadAs
<1>10. \/ /\ \E v \in Nat : list1 = Append(list, v) /\ (aligned => v = value /\ late' = <<>>)
          /\ idx' = idx + 1 /\ UNCHANGED <<sweepVars, pc>>
       \/ Exception /\ list1 = list /\ UNCHANGED idx
  BY <1>4, <1>9
<1> QED BY <1>2, <1>3, <1>7, <1>10 DEF value

LEMMA ReadBaselineKeeps ==
  ASSUME KernelInv, ReadBaseline
  PROVE  KernelInv'
<1> DEFINE value == mem.data[Expected[idx].addr]
<1>1. /\ pc = "baseline" /\ ReadSlot(baseline, actual)
      /\ UNCHANGED <<csrValues, csrs, actual, verdict, ctaVars, mem, running, others, stored,
                     aligned, faults>>
  BY DEF ReadBaseline, ReadSlot, chipVars, runVars
<1>2. pc \in InTest /\ pc \in Seeded /\ pc \in HasMeta /\ pc \in HasBs /\ pc \in SlotReads
      /\ running = 0 /\ stored = {} /\ test # 0 /\ actual = <<>>
      /\ Len(baseline) = idx - 1
  BY <1>1 DEF InTest, Stages, Seeded, HasMeta, HasBs, SlotReads, KernelInv, FlowInv, ListInv,
              LengthInv
<1>3. /\ idx \in 1..Len(Expected) /\ Expected[idx].addr \in DataAddrs /\ value \in Nat
      /\ late' \in Seq(Answers) /\ Len(late') <= faults /\ (late = <<>> => late' = <<>>)
      /\ \/ /\ \E v \in Nat : /\ baseline' = Append(baseline, v)
                              /\ aligned => v = value /\ late' = <<>>
            /\ idx' = idx + 1 /\ UNCHANGED <<sweepVars, pc>>
         \/ Exception /\ baseline' = baseline /\ UNCHANGED idx
  BY <1>1, <1>2, InvTypes, ReadSlotDoes DEF ReadSlot
<1>4. ChipTypes' /\ Calmer
  <2>1. UNCHANGED <<backend, test, cta, finished, leftover>>
    BY <1>1, <1>3 DEF sweepVars, Exception, EndTest, ctaVars
  <2> QED BY <1>1, <1>3, <2>1, InvTypes, ChipTypesKept, StaysCalm
<1>5. CASE /\ \E v \in Nat : /\ baseline' = Append(baseline, v)
                             /\ aligned => v = value /\ late' = <<>>
           /\ idx' = idx + 1 /\ UNCHANGED <<sweepVars, pc>>
  <2>1. UNCHANGED <<sweep, test>> /\ Expected' = Expected
    BY <1>5, SameTest DEF sweepVars
  <2> HIDE DEF value
  <2> PICK v \in Nat : baseline' = Append(baseline, v) /\ (aligned => v = value /\ late' = <<>>)
    BY <1>5
  <2>2. /\ baseline' \in Seq(Nat) /\ Len(baseline') = idx
        /\ baseline'[idx] = v /\ \A i \in 1..(idx - 1) : baseline'[i] = baseline[i]
    BY <1>2, <1>3, InvTypes
  <2>3. FlowInv' /\ VerdictInv' /\ PassMeansStored'
    BY <1>1, <1>2, <1>3, <1>4, <1>5, <2>2, InvTypes, WithinTest
  <2>4. CtaInv' /\ OverrideInv'
    BY <1>1, <1>2, <1>4, <1>5 DEF KernelInv, CtaInv, OverrideInv, Calmer
  <2>5. AnswerInv'
    BY <1>1, <1>5 DEF AnswerInv
  <2>6. ImageInv' /\ SlotInv'
    BY <1>1, <1>2, <1>4, <1>5, <2>1, ImageKept, SlotKept DEF KernelInv, OwnCta
  <2>7. Undisturbed => v = mem.data[Expected[idx].addr]
                       /\ (Expected[idx].addr < EchoTop => v = Expected[idx].addr)
    <3>1. Expected[idx].addr \in Nat
      BY <1>2, <1>3, VectorTypes DEF KernelInv
    <3>2. Undisturbed => \A a \in SeededSlots : mem.data[a] = a
      BY <1>2 DEF KernelInv, SlotInv
    <3>3. Undisturbed => v = value
      BY DEF Undisturbed
    <3> QED BY <3>1, <3>2, <3>3, SweepAssumption DEF SeededSlots, value
  <2>8. ListInv'
    <3>1. pc' = "baseline" /\ idx' = idx + 1 /\ actual' = <<>> /\ mem' = mem
      BY <1>1, <1>2, <1>5
    <3>2. DOMAIN baseline' = 1..idx /\ DOMAIN baseline = 1..(idx - 1)
      BY <1>2, <2>2, InvTypes
    <3>3. ASSUME Undisturbed', NEW i \in DOMAIN baseline'
          PROVE  /\ mem'.data[Expected'[i].addr] = baseline'[i]
                 /\ Expected'[i].addr < EchoTop => baseline'[i] = Expected'[i].addr
      <4> Undisturbed
        BY <1>4, <3>3 DEF Calmer
      <4>1. CASE i = idx
        BY <2>1, <2>2, <2>7, <3>1, <4>1
      <4>2. CASE i # idx
        <5>1. i \in DOMAIN baseline /\ baseline'[i] = baseline[i]
          BY <2>2, <3>2, <4>2
        <5>2. /\ mem.data[Expected[i].addr] = baseline[i]
              /\ Expected[i].addr < EchoTop => baseline[i] = Expected[i].addr
          BY <1>2, <5>1 DEF KernelInv, ListInv, ValueInv
        <5> QED BY <2>1, <3>1, <5>1, <5>2
      <4> QED BY <4>1, <4>2
    <3>4. Len(baseline') = idx' - 1 /\ idx' - 1 <= Len(Expected')
      BY <1>3, <2>1, <2>2, <3>1, InvTypes
    <3> QED BY <3>1, <3>3, <3>4 DEF ListInv, LengthInv, ValueInv, Seeded
  <2> QED BY <2>3, <2>4, <2>5, <2>6, <2>8 DEF KernelInv
<1>6. CASE Exception /\ baseline' = baseline /\ UNCHANGED idx
  <2>1. UNCHANGED <<backend, sweep, test, running, idx, mem, faults, testVars>> /\ pc' = "next"
    BY <1>1, <1>6 DEF Exception, EndTest, testVars
  <2>2. ImageInv'
    BY <1>2, <1>4, <2>1, ImageKept DEF KernelInv, OwnCta, Calmer
  <2> QED BY <1>2, <1>3, <1>4, <1>6, <2>1, <2>2, InvTypes, Raises
<1> QED BY <1>3, <1>5, <1>6

LEMMA BaselineDoneKeeps ==
  ASSUME KernelInv, BaselineDone
  PROVE  KernelInv'
<1>1. /\ pc = "baseline" /\ idx > Len(Expected) /\ pc' = "launch" /\ idx' = 1
      /\ UNCHANGED <<sweepVars, testVars, ctaVars, mem, running, others, stored, late, aligned,
                     faults>>
  BY DEF BaselineDone, chipVars, runVars, sockVars
<1>2. /\ pc \in InTest /\ pc \in Seeded /\ pc \in HasMeta /\ pc \in HasBs /\ pc' \in InTest
      /\ running = 0 /\ test # 0
  BY <1>1 DEF InTest, Stages, Seeded, HasMeta, HasBs, KernelInv, FlowInv
<1>3. UNCHANGED <<sweep, test, backend, baseline, actual, cta, finished, leftover>>
      /\ Expected' = Expected
  BY <1>1, SameTest DEF sweepVars, testVars, ctaVars
<1>4. ChipTypes' /\ Calmer
  BY <1>1, <1>3, InvTypes, ChipTypesKept, StaysCalm
<1>5. FlowInv' /\ VerdictInv' /\ PassMeansStored'
  BY <1>1, <1>2, <1>3, <1>4, InvTypes, WithinTest DEF testVars
<1>6. CtaInv' /\ OverrideInv'
  BY <1>1, <1>2, <1>4 DEF KernelInv, CtaInv, OverrideInv, Calmer
<1>7. AnswerInv'
  BY <1>1, <1>2, <1>3 DEF KernelInv, AnswerInv
<1>8. ImageInv' /\ SlotInv'
  BY <1>1, <1>2, <1>3, <1>4, ImageKept, SlotKept DEF KernelInv, OwnCta
<1>9. ListInv'
  <2>1. Len(Expected) \in Nat /\ Len(baseline) = idx - 1 /\ idx - 1 <= Len(Expected)
    BY <1>1, <1>2, VectorTypes DEF KernelInv, ListInv, LengthInv
  <2>2. Len(baseline) = Len(Expected)
    BY <1>1, <2>1, InvTypes
  <2> QED BY <1>1, <1>2, <1>3, <1>4, <2>2
          DEF KernelInv, ListInv, LengthInv, ValueInv, Calmer, Seeded
<1> QED BY <1>5, <1>6, <1>7, <1>8, <1>9 DEF KernelInv

(* What the chip makes of a START, or of a launch without one.             *)
LEMMA StartsTypes ==
  ASSUME KernelInv, test # 0, cta' = cta + 1, finished' = finished, UNCHANGED <<backend, test>>,
         aligned' \in BOOLEAN, backend # "cosim" => late' = <<>> /\ aligned',
         Starts \/ (running' = 0 /\ others' = AllRunning)
  PROVE  /\ ChipTypes' /\ running' \in {0, test}
         /\ others = {} /\ running = 0 => others' = {}
<1>1. /\ AllRunning \subseteq [cta : 1..cta, test : 1..test]
      /\ AllRunning = {} <=> others = {} /\ running = 0
  BY InvTypes, AllRunningTypes
<1>2. others' \subseteq AllRunning /\ running' \in {0, test}
  BY DEF Starts
<1>3. others' \subseteq [cta : 1..cta', test : 1..test']
  <2>1. cta \in Nat /\ cta' \in Nat /\ cta <= cta' /\ test \in Nat /\ test' \in Nat /\ test <= test'
    BY InvTypes
  <2>2. others' \subseteq [cta : 1..cta, test : 1..test]
    BY <1>1, <1>2
  <2> DEFINE c1 == cta'  t1 == test'  S == others'
  <2> HIDE DEF c1, t1, S
  <2>3. S \subseteq [cta : 1..c1, test : 1..t1]
    BY <2>1, <2>2, LaterCtas DEF c1, t1, S
  <2> QED BY <2>3 DEF c1, t1, S
<1>4. /\ running' \in 0..test' /\ cta' \in Nat /\ cta' > 0 /\ finished' \subseteq 0..cta'
      /\ aligned' \in BOOLEAN
  <2>1. cta \in Nat /\ test \in Nat /\ finished \subseteq 0..cta /\ 0..cta \subseteq 0..(cta + 1)
    BY InvTypes
  <2> QED BY <1>2, <2>1
<1> QED BY <1>1, <1>2, <1>3, <1>4 DEF ChipTypes

LEMMA LaunchKeeps ==
  ASSUME KernelInv, Launch
  PROVE  KernelInv'
<1>1. /\ pc = "launch" /\ pc' = "wait"
      /\ csrs' = EffectiveCsrs(csrValues, PerCtaOverrides(Vector.json), idx - 1)
      /\ cta' = cta + 1 /\ finished' = finished /\ outcome' = "pending" /\ leftover' = leftover
      /\ Starts /\ late' = LeftByWrites
      /\ UNCHANGED <<sweepVars, idx, csrValues, baseline, actual, verdict, mem, stored, aligned,
                     faults>>
  BY DEF Launch, Cta!LaunchCta
<1>2. /\ pc \in InTest /\ pc \in Seeded /\ pc \in HasMeta /\ pc \in HasBs
      /\ pc' \in InTest /\ pc' \in Seeded /\ test # 0 /\ test \in 0..test
  BY <1>1, InvTypes DEF InTest, Stages, Seeded, HasMeta, HasBs
<1>3. UNCHANGED <<sweep, test, backend>> /\ Expected' = Expected /\ Vector' = Vector
  BY <1>1, SameTest DEF sweepVars
<1>4. /\ late' \in Seq(Answers) /\ Len(late') <= faults /\ (late = <<>> => late' = <<>>)
      /\ \A i \in DOMAIN late' : late'[i].kind = "ack"
  BY <1>1, InvTypes, LeftByWritesTypes
<1>5. /\ ChipTypes' /\ running' \in {0, test} /\ Calmer
      /\ others = {} /\ running = 0 => others' = {}
  BY <1>1, <1>2, <1>3, <1>4, InvTypes, StartsTypes, StaysCalm
<1>6. FlowInv' /\ VerdictInv' /\ PassMeansStored'
  <2>1. /\ mem' \in Memory /\ idx' \in Nat \ {0} /\ baseline' \in Seq(Nat) /\ actual' \in Seq(Nat)
        /\ Len(late') <= faults' /\ faults' \in 0..MaxFaults
    BY <1>1, <1>4, InvTypes
  <2> QED BY <1>1, <1>2, <1>3, <1>4, <1>5, <2>1, WithinTest
<1>7. CtaInv'
  <2>1. cta' \notin finished'
    BY <1>1, InvTypes
  <2>2. Undisturbed' => others' = {}
    BY <1>1, <1>2, <1>5 DEF Calmer, KernelInv, CtaInv
  <2> QED BY <1>1, <2>1, <2>2 DEF CtaInv
<1>8. OverrideInv'
  BY <1>1, <1>2, <1>3 DEF KernelInv, FlowInv, OverrideInv
<1>9. AnswerInv'
  BY <1>1, <1>4 DEF AnswerInv
<1>10. ImageInv' /\ SlotInv'
  BY <1>1, <1>2, <1>3, <1>5, ImageKept, SlotKept DEF KernelInv
<1>11. ListInv'
  BY <1>1, <1>2, <1>3, <1>5 DEF KernelInv, ListInv, LengthInv, ValueInv, Calmer, Seeded
<1> QED BY <1>6, <1>7, <1>8, <1>9, <1>10, <1>11 DEF KernelInv

LEMMA WaitKeeps ==
  ASSUME KernelInv, Wait
  PROVE  KernelInv'
<1> DEFINE own == Answer("rd32", 0)
<1>1. /\ pc = "wait" /\ late' = Left(own)
      /\ UNCHANGED <<testVars, mem, running, others, stored, aligned, faults>>
      /\ \/ Fits(own) /\ WaitReturns
         \/ backend # "mock" /\ Cta!GiveUp /\ pc' = "hang" /\ UNCHANGED <<idx, sweepVars>>
         \/ Cta!GiveUp /\ Exception /\ UNCHANGED idx
  BY DEF Wait, chipVars, runVars
<1>2. own \in Answers /\ own.kind = "rd32"
  BY AnswerTypes
<1> HIDE DEF own
<1>3. /\ pc \in InTest /\ pc \in Seeded /\ pc \in HasMeta /\ pc \in HasBs /\ test # 0
      /\ running \in {0, test} /\ (aligned => \A i \in DOMAIN late : late[i].kind = "ack")
  BY <1>1 DEF InTest, Stages, Seeded, HasMeta, HasBs, KernelInv, FlowInv, AnswerInv
<1>4. /\ late' \in Seq(Answers) /\ Len(late') <= faults /\ (late = <<>> => late' = <<>>)
      /\ aligned => \A i \in DOMAIN late' : late'[i].kind # "line"
  BY <1>1, <1>2, <1>3, InvTypes, LeftTypes, LeftKinds
<1>5. Fits(own) /\ aligned => late' = <<>>
  BY <1>1, <1>2, <1>3, InvTypes, OwnTaken
<1>6. UNCHANGED <<mem, stored, running, others, baseline, actual, csrValues, verdict>>
  BY <1>1 DEF testVars
<1>7. cta' = cta /\ finished' = finished /\ leftover' = leftover
  BY <1>1 DEF WaitReturns, Cta!ReportDone, Cta!GiveUp
<1>8. ChipTypes' /\ Calmer
  <2>1. UNCHANGED <<backend, test>>
    BY <1>1 DEF sweepVars, WaitReturns, Exception, EndTest
  <2> QED BY <1>1, <1>4, <1>7, <2>1, InvTypes, ChipTypesKept, StaysCalm
<1>9. CASE /\ UNCHANGED sweepVars /\ pc' \in {"launch", "hang"} /\ idx' \in {idx, idx + 1}
           /\ pc' = "launch" => (Undisturbed => running = 0) /\ (aligned => late' = <<>>)
           /\ pc' = "hang" => outcome' = "failed" /\ backend # "mock"
  <2>1. /\ UNCHANGED <<sweep, test, backend>> /\ Expected' = Expected
        /\ pc' \in InTest /\ pc' \in Seeded /\ idx' \in Nat \ {0}
    BY <1>9, InvTypes, SameTest DEF sweepVars, InTest, Stages, Seeded
  <2>2. FlowInv' /\ VerdictInv' /\ PassMeansStored'
    BY <1>3, <1>4, <1>6, <1>1, <1>8, <1>9, <2>1, InvTypes, WithinTest
  <2>3. CtaInv' /\ OverrideInv'
    BY <1>3, <1>6, <1>8, <1>9 DEF KernelInv, CtaInv, OverrideInv, Calmer
  <2>4. AnswerInv'
    BY <1>1, <1>4, <1>9 DEF AnswerInv
  <2>5. ImageInv' /\ SlotInv'
    BY <1>1, <1>3, <1>6, <1>8, <2>1, ImageKept, SlotKept DEF KernelInv
  <2>6. ListInv'
    BY <1>1, <1>3, <1>6, <1>8, <1>9, <2>1
       DEF KernelInv, ListInv, LengthInv, ValueInv, Calmer, Seeded
  <2> QED BY <2>2, <2>3, <2>4, <2>5, <2>6 DEF KernelInv
<1>10. CASE Exception /\ UNCHANGED idx
  <2>1. UNCHANGED <<backend, sweep, test>> /\ pc' = "next"
    BY <1>10 DEF Exception, EndTest
  <2>2. ImageInv'
    BY <1>1, <1>3, <1>6, <2>1, ImageKept DEF KernelInv, OwnCta
  <2> QED BY <1>1, <1>3, <1>4, <1>6, <1>8, <1>10, <2>1, <2>2, InvTypes, Raises
<1>11. WaitReturns => /\ Undisturbed => running = 0
                      /\ pc' = "launch" /\ idx' = idx + 1 /\ UNCHANGED sweepVars
  BY <1>1 DEF WaitReturns, KernelInv, CtaInv, Cta!ReportDone, Undisturbed
<1>12. Cta!GiveUp => outcome' = "failed"
  BY DEF Cta!GiveUp
<1> QED BY <1>1, <1>5, <1>9, <1>10, <1>11, <1>12

LEMMA CtasDoneKeeps ==
  ASSUME KernelInv, CtasDone
  PROVE  KernelInv'
<1>1. /\ pc = "launch" /\ idx > NumCtas(Vector.grid)
      /\ \/ backend = "mock" /\ EndTest(TRUE) /\ UNCHANGED idx
         \/ backend # "mock" /\ pc' = "readBack" /\ idx' = 1 /\ UNCHANGED sweepVars
      /\ UNCHANGED <<testVars, ctaVars, mem, running, others, stored, late, aligned, faults>>
  BY DEF CtasDone, chipVars, runVars, sockVars
<1>2. /\ pc \in InTest /\ pc \in Seeded /\ pc \in HasMeta /\ pc \in HasBs /\ test # 0
      /\ running \in {0, test} /\ (Undisturbed => running = 0)
  BY <1>1 DEF InTest, Stages, Seeded, HasMeta, HasBs, KernelInv, FlowInv, CtaInv
<1>3. UNCHANGED <<baseline, actual, csrValues, verdict, cta, finished, leftover>>
  BY <1>1 DEF testVars, ctaVars
<1>6. ChipTypes' /\ Calmer
  <2>1. UNCHANGED <<backend, test>>
    BY <1>1 DEF sweepVars, EndTest
  <2> QED BY <1>1, <1>3, <2>1, InvTypes, ChipTypesKept, StaysCalm
<1>4. CASE backend = "mock" /\ EndTest(TRUE) /\ UNCHANGED idx
  <2>1. UNCHANGED <<backend, sweep, test>> /\ pc' = "next"
    BY <1>4 DEF EndTest
  <2>2. ImageInv'
    BY <1>1, <1>2, <2>1, ImageKept DEF KernelInv, OwnCta
  <2>3. VerdictInv'
    BY <1>2, <1>3, NoVerdictYet DEF KernelInv, FlowInv
  <2> QED BY <1>1, <1>2, <1>3, <1>4, <1>6, <2>2, <2>3, InvTypes, EndsTest
<1>5. CASE backend # "mock" /\ pc' = "readBack" /\ idx' = 1 /\ UNCHANGED sweepVars
  <2>1. UNCHANGED <<sweep, test, backend>> /\ Expected' = Expected
        /\ pc' \in InTest /\ pc' \in Seeded
    BY <1>5, SameTest DEF sweepVars, InTest, Stages, Seeded
  <2>2. FlowInv' /\ VerdictInv' /\ PassMeansStored'
    BY <1>1, <1>2, <1>3, <1>5, <1>6, InvTypes, <2>1, WithinTest
  <2>3. CtaInv' /\ OverrideInv'
    BY <1>1, <1>2, <1>5, <1>6 DEF KernelInv, CtaInv, OverrideInv, Calmer
  <2>4. AnswerInv'
    <3>1. aligned /\ SomethingToDo => late = <<>>
      <4>1. SomethingToDo => NumCtas(Vector.grid) >= 1
        BY <1>2, VectorTypes DEF KernelInv, SomethingToDo
      <4>2. NumCtas(Vector.grid) \in Nat
        <5>1. Vector.grid \in [1..3 -> Nat]
          BY <1>2, VectorTypes, VectorAssumption DEF KernelInv
        <5>2. Vector.grid[1] \in Nat /\ Vector.grid[2] \in Nat /\ Vector.grid[3] \in Nat
          BY <5>1
        <5>3. \A x, y, z \in Nat : x * y * z \in Nat
          OBVIOUS
        <5> QED BY <5>2, <5>3 DEF NumCtas
      <4>3. SomethingToDo => idx > 1
        BY <1>1, <4>1, <4>2, InvTypes
      <4> QED BY <1>1, <4>3 DEF KernelInv, AnswerInv
    <3>2. late' = late
      BY <1>1
    <3>3. SomethingToDo' <=> SomethingToDo
      BY DEF SomethingToDo
    <3> QED BY <1>1, <1>2, <1>5, <2>1, <3>1, <3>2, <3>3 DEF KernelInv, AnswerInv
  <2>5. ImageInv' /\ SlotInv'
    BY <1>1, <1>2, <1>6, <2>1, ImageKept, SlotKept DEF KernelInv, OwnCta
  <2>6. ListInv'
    <3>1. Len(actual') = 0 /\ Len(Expected) \in Nat /\ DOMAIN actual' = {}
      BY <1>1, <1>2, <1>3, VectorTypes DEF KernelInv, ListInv, LengthInv
    <3> QED BY <1>1, <1>2, <1>3, <1>5, <1>6, <2>1, <3>1
           DEF KernelInv, ListInv, LengthInv, ValueInv, Calmer, Seeded
  <2> QED BY <2>2, <2>3, <2>4, <2>5, <2>6 DEF KernelInv
<1> QED BY <1>1, <1>4, <1>5

LEMMA DumpHangStateKeeps ==
  ASSUME KernelInv, DumpHangState
  PROVE  KernelInv'
<1> DEFINE misfits == {i \in 1..4 : aligned /\ i <= Len(late) /\ late[i].kind # "rd32"}
           made == IF misfits = {} THEN 4 ELSE Min(misfits)
           reads == [i \in 1..made |-> Answer("rd32", 0)]
           queue == late \o reads
<1>1. /\ pc = "hang" /\ late' = SubSeq(queue, made + 1, Len(queue))
      /\ \/ pc' = "hangReadBack" /\ idx' = 1 /\ UNCHANGED sweepVars
         \/ Exception /\ UNCHANGED idx
      /\ UNCHANGED <<testVars, ctaVars, mem, running, others, stored, aligned, faults>>
  BY DEF DumpHangState, chipVars, runVars
<1>2. /\ pc \in InTest /\ pc \in Seeded /\ pc \in HasMeta /\ pc \in HasBs /\ test # 0
      /\ running \in {0, test} /\ backend # "mock" /\ outcome = "failed"
  BY <1>1 DEF InTest, Stages, Seeded, HasMeta, HasBs, KernelInv, FlowInv, ListInv, LengthInv, CtaInv
<1>3. UNCHANGED <<baseline, actual, csrValues, verdict, cta, finished, leftover, outcome>>
  BY <1>1 DEF testVars, ctaVars
<1>4. /\ late' \in Seq(Answers) /\ Len(late') <= faults /\ (late = <<>> => late' = <<>>)
      /\ aligned => \A i \in DOMAIN late' : late'[i].kind # "line"
  <2>1. made \in 1..4
    <3>1. misfits \subseteq 1..4 /\ 4 \in Nat
      OBVIOUS
    <3> HIDE DEF misfits
    <3>2. misfits # {} => Min(misfits) \in misfits
      BY <3>1, FirstIndex
    <3>3. misfits # {} => Min(misfits) \in 1..4
      BY <3>1, <3>2
    <3>4. 4 \in 1..4
      OBVIOUS
    <3> QED BY <3>3, <3>4, Zenon
  <2> HIDE DEF made
  <2>2. /\ reads \in Seq(Answers) /\ Len(reads) = made
        /\ \A i \in 1..made : reads[i].kind = "rd32"
    BY <2>1, AnswerTypes
  <2> HIDE DEF reads
  <2>3. /\ queue \in Seq(Answers) /\ Len(queue) = Len(late) + made
        /\ \A i \in 1..Len(queue) :
             queue[i] = IF i <= Len(late) THEN late[i] ELSE reads[i - Len(late)]
    <3>1. /\ queue \in Seq(Answers) /\ Len(queue) = Len(late) + Len(reads)
          /\ \A i \in 1..(Len(late) + Len(reads)) :
               queue[i] = IF i <= Len(late) THEN late[i] ELSE reads[i - Len(late)]
      <4>1. late \in Seq(Answers)
        BY InvTypes
      <4> QED BY <2>2, <4>1, ConcatProperties, Zenon
    <3> HIDE DEF queue
    <3> QED BY <2>2, <3>1
  <2> HIDE DEF queue
  <2>4. /\ late' \in Seq(Answers) /\ Len(late') = Len(late)
        /\ \A i \in 1..Len(late') : late'[i] = queue[i + made]
    BY <1>1, <2>1, <2>3, InvTypes
  <2>5. late = <<>> => late' = <<>>
    <3>1. late = <<>> => Len(late') = 0
      BY <2>4
    <3> QED BY <2>4, <3>1, EmptySeq
  <2>6. ASSUME aligned, NEW i \in DOMAIN late' PROVE late'[i].kind # "line"
    <3>1. i \in 1..Len(late') /\ i + made \in 1..Len(queue) /\ late'[i] = queue[i + made]
      <4>1. i \in 1..Len(late')
        BY <2>4
      <4> QED BY <2>1, <2>3, <2>4, <4>1, InvTypes
    <3>2. CASE i + made <= Len(late)
      <4>1. i + made \in DOMAIN late
        BY <2>1, <3>1, <3>2, InvTypes
      <4>2. late[i + made].kind # "line"
        BY <1>2, <2>6, <4>1 DEF KernelInv, AnswerInv
      <4> QED BY <2>3, <3>1, <3>2, <4>2
    <3>3. CASE ~(i + made <= Len(late))
      <4>1. i + made - Len(late) \in 1..made
        <5>1. i \in Nat /\ i <= Len(late) /\ i >= 1 /\ Len(late) \in Nat
          BY <2>4, <3>1, InvTypes
        <5> QED BY <2>1, <3>3, <5>1
      <4> QED BY <2>1, <2>2, <2>3, <3>1, <3>3, <4>1
    <3> QED BY <3>2, <3>3
  <2> QED BY <2>4, <2>5, <2>6, InvTypes
<1> HIDE DEF queue, reads, made, misfits
<1>5. ChipTypes' /\ Calmer
  <2>1. UNCHANGED <<backend, test>>
    BY <1>1 DEF sweepVars, Exception, EndTest
  <2> QED BY <1>1, <1>3, <1>4, <2>1, InvTypes, ChipTypesKept, StaysCalm
<1>6. CASE pc' = "hangReadBack" /\ idx' = 1 /\ UNCHANGED sweepVars
  <2>1. UNCHANGED <<sweep, test, backend>> /\ Expected' = Expected
        /\ pc' \in InTest /\ pc' \in Seeded
    BY <1>6, SameTest DEF sweepVars, InTest, Stages, Seeded
  <2>2. FlowInv' /\ VerdictInv' /\ PassMeansStored'
    BY <1>1, <1>2, <1>3, <1>4, <1>5, <1>6, InvTypes, <2>1, WithinTest
  <2>3. CtaInv' /\ OverrideInv'
    BY <1>1, <1>2, <1>3, <1>5, <1>6 DEF KernelInv, CtaInv, OverrideInv, Calmer
  <2>4. AnswerInv'
    BY <1>1, <1>4, <1>6 DEF AnswerInv
  <2>5. ImageInv' /\ SlotInv'
    BY <1>1, <1>2, <1>5, <2>1, ImageKept, SlotKept DEF KernelInv, OwnCta
  <2>6. ListInv'
    <3>1. Len(actual') = 0 /\ Len(Expected) \in Nat /\ DOMAIN actual' = {}
      BY <1>1, <1>2, <1>3, VectorTypes DEF KernelInv, ListInv, LengthInv
    <3> QED BY <1>1, <1>2, <1>3, <1>5, <1>6, <2>1, <3>1
            DEF KernelInv, ListInv, LengthInv, ValueInv, Calmer, Seeded
  <2> QED BY <2>2, <2>3, <2>4, <2>5, <2>6 DEF KernelInv
<1>7. CASE Exception /\ UNCHANGED idx
  <2>1. UNCHANGED <<backend, sweep, test>> /\ pc' = "next"
    BY <1>7 DEF Exception, EndTest
  <2>2. ImageInv'
    BY <1>1, <1>2, <2>1, ImageKept DEF KernelInv, OwnCta
  <2> QED BY <1>1, <1>2, <1>3, <1>4, <1>5, <1>7, <2>1, <2>2, InvTypes, Raises
<1> QED BY <1>1, <1>6, <1>7

LEMMA ReadBackKeeps ==
  ASSUME KernelInv, ReadBack
  PROVE  KernelInv'
<1> DEFINE value == mem.data[Expected[idx].addr]
<1>1. /\ pc \in {"readBack", "hangReadBack"} /\ ReadSlot(actual, baseline)
      /\ UNCHANGED <<csrValues, csrs, baseline, verdict, ctaVars, mem, running, others, stored,
                     aligned, faults>>
  BY DEF ReadBack, ReadSlot, chipVars, runVars
<1>2. pc \in InTest /\ pc \in Seeded /\ pc \in HasMeta /\ pc \in HasBs /\ pc \in SlotReads
      /\ running \in {0, test} /\ test # 0 /\ backend # "mock"
      /\ Len(baseline) = Len(Expected) /\ Len(actual) = idx - 1
  BY <1>1 DEF InTest, Stages, Seeded, HasMeta, HasBs, SlotReads, KernelInv, FlowInv, ListInv,
              LengthInv
<1>3. /\ idx \in 1..Len(Expected) /\ Expected[idx].addr \in DataAddrs /\ value \in Nat
      /\ late' \in Seq(Answers) /\ Len(late') <= faults /\ (late = <<>> => late' = <<>>)
      /\ \/ /\ \E v \in Nat : /\ actual' = Append(actual, v)
                              /\ aligned => v = value /\ late' = <<>>
            /\ idx' = idx + 1 /\ UNCHANGED <<sweepVars, pc>>
         \/ Exception /\ actual' = actual /\ UNCHANGED idx
  BY <1>1, <1>2, InvTypes, ReadSlotDoes DEF ReadSlot
<1>4. ChipTypes' /\ Calmer
  <2>1. UNCHANGED <<backend, test, cta, finished, leftover>>
    BY <1>1, <1>3 DEF sweepVars, Exception, EndTest, ctaVars
  <2> QED BY <1>1, <1>3, <2>1, InvTypes, ChipTypesKept, StaysCalm
<1>5. CASE /\ \E v \in Nat : /\ actual' = Append(actual, v)
                             /\ aligned => v = value /\ late' = <<>>
           /\ idx' = idx + 1 /\ UNCHANGED <<sweepVars, pc>>
  <2>1. UNCHANGED <<sweep, test, backend>> /\ Expected' = Expected
    BY <1>5, SameTest DEF sweepVars
  <2> HIDE DEF value
  <2> PICK v \in Nat : actual' = Append(actual, v) /\ (aligned => v = value /\ late' = <<>>)
    BY <1>5
  <2>2. /\ actual' \in Seq(Nat) /\ Len(actual') = idx
        /\ actual'[idx] = v /\ \A i \in 1..(idx - 1) : actual'[i] = actual[i]
    BY <1>2, <1>3, InvTypes
  <2>3. FlowInv' /\ VerdictInv' /\ PassMeansStored'
    BY <1>1, <1>2, <1>3, <1>4, <1>5, <2>1, <2>2, InvTypes, WithinTest
  <2>4. CtaInv' /\ OverrideInv'
    BY <1>1, <1>2, <1>4, <1>5 DEF KernelInv, CtaInv, OverrideInv, Calmer, ctaVars
  <2>5. AnswerInv'
    BY <1>1, <1>5 DEF AnswerInv
  <2>6. ImageInv' /\ SlotInv'
    BY <1>1, <1>2, <1>4, <1>5, <2>1, ImageKept, SlotKept DEF KernelInv, OwnCta
  <2>7. Undisturbed => v = value /\ (v = baseline[idx] \/ <<Expected[idx].addr, v>> \in stored)
    <3>1. idx \in DOMAIN baseline
      BY <1>2, <1>3, InvTypes
    <3>2. Undisturbed => v = value
      BY DEF Undisturbed
    <3> QED BY <1>2, <3>1, <3>2 DEF KernelInv, ListInv, ValueInv, value
  <2>8. ListInv'
    <3>1. pc' = pc /\ idx' = idx + 1 /\ UNCHANGED <<baseline, mem, stored>>
      BY <1>1, <1>5
    <3>2. DOMAIN actual' = 1..idx /\ DOMAIN actual = 1..(idx - 1)
      BY <1>2, <2>2, InvTypes
    <3>3. ASSUME Undisturbed', NEW i \in DOMAIN actual'
          PROVE  /\ \/ actual'[i] = baseline'[i]
                    \/ <<Expected'[i].addr, actual'[i]>> \in stored'
                 /\ pc = "readBack" => actual'[i] = mem'.data[Expected'[i].addr]
      <4> Undisturbed
        BY <1>4, <3>3 DEF Calmer
      <4>1. CASE i = idx
        BY <2>1, <2>2, <2>7, <3>1, <4>1 DEF value
      <4>2. CASE i # idx
        <5>1. i \in DOMAIN actual /\ actual'[i] = actual[i]
          BY <2>2, <3>2, <4>2
        <5>2. /\ \/ actual[i] = baseline[i]
                 \/ <<Expected[i].addr, actual[i]>> \in stored
              /\ pc = "readBack" => actual[i] = mem.data[Expected[i].addr]
          BY <1>1, <5>1 DEF KernelInv, ListInv, ValueInv
        <5> QED BY <2>1, <3>1, <5>1, <5>2
      <4> QED BY <4>1, <4>2
    <3>4. Len(actual') = idx' - 1 /\ idx' - 1 <= Len(Expected')
      BY <1>3, <2>1, <2>2, <3>1, InvTypes
    <3> QED BY <1>1, <1>2, <1>4, <2>1, <3>1, <3>3, <3>4
            DEF KernelInv, ListInv, LengthInv, ValueInv, Calmer, Seeded
  <2> QED BY <2>3, <2>4, <2>5, <2>6, <2>8 DEF KernelInv
<1>6. CASE Exception /\ actual' = actual /\ UNCHANGED idx
  <2>1. UNCHANGED <<backend, sweep, test, running, idx, mem, faults, testVars>> /\ pc' = "next"
    BY <1>1, <1>6 DEF Exception, EndTest, testVars
  <2>2. ImageInv'
    BY <1>2, <1>4, <2>1, ImageKept DEF KernelInv, OwnCta, Calmer
  <2> QED BY <1>2, <1>3, <1>4, <1>6, <2>1, <2>2, InvTypes, Raises
<1> QED BY <1>3, <1>5, <1>6

-----------------------------------------------------------------------------
(* The verdict.                                                            *)

(* The last value of an address is that of one index in both lists.        *)
LEMMA LastAtIndex ==
  ASSUME FlowInv, test # 0, NEW e \in Range(Expected)
  PROVE  \E m \in 1..Len(Expected) :
           /\ Expected[m].addr = e.addr
           /\ LastAt(actual, e.addr) = actual[m] /\ LastAt(baseline, e.addr) = baseline[m]
<1> DEFINE at == {i \in DOMAIN Expected : Expected[i].addr = e.addr}
           m == Max(at)
<1>1. at \subseteq 1..Len(Expected) /\ at # {} /\ Len(Expected) \in Nat
  BY VectorTypes
<1>2. m \in at
  <2> HIDE DEF at
  <2> QED BY <1>1, LastIndex
<1>3. LastAt(actual, e.addr) = actual[m] /\ LastAt(baseline, e.addr) = baseline[m]
  BY DEF LastAt
<1> HIDE DEF m
<1> QED BY <1>1, <1>2, <1>3

(* What has been read back when the verdict is given.                      *)
ReadAll ==
  /\ pc \in {"readBack", "hangReadBack"} /\ test # 0
  /\ DOMAIN actual = 1..Len(Expected) /\ DOMAIN baseline = 1..Len(Expected)

LEMMA WrongIsTouched ==
  ASSUME KernelInv, ReadAll, Undisturbed, NEW e \in Range(Expected), ~Unchanged(e)
  PROVE  e.addr \in Touched
<1>1. PICK m \in 1..Len(Expected) :
           /\ Expected[m].addr = e.addr
           /\ LastAt(actual, e.addr) = actual[m] /\ LastAt(baseline, e.addr) = baseline[m]
  BY LastAtIndex DEF KernelInv, ReadAll
<1>2. actual[m] # baseline[m]
  BY <1>1 DEF Unchanged
<1>3. <<Expected[m].addr, actual[m]>> \in stored
  BY <1>1, <1>2 DEF KernelInv, ListInv, ValueInv, ReadAll
<1>4. <<e.addr, actual[m]>> \in stored /\ <<e.addr, actual[m]>>[1] = e.addr
  BY <1>1, <1>3
<1> QED BY <1>4 DEF Touched

LEMMA MissingIsUntouched ==
  ASSUME KernelInv, ReadAll, EchoTells, Undisturbed, pc = "readBack",
         NEW e \in Incorrect, Unchanged(e), e.addr \in SeededSlots
  PROVE  e.addr \notin Touched
<1> SUFFICES ASSUME e.addr \in Touched PROVE FALSE
  OBVIOUS
<1>1. e \in Range(Expected) /\ LastAt(actual, e.addr) # e.data
  BY DEF Incorrect
<1>2. PICK m \in 1..Len(Expected) :
           /\ Expected[m].addr = e.addr
           /\ LastAt(actual, e.addr) = actual[m] /\ LastAt(baseline, e.addr) = baseline[m]
  BY <1>1, LastAtIndex DEF KernelInv, ReadAll
<1>3. e.addr < EchoTop /\ e.addr \in Nat
  BY SweepAssumption DEF SeededSlots
<1>4. pc \in Seeded
  BY DEF Seeded
<1>5. baseline[m] = e.addr
  BY <1>2, <1>3, <1>4 DEF KernelInv, ListInv, ValueInv, ReadAll
<1>6. actual[m] = e.addr /\ e.data # e.addr
  BY <1>1, <1>2, <1>5 DEF Unchanged
<1>7. mem.data[e.addr] = e.addr
  BY <1>2, <1>6 DEF KernelInv, ListInv, ValueInv, ReadAll
<1>8. <<e.addr, e.addr>> \in stored
  BY <1>4, <1>7 DEF KernelInv, SlotInv
<1>9. PICK f \in Range(Expected) : e.addr = f.addr /\ e.addr \in {f.data, WrongData}
  <2> DEFINE s == <<e.addr, e.addr>>
  <2>1. \E f \in Range(Expected) : s[1] = f.addr /\ s[2] \in {f.data, WrongData}
    BY <1>4, <1>8 DEF KernelInv, SlotInv
  <2> QED BY <2>1
<1>10. f.data = f.addr /\ f.addr < EchoTop /\ f.addr = e.addr
  BY <1>3, <1>9 DEF EchoTells, SeededSlots
<1>11. Vector \in Vectors
  BY VectorTypes DEF KernelInv, ReadAll
<1>12. e.data = e.addr
  BY <1>1, <1>9, <1>10, <1>11 DEF EchoTells, Expected
<1> QED BY <1>6, <1>12

(* Every expected write that check matches with what was read back is      *)
(* among the stores, if the echo could not have looked like it.            *)
LEMMA MatchedLanded ==
  ASSUME KernelInv, ReadAll, Undisturbed, Check(ActualWrites, Expected).ok
  PROVE  HasLanded
<1>1. Len(Expected) \in Nat /\ DOMAIN Expected = 1..Len(Expected)
      /\ Range(Expected) = {Expected[i] : i \in 1..Len(Expected)}
      /\ \A i \in 1..Len(Expected) : Expected[i] \in [addr : Nat, data : Nat, strb : Nat]
  BY VectorTypes DEF KernelInv, ReadAll
<1>2. DOMAIN ActualWrites = 1..Len(Expected)
      /\ \A i \in 1..Len(Expected) : /\ ActualWrites[i].addr = Expected[i].addr
                                     /\ ActualWrites[i].data = actual[i]
  BY <1>1 DEF ActualWrites
<1>3. \A j \in 1..Len(Expected) : \E i \in 1..Len(Expected) : ActualWrites[i] = Expected[j]
  <2> DEFINE A == ActualWrites
             E == Expected
             m == Len(Expected)
  <2>1. m \in Nat /\ DOMAIN A = 1..m /\ DOMAIN E = 1..m /\ Check(A, E).ok
    BY <1>1, <1>2
  <2> HIDE DEF A, E, m
  <2>2. Check(A, E).matched = 1..m /\ \A j \in Check(A, E).matched : \E i \in 1..m : A[i] = E[j]
    BY <2>1, MatchedAreActual
  <2>3. \A j \in 1..m : \E i \in 1..m : A[i] = E[j]
    BY <2>2
  <2> QED BY <2>3 DEF A, E, m
<1> SUFFICES ASSUME NEW e \in Range(Expected), e.addr < EchoTop, e.data # e.addr
             PROVE  <<e.addr, e.data>> \in stored
  BY DEF HasLanded
<1>4. PICK i \in 1..Len(Expected) : ActualWrites[i] = e
  <2>1. PICK j \in 1..Len(Expected) : e = Expected[j]
    BY <1>1
  <2> QED BY <1>3, <2>1
<1>5. Expected[i].addr = e.addr /\ actual[i] = e.data
  BY <1>2, <1>4
<1>6. pc \in Seeded
  BY DEF Seeded, ReadAll
<1>7. baseline[i] = e.addr
  BY <1>5, <1>6 DEF KernelInv, ListInv, ValueInv, ReadAll
<1>8. <<Expected[i].addr, actual[i]>> \in stored
  BY <1>5, <1>7 DEF KernelInv, ListInv, ValueInv, ReadAll
<1> QED BY <1>5, <1>8

(* The report the verdict carries.                                         *)
LEMMA VerdictReports ==
  ASSUME KernelInv, ReadAll, Verify
  PROVE  ReportShowsEveryFailure'
<1> DEFINE A == ActualWrites
           E == Expected
           n == Len(Expected)
           c == Check(A, E)
           at == {e.addr : e \in Range(E)}
           rows(a) == Rows(A, E, c.matched, a)
           unmatched == {E[i].addr : i \in DOMAIN E \ c.matched}
                          \cup {u.addr : u \in Range(c.unexpected)}
<1>1. verdict'.rows = [a \in at |-> rows(a)] /\ verdict'.unmatched = unmatched
  BY DEF Verify
<1>2. n \in Nat /\ DOMAIN E = 1..n
  BY VectorTypes DEF KernelInv, ReadAll
<1>3. A = [i \in 1..n |-> [E[i] EXCEPT !.data = actual[i]]]
  BY <1>2 DEF ActualWrites
<1>4. DOMAIN A = 1..n /\ Len(A) = n /\ Len(E) = n
  <2> HIDE DEF A, n
  <2> QED BY <1>2, <1>3 DEF n
<1>5. \A i \in 1..n : A[i].addr = E[i].addr
  <2>1. \A i \in 1..n : E[i] \in [addr : Nat, data : Nat, strb : Nat]
    BY VectorTypes DEF KernelInv, ReadAll
  <2> HIDE DEF A, E, n
  <2> QED BY <1>3, <2>1
<1>6. \A a \in at : (\E i \in DOMAIN rows(a) : rows(a)[i] # "OK") <=> a \in unmatched
  <2> TAKE a \in at
  <2> HIDE DEF A, E, n
  <2>1. ShowFailure(rows(a)) <=> Unsettled(A, E, a)
    BY <1>2, <1>4, <1>5, RowsShowFailures
  <2> HIDE DEF c, rows
  <2>2. Unsettled(A, E, a) <=> a \in unmatched
    BY DEF Unsettled, c
  <2> QED BY <2>1, <2>2 DEF ShowFailure
<1> HIDE DEF at, rows, unmatched
<1> QED BY <1>1, <1>6 DEF ReportShowsEveryFailure

LEMMA VerifyKeeps ==
  ASSUME KernelInv, Verify
  PROVE  KernelInv'
<1> DEFINE c == Check(ActualWrites, Expected)
           ok == pc = "readBack" /\ c.ok
           missing == {e.addr : e \in {f \in Incorrect : Unchanged(f)}}
           wrong == {e.addr : e \in {f \in Incorrect : ~Unchanged(f)}}
<1>1. /\ pc \in {"readBack", "hangReadBack"} /\ idx > Len(Expected)
      /\ verdict'.missing = missing /\ verdict'.wrong = wrong
      /\ EndTest(ok)
      /\ UNCHANGED <<idx, csrValues, csrs, baseline, actual, ctaVars, mem, running, others, stored,
                     late, aligned, faults>>
  BY DEF Verify, chipVars, runVars, sockVars
<1>2. /\ pc \in InTest /\ pc \in HasMeta /\ pc \in HasBs /\ pc \in Seeded /\ test # 0
      /\ Len(baseline) = Len(Expected) /\ Len(actual) = idx - 1 /\ idx - 1 <= Len(Expected)
      /\ pc = "hangReadBack" => outcome = "failed"
      /\ Undisturbed /\ pc = "readBack" => running = 0
  BY <1>1 DEF InTest, Stages, Seeded, HasMeta, HasBs, KernelInv, FlowInv, ListInv, LengthInv, CtaInv
<1>3. ReadAll
  <2>1. Len(Expected) \in Nat
    BY <1>2, VectorTypes DEF KernelInv
  <2>2. Len(actual) = Len(Expected)
    BY <1>1, <1>2, <2>1, InvTypes
  <2>3. DOMAIN actual = 1..Len(Expected) /\ DOMAIN baseline = 1..Len(Expected)
    BY <1>2, <2>2, InvTypes
  <2> QED BY <1>1, <1>2, <2>3 DEF ReadAll
<1>4. UNCHANGED <<backend, sweep, test, cta, finished, leftover, outcome>> /\ pc' = "next"
  BY <1>1 DEF EndTest, ctaVars
<1>5. ChipTypes' /\ Calmer
  BY <1>1, <1>4, InvTypes, ChipTypesKept, StaysCalm
<1>6. VerdictInv'
  <2>1. Undisturbed => wrong \subseteq Touched
    BY <1>3, WrongIsTouched DEF Incorrect
  <2>2. EchoTells /\ Undisturbed /\ pc = "readBack" => missing \cap Touched \cap SeededSlots = {}
    BY <1>3, MissingIsUntouched
  <2>3. Touched' = Touched /\ Touched = {s[1] : s \in stored}
    BY <1>1 DEF Touched
  <2>4. outcome' = "done" /\ Undisturbed => pc = "readBack" /\ running' = 0
    BY <1>1, <1>2, <1>4
  <2>5. EchoTells => DiagnosisIsTrue'
    <3> HIDE DEF missing, wrong
    <3>1. {s[1] : s \in stored'} = Touched
      BY <1>1, <2>3
    <3> QED BY <1>1, <1>5, <2>1, <2>2, <2>4, <3>1 DEF DiagnosisIsTrue, SeededSlots, Calmer
  <2>6. EchoTells' <=> EchoTells
    BY DEF EchoTells
  <2>7. ReportShowsEveryFailure'
    BY <1>3, VerdictReports
  <2> HIDE DEF missing, wrong
  <2> QED BY <1>1, <1>5, <2>1, <2>3, <2>4, <2>5, <2>6, <2>7 DEF VerdictInv, Calmer
<1>7. ok /\ Undisturbed => HasLanded
  BY <1>3, MatchedLanded
<1>8. ok \in BOOLEAN
  OBVIOUS
<1>9. ImageInv'
  BY <1>1, <1>2, <1>4, ImageKept DEF KernelInv, OwnCta
<1> HIDE DEF ok
<1> QED BY <1>1, <1>2, <1>4, <1>5, <1>6, <1>7, <1>8, <1>9, InvTypes, EndsTest

-----------------------------------------------------------------------------
(* The chip, and transfers that fail.                                      *)

(* The chip runs fewer CTAs: one has completed, or a late pulse ended all. *)
LEMMA RunsLess ==
  ASSUME KernelInv,
         running' \in {0, running}, others' \subseteq others, finished \subseteq finished',
         finished' \subseteq 0..cta,
         cta \in finished' => running' = 0 \/ others # {} \/ cta \in finished,
         UNCHANGED <<sweepVars, pc, idx, testVars, mem, stored, late, aligned, faults, cta, outcome,
                     leftover>>
  PROVE  KernelInv'
<1>1. /\ UNCHANGED <<backend, sweep, test, csrValues, csrs, baseline, actual, verdict,
                     md, results, landed, exit>>
      /\ Expected' = Expected /\ Vector' = Vector
  BY SameTest DEF sweepVars, testVars
<1>2. ChipTypes' /\ Calmer /\ (Undisturbed' <=> Undisturbed)
  <2>1. ChipTypes'
    BY <1>1, InvTypes DEF ChipTypes
  <2> QED BY <2>1, StaysCalm DEF Undisturbed
<1>3. FlowInv' /\ PassMeansStored'
  <2>1. KernelTypeOK'
    BY <1>1, <1>2, InvTypes DEF KernelInv, FlowInv, KernelTypeOK, ChipTypes, Answers
  <2>2. running' < test \/ ~(running < test)
    BY InvTypes
  <2> QED BY <1>1, <1>2, <2>1, <2>2, InvTypes DEF KernelInv, FlowInv, PassMeansStored
<1>4. CtaInv' /\ OverrideInv'
  <2>1. CtaInv'
    BY <1>2 DEF KernelInv, CtaInv, HasMeta, Seeded
  <2> QED BY <1>1, <2>1 DEF KernelInv, OverrideInv
<1>5. AnswerInv' /\ ListInv'
  <2>1. SomethingToDo' <=> SomethingToDo
    BY DEF SomethingToDo
  <2> QED BY <1>1, <1>2, <2>1 DEF KernelInv, AnswerInv, ListInv, LengthInv, ValueInv
<1>6. ImageInv' /\ SlotInv'
  BY <1>1, <1>2, ImageKept, SlotKept DEF KernelInv, OwnCta
<1>7. VerdictInv'
  BY <1>1, <1>2 DEF KernelInv, VerdictInv, Touched, EchoTells, DiagnosisIsTrue,
                    ReportShowsEveryFailure
<1> QED BY <1>3, <1>4, <1>5, <1>6, <1>7 DEF KernelInv

LEMMA ChipCompletesKeeps ==
  ASSUME KernelInv, ChipCompletes
  PROVE  KernelInv'
<1>1. /\ running' = 0 /\ cta > 0 /\ finished' = finished \cup {cta} /\ others' = others
      /\ UNCHANGED <<sweepVars, pc, idx, testVars, mem, stored, late, aligned, faults, cta, outcome,
                     leftover>>
  BY InvTypes DEF ChipCompletes, Cta!CompleteCta, sockVars, ChipTypes
<1> QED BY <1>1, InvTypes, RunsLess

LEMMA OtherCompletesKeeps ==
  ASSUME KernelInv, OtherCompletes
  PROVE  KernelInv'
<1>1. PICK o \in others : others' = others \ {o} /\ Cta!CompleteCta(o.cta)
  BY DEF OtherCompletes
<1>2. /\ finished' = finished \cup {o.cta} /\ o.cta \in 1..cta /\ running' = running
      /\ UNCHANGED <<sweepVars, pc, idx, testVars, mem, stored, late, aligned, faults, cta, outcome,
                     leftover>>
  BY <1>1 DEF OtherCompletes, Cta!CompleteCta, sockVars
<1> QED BY <1>1, <1>2, InvTypes, RunsLess

LEMMA LatePulseKeeps ==
  ASSUME KernelInv, LatePulse
  PROVE  KernelInv'
<1>1. /\ running' = 0 /\ others' = {} /\ finished' = finished
      /\ UNCHANGED <<sweepVars, pc, idx, testVars, mem, stored, late, aligned, faults, cta, outcome,
                     leftover>>
  BY DEF LatePulse, ctaVars, sockVars
<1> QED BY <1>1, InvTypes, RunsLess

(* A store of a CTA of test t changes one word of the DATA region.         *)
LEMMA StoreTypes ==
  ASSUME KernelInv, NEW t \in 1..test, NEW e, NEW v, StoresFor(t, e, v)
  PROVE  /\ e.addr \in DataAddrs /\ e.data \in Nat /\ v \in Nat
         /\ mem' \in Memory /\ mem'.meta = mem.meta /\ mem'.bs = mem.bs
         /\ mem'.data[e.addr] = v
         /\ \A a \in DataAddrs : a # e.addr => mem'.data[a] = mem.data[a]
<1>1. /\ e \in Range(sweep[t].json.writes) /\ v \in {e.data, WrongData}
      /\ mem' = [mem EXCEPT !.data[e.addr] = v]
  BY DEF StoresFor
<1>2. e.addr \in DataAddrs /\ e.data \in Nat /\ v \in Nat
  <2>1. sweep \in Seq(Vectors) /\ t \in 1..Len(sweep)
    BY InvTypes, SweepAssumption DEF KernelInv, FlowInv, KernelTypeOK
  <2>2. sweep[t] \in Vectors
    BY <2>1
  <2> DEFINE writes == sweep[t].json.writes
             W == [addr : Nat, data : Nat, strb : Nat]
             addrs == {w.addr : w \in Range(writes)}
  <2>3. addrs \in {{w.addr : w \in Range(u.json.writes)} : u \in Vectors}
    BY <2>2
  <2>4. addrs \subseteq DataAddrs
    <3> HIDE DEF addrs
    <3> QED BY <2>3 DEF DataAddrs
  <2>5. writes \in Seq(W)
    BY <2>2, VectorAssumption
  <2> HIDE DEF W
  <2>6. e \in W
    <3> HIDE DEF writes
    <3>1. Range(writes) \subseteq W
      BY <2>5 DEF Range
    <3> QED BY <1>1, <3>1 DEF writes
  <2>7. WrongData \in Nat
    BY SweepAssumption
  <2> QED BY <1>1, <2>4, <2>6, <2>7 DEF W
<1> QED BY <1>1, <1>2, InvTypes DEF Memory

(* What a store leaves of the invariant.                                   *)
LEMMA StoreKeeps ==
  ASSUME KernelInv, NEW t \in 1..test, NEW e, NEW v, StoresFor(t, e, v), stored \subseteq stored',
         running = 0 => stored' = stored, SlotInv', ValueInv'
  PROVE  KernelInv'
<1>1. UNCHANGED <<sweepVars, pc, idx, testVars, ctaVars, running, others, late, aligned, faults>>
  BY DEF StoresFor, runVars, sockVars
<1>2. /\ UNCHANGED <<backend, sweep, test, csrValues, csrs, baseline, actual, verdict,
                     md, results, landed, exit, cta, outcome, finished, leftover>>
      /\ Expected' = Expected /\ Vector' = Vector
  BY <1>1, SameTest DEF sweepVars, testVars, ctaVars
<1>3. mem' \in Memory /\ mem'.meta = mem.meta /\ mem'.bs = mem.bs
  BY StoreTypes
<1>4. ChipTypes' /\ Calmer
  BY <1>1, <1>2, InvTypes, ChipTypesKept, StaysCalm
<1>5. FlowInv' /\ PassMeansStored'
  <2>1. KernelTypeOK'
    BY <1>1, <1>2, InvTypes DEF KernelInv, FlowInv, KernelTypeOK, Answers
  <2> QED BY <1>1, <1>2, <1>3, <1>4, <2>1, InvTypes DEF KernelInv, FlowInv, PassMeansStored
<1>6. CtaInv' /\ OverrideInv'
  BY <1>1, <1>2, <1>4 DEF KernelInv, CtaInv, OverrideInv, Calmer
<1>7. AnswerInv'
  <2>1. SomethingToDo' <=> SomethingToDo
    BY DEF SomethingToDo
  <2> QED BY <1>1, <1>2, <2>1 DEF KernelInv, AnswerInv
<1>8. ImageInv'
  BY <1>1, <1>2, <1>3, ImageKept DEF KernelInv, OwnCta
<1>9. LengthInv'
  BY <1>1, <1>2 DEF KernelInv, ListInv, LengthInv
<1>10. VerdictInv'
  <2>1. Undisturbed' => verdict'.wrong \subseteq Touched'
    <3>1. Touched \subseteq Touched'
      BY DEF Touched
    <3> QED BY <1>2, <1>4, <3>1 DEF KernelInv, VerdictInv, Calmer
  <2>2. Undisturbed' /\ outcome' = "done" => verdict'.missing = {} \/ running' = 0
    BY <1>1, <1>2, <1>4 DEF KernelInv, VerdictInv, Calmer
  <2>3. EchoTells' => DiagnosisIsTrue'
    <3>1. EchoTells' <=> EchoTells
      BY DEF EchoTells
    <3>2. CASE running = 0
      BY <1>2, <1>4, <3>1, <3>2 DEF KernelInv, VerdictInv, DiagnosisIsTrue, Calmer
    <3>3. CASE running # 0
      BY <1>1, <2>1, <2>2, <3>3 DEF DiagnosisIsTrue, Touched
    <3> QED BY <3>2, <3>3
  <2>4. ReportShowsEveryFailure'
    BY <1>2 DEF KernelInv, VerdictInv, ReportShowsEveryFailure
  <2> QED BY <2>1, <2>2, <2>3, <2>4 DEF VerdictInv
<1> QED BY <1>5, <1>6, <1>7, <1>8, <1>9, <1>10 DEF KernelInv, ListInv

LEMMA OtherStoresKeeps ==
  ASSUME KernelInv, OtherStores
  PROVE  KernelInv'
<1>1. PICK o \in others : \E e \in Range(sweep[o.test].json.writes) : \E v \in {e.data, WrongData} :
         StoresFor(o.test, e, v) /\ UNCHANGED stored
  BY DEF OtherStores
<1>2. PICK e, v : StoresFor(o.test, e, v) /\ UNCHANGED stored
  BY <1>1
<1>3. o.test \in 1..test
  BY InvTypes DEF ChipTypes
<1>4. ~(Undisturbed' /\ pc' \in Seeded)
  <2>1. UNCHANGED <<leftover, aligned, pc>>
    BY <1>2 DEF StoresFor, ctaVars, sockVars
  <2>2. ~(Undisturbed /\ pc \in Seeded)
    BY <1>1 DEF KernelInv, CtaInv, HasMeta
  <2> QED BY <2>1, <2>2 DEF Undisturbed
<1>5. SlotInv' /\ ValueInv'
  BY <1>4 DEF SlotInv, ValueInv, Seeded
<1> QED BY <1>2, <1>3, <1>5, StoreKeeps

LEMMA ChipStoresKeeps ==
  ASSUME KernelInv, ChipStores
  PROVE  KernelInv'
<1>1. PICK e \in Range(sweep[running].json.writes) : \E v \in {e.data, WrongData} :
         /\ StoresFor(running, e, v)
         /\ stored' = IF running = test THEN stored \cup {<<e.addr, v>>} ELSE stored
  BY DEF ChipStores
<1>2. PICK v \in {e.data, WrongData} :
         /\ StoresFor(running, e, v)
         /\ stored' = IF running = test THEN stored \cup {<<e.addr, v>>} ELSE stored
  BY <1>1
<1>3. /\ running # 0 /\ running \in 1..test /\ backend # "mock"
      /\ UNCHANGED <<sweepVars, pc, idx, testVars, ctaVars, running, others, late, aligned, faults>>
  BY <1>2, InvTypes DEF ChipStores, StoresFor, runVars, sockVars
<1>4. /\ UNCHANGED <<backend, sweep, test, baseline, actual, leftover>>
      /\ Expected' = Expected /\ Vector' = Vector
  BY <1>3, SameTest DEF sweepVars, testVars, ctaVars
<1>5. Undisturbed' <=> Undisturbed
  BY <1>3, <1>4 DEF Undisturbed
<1>6. /\ e.addr \in DataAddrs /\ e.data \in Nat /\ v \in Nat
      /\ mem'.data[e.addr] = v
      /\ \A a \in DataAddrs : a # e.addr => mem'.data[a] = mem.data[a]
  BY <1>2, <1>3, StoreTypes
<1>7. stored \subseteq stored' /\ (running = test => <<e.addr, v>> \in stored')
      /\ Touched \subseteq Touched'
  BY <1>2 DEF Touched
<1>12. pc \in Seeded => running = test
  BY <1>3 DEF KernelInv, FlowInv, Seeded
<1>13. SlotInv'
  <2> SUFFICES ASSUME Undisturbed, pc \in Seeded PROVE SlotInv'
    BY <1>3, <1>5 DEF SlotInv
  <2>1. e \in Range(Expected) /\ stored' = stored \cup {<<e.addr, v>>} /\ <<e.addr, v>> \in stored'
    BY <1>1, <1>2, <1>12 DEF Expected, Vector
  <2>2. ASSUME NEW a \in SeededSlots
        PROVE  mem'.data[a] = a \/ <<a, mem'.data[a]>> \in stored'
    <3>1. a \in DataAddrs
      <4> DEFINE written == UNION {{w.addr : w \in Range(u.json.writes)} : u \in Vectors}
      <4>1. DataAddrs = written \cup SeededSlots
        BY DEF DataAddrs, SeededSlots
      <4> HIDE DEF written
      <4> QED BY <4>1
    <3>2. mem.data[a] = a \/ <<a, mem.data[a]>> \in stored
      BY DEF KernelInv, SlotInv
    <3>3. CASE a = e.addr
      BY <1>6, <2>1, <3>3
    <3>4. CASE a # e.addr
      BY <1>6, <1>7, <3>1, <3>2, <3>4
    <3> QED BY <3>3, <3>4
  <2>3. \A s \in stored' : \E f \in Range(Expected) : s[1] = f.addr /\ s[2] \in {f.data, WrongData}
    <3>1. \A s \in stored : \E f \in Range(Expected) : s[1] = f.addr /\ s[2] \in {f.data, WrongData}
      BY DEF KernelInv, SlotInv
    <3>2. <<e.addr, v>>[1] = e.addr /\ <<e.addr, v>>[2] \in {e.data, WrongData}
      BY <1>2
    <3> QED BY <2>1, <3>1, <3>2
  <2>4. ASSUME NEW a \in Touched' PROVE <<a, mem'.data[a]>> \in stored'
    <3>1. CASE a = e.addr
      BY <1>6, <2>1, <3>1
    <3>2. CASE a # e.addr
      <4>1. PICK s \in stored' : a = s[1]
        BY DEF Touched
      <4>2. s \in stored
        <5>1. <<e.addr, v>>[1] = e.addr
          OBVIOUS
        <5> QED BY <2>1, <3>2, <4>1, <5>1
      <4>3. a \in Touched
        BY <4>1, <4>2 DEF Touched
      <4>4. <<a, mem.data[a]>> \in stored
        BY <4>3 DEF KernelInv, SlotInv
      <4>5. a \in DataAddrs
        <5>1. PICK f \in Range(Expected) : a = f.addr
          BY <2>3, <4>1
        <5>2. test # 0
          BY <1>3, <1>12
        <5> QED BY <5>1, <5>2, VectorTypes DEF KernelInv
      <4> QED BY <1>6, <1>7, <3>2, <4>4, <4>5
    <3> QED BY <3>1, <3>2
  <2>5. SeededSlots' = SeededSlots
    BY DEF SeededSlots
  <2> QED BY <1>3, <1>4, <2>2, <2>3, <2>4, <2>5 DEF SlotInv
<1>14. ValueInv'
  <2>1. Undisturbed => pc # "readBack"
    BY <1>3 DEF KernelInv, CtaInv
  <2>2. ASSUME Undisturbed, pc \in Seeded, NEW i \in DOMAIN baseline
        PROVE  \/ mem'.data[Expected[i].addr] = baseline[i]
               \/ <<Expected[i].addr, mem'.data[Expected[i].addr]>> \in stored'
    <3>1. \/ mem.data[Expected[i].addr] = baseline[i]
          \/ <<Expected[i].addr, mem.data[Expected[i].addr]>> \in stored
      BY <2>2 DEF KernelInv, ListInv, ValueInv
    <3>2. Expected[i].addr \in DataAddrs
      <4>1. test # 0 /\ i \in 1..Len(Expected)
        <5>1. test # 0 /\ Len(Expected) \in Nat
          BY <1>3, <1>12, <2>2, VectorTypes DEF KernelInv
        <5>2. i \in 1..Len(baseline)
          BY InvTypes
        <5>3. Len(baseline) <= Len(Expected)
          <6>1. CASE pc = "baseline"
            BY <5>1, <6>1, InvTypes DEF KernelInv, ListInv, LengthInv
          <6>2. CASE pc # "baseline"
            BY <1>3, <2>2, <5>1, <6>2 DEF KernelInv, ListInv, LengthInv
          <6> QED BY <6>1, <6>2
        <5> QED BY <5>1, <5>2, <5>3, InvTypes
      <4> QED BY <4>1, VectorTypes DEF KernelInv
    <3>3. CASE Expected[i].addr = e.addr
      BY <1>6, <1>7, <1>12, <2>2, <3>3
    <3>4. CASE Expected[i].addr # e.addr
      BY <1>6, <1>7, <3>1, <3>2, <3>4
    <3> QED BY <3>3, <3>4
  <2> QED BY <1>3, <1>4, <1>5, <1>7, <2>1, <2>2 DEF KernelInv, ListInv, ValueInv
<1> QED BY <1>2, <1>3, <1>7, <1>13, <1>14, StoreKeeps

LEMMA OwnAnswerTypes ==
  ASSUME KernelInv, Transferring
  PROVE  /\ OwnAnswer \in Answers /\ pc \in InTest /\ pc \notin {"connect", "next", "exit"}
         /\ (pc = "wait" => OwnAnswer.kind = "rd32")
<1>1. pc \in InTest /\ pc \notin {"connect", "next", "exit"}
  BY DEF Transferring, BarAccesses, DmaWrites, SlotReads, InTest, Stages
<1>2. CASE pc \in SlotReads
  <2>1. idx <= Len(Expected) /\ test # 0
    BY <1>1, <1>2, InvTypes DEF Transferring
  <2>2. idx \in 1..Len(Expected)
    BY <2>1, InvTypes, VectorTypes DEF KernelInv
  <2>3. Expected[idx].addr \in DataAddrs
    BY <2>1, <2>2, VectorTypes DEF KernelInv
  <2> DEFINE value == mem.data[Expected[idx].addr]
  <2>4. value \in Nat
    BY <2>3, InvTypes DEF Memory
  <2>5. OwnAnswer = Answer("line", value)
    BY <1>2 DEF OwnAnswer, SlotReads
  <2> HIDE DEF value
  <2> QED BY <1>1, <1>2, <2>4, <2>5, AnswerTypes DEF SlotReads
<1>3. CASE pc \notin SlotReads
  <2>1. OwnAnswer = IF pc \in {"resetPoll", "wait", "hang"} THEN Answer("rd32", 0)
                    ELSE Answer("ack", 0)
    BY <1>3 DEF OwnAnswer
  <2> QED BY <1>1, <2>1, AnswerTypes
<1> QED BY <1>2, <1>3

(* A call that raises, whatever becomes of its request.                    *)
LEMMA RaisedTypes ==
  ASSUME KernelInv, Transferring, RaisedInCta, ServedLater, UNCHANGED <<backend, test>>,
         aligned' \in BOOLEAN, backend # "cosim" => late' = <<>> /\ aligned'
  PROVE  /\ ChipTypes' /\ leftover' = leftover
         /\ running' \in {0, running} \/ (pc = "launch" /\ running' = test)
         /\ pc = "wait" => outcome' = "failed" /\ UNCHANGED <<running, others, cta, finished>>
<1>1. CASE pc = "launch"
  <2>1. /\ cta' = cta + 1 /\ finished' = finished /\ leftover' = leftover
        /\ Starts \/ (running' = 0 /\ others' = AllRunning)
    BY <1>1 DEF RaisedInCta, Cta!LaunchFails, ServedLater, NoStart
  <2>2. test # 0
    BY <1>1, InvTypes DEF InTest, Stages
  <2> QED BY <1>1, <2>1, <2>2, StartsTypes
<1>2. CASE pc # "launch"
  <2>1. /\ UNCHANGED <<cta, finished, leftover>> /\ (pc = "wait" => outcome' = "failed")
    BY <1>2 DEF RaisedInCta, Cta!GiveUp, ctaVars
  <2>2. \/ UNCHANGED <<running, others>>
        \/ pc = "resetWrite" /\ running' = 0 /\ others' = {}
    BY <1>2 DEF ServedLater, NoStart, runVars
  <2> QED BY <1>2, <2>1, <2>2, InvTypes DEF ChipTypes
<1> QED BY <1>1, <1>2

LEMMA TransferFailsKeeps ==
  ASSUME KernelInv, TransferFails
  PROVE  KernelInv'
<1>1. /\ Transferring /\ Exception /\ RaisedInCta /\ ServedLater
      /\ late' = (IF late = <<>> THEN late ELSE Left(OwnAnswer))
      /\ faults' = faults \/ (faults < MaxFaults /\ faults' = faults + 1)
      /\ aligned => NoStart
      /\ UNCHANGED <<idx, testVars, mem, stored, aligned>>
  BY DEF TransferFails, ServedLater
<1>2. OwnAnswer \in Answers /\ pc \in InTest
  BY <1>1, OwnAnswerTypes
<1>3. late' \in Seq(Answers) /\ Len(late') <= faults' /\ (late = <<>> => late' = <<>>)
      /\ faults' \in 0..MaxFaults
  BY <1>1, <1>2, InvTypes, LeftTypes
<1>4. UNCHANGED <<backend, sweep, test>> /\ pc' = "next"
  BY <1>1 DEF Exception, EndTest
<1>5. ChipTypes'
  BY <1>1, <1>3, <1>4, InvTypes, RaisedTypes
<1>6. ImageInv'
  <2>1. aligned => running' \in {0, running}
    BY <1>1 DEF NoStart, runVars
  <2>2. CASE aligned
    BY <1>1, <1>4, <2>1, <2>2, ImageKept DEF KernelInv, OwnCta, HasMeta, HasBs, Seeded
  <2>3. CASE ~aligned
    BY <1>1, <2>3 DEF ImageInv
  <2> QED BY <2>2, <2>3
<1> QED BY <1>1, <1>2, <1>3, <1>4, <1>5, <1>6, InvTypes, Raises

LEMMA SocketTimeoutKeeps ==
  ASSUME KernelInv, SocketTimeout
  PROVE  KernelInv'
<1>1. /\ Transferring /\ backend = "cosim" /\ faults < MaxFaults /\ faults' = faults + 1
      /\ late' = Append(late, OwnAnswer) /\ aligned /\ aligned' \in BOOLEAN
      /\ RaisedInCta /\ ServedLater
      /\ UNCHANGED <<idx, testVars, mem, stored>>
      /\ \/ pc = "wait" /\ pc' = "hang" /\ UNCHANGED sweepVars
         \/ pc # "wait" /\ Exception
  BY DEF SocketTimeout
<1>2. OwnAnswer \in Answers /\ pc \in InTest /\ (pc = "wait" => OwnAnswer.kind = "rd32")
  BY <1>1, OwnAnswerTypes
<1>3. late' \in Seq(Answers) /\ Len(late') <= faults' /\ faults' \in 0..MaxFaults
  BY <1>1, <1>2, InvTypes
<1>4. UNCHANGED <<backend, sweep, test>>
  BY <1>1 DEF sweepVars, Exception, EndTest
<1>5. /\ ChipTypes' /\ leftover' = leftover
      /\ running' \in {0, running} \/ (pc = "launch" /\ running' = test)
      /\ pc = "wait" => outcome' = "failed" /\ UNCHANGED <<running, others, cta, finished>>
  BY <1>1, <1>4, RaisedTypes
<1>6. Calmer
  BY <1>1, <1>5 DEF Calmer, Undisturbed
<1>7. CASE pc = "wait" /\ pc' = "hang" /\ UNCHANGED sweepVars
  <2>1. /\ UNCHANGED <<baseline, actual, csrValues, verdict, running, others>>
        /\ Expected' = Expected
        /\ pc \in Seeded /\ pc \in HasMeta /\ pc \in HasBs /\ pc' \in InTest /\ pc' \in Seeded
        /\ running \in {0, test} /\ outcome' = "failed"
    BY <1>1, <1>4, <1>5, <1>7, SameTest DEF testVars, InTest, Stages, Seeded, HasMeta, HasBs,
                                            KernelInv, FlowInv
  <2>2. FlowInv' /\ VerdictInv' /\ PassMeansStored'
    <3>1. /\ mem' \in Memory /\ idx' \in Nat \ {0} /\ baseline' \in Seq(Nat) /\ actual' \in Seq(Nat)
      BY <1>1, <2>1, InvTypes
    <3> QED BY <1>1, <1>2, <1>3, <1>4, <1>5, <1>7, <2>1, <3>1, WithinTest
  <2>3. CtaInv' /\ OverrideInv'
    BY <1>6, <1>7, <2>1 DEF KernelInv, CtaInv, OverrideInv, Calmer
  <2>4. AnswerInv'
    <3>1. \A i \in DOMAIN late' : late'[i].kind # "line"
      <4>1. \A i \in DOMAIN late : late[i].kind # "line"
        BY <1>1, <2>1 DEF KernelInv, AnswerInv
      <4>2. OwnAnswer.kind # "line"
        BY <1>2, <1>7
      <4> DEFINE own == OwnAnswer
      <4> HIDE DEF own
      <4>3. /\ late' = Append(late, own) /\ own \in Answers /\ own.kind # "line"
        BY <1>1, <1>2, <4>2 DEF own
      <4> QED BY <4>1, <4>3, InvTypes
    <3> QED BY <1>7, <3>1 DEF AnswerInv
  <2>5. ImageInv' /\ SlotInv'
    BY <1>1, <1>4, <1>6, <2>1, ImageKept, SlotKept DEF KernelInv
  <2>6. LengthInv'
    <3>1. UNCHANGED <<baseline, actual, backend, idx>> /\ pc = "wait" /\ pc' = "hang"
          /\ backend = "cosim" /\ Expected' = Expected
      BY <1>1, <1>4, <1>7, <2>1
    <3> QED BY <3>1 DEF KernelInv, ListInv, LengthInv, Seeded, InTest, Stages
  <2>7. ValueInv'
    <3>1. UNCHANGED <<baseline, mem, stored, actual>> /\ (Undisturbed' => Undisturbed)
      BY <1>1, <1>6, <2>1 DEF Calmer
    <3>2. pc' = "hang" /\ pc \in Seeded
      BY <1>7, <2>1
    <3> QED BY <2>1, <3>1, <3>2 DEF KernelInv, ListInv, ValueInv
  <2> QED BY <2>2, <2>3, <2>4, <2>5, <2>6, <2>7 DEF KernelInv, ListInv
<1>8. CASE pc # "wait" /\ Exception
  <2>1. pc' = "next"
    BY <1>8 DEF Exception, EndTest
  <2>2. OwnCta' => OwnCta \/ pc = "launch"
    BY <1>4, <1>5 DEF OwnCta
  <2>3. ImageInv'
    BY <1>1, <1>4, <2>1, <2>2, ImageKept DEF KernelInv, HasMeta, HasBs, Seeded
  <2> QED BY <1>1, <1>2, <1>3, <1>5, <1>8, <2>1, <2>3, InvTypes, Raises
<1> QED BY <1>1, <1>7, <1>8

-----------------------------------------------------------------------------
(* The sweep.                                                              *)

(* Between tests only a few clauses say anything.                          *)
LEMMA BetweenTests ==
  ASSUME KernelInv, FlowInv', VerdictInv', PassMeansStored', pc' \in {"next", "exit", "resetWrite"},
         UNCHANGED <<late, backend, leftover, aligned>>, OwnCta' => OwnCta,
         OwnCta' => UNCHANGED <<mem, sweep, test>>,
         pc' = "resetWrite" => idx' = 1 /\ baseline' = <<>> /\ actual' = <<>>
  PROVE  KernelInv'
<1>1. CtaInv' /\ OverrideInv' /\ AnswerInv' /\ SlotInv' /\ ListInv'
  BY DEF KernelInv, CtaInv, OverrideInv, AnswerInv, SlotInv, ListInv, LengthInv, ValueInv, Seeded,
         HasMeta, InTest
<1>2. pc' \notin HasMeta /\ pc' \notin HasBs
  BY DEF HasMeta, HasBs, Seeded
<1>3. ImageInv'
  <2>1. CASE OwnCta'
    BY <1>2, <2>1, ImageKept DEF KernelInv
  <2>2. CASE ~OwnCta'
    BY <1>2, <2>2 DEF ImageInv
  <2> QED BY <2>1, <2>2
<1> QED BY <1>1, <1>3 DEF KernelInv

LEMMA ConnectKeeps ==
  ASSUME KernelInv, Connect
  PROVE  KernelInv'
<1>1. /\ pc = "connect" /\ pc' \in {"next", "exit"}
      /\ md' \in {"open", md} /\ exit' \in {exit, "crash"} /\ faults' \in {faults, faults + 1}
      /\ faults' = faults + 1 => faults < MaxFaults
      /\ UNCHANGED <<backend, sweep, test, results, landed, idx, csrValues, csrs, baseline, actual,
                     verdict, outcome, cta, finished, leftover, mem, running, others, stored,
                     late, aligned>>
  BY InvTypes DEF Connect, testVars, ctaVars, chipVars, runVars, sockVars
<1>2. FlowInv'
  <2>1. ChipTypes'
    BY <1>1, InvTypes, ChipTypesKept
  <2>2. /\ faults' \in 0..MaxFaults /\ Len(late') <= faults' /\ pc' \in Stages
        /\ md' \in {"none", "open", "closed"} /\ exit' \in {"none", "0", "1", "crash"}
        /\ late' \in Seq([kind : {"ack", "rd32", "line"}, val : Nat])
    BY <1>1, InvTypes DEF KernelInv, FlowInv, KernelTypeOK, Answers, Stages
  <2>3. /\ backend' \in Backends /\ sweep' \in Sweeps /\ test' \in 0..Len(sweep')
        /\ Len(results') \in {test', test' - 1} /\ Len(landed') = Len(results')
    BY <1>1 DEF KernelInv, FlowInv, KernelTypeOK
  <2>4. KernelTypeOK'
    BY <2>1, <2>2, <2>3 DEF KernelTypeOK, ChipTypes
  <2> QED BY <1>1, <2>1, <2>4, InvTypes DEF KernelInv, FlowInv, InTest
<1>3. VerdictInv' /\ PassMeansStored'
  BY <1>1 DEF KernelInv, VerdictInv, Touched, EchoTells, DiagnosisIsTrue, Undisturbed,
              ReportShowsEveryFailure, PassMeansStored
<1> QED BY <1>1, <1>2, <1>3, BetweenTests DEF OwnCta

LEMMA SummarizeKeeps ==
  ASSUME KernelInv, Summarize
  PROVE  KernelInv'
<1>1. /\ pc = "next" /\ pc' = "exit" /\ md' \in {md, "closed"} /\ exit' \in {"0", "1"}
      /\ UNCHANGED <<backend, sweep, test, results, landed, idx, csrValues, csrs, baseline, actual,
                     verdict, outcome, cta, finished, leftover, mem, running, others, stored,
                     late, aligned, faults>>
  BY DEF Summarize, testVars, ctaVars, chipVars, runVars, sockVars
<1>2. FlowInv'
  <2>1. KernelTypeOK'
    BY <1>1, InvTypes DEF KernelInv, FlowInv, KernelTypeOK, Answers, Stages
  <2>2. ChipTypes'
    BY <1>1, InvTypes, ChipTypesKept
  <2> QED BY <1>1, <2>1, <2>2, InvTypes DEF KernelInv, FlowInv, InTest
<1>3. VerdictInv' /\ PassMeansStored'
  BY <1>1 DEF KernelInv, VerdictInv, Touched, EchoTells, DiagnosisIsTrue, Undisturbed,
              ReportShowsEveryFailure, PassMeansStored
<1> QED BY <1>1, <1>2, <1>3, BetweenTests DEF OwnCta

LEMMA BeginTestKeeps ==
  ASSUME KernelInv, BeginTest
  PROVE  KernelInv'
<1>1. /\ pc = "next" /\ test < Len(sweep) /\ test' = test + 1
      /\ csrValues' = sweep[test + 1].json.csr /\ verdict' = NoVerdict
      /\ baseline' = <<>> /\ actual' = <<>> /\ idx' = 1
      /\ UNCHANGED <<backend, sweep, exit, cta, finished, outcome, leftover, running, others,
                     stored, late, aligned>>
  BY DEF BeginTest, ctaVars, runVars, sockVars
<1>2. \/ /\ results' = Append(results, FALSE) /\ landed' = Append(landed, FALSE)
         /\ UNCHANGED <<pc, md, mem>> /\ faults' \in {faults, faults + 1}
         /\ faults' = faults + 1 => faults < MaxFaults
      \/ /\ pc' = "resetWrite" /\ md' \in {md, "open"} /\ UNCHANGED <<results, landed, faults>>
         /\ mem' = mem \/ mem' = [r \in DOMAIN mem |-> [a \in DOMAIN mem[r] |-> 0]]
  <2> DEFINE v == sweep[test + 1]
             zeros == [r \in DOMAIN mem |-> [a \in DOMAIN mem[r] |-> 0]]
  <2>1. OpenHandle(v)
    BY DEF BeginTest
  <2> HIDE DEF v
  <2>2. CASE ~v.readable
    <3>1. OpenHandle(v) => /\ results' = Append(results, FALSE) /\ landed' = Append(landed, FALSE)
                           /\ UNCHANGED <<pc, md, faults, mem>>
      BY <2>2 DEF OpenHandle
    <3>2. /\ results' = Append(results, FALSE) /\ landed' = Append(landed, FALSE)
          /\ UNCHANGED <<pc, md, faults, mem>>
      BY <2>1, <3>1
    <3>3. faults # faults + 1
      BY InvTypes
    <3> QED BY <3>2, <3>3
  <2>3. CASE v.readable
    <3>1. mem' = (IF backend = "mock" THEN zeros ELSE mem) => mem' = mem \/ mem' = zeros
      OBVIOUS
    <3>2. OpenHandle(v) =>
            \/ /\ pc' = "resetWrite"
               /\ md' = IF backend = "cosim" THEN md ELSE "open"
               /\ mem' = IF backend = "mock" THEN zeros ELSE mem
               /\ UNCHANGED <<results, landed, faults>>
            \/ /\ backend = "hw" /\ faults < MaxFaults /\ faults' = faults + 1
               /\ results' = Append(results, FALSE) /\ landed' = Append(landed, FALSE)
               /\ UNCHANGED <<pc, md, mem>>
      BY <2>3, Zenon DEF OpenHandle
    <3> HIDE DEF zeros
    <3> QED BY <2>1, <3>1, <3>2 DEF zeros
  <2> QED BY <2>2, <2>3
<1>3. /\ results \in Seq(BOOLEAN) /\ landed \in Seq(BOOLEAN) /\ Len(results) = test
      /\ Len(landed) = test /\ test \in Nat
  BY <1>1, InvTypes DEF KernelInv, FlowInv, KernelTypeOK, InTest
<1>4. /\ test' \in 0..Len(sweep) /\ test' # 0 /\ running' \in 0..test' /\ running' < test'
      /\ ChipTypes'
  <2>1. sweep \in Seq(Vectors)
    BY SweepAssumption DEF KernelInv, FlowInv, KernelTypeOK
  <2>2. test' \in 0..Len(sweep) /\ test' # 0 /\ running' \in 0..test' /\ running' < test'
    BY <1>1, <1>3, <2>1, InvTypes
  <2>3. others \subseteq [cta : 1..cta, test : 1..(test + 1)]
    <3>1. /\ cta \in Nat /\ test \in Nat /\ test + 1 \in Nat
          /\ others \subseteq [cta : 1..cta, test : 1..test]
      BY InvTypes DEF ChipTypes
    <3> QED BY <3>1, LaterCtas
  <2> QED BY <1>1, <2>2, <2>3, InvTypes DEF ChipTypes
<1>5. mem' \in Memory
  <2>1. CASE mem' = [r \in DOMAIN mem |-> [a \in DOMAIN mem[r] |-> 0]]
    BY <2>1, InvTypes DEF Memory
  <2> QED BY <1>2, <2>1, InvTypes
<1>6. VerdictInv' /\ ~OwnCta'
  BY <1>1, <1>4, NoVerdictYet DEF OwnCta
<1>7. CASE /\ results' = Append(results, FALSE) /\ landed' = Append(landed, FALSE)
           /\ UNCHANGED <<pc, md, mem>> /\ faults' \in {faults, faults + 1}
           /\ faults' = faults + 1 => faults < MaxFaults
  <2>1. /\ results' \in Seq(BOOLEAN) /\ landed' \in Seq(BOOLEAN)
        /\ Len(results') = test' /\ Len(landed') = test'
    BY <1>1, <1>3, <1>7
  <2>2. KernelTypeOK'
    BY <1>1, <1>3, <1>4, <1>7, <2>1, InvTypes
       DEF KernelInv, FlowInv, KernelTypeOK, ChipTypes, Answers, Stages
  <2>3. FlowInv'
    BY <1>1, <1>4, <1>5, <1>7, <2>1, <2>2 DEF FlowInv, InTest
  <2>4. PassMeansStored'
    <3> SUFFICES ASSUME backend # "mock", NEW i \in 1..test', results'[i] PROVE landed'[i]
      BY <1>1, <2>1 DEF PassMeansStored
    <3>1. CASE i = test'
      <4>1. i = Len(results) + 1
        BY <1>1, <1>3, <3>1
      <4>2. Append(results, FALSE)[Len(results) + 1] = FALSE
        BY <1>3, AppendAt
      <4>3. results'[i] = FALSE
        BY <1>7, <4>1, <4>2, Zenon
      <4> QED BY <4>3
    <3>2. CASE i # test'
      <4>1. i \in 1..Len(results) /\ i \in 1..Len(landed) /\ i \in DOMAIN results
        BY <1>1, <1>3, <3>2
      <4>2. Append(results, FALSE)[i] = results[i] /\ Append(landed, FALSE)[i] = landed[i]
        <5>1. FALSE \in BOOLEAN
          OBVIOUS
        <5> QED BY <1>3, <4>1, <5>1, AppendAt, Zenon
      <4>3. results'[i] = results[i] /\ landed'[i] = landed[i]
        BY <1>7, <4>2, Zenon
      <4> QED BY <4>1, <4>3 DEF KernelInv, PassMeansStored
    <3> QED BY <3>1, <3>2
  <2> QED BY <1>1, <1>6, <1>7, <2>3, <2>4, BetweenTests
<1>8. CASE pc' = "resetWrite" /\ md' \in {md, "open"} /\ UNCHANGED <<results, landed, faults>>
  <2>1. KernelTypeOK'
    BY <1>1, <1>3, <1>4, <1>8, InvTypes
       DEF KernelInv, FlowInv, KernelTypeOK, ChipTypes, Answers, Stages
  <2>2. csrValues' = Vector'.json.csr
    BY <1>1 DEF Vector
  <2>3. FlowInv'
    BY <1>1, <1>3, <1>4, <1>5, <1>8, <2>1, <2>2 DEF FlowInv, InTest, Stages
  <2>4. PassMeansStored'
    BY <1>1, <1>8 DEF KernelInv, PassMeansStored
  <2> QED BY <1>1, <1>6, <1>8, <2>3, <2>4, BetweenTests
<1> QED BY <1>2, <1>7, <1>8

-----------------------------------------------------------------------------
LEMMA StutterKeeps ==
  ASSUME KernelInv, UNCHANGED kernelVars
  PROVE  KernelInv'
<1>1. /\ UNCHANGED <<backend, sweep, test, md, results, landed, exit, pc, idx>>
      /\ UNCHANGED <<csrValues, csrs, baseline, actual, verdict, outcome, cta, finished, leftover>>
      /\ UNCHANGED <<mem, running, others, stored, late, aligned, faults>>
  BY DEF kernelVars, sweepVars, testVars, ctaVars, chipVars, runVars, sockVars
<1>2. Vector' = Vector /\ Expected' = Expected /\ Calmer
  BY <1>1, SameTest, StaysCalm
<1>3. FlowInv' /\ CtaInv'
  <2>1. ChipTypes'
    BY <1>1, InvTypes, ChipTypesKept
  <2> QED BY <1>1, <1>2, <2>1 DEF KernelInv, FlowInv, KernelTypeOK, CtaInv, Calmer
<1>4. AnswerInv' /\ ImageInv' /\ SlotInv'
  <2>1. SomethingToDo' <=> SomethingToDo
    BY DEF SomethingToDo
  <2>2. AnswerInv'
    BY <1>1, <2>1 DEF KernelInv, AnswerInv
  <2> QED BY <1>1, <1>2, <2>2, ImageKept, SlotKept DEF KernelInv, OwnCta
<1>5. ListInv' /\ OverrideInv' /\ PassMeansStored'
  BY <1>1, <1>2 DEF KernelInv, ListInv, LengthInv, ValueInv, OverrideInv, PassMeansStored, Calmer
<1>6. VerdictInv'
  BY <1>1 DEF KernelInv, VerdictInv, Touched, EchoTells, DiagnosisIsTrue, Undisturbed,
              ReportShowsEveryFailure
<1> QED BY <1>3, <1>4, <1>5, <1>6 DEF KernelInv

LEMMA InitHolds ==
  ASSUME KernelInit
  PROVE  KernelInv
<1>1. /\ test = 0 /\ md = "none" /\ idx = 1 /\ pc \in {"connect", "next"}
      /\ csrValues = <<>> /\ baseline = <<>> /\ actual = <<>> /\ verdict = NoVerdict
      /\ cta = 0 /\ finished = {} /\ outcome = "idle" /\ late = <<>> /\ running = 0 /\ stored = {}
      /\ others = {} /\ aligned = TRUE
      /\ results = <<>> /\ landed = <<>> /\ exit = "none" /\ faults = 0
      /\ backend \in Backends /\ sweep \in Sweeps
  BY DEF KernelInit, Cta!ServiceInit
<1>2. mem \in Memory
  <2>1. PICK g \in Garbage : mem = [meta |-> [w \in Words |-> g], bs |-> [w \in Words |-> g],
                                    data |-> [a \in DataAddrs |-> g]]
    BY DEF KernelInit
  <2>2. g \in Nat
    BY SweepAssumption
  <2> QED BY <2>1, <2>2 DEF Memory
<1>3. KernelTypeOK
  <2>1. Len(sweep) \in Nat /\ MaxFaults \in Nat
    BY <1>1, SweepAssumption
  <2> QED BY <1>1, <2>1 DEF KernelTypeOK, Stages
<1>4. pc \notin InTest /\ pc \notin Seeded /\ pc \notin HasMeta /\ pc \notin HasBs
  BY <1>1 DEF InTest, Seeded, HasMeta, HasBs
<1>5. FlowInv
  BY <1>1, <1>2, <1>3, <1>4 DEF FlowInv, ChipTypes
<1>6. CtaInv /\ AnswerInv /\ ImageInv /\ SlotInv /\ ListInv /\ OverrideInv /\ PassMeansStored
  BY <1>1, <1>4 DEF CtaInv, AnswerInv, ImageInv, OwnCta, SlotInv, ListInv, LengthInv, ValueInv,
                    OverrideInv, PassMeansStored, Seeded
<1>7. VerdictInv
  BY <1>1 DEF VerdictInv, NoVerdict, DiagnosisIsTrue, ReportShowsEveryFailure
<1> QED BY <1>5, <1>6, <1>7 DEF KernelInv

LEMMA NextKeeps ==
  ASSUME KernelInv, [KernelNext]_kernelVars
  PROVE  KernelInv'
<1>1. CASE Main
  <2>1. CASE Connect \/ BeginTest \/ Summarize
    BY <2>1, ConnectKeeps, BeginTestKeeps, SummarizeKeeps
  <2>2. CASE ResetWrite \/ ResetPoll
    BY <2>2, ResetWriteKeeps, ResetPollKeeps
  <2>3. CASE Preloads
    BY <2>3, PreloadMetaKeeps, PreloadBsKeeps, PreloadEchoKeeps, ReadBaselineKeeps,
       BaselineDoneKeeps DEF Preloads
  <2>4. CASE Launch \/ Wait \/ CtasDone
    BY <2>4, LaunchKeeps, WaitKeeps, CtasDoneKeeps
  <2>5. CASE DumpHangState \/ ReadBack \/ Verify
    BY <2>5, DumpHangStateKeeps, ReadBackKeeps, VerifyKeeps
  <2>6. CASE MockCompletes
    BY <2>6, ChipCompletesKeeps DEF MockCompletes
  <2> QED BY <1>1, <2>1, <2>2, <2>3, <2>4, <2>5, <2>6 DEF Main
<1>2. CASE Faults
  BY <1>2, TransferFailsKeeps, SocketTimeoutKeeps DEF Faults
<1>3. CASE Chip
  BY <1>3, ChipStoresKeeps, ChipCompletesKeeps, OtherStoresKeeps, OtherCompletesKeeps,
     LatePulseKeeps DEF Chip
<1>4. CASE Done \/ UNCHANGED kernelVars
  BY <1>4, StutterKeeps DEF Done
<1> QED BY <1>1, <1>2, <1>3, <1>4 DEF KernelNext

(* The inductive invariant, and with it the types, holds in every state.   *)
THEOREM KernelInvHolds == KernelSpec => [](KernelInv /\ KernelTypeOK)
<1>1. KernelInv => KernelTypeOK
  BY DEF KernelInv, FlowInv
<1> QED BY <1>1, InitHolds, NextKeeps, PTL DEF KernelSpec

(* A test that passes on a board or in the co-simulation has had each of   *)
(* its writes stored by its own CTAs (run_test, with check of verifier.py  *)
(* and the baseline of read_back_writes).                                  *)
THEOREM PassedWasStored == KernelSpec => []PassMeansStored
<1>1. KernelInv => PassMeansStored
  BY DEF KernelInv
<1> QED BY <1>1, KernelInvHolds, PTL

(* No CTA runs on images other than those of its test's files: each word   *)
(* of a region is what the last entry that covers it has there             *)
(* (preload_meta, preload_bs, _verify_region).                             *)
THEOREM ImagesAreTheFiles == KernelSpec => []RunsOnItsImages
<1>1. ASSUME KernelInv PROVE RunsOnItsImages
  <2> SUFFICES ASSUME aligned, running # 0, running = test
               PROVE  /\ \A w \in DOMAIN MetaImage :
                            mem.meta[w] = FileWord(Vector.meta, LineWords, w)
                      /\ \A w \in DOMAIN BsImage : mem.bs[w] = FileWord(Vector.bs, 1, w)
    BY DEF RunsOnItsImages
  <2>1. Verified(mem.meta, MetaImage) /\ Verified(mem.bs, BsImage)
    BY <1>1 DEF KernelInv, ImageInv, OwnCta
  <2>2. /\ \A w \in DOMAIN MetaImage : MetaImage[w] = FileWord(Vector.meta, LineWords, w)
        /\ \A w \in DOMAIN BsImage : BsImage[w] = FileWord(Vector.bs, 1, w)
    BY <1>1, ImageTypes DEF KernelInv
  <2> QED BY <2>1, <2>2 DEF Verified
<1> QED BY <1>1, KernelInvHolds, PTL

(* What the diagnosis says of a slot is true, if a slot can tell           *)
(* (_classify_writes).                                                     *)
THEOREM DiagnosisHolds == ASSUME EchoTells PROVE KernelSpec => []DiagnosisIsTrue
<1>1. KernelInv => DiagnosisIsTrue
  BY DEF KernelInv, VerdictInv
<1> QED BY <1>1, KernelInvHolds, PTL

(* The report marks a row of an address exactly if a write of it failed    *)
(* (check, _format_report).                                                *)
THEOREM ReportIsComplete == KernelSpec => []ReportShowsEveryFailure
<1>1. KernelInv => ReportShowsEveryFailure
  BY DEF KernelInv, VerdictInv
<1> QED BY <1>1, KernelInvHolds, PTL

(* A CTA without an override of its own has the kernel's values            *)
(* (effective_csrs, load_runtime_json).                                    *)
THEOREM OverridesStayWithTheirCta == KernelSpec => []OverridesDoNotLeak
<1>1. ASSUME KernelInv PROVE OverridesDoNotLeak
  <2> DEFINE json == Vector.json
             overrides == json.overrides
             c == idx - 1
             perCta == PerCtaOverrides(json)
             at == {i \in DOMAIN overrides : overrides[i].x = c}
  <2> SUFFICES ASSUME pc = "wait", NEW k \in DOMAIN csrs, csrs[k] # json.csr[k]
               PROVE  \E i \in DOMAIN overrides :
                        overrides[i].x = c /\ k \in DOMAIN overrides[i].vals
                        /\ overrides[i].vals[k] = csrs[k]
    BY DEF OverridesDoNotLeak
  <2>1. csrs = EffectiveCsrs(json.csr, perCta, c)
    BY <1>1 DEF KernelInv, OverrideInv
  <2>2. c \in DOMAIN perCta /\ k \in DOMAIN perCta[c] /\ csrs[k] = perCta[c][k]
    <3> HIDE DEF perCta, json, c
    <3> QED BY <2>1 DEF EffectiveCsrs
  <2>3. at # {} /\ perCta[c] = overrides[Max(at)].vals
    <3>1. c \in DOMAIN perCta => perCta[c] = IF at = {} THEN <<>> ELSE overrides[Max(at)].vals
      <4> DEFINE all(x) == {i \in DOMAIN overrides : overrides[i].x = x}
                 xs == {overrides[i].x : i \in DOMAIN overrides}
                 value(x) == IF all(x) = {} THEN <<>> ELSE overrides[Max(all(x))].vals
      <4>1. perCta = IF xs = {} THEN <<>> ELSE [x \in 0..Max(xs) |-> value(x)]
        BY DEF PerCtaOverrides
      <4>2. DOMAIN <<>> = {}
        OBVIOUS
      <4>3. value(c) = IF at = {} THEN <<>> ELSE overrides[Max(at)].vals
        OBVIOUS
      <4> HIDE DEF perCta, xs, value
      <4>4. c \in DOMAIN perCta => perCta[c] = value(c)
        BY <4>1, <4>2
      <4> QED BY <4>3, <4>4
    <3>2. k \notin DOMAIN <<>>
      OBVIOUS
    <3> HIDE DEF perCta, at, c
    <3> QED BY <2>2, <3>1, <3>2
  <2>4. Max(at) \in at
    <3>1. overrides \in Seq(Range(overrides))
      <4>1. Vector \in Vectors
        BY <1>1, InvTypes, VectorTypes DEF KernelInv, InTest, Stages
      <4> QED BY <4>1, VectorAssumption
    <3> HIDE DEF overrides
    <3>2. at \subseteq 1..Len(overrides) /\ Len(overrides) \in Nat
      BY <3>1
    <3> HIDE DEF at
    <3> QED BY <2>3, <3>2, LastIndex
  <2> HIDE DEF perCta, c
  <2>5. Max(at) \in DOMAIN overrides /\ overrides[Max(at)].x = c
    BY <2>4
  <2> QED BY <2>2, <2>3, <2>5
<1> QED BY <1>1, KernelInvHolds, PTL

(* A step that ends a test as passed is the verdict, or the mock's.        *)
LEMMA PassComesFromVerdict ==
  ASSUME KernelInv, [KernelNext]_kernelVars
  PROVE  \/ results' = results
         \/ results' = Append(results, FALSE)
         \/ Verify
         \/ backend = "mock"
<1>1. Exception => results' = Append(results, FALSE)
  BY DEF Exception, EndTest
<1>2. UNCHANGED sweepVars => results' = results
  BY DEF sweepVars
<1>3. CASE Main
  <2>1. CASE Connect \/ Summarize \/ Launch \/ ResetWrite \/ BaselineDone
    BY <1>2, <2>1 DEF Connect, Summarize, Launch, ResetWrite, BaselineDone
  <2>2. CASE BeginTest
    BY <2>2, Zenon DEF BeginTest, OpenHandle
  <2>3. CASE ResetPoll \/ Wait \/ DumpHangState
    BY <1>1, <1>2, <2>3 DEF ResetPoll, ResetEnds, Wait, WaitReturns, DumpHangState
  <2>4. CASE PreloadMeta \/ PreloadBs \/ PreloadEcho
    <3>1. ASSUME NEW r, NEW image, NEW next, Preload(r, image, next)
          PROVE  Exception \/ UNCHANGED sweepVars
      BY <3>1, Zenon DEF Preload
    <3> QED BY <1>1, <1>2, <2>4, <3>1 DEF PreloadMeta, PreloadBs, PreloadEcho
  <2>5. CASE ReadBaseline \/ ReadBack
    <3>1. Exception \/ UNCHANGED <<sweepVars, pc>>
      BY <2>5, Zenon DEF ReadBaseline, ReadBack, ReadSlot
    <3> QED BY <1>1, <1>2, <3>1
  <2>6. CASE CtasDone
    BY <1>2, <2>6 DEF CtasDone
  <2>7. CASE Verify
    BY <2>7
  <2>8. CASE MockCompletes
    BY <2>8 DEF MockCompletes
  <2> QED BY <1>3, <2>1, <2>2, <2>3, <2>4, <2>5, <2>6, <2>7, <2>8 DEF Main, Preloads
<1>4. CASE Faults
  BY <1>1, <1>2, <1>4 DEF Faults, TransferFails, SocketTimeout
<1>5. CASE Chip
  BY <1>2, <1>5 DEF Chip, ChipStores, ChipCompletes, OtherStores, OtherCompletes, LatePulse,
                    StoresFor
<1>6. CASE Done \/ UNCHANGED kernelVars
  BY <1>2, <1>6 DEF Done, kernelVars
<1> QED BY <1>3, <1>4, <1>5, <1>6 DEF KernelNext

(* Once an answer is late no test passes any more (SIM of cosim.py has no  *)
(* request numbers, see CosimChannel).                                     *)
THEOREM LateAnswersNeverPass == ASSUME SomethingToDo PROVE KernelSpec => NoPassOutOfStep
<1>1. ASSUME KernelInv, [KernelNext]_kernelVars, Len(results') > Len(results), late # <<>>, aligned
      PROVE  ~results'[Len(results')]
  <2>1. results \in Seq(BOOLEAN) /\ Len(results) \in Nat
    BY <1>1 DEF KernelInv, FlowInv
  <2>2. backend # "mock"
    BY <1>1, InvTypes
  <2>3. results' # results
    BY <1>1, <2>1
  <2>4. ASSUME NEW ok \in BOOLEAN, ok = FALSE, results' = Append(results, ok)
        PROVE  ~results'[Len(results')]
    <3>1. Append(results, ok)[Len(results) + 1] = ok /\ Len(Append(results, ok)) = Len(results) + 1
      BY <2>1, AppendAt
    <3>2. results'[Len(results')] = ok
      BY <2>4, <3>1, Zenon
    <3> QED BY <2>4, <3>2
  <2>5. CASE Verify
    <3> DEFINE ok == pc = "readBack" /\ Check(ActualWrites, Expected).ok
    <3>1. ok \in BOOLEAN /\ results' = Append(results, ok)
      BY <2>5 DEF Verify, EndTest
    <3>2. ok => late = <<>>
      BY <1>1 DEF KernelInv, AnswerInv
    <3> HIDE DEF ok
    <3>3. ok = FALSE
      BY <1>1, <3>1, <3>2
    <3> QED BY <2>4, <3>1, <3>3
  <2>6. CASE results' = Append(results, FALSE)
    <3>1. FALSE \in BOOLEAN
      OBVIOUS
    <3> QED BY <2>4, <2>6, <3>1, Zenon
  <2> QED BY <1>1, <2>2, <2>3, <2>5, <2>6, PassComesFromVerdict
<1>2. KernelInv /\ [KernelNext]_kernelVars =>
        [Len(results') > Len(results) /\ late # <<>> /\ aligned
           => ~results'[Len(results')]]_kernelVars
  BY <1>1
<1> QED BY <1>2, KernelInvHolds, PTL DEF KernelSpec, NoPassOutOfStep
=============================================================================
