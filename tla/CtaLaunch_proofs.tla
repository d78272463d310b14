-------------------------- MODULE CtaLaunch_proofs --------------------------
(***************************************************************************)
(* Theorems about CtaLaunch for every number of launch registers, CTAs and *)
(* lost writes: its types, what a wait that returns says, what the chip    *)
(* runs, and that the driver implements CtaService.                        *)
(***************************************************************************)
EXTENDS CtaLaunch, SequenceTheorems, TLAPS

-----------------------------------------------------------------------------
(* The inductive invariant.                                                *)

InWait    == pc \in {"drop", "dropLate", "rise", "riseLate"}
InProgram == pc \in {"program", "verify", "pulse"}

(* Where the driver is decides what its caller sees.                       *)
DriverInv ==
  /\ InProgram \/ InWait => outcome = "pending" /\ cta # 0
  /\ pc = "idle" => outcome \in {"idle", "done"}
  /\ pc \in {"failed", "reset"} => outcome = "failed"
  /\ backend = "mock" => /\ link = <<>> /\ running = {} /\ leftover = {}
                         /\ rstBit = 0 /\ pc # "reset"
  /\ backend = "cosim" => pc # "verify"

(* Each START is of a CTA launched before, in the order of the launches;   *)
(* what has run or runs came before those under way.                       *)
NumberInv ==
  /\ \A i \in 1..Len(link) : link[i].reg = Start =>
       /\ link[i].val \in 1..cta /\ (InProgram => link[i].val # cta)
       /\ \A j \in 1..Len(link) : i < j /\ link[j].reg = Start => link[i].val < link[j].val
       /\ \A c \in running \cup finished : c < link[i].val
  /\ running \subseteq 1..cta /\ finished \subseteq 1..cta
  /\ InProgram => cta \notin running \cup finished
  /\ running \cap finished = {}

(* CTAs that may still complete.                                           *)
Unstopped == running \cup StartsUnderWay

(* A CTA that the last reset should have stopped has completed.            *)
Spoiled == leftover \cap finished # {}

(* As long as none has, only the CTA launched last can complete the wait.  *)
LeftInv ==
  /\ ~Spoiled =>
       /\ pc = "idle" \/ InProgram => Unstopped \subseteq leftover
       /\ InWait => Unstopped \subseteq leftover \cup {cta}
       /\ outcome = "done" => cta \in finished
       /\ pc \in {"rise", "riseLate"} /\ complete => cta \in finished
  /\ pc = "reset" /\ link # <<>> => link[Len(link)].reg = SoftReset
  /\ pc = "reset" /\ link = <<>> /\ rstBit = 0 => resetLost \/ running = {}

(* What is under way in a launch that began after the reset was over: the  *)
(* CTA's own registers, then its START, then later resets.                 *)
LinkInv ==
  ~early =>
    /\ \A i \in 1..Len(link) :
         /\ link[i].reg \in Regs => link[i].val = Want(cta, link[i].reg)
         /\ link[i].reg \notin Regs =>
              \A j \in 1..Len(link) : i < j => link[j].reg = SoftReset
         /\ InProgram => link[i].reg # Start
         /\ InProgram \/ InWait => link[i].reg # SoftReset
         /\ rstBit = 1 \/ cta \in running => link[i].reg = SoftReset
    /\ InProgram \/ InWait => rstBit = 0

(* A register is right, or its write is under way, once it has been        *)
(* written; after the read-back on hardware it is right or the driver has  *)
(* warned.                                                                 *)
Settled(r) == csr[r] = Want(cta, r) \/ \E i \in 1..Len(link) : link[i].reg = r

ToStart == pc = "pulse" \/ \E i \in 1..Len(link) : link[i].reg = Start

RegsInv ==
  /\ ~early =>
       /\ backend = "cosim" /\ pc = "program" => \A r \in 1..(reg - 1) : Settled(r)
       /\ backend = "cosim" /\ ToStart => \A r \in Regs : Settled(r)
       /\ backend = "hw" /\ ToStart =>
            /\ Mismatch(cta) => warned
            /\ \A i \in 1..Len(link) : link[i].reg \notin Regs
  /\ NoSilentGarbageStart

LaunchInv == LaunchTypeOK /\ DriverInv /\ NumberInv /\ LeftInv /\ LinkInv /\ RegsInv

-----------------------------------------------------------------------------
(* What a posted write is, and what Append and Tail leave of a sequence.   *)

LEMMA Bounds == /\ MaxCta \in Nat /\ MaxDrops \in Nat /\ NRegs \in Nat \ {0}
                /\ Backends \subseteq {"hw", "cosim", "mock"}
BY LaunchAssumption

LEMMA Registers == Start \notin Regs /\ SoftReset \notin Regs /\ Start # SoftReset
BY Bounds DEF Start, SoftReset, Regs

LEMMA WriteType ==
  ASSUME NEW r \in Regs \cup {Start, SoftReset}, NEW v \in Nat
  PROVE  Write(r, v) \in Writes /\ Write(r, v).reg = r /\ Write(r, v).val = v
BY DEF Write, Writes

LEMMA WantType == \A c \in Nat, r \in Regs : Want(c, r) \in Nat
BY DEF Want

LEMMA AppendFacts ==
  ASSUME NEW S, NEW s \in Seq(S), NEW e \in S
  PROVE  /\ Append(s, e) \in Seq(S)
         /\ Len(Append(s, e)) = Len(s) + 1
         /\ \A i \in 1..Len(s) : Append(s, e)[i] = s[i]
         /\ Append(s, e)[Len(s) + 1] = e
         /\ Len(s) \in Nat
OBVIOUS

LEMMA TailFacts ==
  ASSUME NEW S, NEW s \in Seq(S), s # <<>>
  PROVE  /\ Tail(s) \in Seq(S)
         /\ Len(Tail(s)) = Len(s) - 1
         /\ \A i \in 1..Len(Tail(s)) : i + 1 \in 1..Len(s) /\ Tail(s)[i] = s[i + 1]
         /\ Head(s) = s[1] /\ Head(s) \in S
         /\ Len(s) \in Nat \ {0}
         /\ Len(s) = 1 <=> Tail(s) = <<>>
<1>1. Tail(s) \in Seq(S) /\ Head(s) \in S /\ Len(Tail(s)) = Len(s) - 1
  BY HeadTailProperties
<1>2. \A i \in 1..Len(Tail(s)) : Tail(s)[i] = s[i + 1]
  BY HeadTailProperties
<1>3. Len(s) \in Nat \ {0} /\ (Tail(s) # <<>> => Len(Tail(s)) \in Nat \ {0})
  BY <1>1, EmptySeq
<1>4. Head(s) = s[1]
  OBVIOUS
<1>5. Tail(s) = <<>> => Len(s) = 1
  <2>1. Tail(s) = <<>> => Len(Tail(s)) = 0
    BY <1>1, EmptySeq
  <2> QED BY <1>1, <1>3, <2>1
<1>6. \A i \in 1..Len(Tail(s)) : i + 1 \in 1..Len(s)
  BY <1>1, <1>3
<1> QED BY <1>1, <1>2, <1>3, <1>4, <1>5, <1>6

LEMMA Types ==
  ASSUME LaunchTypeOK
  PROVE  /\ cta \in Nat /\ reg \in Regs /\ link \in Seq(Writes)
         /\ Len(link) \in Nat /\ DOMAIN link = 1..Len(link)
         /\ \A i \in 1..Len(link) : link[i] \in Writes
         /\ backend \in {"hw", "cosim", "mock"}
<1>1. cta \in 0..MaxCta /\ reg \in Regs /\ link \in Seq(Writes) /\ backend \in Backends
  BY DEF LaunchTypeOK, DriverTypeOK, LinkTypeOK
<1>2. cta \in Nat /\ backend \in {"hw", "cosim", "mock"}
  BY <1>1, Bounds
<1>3. /\ Len(link) \in Nat /\ DOMAIN link = 1..Len(link)
      /\ \A i \in 1..Len(link) : link[i] \in Writes
  BY <1>1
<1> QED BY <1>1, <1>2, <1>3

(* A write behind the others, and the first one taken off.                 *)
LEMMA Appended ==
  ASSUME LaunchTypeOK, NEW w \in Writes, link' = Append(link, w)
  PROVE  /\ link' \in Seq(Writes) /\ Len(link) \in Nat
         /\ Len(link') = Len(link) + 1 /\ link' # <<>>
         /\ \A i \in 1..Len(link) : link'[i] = link[i]
         /\ link'[Len(link')] = w
         /\ \A i \in 1..Len(link') : i \in 1..Len(link) \/ i = Len(link')
         /\ StartsUnderWay' = StartsUnderWay \cup (IF w.reg = Start THEN {w.val} ELSE {})
<1>1. /\ link' \in Seq(Writes) /\ Len(link) \in Nat /\ Len(link') = Len(link) + 1
      /\ \A i \in 1..Len(link) : link'[i] = link[i]
      /\ link'[Len(link')] = w
  BY Types, AppendFacts
<1>2. \A i \in 1..Len(link') : i \in 1..Len(link) \/ i = Len(link')
  BY <1>1
<1>3. \A i \in 1..Len(link) : i \in 1..Len(link')
  BY <1>1
<1>4. Len(link') \in 1..Len(link') /\ link' # <<>>
  BY <1>1
<1>5. DOMAIN link = 1..Len(link) /\ DOMAIN link' = 1..Len(link')
  BY <1>1, Types
<1>6. ASSUME NEW c \in StartsUnderWay'
      PROVE  c \in StartsUnderWay \/ (w.reg = Start /\ c = w.val)
  <2>1. PICK i \in 1..Len(link') : link'[i].reg = Start /\ link'[i].val = c
    BY <1>5, <1>6 DEF StartsUnderWay
  <2>2. CASE i \in 1..Len(link)
    BY <2>1, <2>2, <1>1, <1>5 DEF StartsUnderWay
  <2>3. CASE i = Len(link')
    BY <2>1, <2>3, <1>1
  <2> QED BY <2>2, <2>3, <1>2
<1>7. ASSUME NEW c \in StartsUnderWay
      PROVE  c \in StartsUnderWay'
  <2>1. PICK i \in 1..Len(link) : link[i].reg = Start /\ link[i].val = c
    BY <1>5, <1>7 DEF StartsUnderWay
  <2> QED BY <2>1, <1>1, <1>3, <1>5 DEF StartsUnderWay
<1>8. w.reg = Start => w.val \in StartsUnderWay'
  BY <1>1, <1>4, <1>5 DEF StartsUnderWay
<1> QED BY <1>1, <1>2, <1>4, <1>6, <1>7, <1>8

LEMMA Taken ==
  ASSUME LaunchTypeOK, link # <<>>, link' = Tail(link)
  PROVE  /\ link' \in Seq(Writes) /\ Len(link) \in Nat \ {0} /\ Len(link') = Len(link) - 1
         /\ \A i \in 1..Len(link') : i + 1 \in 1..Len(link) /\ link'[i] = link[i + 1]
         /\ Head(link) = link[1] /\ Head(link) \in Writes /\ 1 \in 1..Len(link)
         /\ Head(link).reg \in Regs \cup {Start, SoftReset} /\ Head(link).val \in Nat
         /\ \A i \in 1..Len(link) : i = 1 \/ (i - 1 \in 1..Len(link') /\ link'[i - 1] = link[i])
         /\ Len(link) = 1 <=> link' = <<>>
         /\ StartsUnderWay' \subseteq StartsUnderWay
         /\ Head(link).reg = Start => Head(link).val \in StartsUnderWay
<1>1. /\ link' \in Seq(Writes) /\ Len(link) \in Nat \ {0} /\ Len(link') = Len(link) - 1
      /\ \A i \in 1..Len(link') : i + 1 \in 1..Len(link) /\ link'[i] = link[i + 1]
      /\ Head(link) = link[1] /\ Head(link) \in Writes
      /\ Len(link) = 1 <=> link' = <<>>
  BY Types, TailFacts
<1>2. 1 \in 1..Len(link)
  BY <1>1
<1>3. Head(link).reg \in Regs \cup {Start, SoftReset} /\ Head(link).val \in Nat
  BY <1>1 DEF Writes
<1>4. \A i \in 1..Len(link) : i = 1 \/ (i - 1 \in 1..Len(link') /\ (i - 1) + 1 = i)
  BY <1>1
<1>5. \A i \in 1..Len(link) : i = 1 \/ (i - 1 \in 1..Len(link') /\ link'[i - 1] = link[i])
  <2> SUFFICES ASSUME NEW i \in 1..Len(link), i # 1
               PROVE  i - 1 \in 1..Len(link') /\ link'[i - 1] = link[i]
    OBVIOUS
  <2>1. i - 1 \in 1..Len(link') /\ (i - 1) + 1 = i
    BY <1>4
  <2> QED BY <2>1, <1>1
<1>6. DOMAIN link = 1..Len(link) /\ DOMAIN link' = 1..Len(link')
  BY <1>1, Types
<1>7. StartsUnderWay' \subseteq StartsUnderWay
  BY <1>1, <1>6 DEF StartsUnderWay
<1>8. Head(link).reg = Start => Head(link).val \in StartsUnderWay
  BY <1>1, <1>2, <1>6 DEF StartsUnderWay
<1> QED BY <1>1, <1>2, <1>3, <1>5, <1>7, <1>8

(* The CTAs under way are those of the STARTs on the link.                 *)
LEMMA StartsAt ==
  ASSUME LaunchTypeOK
  PROVE  /\ \A i \in 1..Len(link) : link[i].reg = Start => link[i].val \in StartsUnderWay
         /\ \A c \in StartsUnderWay : \E i \in 1..Len(link) : link[i].reg = Start /\ link[i].val = c
         /\ link = <<>> => StartsUnderWay = {}
BY Types DEF StartsUnderWay

LEMMA StartsNumbered ==
  ASSUME LaunchTypeOK, NumberInv
  PROVE  /\ StartsUnderWay \subseteq 1..cta
         /\ \A c \in StartsUnderWay : c \notin running \cup finished
         /\ InProgram => cta \notin StartsUnderWay
<1> SUFFICES ASSUME NEW c \in StartsUnderWay
             PROVE  c \in 1..cta /\ c \notin running \cup finished /\ (InProgram => c # cta)
  OBVIOUS
<1>1. PICK i \in 1..Len(link) : link[i].reg = Start /\ link[i].val = c
  BY StartsAt
<1>2. c \in 1..cta /\ (InProgram => c # cta) /\ \A d \in running \cup finished : d < c
  BY <1>1 DEF NumberInv
<1> QED BY <1>2, Types

-----------------------------------------------------------------------------
(* Every step keeps the types.  START carries the number of a CTA already  *)
(* launched, so what the chip runs is one.                                 *)

LEMMA InitTypes == LaunchInit => LaunchTypeOK
<1> SUFFICES ASSUME LaunchInit PROVE LaunchTypeOK
  OBVIOUS
<1>1. cta \in 0..MaxCta /\ reg \in Regs
  BY Bounds DEF LaunchInit, Regs
<1>2. DriverTypeOK
  BY <1>1 DEF LaunchInit, DriverTypeOK
<1>3. /\ csr \in [Regs -> Nat] /\ finished \subseteq 1..MaxCta
      /\ running \subseteq 1..MaxCta /\ taken \in 0..MaxCta
      /\ leftover \subseteq 1..MaxCta
  BY Bounds DEF LaunchInit
<1>4. ChipTypeOK
  BY <1>3 DEF LaunchInit, ChipTypeOK
<1>5. LinkTypeOK
  BY EmptySeq, Bounds DEF LaunchInit, LinkTypeOK
<1> QED BY <1>2, <1>4, <1>5 DEF LaunchTypeOK

LEMMA UpToCta == LaunchTypeOK => \A c \in 1..cta : c \in 1..MaxCta /\ c \in 0..MaxCta
<1> SUFFICES ASSUME LaunchTypeOK, NEW c \in 1..cta
             PROVE  c \in 1..MaxCta /\ c \in 0..MaxCta
  OBVIOUS
<1>1. cta \in 0..MaxCta
  BY DEF LaunchTypeOK, DriverTypeOK
<1> QED BY <1>1, Bounds

LEMMA NextTypes ==
  LaunchTypeOK /\ DriverInv /\ NumberInv /\ LaunchNext => LaunchTypeOK'
<1> SUFFICES ASSUME LaunchTypeOK, DriverInv, NumberInv, LaunchNext PROVE LaunchTypeOK'
  OBVIOUS
<1>0. StartsUnderWay \subseteq 1..MaxCta /\ running \subseteq 1..MaxCta
  BY StartsNumbered, UpToCta DEF NumberInv
<1> USE DEF LaunchTypeOK, histVars
<1>1. CASE LaunchCta
  <2>1. cta' \in 0..MaxCta /\ reg' \in Regs
    <3>1. cta \in 0..MaxCta /\ cta < MaxCta /\ cta' = cta + 1 /\ reg' = 1
      BY <1>1 DEF LaunchCta, DriverTypeOK
    <3> QED BY <3>1, Bounds DEF Regs
  <2>2. DriverTypeOK'
    BY <1>1, <2>1 DEF LaunchCta, DriverTypeOK
  <2>3. ChipTypeOK' /\ LinkTypeOK'
    BY <1>1 DEF LaunchCta, ChipTypeOK, LinkTypeOK, chipVars
  <2> QED BY <2>2, <2>3
<1>2. CASE ProgramCsr
  <2>1. reg' \in Regs
    <3>1. reg \in Regs /\ (reg' = 1 \/ (reg < NRegs /\ reg' = reg + 1))
      BY <1>2 DEF ProgramCsr, DriverTypeOK
    <3> QED BY <3>1, Bounds DEF Regs
  <2>2. DriverTypeOK'
    BY <1>2, <2>1 DEF ProgramCsr, DriverTypeOK
  <2>3. Want(cta, reg) \in Nat /\ Write(reg, Want(cta, reg)) \in Writes
    BY Types, WantType, WriteType
  <2>4. Append(link, Write(reg, Want(cta, reg))) \in Seq(Writes)
    BY <2>3, Types, AppendFacts
  <2>5. LinkTypeOK'
    BY <1>2, <2>4 DEF ProgramCsr, LinkTypeOK
  <2>6. csr' \in [Regs -> Nat]
    BY <1>2, <2>3 DEF ProgramCsr, ChipTypeOK
  <2>7. ChipTypeOK'
    BY <1>2, <2>6 DEF ProgramCsr, ChipTypeOK
  <2> QED BY <2>2, <2>5, <2>7
<1>3. CASE VerifyCsrs
  BY <1>3 DEF VerifyCsrs, DriverTypeOK, ChipTypeOK, LinkTypeOK, chipVars, Mismatch
<1>4. CASE PulseStart
  <2>1. DriverTypeOK'
    BY <1>4 DEF PulseStart, DriverTypeOK
  <2>2. Append(link, Write(Start, cta)) \in Seq(Writes)
    BY Types, WriteType, AppendFacts
  <2>3. LinkTypeOK'
    BY <1>4, <2>2 DEF PulseStart, LinkTypeOK
  <2>4. cta \in 0..MaxCta
    BY DEF DriverTypeOK
  <2>5. ChipTypeOK'
    BY <1>4, <2>4 DEF PulseStart, ChipTypeOK
  <2> QED BY <2>1, <2>3, <2>5
<1>5. CASE PollDrop
  <2>1. DriverTypeOK'
    BY <1>5 DEF PollDrop, DriverTypeOK
  <2>2. cta \in 1..MaxCta
    <3>1. cta \in 0..MaxCta /\ cta # 0
      BY <1>5 DEF PollDrop, DriverTypeOK, DriverInv, InWait
    <3> QED BY <3>1, Bounds
  <2>3. ChipTypeOK' /\ LinkTypeOK'
    BY <1>5, <2>2 DEF PollDrop, ChipTypeOK, LinkTypeOK
  <2> QED BY <2>1, <2>3
<1>6. CASE PollRise
  BY <1>6 DEF PollRise, DriverTypeOK, ChipTypeOK, LinkTypeOK, chipVars
<1>7. CASE CheckDeadline
  BY <1>7 DEF CheckDeadline, DriverTypeOK, ChipTypeOK, LinkTypeOK, chipVars
<1>8. CASE ResetPoll
  <2>1. leftover' \subseteq 1..MaxCta
    BY <1>8, <1>0 DEF ResetPoll, LeftByReset, ChipTypeOK
  <2> QED BY <1>8, <2>1 DEF ResetPoll, DriverTypeOK, ChipTypeOK, LinkTypeOK, chipVars
<1>9. CASE ResetChip
  <2>1. Append(link, Write(SoftReset, 1)) \in Seq(Writes)
    BY Types, WriteType, AppendFacts
  <2>2. LinkTypeOK'
    BY <1>9, <2>1 DEF ResetChip, LinkTypeOK
  <2> QED BY <1>9, <2>2 DEF ResetChip, DriverTypeOK, ChipTypeOK, chipVars
<1>10. CASE Expire
  BY <1>10 DEF Expire, DriverTypeOK, ChipTypeOK, LinkTypeOK, chipVars
<1>11. CASE Deliver
  <2> DEFINE w == Head(link)
  <2>1. /\ link # <<>> /\ link' = Tail(link)
        /\ UNCHANGED <<driverVars, finished, drops, resetLost, leftover, early>>
    BY <1>11 DEF Deliver
  <2>0. DriverTypeOK'
    BY <2>1 DEF DriverTypeOK, driverVars
  <2>2. link' \in Seq(Writes) /\ w.val \in Nat /\ (w.reg = Start => w.val \in 1..MaxCta)
    BY <2>1, <1>0, Taken
  <2>l. LinkTypeOK'
    BY <2>1, <2>2 DEF LinkTypeOK
  <2>f. /\ finished' \subseteq 1..MaxCta /\ leftover' \subseteq 1..MaxCta
        /\ resetLost' \in BOOLEAN /\ early' \in BOOLEAN
    BY <2>1 DEF ChipTypeOK
  <2> HIDE DEF w
  <2>3. CASE /\ w.reg = Start
             /\ running' \in IF running = {} THEN {{w.val}} ELSE SUBSET (running \cup {w.val})
             /\ complete' = FALSE /\ taken' = w.val /\ UNCHANGED <<csr, rstBit>>
    <3>1. w.val \in 0..MaxCta /\ running' \subseteq 1..MaxCta
      <4>1. running' \subseteq running \cup {w.val}
        BY <2>3
      <4>2. w.val \in 1..MaxCta
        BY <2>2, <2>3
      <4> QED BY <4>1, <4>2, <1>0, Bounds
    <3> QED BY <2>0, <2>l, <2>f, <2>3, <3>1 DEF ChipTypeOK
  <2>4. CASE rstBit' = 1 /\ UNCHANGED <<csr, complete, running, taken>>
    BY <2>0, <2>l, <2>f, <2>4 DEF ChipTypeOK
  <2>5. CASE w.reg \in Regs /\ csr' = [csr EXCEPT ![w.reg] = w.val]
             /\ UNCHANGED <<complete, running, taken, rstBit>>
    <3>1. csr' \in [Regs -> Nat]
      BY <2>2, <2>5 DEF ChipTypeOK
    <3> QED BY <2>0, <2>l, <2>f, <2>5, <3>1 DEF ChipTypeOK
  <2> QED BY <1>11, <2>3, <2>4, <2>5 DEF Deliver, w
<1>12. CASE LoseWrite
  <2>1. Tail(link) \in Seq(Writes)
    BY <1>12, Types, TailFacts DEF LoseWrite
  <2>2. drops' \in 0..MaxDrops
    <3>1. drops \in 0..MaxDrops /\ drops < MaxDrops /\ drops' = drops + 1
      BY <1>12 DEF LoseWrite, LinkTypeOK
    <3> QED BY <3>1, Bounds
  <2>3. resetLost' \in BOOLEAN
    BY <1>12 DEF LoseWrite, ChipTypeOK
  <2>4. DriverTypeOK' /\ LinkTypeOK'
    BY <1>12, <2>1, <2>2 DEF LoseWrite, DriverTypeOK, LinkTypeOK, driverVars
  <2>5. ChipTypeOK'
    BY <1>12, <2>3 DEF LoseWrite, ChipTypeOK, chipVars
  <2> QED BY <2>4, <2>5
<1>13. CASE ChipCompletes
  <2>1. running' \subseteq 1..MaxCta /\ finished' \subseteq 1..MaxCta
    BY <1>13, <1>0 DEF ChipCompletes, ChipTypeOK
  <2>2. DriverTypeOK' /\ LinkTypeOK'
    BY <1>13 DEF ChipCompletes, DriverTypeOK, LinkTypeOK, driverVars
  <2>3. ChipTypeOK'
    BY <1>13, <2>1 DEF ChipCompletes, ChipTypeOK
  <2> QED BY <2>2, <2>3
<1>14. CASE ResetPulse
  <2>1. csr' \in [Regs -> Nat] /\ running' \subseteq 1..MaxCta
    BY <1>14 DEF ResetPulse
  <2>2. DriverTypeOK' /\ LinkTypeOK'
    BY <1>14 DEF ResetPulse, DriverTypeOK, LinkTypeOK, driverVars
  <2>3. ChipTypeOK'
    BY <1>14, <2>1 DEF ResetPulse, ChipTypeOK
  <2> QED BY <2>2, <2>3
<1> QED
  BY <1>1, <1>2, <1>3, <1>4, <1>5, <1>6, <1>7, <1>8, <1>9, <1>10, <1>11, <1>12, <1>13, <1>14
  DEF LaunchNext, Driver, Poll, Chip

-----------------------------------------------------------------------------
(* Every step keeps the parts of the invariant.                            *)

LEMMA InitParts == LaunchInit => DriverInv /\ NumberInv /\ LeftInv /\ LinkInv /\ RegsInv
<1> SUFFICES ASSUME LaunchInit
             PROVE  DriverInv /\ NumberInv /\ LeftInv /\ LinkInv /\ RegsInv
  OBVIOUS
<1>1. DriverInv
  BY DEF LaunchInit, DriverInv, InProgram, InWait
<1>2. NumberInv
  BY DEF LaunchInit, NumberInv, InProgram
<1>3. LeftInv
  BY DEF LaunchInit, LeftInv, InProgram, InWait, Unstopped, StartsUnderWay
<1>4. LinkInv
  BY DEF LaunchInit, LinkInv, InProgram, InWait
<1>5. RegsInv
  BY DEF LaunchInit, RegsInv, ToStart, NoSilentGarbageStart
<1> QED BY <1>1, <1>2, <1>3, <1>4, <1>5

LEMMA NextDriver == LaunchTypeOK /\ DriverInv /\ LaunchNext => DriverInv'
<1> SUFFICES ASSUME LaunchTypeOK, DriverInv, LaunchNext PROVE DriverInv'
  OBVIOUS
<1> USE DEF DriverInv, InProgram, InWait
<1>1. CASE LaunchCta
  BY <1>1, Types DEF LaunchCta, chipVars
<1>2. CASE ProgramCsr
  BY <1>2 DEF ProgramCsr, histVars
<1>3. CASE VerifyCsrs
  BY <1>3 DEF VerifyCsrs, chipVars, histVars
<1>4. CASE PulseStart
  BY <1>4 DEF PulseStart, histVars
<1>5. CASE PollDrop
  BY <1>5 DEF PollDrop, histVars
<1>6. CASE PollRise
  BY <1>6 DEF PollRise, chipVars, histVars
<1>7. CASE CheckDeadline
  BY <1>7 DEF CheckDeadline, chipVars, histVars
<1>8. CASE ResetPoll
  BY <1>8 DEF ResetPoll, chipVars
<1>9. CASE ResetChip
  BY <1>9 DEF ResetChip, chipVars
<1>10. CASE Expire
  BY <1>10 DEF Expire, chipVars, histVars
<1>11. CASE Deliver
  BY <1>11 DEF Deliver, driverVars, histVars
<1>12. CASE LoseWrite
  BY <1>12 DEF LoseWrite, driverVars, chipVars
<1>13. CASE ChipCompletes
  BY <1>13 DEF ChipCompletes, driverVars, histVars
<1>14. CASE ResetPulse
  BY <1>14 DEF ResetPulse, driverVars, histVars
<1> QED
  BY <1>1, <1>2, <1>3, <1>4, <1>5, <1>6, <1>7, <1>8, <1>9, <1>10, <1>11, <1>12, <1>13, <1>14
  DEF LaunchNext, Driver, Poll, Chip

(* Steps that put no START on the link and start no CTA, and may take the  *)
(* first write off the link.                                               *)
LEMMA NumberKept ==
  ASSUME LaunchTypeOK, NumberInv, NEW k \in {0, 1},
         Len(link') \in Nat,
         \A i \in 1..Len(link') : link'[i].reg = Start =>
           i + k \in 1..Len(link) /\ link'[i] = link[i + k],
         running' \cup finished' \subseteq running \cup finished,
         running' \cap finished' = {},
         cta' = cta \/ cta' = cta + 1,
         InProgram' => InProgram \/ cta' = cta + 1
  PROVE  NumberInv'
<1>1. cta \in Nat /\ 1..cta \subseteq 1..cta' /\ (cta' = cta + 1 => cta' \notin 1..cta)
  BY Types
<1>2. ASSUME NEW i \in 1..Len(link'), link'[i].reg = Start
      PROVE  /\ link'[i].val \in 1..cta' /\ (InProgram' => link'[i].val # cta')
             /\ \A j \in 1..Len(link') : i < j /\ link'[j].reg = Start =>
                  link'[i].val < link'[j].val
             /\ \A c \in (running \cup finished)' : c < link'[i].val
  <2>1. i + k \in 1..Len(link) /\ link'[i] = link[i + k]
    BY <1>2
  <2>2. link'[i].val \in 1..cta /\ (InProgram => link'[i].val # cta)
        /\ \A c \in running \cup finished : c < link'[i].val
    BY <2>1, <1>2 DEF NumberInv
  <2>3. ASSUME NEW j \in 1..Len(link'), i < j, link'[j].reg = Start
        PROVE  link'[i].val < link'[j].val
    <3>1. j + k \in 1..Len(link) /\ link'[j] = link[j + k] /\ i + k < j + k
      BY <2>3
    <3> QED BY <3>1, <2>1, <1>2, <2>3 DEF NumberInv
  <2>4. InProgram' => link'[i].val # cta'
    BY <2>2, <1>1
  <2> QED BY <2>2, <2>3, <2>4, <1>1
<1>3. running' \subseteq 1..cta' /\ finished' \subseteq 1..cta'
  BY <1>1 DEF NumberInv
<1>4. InProgram' => cta' \notin (running \cup finished)'
  BY <1>1 DEF NumberInv
<1> QED BY <1>2, <1>3, <1>4 DEF NumberInv

LEMMA NumberSame ==
  ASSUME LaunchTypeOK, NumberInv, UNCHANGED <<link, running, finished>>,
         cta' = cta \/ cta' = cta + 1, InProgram' => InProgram \/ cta' = cta + 1
  PROVE  NumberInv'
<1>1. Len(link) \in Nat /\ \A i \in 1..Len(link) : i + 0 = i
  BY Types
<1>2. running \cap finished = {}
  BY DEF NumberInv
<1>3. /\ Len(link') \in Nat /\ 0 \in {0, 1}
      /\ \A i \in 1..Len(link') : link'[i].reg = Start =>
           i + 0 \in 1..Len(link) /\ link'[i] = link[i + 0]
      /\ running' \cup finished' \subseteq running \cup finished
      /\ running' \cap finished' = {}
  BY <1>1, <1>2
<1> QED BY <1>3, NumberKept

LEMMA NextNumber == LaunchTypeOK /\ DriverInv /\ NumberInv /\ LaunchNext => NumberInv'
<1> SUFFICES ASSUME LaunchTypeOK, DriverInv, NumberInv, LaunchNext PROVE NumberInv'
  OBVIOUS
<1>0. running \cap finished = {} /\ cta \in Nat
  BY Types DEF NumberInv
<1>1. CASE LaunchCta
  BY <1>1, NumberSame DEF LaunchCta, chipVars
<1>2. CASE ProgramCsr
  <2>1. CASE backend = "mock"
    BY <1>2, <2>1, NumberSame DEF ProgramCsr, InProgram
  <2>2. CASE backend # "mock"
    <3> DEFINE w == Write(reg, Want(cta, reg))
    <3>1. w \in Writes /\ w.reg # Start
      BY Types, WantType, WriteType, Registers
    <3>2. link' = Append(link, w) /\ InProgram /\ UNCHANGED <<cta, running, finished>>
      BY <1>2, <2>2 DEF ProgramCsr, InProgram
    <3> HIDE DEF w
    <3>3. /\ Len(link') = Len(link) + 1 /\ Len(link) \in Nat
          /\ \A i \in 1..Len(link) : link'[i] = link[i]
          /\ link'[Len(link')] = w
          /\ \A i \in 1..Len(link') : i \in 1..Len(link) \/ i = Len(link')
      BY <3>1, <3>2, Appended
    <3>4. \A i \in 1..Len(link') : link'[i].reg = Start =>
            i + 0 \in 1..Len(link) /\ link'[i] = link[i + 0]
      BY <3>1, <3>3
    <3>5. Len(link') \in Nat /\ 0 \in {0, 1}
      BY <3>3
    <3> QED BY <3>2, <3>4, <3>5, <1>0, NumberKept
  <2> QED BY <2>1, <2>2
<1>3. CASE VerifyCsrs
  BY <1>3, NumberSame DEF VerifyCsrs, InProgram, chipVars
<1>4. CASE PulseStart
  <2>1. CASE backend = "mock"
    BY <1>4, <2>1, NumberSame DEF PulseStart, InProgram
  <2>2. CASE backend # "mock"
    <3> DEFINE w == Write(Start, cta)
    <3>1. w \in Writes /\ w.reg = Start /\ w.val = cta
      BY Types, WriteType
    <3>2. link' = Append(link, w) /\ InProgram /\ ~InProgram'
          /\ UNCHANGED <<cta, running, finished>>
      BY <1>4, <2>2 DEF PulseStart, InProgram
    <3> HIDE DEF w
    <3>3. /\ Len(link') = Len(link) + 1 /\ Len(link) \in Nat
          /\ \A i \in 1..Len(link) : link'[i] = link[i]
          /\ link'[Len(link')] = w
          /\ \A i \in 1..Len(link') : i \in 1..Len(link) \/ i = Len(link')
      BY <3>1, <3>2, Appended
    <3>4. cta \in 1..cta
      BY <3>2, <1>0 DEF DriverInv
    <3>5. \A c \in running \cup finished : c < cta
      BY <3>2, <1>0 DEF NumberInv
    <3>6. ASSUME NEW i \in 1..Len(link'), link'[i].reg = Start
          PROVE  /\ link'[i].val \in 1..cta
                 /\ \A j \in 1..Len(link') : i < j /\ link'[j].reg = Start =>
                  link'[i].val < link'[j].val
                 /\ \A c \in running \cup finished : c < link'[i].val
      <4>1. CASE i = Len(link')
        BY <4>1, <3>1, <3>3, <3>4, <3>5
      <4>2. CASE i \in 1..Len(link)
        <5>1. link[i].val \in 1..cta /\ link[i].val # cta
              /\ \A c \in running \cup finished : c < link[i].val
          BY <4>2, <3>2, <3>3, <3>6 DEF NumberInv
        <5>2. ASSUME NEW j \in 1..Len(link'), i < j, link'[j].reg = Start
              PROVE  link'[i].val < link'[j].val
          <6>1. CASE j \in 1..Len(link)
            BY <6>1, <5>2, <4>2, <3>3, <3>6 DEF NumberInv
          <6>2. CASE j = Len(link')
            <7>1. link[i].val < cta
              BY <5>1, <1>0
            <7> QED BY <6>2, <7>1, <4>2, <3>1, <3>3
          <6> QED BY <6>1, <6>2, <3>3
        <5> QED BY <5>1, <5>2, <4>2, <3>3
      <4> QED BY <4>1, <4>2, <3>3
    <3> QED BY <3>2, <3>6 DEF NumberInv
  <2> QED BY <2>1, <2>2
<1>5. CASE PollDrop
  <2>1. CASE backend = "mock" /\ ~complete
    <3>1. /\ UNCHANGED <<cta, link, running>> /\ finished' = finished \cup {cta}
          /\ pc' = "rise" /\ cta # 0
      BY <1>5, <2>1 DEF PollDrop, DriverInv, InWait
    <3>2. link = <<>> /\ running = {} /\ finished \subseteq 1..cta /\ cta \in 1..cta
      BY <2>1, <3>1, <1>0 DEF DriverInv, NumberInv
    <3>3. ~InProgram'
      BY <3>1 DEF InProgram
    <3>4. \A i \in 1..Len(link') : FALSE
      BY <3>1, <3>2
    <3>5. running' = {} /\ finished' \subseteq 1..cta' /\ running' \cap finished' = {}
      BY <3>1, <3>2
    <3> QED BY <3>3, <3>4, <3>5 DEF NumberInv
  <2>2. CASE ~(backend = "mock" /\ ~complete)
    BY <1>5, <2>2, NumberSame DEF PollDrop, InProgram
  <2> QED BY <2>1, <2>2
<1>6. CASE PollRise
  BY <1>6, NumberSame DEF PollRise, InProgram, chipVars
<1>7. CASE CheckDeadline
  BY <1>7, NumberSame DEF CheckDeadline, InProgram, chipVars
<1>8. CASE ResetPoll
  BY <1>8, NumberSame DEF ResetPoll, InProgram, chipVars
<1>9. CASE ResetChip
  <2>1. CASE backend = "mock"
    BY <1>9, <2>1, NumberSame DEF ResetChip, InProgram, chipVars
  <2>2. CASE backend # "mock"
    <3> DEFINE w == Write(SoftReset, 1)
    <3>1. w \in Writes /\ w.reg # Start
      BY WriteType, Registers
    <3>2. link' = Append(link, w) /\ ~InProgram' /\ UNCHANGED <<cta, running, finished>>
      BY <1>9, <2>2 DEF ResetChip, InProgram, chipVars
    <3> HIDE DEF w
    <3>3. /\ Len(link') = Len(link) + 1 /\ Len(link) \in Nat
          /\ \A i \in 1..Len(link) : link'[i] = link[i]
          /\ link'[Len(link')] = w
          /\ \A i \in 1..Len(link') : i \in 1..Len(link) \/ i = Len(link')
      BY <3>1, <3>2, Appended
    <3>4. \A i \in 1..Len(link') : link'[i].reg = Start =>
            i + 0 \in 1..Len(link) /\ link'[i] = link[i + 0]
      BY <3>1, <3>3
    <3>5. Len(link') \in Nat /\ 0 \in {0, 1}
      BY <3>3
    <3> QED BY <3>2, <3>4, <3>5, <1>0, NumberKept
  <2> QED BY <2>1, <2>2
<1>10. CASE Expire
  BY <1>10, NumberSame DEF Expire, InProgram, chipVars
<1>11. CASE Deliver
  <2> DEFINE w == Head(link)
  <2>1. link # <<>> /\ link' = Tail(link) /\ UNCHANGED <<pc, cta, finished>>
    BY <1>11 DEF Deliver, driverVars
  <2>2. /\ Len(link') \in Nat
        /\ \A i \in 1..Len(link') : i + 1 \in 1..Len(link) /\ link'[i] = link[i + 1]
        /\ w = link[1] /\ 1 \in 1..Len(link)
    <3>1. /\ Len(link) \in Nat \ {0} /\ Len(link') = Len(link) - 1
          /\ \A i \in 1..Len(link') : i + 1 \in 1..Len(link) /\ link'[i] = link[i + 1]
          /\ w = link[1] /\ 1 \in 1..Len(link)
      BY <2>1, Taken
    <3> QED BY <3>1
  <2> HIDE DEF w
  <2>3. CASE running' = running
    <3>1. /\ 1 \in {0, 1} /\ cta' = cta /\ (InProgram' => InProgram)
          /\ running' \cup finished' \subseteq running \cup finished
          /\ running' \cap finished' = {}
      BY <2>1, <2>3, <1>0 DEF InProgram
    <3> QED BY <3>1, <2>2, NumberKept
  <2>4. CASE running' # running
    <3>1. w.reg = Start /\ running' \subseteq running \cup {w.val}
      BY <1>11, <2>4 DEF Deliver, w
    <3>2. /\ w.val \in 1..cta /\ (InProgram => w.val # cta)
          /\ \A c \in running \cup finished : c < w.val
      BY <2>2, <3>1 DEF NumberInv
    <3>3. w.val \notin finished
      BY <3>2, <1>0
    <3>4. \A j \in 1..Len(link) : 1 < j /\ link[j].reg = Start => w.val < link[j].val
      BY <2>2, <3>1 DEF NumberInv
    <3>5. ASSUME NEW i \in 1..Len(link'), link'[i].reg = Start
          PROVE  /\ link'[i].val \in 1..cta /\ (InProgram => link'[i].val # cta)
                 /\ \A j \in 1..Len(link') : i < j /\ link'[j].reg = Start =>
                  link'[i].val < link'[j].val
                 /\ \A c \in running' \cup finished' : c < link'[i].val
      <4>1. i + 1 \in 1..Len(link) /\ link'[i] = link[i + 1] /\ 1 < i + 1
        BY <2>2
      <4>2. /\ link'[i].val \in 1..cta /\ (InProgram => link'[i].val # cta)
            /\ \A c \in running \cup finished : c < link'[i].val
        BY <4>1, <3>5 DEF NumberInv
      <4>3. w.val < link'[i].val
        BY <4>1, <3>4, <3>5
      <4>4. ASSUME NEW j \in 1..Len(link'), i < j, link'[j].reg = Start
            PROVE  link'[i].val < link'[j].val
        <5>1. j + 1 \in 1..Len(link) /\ link'[j] = link[j + 1] /\ i + 1 < j + 1
          BY <2>2, <4>4
        <5> QED BY <5>1, <4>1, <3>5, <4>4 DEF NumberInv
      <4> QED BY <4>2, <4>3, <4>4, <3>1, <2>1
    <3>6. running' \subseteq 1..cta /\ finished' \subseteq 1..cta /\ running' \cap finished' = {}
      BY <3>1, <3>2, <3>3, <2>1, <1>0 DEF NumberInv
    <3>7. InProgram' => cta' \notin running' \cup finished'
      BY <3>1, <3>2, <2>1 DEF NumberInv, InProgram
    <3>8. InProgram' = InProgram /\ cta' = cta
      BY <2>1 DEF InProgram
    <3> QED BY <3>5, <3>6, <3>7, <3>8 DEF NumberInv
  <2> QED BY <2>3, <2>4
<1>12. CASE LoseWrite
  <2>1. link # <<>> /\ link' = Tail(link) /\ UNCHANGED <<pc, cta, running, finished>>
    BY <1>12 DEF LoseWrite, driverVars, chipVars
  <2>2. /\ Len(link) \in Nat \ {0} /\ Len(link') = Len(link) - 1
        /\ \A i \in 1..Len(link') : i + 1 \in 1..Len(link) /\ link'[i] = link[i + 1]
    BY <2>1, Taken
  <2>3. Len(link') \in Nat /\ 1 \in {0, 1} /\ cta' = cta /\ (InProgram' => InProgram)
    BY <2>1, <2>2 DEF InProgram
  <2> QED BY <2>1, <2>2, <2>3, <1>0, NumberKept
<1>13. CASE ChipCompletes
  <2>1. PICK c \in running : running' = running \ {c} /\ finished' = finished \cup {c}
    BY <1>13 DEF ChipCompletes
  <2>2. UNCHANGED <<pc, cta, link>>
    BY <1>13 DEF ChipCompletes, driverVars
  <2>3. Len(link) \in Nat /\ 0 \in {0, 1} /\ \A i \in 1..Len(link) : i + 0 = i
    BY Types
  <2>4. /\ Len(link') \in Nat
        /\ \A i \in 1..Len(link') : link'[i].reg = Start =>
             i + 0 \in 1..Len(link) /\ link'[i] = link[i + 0]
        /\ running' \cup finished' \subseteq running \cup finished
        /\ running' \cap finished' = {}
        /\ cta' = cta /\ (InProgram' => InProgram)
    BY <2>1, <2>2, <2>3, <1>0 DEF InProgram
  <2> QED BY <2>3, <2>4, NumberKept
<1>14. CASE ResetPulse
  <2>1. running' = {} /\ UNCHANGED <<pc, cta, link, finished>>
    BY <1>14 DEF ResetPulse, driverVars
  <2>2. Len(link) \in Nat /\ 0 \in {0, 1} /\ \A i \in 1..Len(link) : i + 0 = i
    BY Types
  <2>3. /\ Len(link') \in Nat
        /\ \A i \in 1..Len(link') : link'[i].reg = Start =>
             i + 0 \in 1..Len(link) /\ link'[i] = link[i + 0]
        /\ running' \cup finished' \subseteq running \cup finished
        /\ running' \cap finished' = {}
        /\ cta' = cta /\ (InProgram' => InProgram)
    BY <2>1, <2>2 DEF InProgram
  <2> QED BY <2>2, <2>3, NumberKept
<1> QED
  BY <1>1, <1>2, <1>3, <1>4, <1>5, <1>6, <1>7, <1>8, <1>9, <1>10, <1>11, <1>12, <1>13, <1>14
  DEF LaunchNext, Driver, Poll, Chip

(* A CTA that completes can only spoil the wait, and nothing but the end   *)
(* of a reset changes what it had to stop.                                 *)
LEMMA SpoiledStays ==
  ASSUME leftover' = leftover, finished \subseteq finished', ~Spoiled'
  PROVE  ~Spoiled
BY DEF Spoiled

(* Steps that start nothing, end no reset and leave the wait alone.        *)
LEMMA LeftKept ==
  ASSUME LeftInv, leftover' = leftover, finished \subseteq finished', cta' = cta,
         Unstopped' \subseteq Unstopped, outcome' = outcome, pc' = pc,
         complete' => complete, pc # "reset"
  PROVE  LeftInv'
<1>1. ~Spoiled' => ~Spoiled
  BY SpoiledStays
<1> QED BY <1>1 DEF LeftInv, InProgram, InWait

LEMMA UnstoppedSame ==
  ASSUME UNCHANGED <<running, link>>
  PROVE  Unstopped' = Unstopped
BY DEF Unstopped, StartsUnderWay

(* When a wait ends well, the CTA launched last is neither running nor     *)
(* under way any more.                                                     *)
LEMMA FinishedIsStopped ==
  ASSUME LaunchTypeOK, NumberInv, cta \in finished
  PROVE  cta \notin Unstopped
BY StartsNumbered DEF NumberInv, Unstopped

LEMMA NextLeft ==
  LaunchTypeOK /\ DriverInv /\ NumberInv /\ LeftInv /\ LaunchNext => LeftInv'
<1> SUFFICES ASSUME LaunchTypeOK, DriverInv, NumberInv, LeftInv, LaunchNext PROVE LeftInv'
  OBVIOUS
<1> USE DEF histVars
<1>1. CASE LaunchCta
  <2>1. /\ pc = "idle" /\ pc' = "program" /\ outcome' = "pending"
        /\ UNCHANGED <<running, link, leftover, finished>>
    BY <1>1 DEF LaunchCta, chipVars
  <2>2. Unstopped' = Unstopped /\ Spoiled' = Spoiled
    BY <2>1, UnstoppedSame DEF Spoiled
  <2> QED BY <2>1, <2>2 DEF LeftInv, InProgram, InWait
<1>2. CASE ProgramCsr
  <2>1. /\ pc = "program" /\ pc' \in {"program", "verify", "pulse"}
        /\ outcome = "pending" /\ outcome' = outcome
        /\ UNCHANGED <<running, leftover, finished>>
    BY <1>2 DEF ProgramCsr, DriverInv, InProgram
  <2>2. Unstopped' = Unstopped
    <3>1. CASE backend = "mock"
      BY <1>2, <3>1, UnstoppedSame DEF ProgramCsr
    <3>2. CASE backend # "mock"
      <4>1. link' = Append(link, Write(reg, Want(cta, reg)))
        BY <1>2, <3>2 DEF ProgramCsr
      <4>2. Write(reg, Want(cta, reg)) \in Writes /\ Write(reg, Want(cta, reg)).reg # Start
        BY Types, WantType, WriteType, Registers
      <4>3. StartsUnderWay' = StartsUnderWay
        BY <4>1, <4>2, Appended
      <4> QED BY <4>3, <2>1 DEF Unstopped
    <3> QED BY <3>1, <3>2
  <2>3. Spoiled' = Spoiled
    BY <2>1 DEF Spoiled
  <2> QED BY <2>1, <2>2, <2>3 DEF LeftInv, InProgram, InWait
<1>3. CASE VerifyCsrs
  <2>1. /\ pc = "verify" /\ pc' = "pulse" /\ outcome' = outcome
        /\ UNCHANGED <<running, link, leftover, finished, cta>>
    BY <1>3 DEF VerifyCsrs, chipVars
  <2>2. Unstopped' = Unstopped /\ Spoiled' = Spoiled
    BY <2>1, UnstoppedSame DEF Spoiled
  <2> QED BY <2>1, <2>2 DEF LeftInv, InProgram, InWait
<1>4. CASE PulseStart
  <2>1. /\ pc = "pulse" /\ pc' = "drop" /\ outcome = "pending" /\ outcome' = outcome
        /\ UNCHANGED <<running, leftover, finished, cta>>
    BY <1>4 DEF PulseStart, DriverInv, InProgram
  <2>2. Unstopped' \subseteq Unstopped \cup {cta}
    <3>1. CASE backend = "mock"
      BY <1>4, <3>1, UnstoppedSame DEF PulseStart
    <3>2. CASE backend # "mock"
      <4>1. link' = Append(link, Write(Start, cta))
        BY <1>4, <3>2 DEF PulseStart
      <4>2. Write(Start, cta) \in Writes /\ Write(Start, cta).val = cta
        BY Types, WriteType
      <4>3. StartsUnderWay' \subseteq StartsUnderWay \cup {cta}
        BY <4>1, <4>2, Appended
      <4> QED BY <4>3, <2>1 DEF Unstopped
    <3> QED BY <3>1, <3>2
  <2>3. Spoiled' = Spoiled
    BY <2>1 DEF Spoiled
  <2> QED BY <2>1, <2>2, <2>3 DEF LeftInv, InProgram, InWait
<1>5. CASE PollDrop
  <2>1. /\ pc = "drop" /\ outcome = "pending" /\ outcome' = outcome
        /\ UNCHANGED <<running, link, leftover, cta>> /\ finished \subseteq finished'
        /\ pc' \in {"rise", "dropLate"}
        /\ pc' = "rise" /\ complete' => cta \in finished'
    BY <1>5 DEF PollDrop, DriverInv, InWait
  <2>2. Unstopped' = Unstopped /\ (~Spoiled' => ~Spoiled)
    BY <2>1, UnstoppedSame, SpoiledStays
  <2> QED BY <2>1, <2>2 DEF LeftInv, InProgram, InWait
<1>6. CASE PollRise
  <2>1. /\ pc = "rise" /\ outcome = "pending"
        /\ UNCHANGED <<running, link, leftover, cta, finished, complete>>
        /\ \/ complete /\ pc' = "idle" /\ outcome' = "done"
           \/ pc' = "riseLate" /\ outcome' = outcome
    BY <1>6 DEF PollRise, DriverInv, InWait, chipVars
  <2>2. Unstopped' = Unstopped /\ Spoiled' = Spoiled
    BY <2>1, UnstoppedSame DEF Spoiled
  <2>3. CASE pc' = "idle"
    <3>1. ~Spoiled => cta \in finished /\ Unstopped \subseteq leftover \cup {cta}
      BY <2>1, <2>3 DEF LeftInv, InWait
    <3>2. cta \in finished => cta \notin Unstopped
      BY FinishedIsStopped
    <3> QED BY <2>1, <2>2, <2>3, <3>1, <3>2 DEF LeftInv, InProgram, InWait
  <2>4. CASE pc' = "riseLate"
    BY <2>1, <2>2, <2>4 DEF LeftInv, InProgram, InWait
  <2> QED BY <2>1, <2>3, <2>4
<1>7. CASE CheckDeadline
  <2>1. /\ outcome = "pending" /\ UNCHANGED <<running, link, leftover, cta, finished, complete>>
        /\ \/ pc' = "failed" /\ outcome' = "failed"
           \/ pc = "dropLate" /\ pc' = "drop" /\ outcome' = outcome
           \/ pc = "riseLate" /\ pc' = "rise" /\ outcome' = outcome
    BY <1>7 DEF CheckDeadline, DriverInv, InWait, chipVars
  <2>2. Unstopped' = Unstopped /\ Spoiled' = Spoiled
    BY <2>1, UnstoppedSame DEF Spoiled
  <2> QED BY <2>1, <2>2 DEF LeftInv, InProgram, InWait
<1>8. CASE ResetPoll
  <2>1. pc = "reset" /\ UNCHANGED <<running, link, cta, finished, complete, rstBit, resetLost>>
    BY <1>8 DEF ResetPoll, chipVars
  <2>2. CASE pc' = "failed"
    <3>1. outcome' = outcome /\ outcome = "failed"
      BY <1>8, <2>1, <2>2 DEF ResetPoll, DriverInv
    <3> QED BY <2>2, <3>1 DEF LeftInv, InProgram, InWait
  <2>3. CASE pc' # "failed"
    <3>1. rstBit = 0 /\ pc' = "idle" /\ outcome' = "idle" /\ leftover' = LeftByReset
      BY <1>8, <2>3 DEF ResetPoll
    <3>2. Unstopped \subseteq LeftByReset
      <4>1. CASE resetLost \/ link # <<>>
        BY <4>1 DEF LeftByReset, Unstopped
      <4>2. CASE ~resetLost /\ link = <<>>
        <5>1. running = {} /\ StartsUnderWay = {}
          BY <4>2, <2>1, <3>1, StartsAt DEF LeftInv
        <5> QED BY <5>1 DEF Unstopped
      <4> QED BY <4>1, <4>2
    <3>3. Unstopped' \subseteq leftover'
      BY <2>1, <3>1, <3>2, UnstoppedSame
    <3> QED BY <3>1, <3>3 DEF LeftInv, InProgram, InWait
  <2> QED BY <2>2, <2>3
<1>9. CASE ResetChip
  <2>1. CASE backend = "mock"
    <3>1. /\ pc' = "idle" /\ outcome' = "idle" /\ link' = <<>> /\ running' = {}
          /\ UNCHANGED <<leftover, finished>>
      BY <1>9, <2>1 DEF ResetChip, DriverInv, chipVars
    <3>2. Unstopped' = {}
      BY <3>1 DEF Unstopped, StartsUnderWay
    <3> QED BY <3>1, <3>2 DEF LeftInv, InProgram, InWait
  <2>2. CASE backend # "mock"
    <3>1. pc' = "reset" /\ outcome' = "failed" /\ link' = Append(link, Write(SoftReset, 1))
      BY <1>9, <2>2 DEF ResetChip
    <3>2. Write(SoftReset, 1) \in Writes /\ Write(SoftReset, 1).reg = SoftReset
      BY WriteType
    <3>3. link' # <<>> /\ link'[Len(link')].reg = SoftReset
      BY <3>1, <3>2, Appended
    <3> QED BY <3>1, <3>3 DEF LeftInv, InProgram, InWait
  <2> QED BY <2>1, <2>2
<1>10. CASE Expire
  <2>1. UNCHANGED <<pc, outcome, running, link, leftover, cta, finished, complete, rstBit,
                    resetLost>>
    BY <1>10 DEF Expire, chipVars
  <2>2. Unstopped' = Unstopped /\ Spoiled' = Spoiled
    BY <2>1, UnstoppedSame DEF Spoiled
  <2> QED BY <2>1, <2>2 DEF LeftInv, InProgram, InWait
<1>11. CASE Deliver
  <2> DEFINE w == Head(link)
  <2>1. /\ link # <<>> /\ link' = Tail(link)
        /\ UNCHANGED <<pc, cta, outcome, finished, resetLost, leftover>>
    BY <1>11 DEF Deliver, driverVars
  <2>2. /\ StartsUnderWay' \subseteq StartsUnderWay
        /\ w.reg = Start => w.val \in StartsUnderWay
        /\ w = link[1] /\ Len(link) \in Nat \ {0} /\ Len(link') = Len(link) - 1
        /\ \A i \in 1..Len(link') : i + 1 \in 1..Len(link) /\ link'[i] = link[i + 1]
        /\ Len(link) = 1 <=> link' = <<>>
    BY <2>1, Taken
  <2>3. /\ complete' => complete
        /\ \/ running' = running
           \/ w.reg = Start /\ running' \subseteq running \cup {w.val}
        /\ w.reg = SoftReset => rstBit' = 1
    BY <1>11, Registers DEF Deliver
  <2> HIDE DEF w
  <2>4. Unstopped' \subseteq Unstopped
    BY <2>2, <2>3 DEF Unstopped
  <2>5. CASE pc # "reset"
    BY <2>1, <2>3, <2>4, <2>5, LeftKept
  <2>6. CASE pc = "reset"
    <3>1. link[Len(link)].reg = SoftReset
      BY <2>1, <2>6 DEF LeftInv
    <3>2. link' # <<>> => link'[Len(link')].reg = SoftReset
      <4>1. link' # <<>> => Len(link') \in 1..Len(link') /\ Len(link') + 1 = Len(link)
        BY <2>2
      <4> QED BY <4>1, <3>1, <2>2
    <3>3. link' = <<>> => rstBit' = 1
      BY <3>1, <2>2, <2>3
    <3>4. outcome' = "failed" /\ pc' = "reset"
      BY <2>1, <2>6 DEF DriverInv
    <3> QED BY <3>2, <3>3, <3>4 DEF LeftInv, InProgram, InWait
  <2> QED BY <2>5, <2>6
<1>12. CASE LoseWrite
  <2>1. /\ link # <<>> /\ link' = Tail(link)
        /\ UNCHANGED <<pc, cta, outcome, running, finished, complete, rstBit, leftover>>
        /\ resetLost' = (resetLost \/ Head(link).reg = SoftReset)
    BY <1>12 DEF LoseWrite, driverVars, chipVars
  <2>2. /\ StartsUnderWay' \subseteq StartsUnderWay
        /\ Head(link) = link[1] /\ Len(link) \in Nat \ {0} /\ Len(link') = Len(link) - 1
        /\ \A i \in 1..Len(link') : i + 1 \in 1..Len(link) /\ link'[i] = link[i + 1]
        /\ Len(link) = 1 <=> link' = <<>>
    BY <2>1, Taken
  <2>3. Unstopped' \subseteq Unstopped
    BY <2>1, <2>2 DEF Unstopped
  <2>4. CASE pc # "reset"
    BY <2>1, <2>3, <2>4, LeftKept
  <2>5. CASE pc = "reset"
    <3>1. link[Len(link)].reg = SoftReset
      BY <2>1, <2>5 DEF LeftInv
    <3>2. link' # <<>> => link'[Len(link')].reg = SoftReset
      <4>1. link' # <<>> => Len(link') \in 1..Len(link') /\ Len(link') + 1 = Len(link)
        BY <2>2
      <4> QED BY <4>1, <3>1, <2>2
    <3>3. link' = <<>> => resetLost'
      BY <3>1, <2>1, <2>2
    <3>4. outcome' = "failed" /\ pc' = "reset"
      BY <2>1, <2>5 DEF DriverInv
    <3> QED BY <3>2, <3>3, <3>4 DEF LeftInv, InProgram, InWait
  <2> QED BY <2>4, <2>5
<1>13. CASE ChipCompletes
  <2>1. PICK c \in running : running' = running \ {c} /\ finished' = finished \cup {c}
    BY <1>13 DEF ChipCompletes
  <2>2. UNCHANGED <<pc, cta, outcome, link, rstBit, leftover, resetLost>>
    BY <1>13 DEF ChipCompletes, driverVars
  <2>3. Unstopped' \subseteq Unstopped /\ c \in Unstopped
    BY <2>1, <2>2 DEF Unstopped, StartsUnderWay
  <2>4. ~Spoiled' => ~Spoiled /\ c \notin leftover
    BY <2>1, <2>2 DEF Spoiled
  <2>5. ~Spoiled' /\ InWait => cta \in finished'
    BY <2>1, <2>3, <2>4 DEF LeftInv
  <2>6. pc = "reset" /\ running = {} => running' = {}
    BY <2>1
  <2>7. pc \in {"rise", "riseLate"} => InWait
    BY DEF InWait
  <2> QED BY <2>1, <2>2, <2>3, <2>4, <2>5, <2>6, <2>7 DEF LeftInv, InProgram, InWait
<1>14. CASE ResetPulse
  <2>1. /\ running' = {} /\ ~complete' /\ UNCHANGED <<pc, cta, outcome, link, finished, leftover>>
    BY <1>14 DEF ResetPulse, driverVars
  <2>2. Unstopped' \subseteq Unstopped /\ Spoiled' = Spoiled
    BY <2>1 DEF Unstopped, StartsUnderWay, Spoiled
  <2> QED BY <2>1, <2>2 DEF LeftInv, InProgram, InWait
<1> QED
  BY <1>1, <1>2, <1>3, <1>4, <1>5, <1>6, <1>7, <1>8, <1>9, <1>10, <1>11, <1>12, <1>13, <1>14
  DEF LaunchNext, Driver, Poll, Chip


-----------------------------------------------------------------------------
(* What is under way: the same writes, or those behind the first.          *)
LEMMA LinkKept ==
  ASSUME LinkInv, NEW k \in {0, 1}, Len(link) \in Nat, Len(link') \in Nat,
         \A i \in 1..Len(link') : i + k \in 1..Len(link) /\ link'[i] = link[i + k],
         cta' = cta, early' = early, InProgram' => InProgram,
         InProgram' \/ InWait' => InProgram \/ InWait,
         ~early /\ (InProgram \/ InWait) => rstBit' = 0,
         ~early /\ (rstBit' = 1 \/ cta \in running') =>
           rstBit = 1 \/ cta \in running \/ \A i \in 1..Len(link') : link'[i].reg = SoftReset
  PROVE  LinkInv'
<1> SUFFICES ASSUME ~early
             PROVE  /\ \A i \in 1..Len(link') :
                         /\ link'[i].reg \in Regs => link'[i].val = Want(cta, link'[i].reg)
                         /\ link'[i].reg \notin Regs =>
                              \A j \in 1..Len(link') : i < j => link'[j].reg = SoftReset
                         /\ InProgram' => link'[i].reg # Start
                         /\ InProgram' \/ InWait' => link'[i].reg # SoftReset
                         /\ rstBit' = 1 \/ cta \in running' => link'[i].reg = SoftReset
                    /\ InProgram' \/ InWait' => rstBit' = 0
  BY DEF LinkInv, Want
<1>1. ASSUME NEW i \in 1..Len(link')
      PROVE  /\ link'[i].reg \in Regs => link'[i].val = Want(cta, link'[i].reg)
             /\ InProgram' => link'[i].reg # Start
             /\ InProgram' \/ InWait' => link'[i].reg # SoftReset
             /\ rstBit' = 1 \/ cta \in running' => link'[i].reg = SoftReset
  <2>1. i + k \in 1..Len(link) /\ link'[i] = link[i + k]
    OBVIOUS
  <2>2. /\ link[i + k].reg \in Regs => link[i + k].val = Want(cta, link[i + k].reg)
        /\ InProgram => link[i + k].reg # Start
        /\ InProgram \/ InWait => link[i + k].reg # SoftReset
        /\ rstBit = 1 \/ cta \in running => link[i + k].reg = SoftReset
    BY <2>1 DEF LinkInv
  <2> QED BY <2>1, <2>2
<1>2. ASSUME NEW i \in 1..Len(link'), link'[i].reg \notin Regs, NEW j \in 1..Len(link'), i < j
      PROVE  link'[j].reg = SoftReset
  <2>1. /\ i + k \in 1..Len(link) /\ link'[i] = link[i + k]
        /\ j + k \in 1..Len(link) /\ link'[j] = link[j + k] /\ i + k < j + k
    BY <1>2
  <2> QED BY <2>1, <1>2 DEF LinkInv
<1> QED BY <1>1, <1>2

(* The link is as it was and so is the reset.                              *)
LEMMA LinkSame ==
  ASSUME LaunchTypeOK, LinkInv, UNCHANGED <<link, cta, early, rstBit>>, running' \subseteq running,
         InProgram' => InProgram, InProgram' \/ InWait' => InProgram \/ InWait
  PROVE  LinkInv'
<1>1. Len(link) \in Nat /\ 0 \in {0, 1} /\ \A i \in 1..Len(link) : i + 0 = i
  BY Types
<1>2. ~early /\ (InProgram \/ InWait) => rstBit' = 0
  BY DEF LinkInv
<1>3. ~early /\ (rstBit' = 1 \/ cta \in running') => rstBit = 1 \/ cta \in running
  OBVIOUS
<1>4. \A i \in 1..Len(link') : i + 0 \in 1..Len(link) /\ link'[i] = link[i + 0]
  BY <1>1
<1>5. Len(link') \in Nat
  BY <1>1
<1> QED BY <1>1, <1>2, <1>3, <1>4, <1>5, LinkKept

(* A write comes behind the others.                                        *)
LEMMA LinkGrown ==
  ASSUME LaunchTypeOK, LinkInv, NEW w \in Writes, link' = Append(link, w),
         UNCHANGED <<cta, early, rstBit, running>>,
         InProgram' => InProgram, InProgram' \/ InWait' => InProgram \/ InWait,
         w.reg # SoftReset /\ ~early =>
           /\ InProgram /\ cta \notin running
           /\ w.reg \in Regs => w.val = Want(cta, w.reg)
           /\ InProgram' => w.reg # Start,
         w.reg = SoftReset => ~(InProgram' \/ InWait')
  PROVE  LinkInv'
<1>1. /\ Len(link) \in Nat /\ Len(link') = Len(link) + 1
      /\ \A i \in 1..Len(link) : link'[i] = link[i]
      /\ link'[Len(link')] = w
      /\ \A i \in 1..Len(link') : i \in 1..Len(link) \/ i = Len(link')
  BY Appended
<1> SUFFICES ASSUME ~early
             PROVE  /\ \A i \in 1..Len(link') :
                         /\ link'[i].reg \in Regs => link'[i].val = Want(cta, link'[i].reg)
                         /\ link'[i].reg \notin Regs =>
                              \A j \in 1..Len(link') : i < j => link'[j].reg = SoftReset
                         /\ InProgram' => link'[i].reg # Start
                         /\ InProgram' \/ InWait' => link'[i].reg # SoftReset
                         /\ rstBit' = 1 \/ cta \in running' => link'[i].reg = SoftReset
                    /\ InProgram' \/ InWait' => rstBit' = 0
  BY DEF LinkInv, Want
<1>2. InProgram => rstBit = 0 /\ \A i \in 1..Len(link) : link[i].reg \in Regs
  <2> SUFFICES ASSUME InProgram, NEW i \in 1..Len(link)
               PROVE  link[i].reg \in Regs
    BY DEF LinkInv
  <2>1. link[i] \in Writes /\ link[i].reg # Start /\ link[i].reg # SoftReset
    BY Types DEF LinkInv
  <2> QED BY <2>1 DEF Writes
<1>3. rstBit \in {0, 1}
  BY DEF LaunchTypeOK, ChipTypeOK
<1>4. ASSUME NEW i \in 1..Len(link')
      PROVE  /\ link'[i].reg \in Regs => link'[i].val = Want(cta, link'[i].reg)
             /\ InProgram' => link'[i].reg # Start
             /\ InProgram' \/ InWait' => link'[i].reg # SoftReset
             /\ rstBit' = 1 \/ cta \in running' => link'[i].reg = SoftReset
  <2>1. CASE i \in 1..Len(link)
    BY <2>1, <1>1 DEF LinkInv
  <2>2. CASE i = Len(link')
    BY <2>2, <1>1, <1>2, Registers
  <2> QED BY <2>1, <2>2, <1>1
<1>5. ASSUME NEW i \in 1..Len(link'), link'[i].reg \notin Regs, NEW j \in 1..Len(link'), i < j
      PROVE  link'[j].reg = SoftReset
  <2>1. i \in 1..Len(link)
    BY <1>1, <1>5
  <2>2. link[i].reg \notin Regs
    BY <2>1, <1>1, <1>5
  <2>3. CASE j \in 1..Len(link)
    BY <2>1, <2>2, <2>3, <1>1, <1>5 DEF LinkInv
  <2>4. CASE j = Len(link')
    <3>1. ~InProgram
      BY <2>1, <2>2, <1>2
    <3> QED BY <3>1, <2>4, <1>1
  <2> QED BY <2>3, <2>4, <1>1
<1>6. InProgram' \/ InWait' => rstBit' = 0
  BY DEF LinkInv
<1> QED BY <1>4, <1>5, <1>6

LEMMA NextLink ==
  LaunchTypeOK /\ DriverInv /\ NumberInv /\ LinkInv /\ LaunchNext => LinkInv'
<1> SUFFICES ASSUME LaunchTypeOK, DriverInv, NumberInv, LinkInv, LaunchNext PROVE LinkInv'
  OBVIOUS
<1> USE DEF histVars
<1>1. CASE LaunchCta
  <2>1. ~early' => link' = <<>> /\ rstBit' = 0
    <3>1. UNCHANGED <<link, rstBit>> /\ early' = (link # <<>> \/ rstBit = 1) /\ rstBit \in {0, 1}
      BY <1>1 DEF LaunchCta, chipVars, LaunchTypeOK, ChipTypeOK
    <3> QED BY <3>1
  <2> QED BY <2>1 DEF LinkInv
<1>2. CASE ProgramCsr
  <2>1. /\ InProgram /\ InProgram' /\ UNCHANGED <<cta, early, rstBit, running>>
    BY <1>2 DEF ProgramCsr, InProgram
  <2>2. CASE backend = "mock"
    BY <1>2, <2>1, <2>2, LinkSame DEF ProgramCsr
  <2>3. CASE backend # "mock"
    <3>1. link' = Append(link, Write(reg, Want(cta, reg)))
      BY <1>2, <2>3 DEF ProgramCsr
    <3>2. /\ Write(reg, Want(cta, reg)) \in Writes /\ Write(reg, Want(cta, reg)).reg = reg
          /\ Write(reg, Want(cta, reg)).val = Want(cta, reg)
          /\ reg # Start /\ reg # SoftReset
      BY Types, WantType, WriteType, Registers
    <3>3. cta \notin running
      BY <2>1 DEF NumberInv
    <3> QED BY <3>1, <3>2, <3>3, <2>1, LinkGrown
  <2> QED BY <2>2, <2>3
<1>3. CASE VerifyCsrs
  BY <1>3, LinkSame DEF VerifyCsrs, InProgram, chipVars
<1>4. CASE PulseStart
  <2>1. /\ InProgram /\ ~InProgram' /\ InWait' /\ UNCHANGED <<cta, early, rstBit, running>>
    BY <1>4 DEF PulseStart, InProgram, InWait
  <2>2. CASE backend = "mock"
    BY <1>4, <2>1, <2>2, LinkSame DEF PulseStart
  <2>3. CASE backend # "mock"
    <3>1. link' = Append(link, Write(Start, cta))
      BY <1>4, <2>3 DEF PulseStart
    <3>2. Write(Start, cta) \in Writes /\ Write(Start, cta).reg = Start
      BY Types, WriteType
    <3>3. cta \notin running
      BY <2>1 DEF NumberInv
    <3> QED BY <3>1, <3>2, <3>3, <2>1, LinkGrown, Registers
  <2> QED BY <2>2, <2>3
<1>5. CASE PollDrop
  BY <1>5, LinkSame DEF PollDrop, InProgram, InWait
<1>6. CASE PollRise
  BY <1>6, LinkSame DEF PollRise, InProgram, InWait, chipVars
<1>7. CASE CheckDeadline
  BY <1>7, LinkSame DEF CheckDeadline, InProgram, InWait, chipVars
<1>8. CASE ResetPoll
  BY <1>8, LinkSame DEF ResetPoll, InProgram, InWait, chipVars
<1>9. CASE ResetChip
  <2>1. ~InProgram' /\ ~InWait' /\ UNCHANGED <<cta, early, rstBit, running>>
    BY <1>9 DEF ResetChip, InProgram, InWait, chipVars
  <2>2. CASE backend = "mock"
    BY <1>9, <2>1, <2>2, LinkSame DEF ResetChip
  <2>3. CASE backend # "mock"
    <3>1. link' = Append(link, Write(SoftReset, 1))
      BY <1>9, <2>3 DEF ResetChip
    <3>2. Write(SoftReset, 1) \in Writes /\ Write(SoftReset, 1).reg = SoftReset
      BY WriteType
    <3> QED BY <3>1, <3>2, <2>1, LinkGrown
  <2> QED BY <2>2, <2>3
<1>10. CASE Expire
  BY <1>10, LinkSame DEF Expire, InProgram, InWait, chipVars
<1>11. CASE Deliver
  <2> DEFINE w == Head(link)
  <2>1. link # <<>> /\ link' = Tail(link) /\ UNCHANGED <<pc, cta, early>>
    BY <1>11 DEF Deliver, driverVars
  <2>2. /\ Len(link) \in Nat \ {0} /\ Len(link') = Len(link) - 1
        /\ w = link[1] /\ 1 \in 1..Len(link)
        /\ \A i \in 1..Len(link') : i + 1 \in 1..Len(link) /\ link'[i] = link[i + 1]
    BY <2>1, Taken
  <2>3. \/ w.reg = Start /\ rstBit' = rstBit
        \/ w.reg = SoftReset /\ rstBit' = 1 /\ running' = running
        \/ w.reg \in Regs /\ UNCHANGED <<running, rstBit>>
    BY <1>11 DEF Deliver
  <2> HIDE DEF w
  <2>4. ~early /\ w.reg \notin Regs => \A i \in 1..Len(link') : link'[i].reg = SoftReset
    <3> SUFFICES ASSUME ~early, w.reg \notin Regs, NEW i \in 1..Len(link')
                 PROVE  link'[i].reg = SoftReset
      OBVIOUS
    <3>1. i + 1 \in 1..Len(link) /\ link'[i] = link[i + 1] /\ 1 < i + 1
      BY <2>2
    <3> QED BY <3>1, <2>2 DEF LinkInv
  <2>5. ~early /\ (InProgram \/ InWait) => w.reg # SoftReset /\ rstBit = 0
    BY <2>2 DEF LinkInv
  <2>6. ~early /\ (InProgram \/ InWait) => rstBit' = 0
    BY <2>3, <2>5
  <2>7. ~early /\ (rstBit' = 1 \/ cta \in running') =>
           rstBit = 1 \/ cta \in running \/ \A i \in 1..Len(link') : link'[i].reg = SoftReset
    BY <2>3, <2>4, Registers
  <2>8. /\ 1 \in {0, 1} /\ Len(link) \in Nat /\ Len(link') \in Nat /\ InProgram' = InProgram
        /\ InWait' = InWait /\ cta' = cta /\ early' = early
    BY <2>1, <2>2 DEF InProgram, InWait
  <2> QED BY <2>2, <2>6, <2>7, <2>8, LinkKept
<1>12. CASE LoseWrite
  <2>1. link # <<>> /\ link' = Tail(link) /\ UNCHANGED <<pc, cta, early, rstBit, running>>
    BY <1>12 DEF LoseWrite, driverVars, chipVars
  <2>2. /\ Len(link) \in Nat \ {0} /\ Len(link') = Len(link) - 1
        /\ \A i \in 1..Len(link') : i + 1 \in 1..Len(link) /\ link'[i] = link[i + 1]
    BY <2>1, Taken
  <2>3. ~early /\ (InProgram \/ InWait) => rstBit' = 0
    BY <2>1 DEF LinkInv
  <2>4. ~early /\ (rstBit' = 1 \/ cta \in running') => rstBit = 1 \/ cta \in running
    BY <2>1
  <2>5. /\ 1 \in {0, 1} /\ Len(link) \in Nat /\ Len(link') \in Nat /\ InProgram' = InProgram
        /\ InWait' = InWait /\ cta' = cta /\ early' = early
    BY <2>1, <2>2 DEF InProgram, InWait
  <2> QED BY <2>2, <2>3, <2>4, <2>5, LinkKept
<1>13. CASE ChipCompletes
  BY <1>13, LinkSame DEF ChipCompletes, InProgram, InWait, driverVars
<1>14. CASE ResetPulse
  <2>1. /\ running' = {} /\ rstBit' = 0 /\ UNCHANGED <<pc, cta, early, link>>
    BY <1>14 DEF ResetPulse, driverVars
  <2>2. Len(link) \in Nat /\ 0 \in {0, 1} /\ \A i \in 1..Len(link) : i + 0 = i
    BY Types
  <2>3. /\ \A i \in 1..Len(link') : i + 0 \in 1..Len(link) /\ link'[i] = link[i + 0]
        /\ Len(link') \in Nat /\ InProgram' = InProgram /\ InWait' = InWait
        /\ cta' = cta /\ early' = early
        /\ ~(rstBit' = 1 \/ cta \in running')
    BY <2>1, <2>2 DEF InProgram, InWait
  <2> QED BY <2>1, <2>2, <2>3, LinkKept
<1> QED
  BY <1>1, <1>2, <1>3, <1>4, <1>5, <1>6, <1>7, <1>8, <1>9, <1>10, <1>11, <1>12, <1>13, <1>14
  DEF LaunchNext, Driver, Poll, Chip

-----------------------------------------------------------------------------
(* The registers: what the last launch programs is right when it starts.   *)

(* Steps that write no register and start no CTA.                          *)
LEMMA RegsKept ==
  ASSUME RegsInv, UNCHANGED <<backend, cta, reg, warned, csr, link, early>>,
         running' \subseteq running, pc' = "program" => pc = "program",
         pc' = "pulse" => pc = "pulse"
  PROVE  RegsInv'
<1>1. \A r : Settled(r)' = Settled(r)
  BY DEF Settled, Want
<1>2. Mismatch(cta)' = Mismatch(cta) /\ (ToStart' => ToStart)
  BY DEF Mismatch, Want, ToStart
<1>3. NoSilentGarbageStart'
  BY DEF RegsInv, NoSilentGarbageStart, Want
<1> QED BY <1>1, <1>2, <1>3 DEF RegsInv

(* A register whose write comes behind the others is settled.              *)
LEMMA SettledGrows ==
  ASSUME LaunchTypeOK, NEW w \in Writes, link' = Append(link, w), UNCHANGED <<csr, cta>>
  PROVE  /\ \A r : Settled(r) => Settled(r)'
         /\ Settled(w.reg)'
<1>1. /\ Len(link) \in Nat /\ Len(link') = Len(link) + 1
      /\ \A i \in 1..Len(link) : link'[i] = link[i]
      /\ link'[Len(link')] = w
  BY Appended
<1>2. Len(link') \in 1..Len(link') /\ \A i \in 1..Len(link) : i \in 1..Len(link')
  BY <1>1
<1> QED BY <1>1, <1>2 DEF Settled, Want

LEMMA NextRegs ==
  /\ LaunchTypeOK /\ DriverInv /\ NumberInv /\ LinkInv /\ RegsInv /\ LaunchNext
  => RegsInv'
<1> SUFFICES ASSUME LaunchTypeOK, DriverInv, NumberInv, LinkInv, RegsInv, LaunchNext
             PROVE  RegsInv'
  OBVIOUS
<1> USE DEF histVars
<1>1. CASE LaunchCta
  <2>1. /\ pc' = "program" /\ reg' = 1 /\ cta' = cta + 1
        /\ ~early' => link' = <<>>
        /\ UNCHANGED running
    BY <1>1 DEF LaunchCta, chipVars
  <2>2. cta' \notin running'
    <3>1. running \subseteq 1..cta /\ cta \in Nat
      BY Types DEF NumberInv
    <3> QED BY <3>1, <2>1
  <2>3. NoSilentGarbageStart'
    BY <2>2 DEF NoSilentGarbageStart
  <2>4. ~early' => ~ToStart'
    BY <2>1 DEF ToStart
  <2>5. \A r \in 1..(reg' - 1) : FALSE
    BY <2>1
  <2> QED BY <2>3, <2>4, <2>5 DEF RegsInv
<1>2. CASE ProgramCsr
  <2>0. /\ pc = "program" /\ InProgram /\ InProgram'
        /\ UNCHANGED <<cta, backend, early, running, warned>>
    BY <1>2 DEF ProgramCsr, InProgram
  <2>1. /\ Write(reg, Want(cta, reg)) \in Writes /\ Write(reg, Want(cta, reg)).reg = reg
        /\ reg \in Regs /\ reg # Start
    BY Types, WantType, WriteType, Registers
  <2>2. NoSilentGarbageStart'
    <3>1. cta \notin running
      BY <2>0 DEF NumberInv
    <3> QED BY <2>0, <3>1 DEF NoSilentGarbageStart
  <2>3. LinkInv'
    BY NextLink
  <2>4. ~early /\ ToStart' => pc' = "pulse"
    BY <2>0, <2>3 DEF LinkInv, ToStart
  <2>5. ASSUME ~early, backend = "cosim", NEW r \in 1..reg
        PROVE  Settled(r)'
    <3>1. PICK w \in Writes : w = Write(reg, Want(cta, reg))
      BY <2>1
    <3>2. link' = Append(link, w) /\ UNCHANGED <<csr, cta>> /\ w.reg = reg
      BY <1>2, <2>0, <2>1, <2>5, <3>1 DEF ProgramCsr
    <3>3. /\ \A q : Settled(q) => Settled(q)'
          /\ Settled(w.reg)'
      BY <3>2, SettledGrows
    <3>4. CASE r # reg
      <4>1. r \in 1..(reg - 1)
        BY <3>4, <2>1, Bounds DEF Regs
      <4>2. Settled(r)
        BY <4>1, <2>0, <2>5 DEF RegsInv
      <4> QED BY <4>2, <3>3
    <3>5. CASE r = reg
      <4>1. r = w.reg
        BY <3>2, <3>5
      <4> QED BY <4>1, <3>3
    <3> QED BY <3>4, <3>5
  <2>6. CASE reg < NRegs
    <3>1. pc' = "program" /\ reg' - 1 = reg
      BY <1>2, <2>6, <2>0, <2>1, Bounds DEF ProgramCsr, Regs
    <3> QED BY <3>1, <2>0, <2>2, <2>4, <2>5 DEF RegsInv
  <2>7. CASE ~(reg < NRegs)
    <3>1. 1..reg = Regs
      BY <2>1, <2>7, Bounds DEF Regs
    <3>2. pc' \in {"verify", "pulse"} /\ (backend = "hw" => pc' = "verify")
      BY <1>2, <2>7 DEF ProgramCsr
    <3>3. ~early /\ backend = "cosim" => \A r \in Regs : Settled(r)'
      BY <3>1, <2>5
    <3>4. ~early /\ backend = "hw" => ~ToStart'
      BY <3>2, <2>4
    <3> QED BY <3>2, <3>3, <3>4, <2>0, <2>2 DEF RegsInv
  <2> QED BY <2>6, <2>7
<1>3. CASE VerifyCsrs
  <2>1. /\ link = <<>> /\ pc = "verify" /\ pc' = "pulse" /\ warned' = Mismatch(cta)
        /\ UNCHANGED <<csr, running, link, cta, backend, early>>
    BY <1>3 DEF VerifyCsrs, chipVars
  <2>2. Mismatch(cta)' = Mismatch(cta)
    BY <2>1 DEF Mismatch, Want
  <2>3. backend # "cosim" /\ cta \notin running
    BY <2>1 DEF DriverInv, NumberInv, InProgram
  <2>4. \A i \in 1..Len(link') : FALSE
    BY <2>1
  <2>5. NoSilentGarbageStart'
    BY <2>1, <2>3 DEF NoSilentGarbageStart
  <2> QED BY <2>1, <2>2, <2>3, <2>4, <2>5 DEF RegsInv
<1>4. CASE PulseStart
  <2>1. /\ pc = "pulse" /\ pc' = "drop"
        /\ UNCHANGED <<csr, cta, backend, warned, early, running>>
    BY <1>4 DEF PulseStart
  <2>2. CASE backend = "mock"
    <3>1. NoSilentGarbageStart'
      BY <2>1, <2>2 DEF NoSilentGarbageStart, RegsInv, Want
    <3> QED BY <3>1, <2>1, <2>2 DEF RegsInv
  <2>3. CASE backend # "mock"
    <3>1. Write(Start, cta) \in Writes /\ Write(Start, cta).reg = Start
      BY Types, WriteType
    <3>2. link' = Append(link, Write(Start, cta))
      BY <1>4, <2>3 DEF PulseStart
    <3>3. /\ \A i \in 1..Len(link) : link'[i] = link[i]
          /\ link'[Len(link')] = Write(Start, cta)
          /\ \A i \in 1..Len(link') : i \in 1..Len(link) \/ i = Len(link')
      BY <3>1, <3>2, Appended
    <3>4. \A r : Settled(r) => Settled(r)'
      BY <2>1, <3>1, <3>2, SettledGrows
    <3>5. (\A i \in 1..Len(link) : link[i].reg \notin Regs)
            => \A i \in 1..Len(link') : link'[i].reg \notin Regs
      BY <3>1, <3>3, Registers
    <3>6. Mismatch(cta)' = Mismatch(cta)
      BY <2>1 DEF Mismatch, Want
    <3>7. NoSilentGarbageStart'
      BY <2>1 DEF NoSilentGarbageStart, RegsInv, Want
    <3>8. ToStart
      BY <2>1 DEF ToStart
    <3> QED BY <2>1, <3>4, <3>5, <3>6, <3>7, <3>8 DEF RegsInv
  <2> QED BY <2>2, <2>3
<1>5. CASE PollDrop
  BY <1>5, RegsKept DEF PollDrop
<1>6. CASE PollRise
  BY <1>6, RegsKept DEF PollRise, chipVars
<1>7. CASE CheckDeadline
  BY <1>7, RegsKept DEF CheckDeadline, chipVars
<1>8. CASE ResetPoll
  BY <1>8, RegsKept DEF ResetPoll, chipVars
<1>9. CASE ResetChip
  <2>1. /\ pc' \notin {"program", "pulse"}
        /\ UNCHANGED <<csr, cta, backend, warned, early, running, reg>>
    BY <1>9 DEF ResetChip, chipVars
  <2>2. CASE backend = "mock"
    BY <1>9, <2>1, <2>2, RegsKept DEF ResetChip
  <2>3. CASE backend # "mock"
    <3>1. Write(SoftReset, 1) \in Writes /\ Write(SoftReset, 1).reg = SoftReset
      BY WriteType
    <3>2. link' = Append(link, Write(SoftReset, 1))
      BY <1>9, <2>3 DEF ResetChip
    <3>3. /\ \A i \in 1..Len(link) : link'[i] = link[i]
          /\ link'[Len(link')] = Write(SoftReset, 1)
          /\ \A i \in 1..Len(link') : i \in 1..Len(link) \/ i = Len(link')
      BY <3>1, <3>2, Appended
    <3>4. \A r : Settled(r) => Settled(r)'
      BY <2>1, <3>1, <3>2, SettledGrows
    <3>5. (\A i \in 1..Len(link) : link[i].reg \notin Regs)
            => \A i \in 1..Len(link') : link'[i].reg \notin Regs
      BY <3>1, <3>3, Registers
    <3>6. Mismatch(cta)' = Mismatch(cta)
      BY <2>1 DEF Mismatch, Want
    <3>7. NoSilentGarbageStart'
      BY <2>1 DEF NoSilentGarbageStart, RegsInv, Want
    <3>8. ToStart' => ToStart
      BY <2>1, <3>1, <3>3, Registers DEF ToStart
    <3> QED BY <2>1, <3>4, <3>5, <3>6, <3>7, <3>8 DEF RegsInv
  <2> QED BY <2>2, <2>3
<1>10. CASE Expire
  BY <1>10, RegsKept DEF Expire, chipVars
<1>11. CASE Deliver
  <2> DEFINE w == Head(link)
  <2>1. link # <<>> /\ link' = Tail(link)
        /\ UNCHANGED <<backend, pc, cta, reg, warned, early>>
    BY <1>11 DEF Deliver, driverVars
  <2>2. /\ Len(link) \in Nat \ {0} /\ w = link[1] /\ 1 \in 1..Len(link) /\ w \in Writes
        /\ \A i \in 1..Len(link') : i + 1 \in 1..Len(link) /\ link'[i] = link[i + 1]
        /\ \A i \in 1..Len(link) : i = 1 \/ (i - 1 \in 1..Len(link') /\ link'[i - 1] = link[i])
    BY <2>1, Taken
  <2>3. \/ w.reg = Start /\ csr' = csr /\ running' \subseteq running \cup {w.val}
        \/ w.reg = SoftReset /\ UNCHANGED <<csr, running>>
        \/ w.reg \in Regs /\ csr' = [csr EXCEPT ![w.reg] = w.val] /\ running' = running
    BY <1>11 DEF Deliver
  <2> HIDE DEF w
  <2>4. csr \in [Regs -> Nat]
    BY DEF LaunchTypeOK, ChipTypeOK
  <2>5. ~early /\ w.reg \in Regs => w.val = Want(cta, w.reg)
    BY <2>2 DEF LinkInv
  <2>6. ASSUME ~early, NEW r \in Regs, Settled(r)
        PROVE  Settled(r)'
    <3>1. CASE csr[r] = Want(cta, r)
      <4>1. csr'[r] = csr[r] \/ csr'[r] = Want(cta, r)
        BY <2>3, <2>4, <2>5, <2>6
      <4> QED BY <4>1, <3>1, <2>1 DEF Settled, Want
    <3>2. CASE \E i \in 1..Len(link) : link[i].reg = r
      <4>1. PICK i \in 1..Len(link) : link[i].reg = r
        BY <3>2
      <4>2. CASE i = 1
        <5>1. w.reg = r /\ w.reg # Start /\ w.reg # SoftReset
          BY <4>1, <4>2, <2>2, Registers
        <5>2. csr'[r] = Want(cta, r)
          BY <5>1, <2>3, <2>4, <2>5, <2>6
        <5> QED BY <5>2, <2>1 DEF Settled, Want
      <4>3. CASE i # 1
        <5>1. i - 1 \in 1..Len(link') /\ link'[i - 1].reg = r
          BY <4>1, <4>3, <2>2
        <5> QED BY <5>1 DEF Settled
      <4> QED BY <4>2, <4>3
    <3> QED BY <3>1, <3>2, <2>6 DEF Settled
  <2>7. ToStart' => ToStart
    BY <2>1, <2>2 DEF ToStart
  <2>8. ~early /\ w.reg = Start => ~Mismatch(cta) \/ warned
    <3> SUFFICES ASSUME ~early, w.reg = Start PROVE ~Mismatch(cta) \/ warned
      OBVIOUS
    <3>1. ToStart
      BY <2>2 DEF ToStart
    <3>2. CASE backend = "cosim"
      <4>1. \A r \in Regs : Settled(r)
        BY <3>1, <3>2 DEF RegsInv
      <4>2. ASSUME NEW i \in 1..Len(link) PROVE link[i].reg \notin Regs
        <5>1. CASE i = 1
          BY <5>1, <2>2, Registers
        <5>2. CASE i # 1
          <6>1. 1 < i
            BY <5>2
          <6>2. link[1].reg \notin Regs
            BY <2>2, Registers
          <6>3. link[i].reg = SoftReset
            BY <6>1, <6>2, <2>2 DEF LinkInv
          <6> QED BY <6>3, Registers
        <5> QED BY <5>1, <5>2
      <4> QED BY <4>1, <4>2 DEF Settled, Mismatch
    <3>3. CASE backend = "hw"
      BY <3>1, <3>3 DEF RegsInv
    <3>4. CASE backend = "mock"
      BY <3>4, <2>1 DEF DriverInv
    <3> QED BY <3>2, <3>3, <3>4, Types
  <2>9. NoSilentGarbageStart'
    <3> SUFFICES ASSUME ~early, cta \in running', Mismatch(cta)' PROVE warned
      BY <2>1 DEF NoSilentGarbageStart, Mismatch
    <3>1. CASE cta \in running
      <4>1. w.reg = SoftReset
        BY <3>1, <2>2 DEF LinkInv
      <4>2. csr' = csr
        BY <4>1, <2>3, Registers
      <4>3. Mismatch(cta)
        BY <4>2, <2>1 DEF Mismatch, Want
      <4> QED BY <3>1, <4>3 DEF RegsInv, NoSilentGarbageStart, Mismatch
    <3>2. CASE cta \notin running
      <4>1. w.reg = Start /\ csr' = csr
        BY <3>2, <2>3
      <4>2. Mismatch(cta)
        BY <4>1, <2>1 DEF Mismatch, Want
      <4> QED BY <4>1, <4>2, <2>8
    <3> QED BY <3>1, <3>2
  <2>10. ASSUME ~early PROVE (pc = "program" => \A r \in 1..(reg - 1) : r \in Regs)
    <3>1. reg \in Regs
      BY Types
    <3> QED BY <3>1, Bounds DEF Regs
  <2>11. ASSUME ~early, backend = "hw", ToStart
         PROVE  /\ Mismatch(cta)' => warned
                /\ \A i \in 1..Len(link') : link'[i].reg \notin Regs
    <3>1. /\ Mismatch(cta) => warned
          /\ \A i \in 1..Len(link) : link[i].reg \notin Regs
      BY <2>11 DEF RegsInv
    <3>2. csr' = csr
      BY <3>1, <2>2, <2>3
    <3>3. Mismatch(cta)' = Mismatch(cta)
      BY <3>2, <2>1 DEF Mismatch, Want
    <3> QED BY <3>1, <3>3, <2>2
  <2>12. ASSUME ~early, backend = "cosim", pc = "program", NEW r \in 1..(reg - 1)
         PROVE  Settled(r)'
    BY <2>6, <2>10, <2>12 DEF RegsInv
  <2>13. ASSUME ~early, backend = "cosim", ToStart, NEW r \in Regs
         PROVE  Settled(r)'
    BY <2>6, <2>13 DEF RegsInv
  <2> QED BY <2>1, <2>7, <2>9, <2>11, <2>12, <2>13 DEF RegsInv
<1>12. CASE LoseWrite
  <2>1. /\ link # <<>> /\ link' = Tail(link) /\ backend = "hw"
        /\ UNCHANGED <<backend, pc, cta, warned, csr, running, early>>
    BY <1>12 DEF LoseWrite, driverVars, chipVars
  <2>2. \A i \in 1..Len(link') : i + 1 \in 1..Len(link) /\ link'[i] = link[i + 1]
    BY <2>1, Taken
  <2>3. Mismatch(cta)' = Mismatch(cta)
    BY <2>1 DEF Mismatch, Want
  <2>4. NoSilentGarbageStart'
    BY <2>1 DEF RegsInv, NoSilentGarbageStart, Want
  <2>5. ToStart' => ToStart
    BY <2>1, <2>2 DEF ToStart
  <2>6. ~early /\ ToStart => \A i \in 1..Len(link') : link'[i].reg \notin Regs
    BY <2>1, <2>2 DEF RegsInv
  <2> QED BY <2>1, <2>3, <2>4, <2>5, <2>6 DEF RegsInv
<1>13. CASE ChipCompletes
  BY <1>13, RegsKept DEF ChipCompletes, driverVars
<1>14. CASE ResetPulse
  <2>1. running' = {} /\ rstBit = 1 /\ UNCHANGED <<pc, cta, link, backend, early>>
    BY <1>14 DEF ResetPulse, driverVars
  <2>2. ~early => ~InProgram /\ \A i \in 1..Len(link) : link[i].reg = SoftReset
    BY <2>1 DEF LinkInv
  <2>3. ~early => ~ToStart' /\ pc # "program"
    BY <2>1, <2>2, Registers DEF ToStart, InProgram
  <2>4. NoSilentGarbageStart'
    BY <2>1 DEF NoSilentGarbageStart
  <2> QED BY <2>1, <2>3, <2>4 DEF RegsInv
<1> QED
  BY <1>1, <1>2, <1>3, <1>4, <1>5, <1>6, <1>7, <1>8, <1>9, <1>10, <1>11, <1>12, <1>13, <1>14
  DEF LaunchNext, Driver, Poll, Chip

-----------------------------------------------------------------------------
LEMMA StutterInv == LaunchInv /\ UNCHANGED launchVars => LaunchInv'
<1> SUFFICES ASSUME LaunchInv, UNCHANGED launchVars PROVE LaunchInv'
  OBVIOUS
<1>0. /\ UNCHANGED <<backend, pc, cta, reg, warned, expired, outcome, why, link, drops>>
      /\ UNCHANGED <<csr, complete, running, taken, finished, rstBit, resetLost, leftover, early>>
  BY DEF launchVars, driverVars, chipVars, histVars
<1> USE DEF LaunchInv
<1>1. LaunchTypeOK'
  <2>1. DriverTypeOK'
    BY <1>0 DEF LaunchTypeOK, DriverTypeOK
  <2>2. ChipTypeOK'
    BY <1>0 DEF LaunchTypeOK, ChipTypeOK
  <2>3. LinkTypeOK'
    BY <1>0 DEF LaunchTypeOK, LinkTypeOK
  <2> QED BY <2>1, <2>2, <2>3 DEF LaunchTypeOK
<1>2. DriverInv'
  BY <1>0 DEF DriverInv, InProgram, InWait
<1>3. NumberInv'
  BY <1>0 DEF NumberInv, InProgram
<1>4. LeftInv'
  <2>1. Unstopped' = Unstopped /\ Spoiled' = Spoiled
    BY <1>0, UnstoppedSame DEF Spoiled
  <2> QED BY <1>0, <2>1 DEF LeftInv, InProgram, InWait
<1>5. LinkInv'
  BY <1>0, LinkSame DEF InProgram, InWait
<1>6. RegsInv'
  BY <1>0, RegsKept
<1> QED BY <1>1, <1>2, <1>3, <1>4, <1>5, <1>6

(* LaunchInv is an invariant of the driver and the chip.                   *)
THEOREM InvHolds == LaunchSpec => []LaunchInv
<1>1. LaunchInit => LaunchInv
  BY InitTypes, InitParts DEF LaunchInv
<1>2. LaunchInv /\ [LaunchNext]_launchVars => LaunchInv'
  BY NextTypes, NextDriver, NextNumber, NextLeft, NextLink, NextRegs, StutterInv DEF LaunchInv
<1> QED BY <1>1, <1>2, PTL DEF LaunchSpec

(* The variables of the driver, the link and the chip keep their types.    *)
THEOREM LaunchTypeCorrect == LaunchSpec => []LaunchTypeOK
<1>1. LaunchInv => LaunchTypeOK
  BY DEF LaunchInv
<1> QED BY <1>1, InvHolds, PTL

(* A wait that returns speaks of the CTA launched last, or of one that was *)
(* still running when reset_chip returned: launch_cta, wait_for_cta_done   *)
(* and reset_chip of mini_dice.py, on every backend.                       *)
THEOREM DoneIsThisCta == LaunchSpec => []DoneMeansThisCta
<1>1. LaunchInv => DoneMeansThisCta
  BY DEF LaunchInv, LeftInv, Spoiled, DoneMeansThisCta
<1> QED BY <1>1, InvHolds, PTL

(* The chip never runs a CTA with another CTA's launch registers unless    *)
(* the read-back of launch_cta warned or the launch began before the last  *)
(* reset was over, whatever writes the link loses.                         *)
THEOREM GarbageIsAnnounced == LaunchSpec => []NoSilentGarbageStart
<1>1. LaunchInv => NoSilentGarbageStart
  BY DEF LaunchInv, RegsInv
<1> QED BY <1>1, InvHolds, PTL

(* What a reset leaves has been launched and has not completed.            *)
LEMMA LeftIsUnfinished ==
  ASSUME LaunchTypeOK, NumberInv
  PROVE  LeftByReset \subseteq (1..cta) \ finished
BY StartsNumbered DEF LeftByReset, NumberInv

(* Every step of the driver and the chip is a step of what the driver      *)
(* promises, or leaves it alone.                                           *)
LEMMA StepRefines ==
  LaunchInv /\ [LaunchNext]_launchVars => [Service!ServiceNext]_(Service!serviceVars)
<1> SUFFICES ASSUME LaunchInv, [LaunchNext]_launchVars
             PROVE  Service!ServiceNext \/ UNCHANGED Service!serviceVars
  OBVIOUS
<1> USE DEF LaunchInv, Service!ServiceNext, Service!serviceVars, histVars
<1>1. CASE LaunchCta
  BY <1>1 DEF LaunchCta, DriverInv, chipVars, Service!LaunchCta
<1>2. CASE ProgramCsr \/ VerifyCsrs
  BY <1>2 DEF ProgramCsr, VerifyCsrs, chipVars
<1>3. CASE PulseStart
  BY <1>3 DEF PulseStart
<1>4. CASE PollDrop
  <2>1. cta \in 1..cta
    <3>1. cta # 0 /\ cta \in Nat
      BY <1>4, Types DEF PollDrop, DriverInv, InWait
    <3> QED BY <3>1
  <2>2. \/ UNCHANGED <<cta, outcome, finished, leftover>>
        \/ finished' = finished \cup {cta} /\ UNCHANGED <<cta, outcome, leftover>>
    BY <1>4 DEF PollDrop
  <2>3. finished' = finished \cup {cta} /\ UNCHANGED <<cta, outcome, leftover>>
          => Service!CompleteCta(cta)
    BY <2>1 DEF Service!CompleteCta
  <2> QED BY <2>1, <2>2, <2>3
<1>5. CASE PollRise
  <2>1. outcome = "pending" /\ UNCHANGED <<cta, finished, leftover>>
    BY <1>5 DEF PollRise, DriverInv, InWait, chipVars
  <2>2. CASE complete
    <3>1. cta \in finished \/ leftover \cap finished # {}
      BY <1>5, <2>2 DEF PollRise, LeftInv, Spoiled
    <3>2. outcome' = "done"
      BY <1>5, <2>2 DEF PollRise
    <3> QED BY <2>1, <3>1, <3>2 DEF Service!ReportDone
  <2>3. CASE ~complete
    BY <1>5, <2>1, <2>3 DEF PollRise
  <2> QED BY <2>2, <2>3
<1>6. CASE CheckDeadline
  BY <1>6 DEF CheckDeadline, DriverInv, InWait, chipVars, Service!GiveUp
<1>7. CASE ResetPoll
  <2>1. outcome = "failed" /\ UNCHANGED <<cta, finished>>
    BY <1>7 DEF ResetPoll, DriverInv, chipVars
  <2>2. \/ UNCHANGED <<outcome, leftover>>
        \/ outcome' = "idle" /\ leftover' = LeftByReset
    BY <1>7 DEF ResetPoll
  <2>3. LeftByReset \in SUBSET ((1..cta) \ finished)
    BY LeftIsUnfinished
  <2> QED BY <2>1, <2>2, <2>3 DEF Service!EndReset
<1>8. CASE ResetChip
  <2>1. outcome # "pending" /\ UNCHANGED <<cta, finished, leftover>>
    BY <1>8 DEF ResetChip, DriverInv, chipVars
  <2>2. CASE backend = "mock"
    <3>1. outcome' = "idle" /\ leftover' = {}
      BY <1>8, <2>2 DEF ResetChip, DriverInv
    <3> QED BY <2>1, <3>1 DEF Service!EndReset
  <2>3. CASE backend # "mock"
    BY <1>8, <2>1, <2>3 DEF ResetChip, Service!BeginReset
  <2> QED BY <2>2, <2>3
<1>9. CASE Expire
  BY <1>9 DEF Expire, chipVars
<1>10. CASE Deliver \/ LoseWrite \/ ResetPulse
  BY <1>10 DEF Deliver, LoseWrite, ResetPulse, driverVars, chipVars
<1>11. CASE ChipCompletes
  <2>1. PICK c \in running : finished' = finished \cup {c}
    BY <1>11 DEF ChipCompletes
  <2>2. c \in 1..cta /\ UNCHANGED <<cta, outcome, leftover>>
    BY <1>11 DEF ChipCompletes, NumberInv, driverVars
  <2> QED BY <2>1, <2>2 DEF Service!CompleteCta
<1>12. CASE UNCHANGED launchVars
  BY <1>12 DEF launchVars, driverVars, chipVars
<1> QED
  BY <1>1, <1>2, <1>3, <1>4, <1>5, <1>6, <1>7, <1>8, <1>9, <1>10, <1>11, <1>12
  DEF LaunchNext, Driver, Poll, Chip

(* The driver implements the service its callers rely on (CtaService).     *)
THEOREM LaunchRefines == LaunchSpec => ImplementsCtaService
<1>1. LaunchInit => Service!ServiceInit
  BY DEF LaunchInit, Service!ServiceInit
<1> QED BY <1>1, StepRefines, InvHolds, PTL
    DEF LaunchSpec, ImplementsCtaService, Service!ServiceSpec
=============================================================================
