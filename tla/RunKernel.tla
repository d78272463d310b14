----------------------------- MODULE RunKernel -----------------------------
(***************************************************************************)
(* src/host/run_kernel.py: a sweep of test vectors over one of the three   *)
(* backends of MiniDice, with the board's BRAM and the chip (external).    *)
(*                                                                         *)
(* Resets, launches and waits are those of CtaService, which CtaLaunch     *)
(* implements.  The chip stores into the DATA region while it runs a CTA,  *)
(* also after the host has given the CTA up, until a reset stops it; it    *)
(* may leave stores out, store wrong values, or hang.  A reset may be lost *)
(* on hardware, or come late in the co-simulation, and leave CTAs running. *)
(* On hardware a DMA may fail, or land nowhere without an error            *)
(* (os.pwrite's result is not looked at).                                  *)
(* On the co-simulation a recv may time out; from then on every call takes *)
(* the answer of an earlier one (CosimChannel, AnswersLagByTimeouts), or,  *)
(* if it timed out inside a frame, bytes that are no answer (RecvGarbage). *)
(***************************************************************************)
EXTENDS TestVector, Verifier

CONSTANTS
  Backends,     \* subset of {"hw", "cosim", "mock"}
  Vectors,      \* the test vectors on disk, as records
  Sweeps,       \* lists of vectors named on the command line
  RegionWords,  \* words of the META region and of the BS region (0x4000 bytes)
  BeatWords,    \* words of a co-simulation DMA beat (DMA_BEAT_BYTES)
  EchoTop,      \* max_chip_addr of preload_data_echo (0x400)
  Garbage,      \* what the BRAM may hold after power-up
  WrongData,    \* a value the chip stores when it computes wrongly
  MaxFaults     \* bound on failed transfers and missed resets

ASSUME SweepAssumption ==
  /\ Backends \subseteq {"hw", "cosim", "mock"}
  /\ Sweeps \subseteq Seq(Vectors)
  /\ RegionWords \in Nat /\ BeatWords \in Nat \ {0} /\ EchoTop \in Nat \ {0}
  /\ Garbage \subseteq Nat /\ WrongData \in Nat /\ MaxFaults \in Nat

(* What the parsers of test_vector.py make of well-formed files.           *)
MemLines == Seq([kind : {"entry", "comment"}, addr : Nat, words : Seq(Nat)])

ASSUME VectorAssumption ==
  \A v \in Vectors :
    /\ v.readable \in BOOLEAN /\ v.grid \in [1..3 -> Nat]
    /\ v.meta \in MemLines /\ v.bs \in MemLines
    /\ v.json.writes \in Seq([addr : Nat, data : Nat, strb : Nat])
    /\ v.json.overrides \in Seq(Range(v.json.overrides))
    /\ \A o \in Range(v.json.overrides) : o.x \in Nat

VARIABLES
  backend, sweep,
  test,       \* number of the vector in progress
  pc,         \* where main is
  md,         \* the MiniDice handle: "none", "open" or "closed"
  idx,        \* next slot to read, or next CTA to launch
  csrValues,  \* rt.csr_values
  csrs,       \* the launch registers of the CTA launched last
  baseline,   \* prelaunch
  actual,     \* slots read back so far
  outcome, cta, finished, leftover,   \* of CtaService
  late,       \* answers of the co-simulation nobody has taken yet
  aligned,    \* no recv has timed out inside a frame
  mem,        \* BRAM: regions meta, bs and data
  running,    \* the test whose CTA, the one launched last, the chip runs; 0 for none
  others,     \* the CTAs it runs besides
  stored,     \* what the CTA of running has stored since this test's reset
  verdict,    \* of check and of the diagnosis, for the report
  results,    \* summary: one flag per test run
  landed,     \* per test: its CTAs have stored all they had to, or it was disturbed
  exit,       \* exit code, or "crash" for an exception out of main
  faults      \* failed transfers and missed resets so far

ctaVars   == <<outcome, cta, finished, leftover>>
testVars  == <<csrValues, csrs, baseline, actual, verdict>>
runVars   == <<running, others>>
chipVars  == <<mem, runVars, stored>>
sockVars  == <<late, aligned>>
sweepVars == <<backend, sweep, test, md, results, landed, exit>>
kernelVars == <<sweepVars, pc, idx, testVars, ctaVars, chipVars, sockVars, faults>>

Cta == INSTANCE CtaService

Vector   == sweep[test]
Expected == Vector.json.writes
DataAddrs == (UNION {{w.addr : w \in Range(v.json.writes)} : v \in Vectors}) \cup 0..(EchoTop - 1)
Words == 0..(RegionWords - 1)

NoVerdict == [rows |-> [a \in {} |-> <<>>], missing |-> {}, wrong |-> {},
              ok |-> TRUE, unmatched |-> {}]

KernelInit ==
  /\ backend \in Backends /\ sweep \in Sweeps
  /\ test = 0 /\ md = "none" /\ idx = 1
  /\ pc = IF backend = "cosim" THEN "connect" ELSE "next"
  /\ csrValues = <<>> /\ csrs = <<>> /\ baseline = <<>> /\ actual = <<>>
  /\ Cta!ServiceInit
  /\ late = <<>> /\ aligned = TRUE
  /\ \E g \in Garbage : mem = [meta |-> [w \in Words |-> g], bs |-> [w \in Words |-> g],
                               data |-> [a \in DataAddrs |-> g]]
  /\ running = 0 /\ others = {} /\ stored = {}
  /\ verdict = NoVerdict
  /\ results = <<>> /\ landed = <<>> /\ exit = "none"
  /\ faults = 0

(***************************************************************************)
(* Transfers.                                                              *)
(***************************************************************************)

(* Only the co-simulation can be out of step: a call takes the oldest      *)
(* answer and leaves its own.                                              *)
Answer(kind, val) == [kind |-> kind, val |-> val]
Taken(own)  == Head(Append(late, own))

Left(own)   == Tail(Append(late, own))

(* Many writes in a row: each takes an answer and looks at no more than    *)
(* its status, and what is left over are their own acks.                   *)
LeftByWrites == [i \in DOMAIN late |-> Answer("ack", 0)]

(* Mutation of Fits: a read trusts the length of the answer.               *)
FitsAny(own) == TRUE

(* A read raises if the answer has not the length it asked for.  Inside a  *)
(* frame there is no telling: what does not fit is a transfer that fails.  *)
Fits(own) == aligned => Taken(own).kind = own.kind

(* Inside a frame a slot may read as anything, also as what is expected.   *)
ReadAs(own, expected) == IF aligned THEN {Taken(own).val} ELSE {expected, WrongData}

(***************************************************************************)
(* How a test ends: the summary is extended, and a test that owns its      *)
(* handle closes it (run_test's finally).                                  *)
(***************************************************************************)
HasLanded == \A e \in Range(Expected) :
               e.addr < EchoTop /\ e.data # e.addr => <<e.addr, e.data>> \in stored

(* No CTA has outlived the reset, and the socket has kept its frames.      *)
Undisturbed == leftover = {} /\ aligned

HandleAfterTest == IF md = "open" /\ backend # "cosim" THEN "closed" ELSE md

EndTest(ok) ==
  /\ results' = Append(results, ok)
  /\ landed' = Append(landed, HasLanded \/ ~Undisturbed)
  /\ md' = HandleAfterTest
  /\ pc' = "next"
  /\ UNCHANGED <<backend, sweep, test, exit>>

(* An exception: main's except prints it, the test has failed.             *)
Exception == EndTest(FALSE)

-----------------------------------------------------------------------------
(* The co-simulation's one handle is opened outside the try of the loop.   *)
Connect ==
  /\ pc = "connect"
  /\ \/ md' = "open" /\ pc' = "next" /\ UNCHANGED <<exit, faults>>
     \/ /\ faults < MaxFaults /\ faults' = faults + 1
        /\ exit' = "crash" /\ pc' = "exit" /\ UNCHANGED md
  /\ UNCHANGED <<backend, sweep, test, results, landed, idx, testVars, ctaVars, chipVars, sockVars>>

(* Parse the files, and open the devices unless main did.  The mock has a  *)
(* new memory each time.                                                   *)
OpenHandle(v) ==
  /\ IF ~v.readable
     THEN /\ results' = Append(results, FALSE) /\ landed' = Append(landed, FALSE)
          /\ UNCHANGED <<pc, md, faults, mem>>
     ELSE \/ /\ pc' = "resetWrite"
             /\ md' = IF backend = "cosim" THEN md ELSE "open"
             /\ mem' = IF backend = "mock" THEN [r \in DOMAIN mem |-> [a \in DOMAIN mem[r] |-> 0]]
                       ELSE mem
             /\ UNCHANGED <<results, landed, faults>>
          \/ /\ backend = "hw" /\ faults < MaxFaults /\ faults' = faults + 1
             /\ results' = Append(results, FALSE) /\ landed' = Append(landed, FALSE)
             /\ UNCHANGED <<pc, md, mem>>

BeginTest ==
  /\ pc = "next" /\ test < Len(sweep)
  /\ test' = test + 1
  /\ OpenHandle(sweep[test + 1])
  /\ csrValues' = sweep[test + 1].json.csr /\ csrs' = <<>>
  /\ baseline' = <<>> /\ actual' = <<>> /\ verdict' = NoVerdict
  /\ idx' = 1
  /\ UNCHANGED <<backend, sweep, exit, ctaVars, runVars, stored, sockVars>>

(* main after the loop.                                                    *)
Summarize ==
  /\ pc = "next" /\ test = Len(sweep)
  /\ md' = IF md = "open" THEN "closed" ELSE md
  /\ exit' = IF \A i \in DOMAIN results : results[i] THEN "0" ELSE "1"
  /\ pc' = "exit"
  /\ UNCHANGED <<backend, sweep, test, results, landed, idx, testVars, ctaVars, chipVars, sockVars,
                 faults>>

(***************************************************************************)
(* reset_chip.                                                             *)
(***************************************************************************)

(* Mutation of ResetWrite: the chip goes on with what it was doing.        *)
ResetWriteMissed ==
  /\ pc = "resetWrite"
  /\ pc' = "resetPoll" /\ stored' = {}
  /\ late' = LeftByWrites
  /\ outcome' = "failed"
  /\ UNCHANGED <<sweepVars, idx, testVars, cta, finished, leftover, mem, runVars, aligned, faults>>

(* What the chip is running.                                               *)
Cta_(c, t) == [cta |-> c, test |-> t]
AllRunning == others \cup (IF running = 0 THEN {} ELSE {Cta_(cta, running)})

(* The pulse takes effect long before the bit is polled; or the write is   *)
(* lost on hardware, or the polls of the co-simulation overtake it, and    *)
(* what the chip runs goes on (counted with the faults).                   *)
ResetWrite ==
  /\ pc = "resetWrite"
  /\ pc' = "resetPoll" /\ running' = 0 /\ stored' = {}
  /\ \/ others' = {} /\ UNCHANGED faults
     \/ /\ backend # "mock" /\ faults < MaxFaults /\ faults' = faults + 1
        /\ others' = AllRunning
  /\ late' = Left(Answer("ack", 0))
  /\ Cta!BeginReset
  /\ UNCHANGED <<sweepVars, idx, testVars, mem, aligned>>

ResetEnds == /\ pc' = "meta" /\ UNCHANGED sweepVars
             /\ Cta!EndReset /\ leftover' = {o.cta : o \in others}

(* Bit 0 of whatever answer comes: it is clear, or it is set and the poll  *)
(* goes on or is out of time.  An answer of the wrong length raises.       *)
ResetPoll ==
  /\ pc = "resetPoll"
  /\ LET own == Answer("rd32", 0)
     IN  /\ late' = Left(own)
         /\ IF Fits(own)
            THEN \/ ResetEnds
                 \/ backend # "mock" /\ UNCHANGED <<sweepVars, pc, ctaVars>>
                 \/ backend # "mock" /\ Exception /\ UNCHANGED ctaVars
            ELSE Exception /\ UNCHANGED ctaVars
  /\ UNCHANGED <<idx, testVars, chipVars, aligned, faults>>

(***************************************************************************)
(* The preloads.                                                           *)
(***************************************************************************)
MetaImage == LET meta == LoadMemfileMap(Vector.meta)
                 end  == IF DOMAIN meta = {} THEN 0 ELSE (Max(DOMAIN meta) + 1) * LineWords
             IN  [w \in 0..(Min({end, RegionWords}) - 1) |-> MetaRead32(meta, w)]

BsImage == LET bs  == LoadMemfileMap(Vector.bs)
               end == IF DOMAIN bs = {} THEN 0 ELSE Max(DOMAIN bs) + 1
           IN  [w \in 0..(Min({end, RegionWords}) - 1) |-> BitstreamRead32(bs, w)]

EchoImage == [a \in 0..(EchoTop - 1) |-> a]

(* XdmaCosimH2C.write fills up the last beat with zeros.                   *)
Beats(image) ==
  LET n == Cardinality(DOMAIN image)
      padded == ((n + BeatWords - 1) \div BeatWords) * BeatWords
  IN  [w \in 0..(padded - 1) |-> IF w < n THEN image[w] ELSE 0]

Over(region, image) == [w \in DOMAIN region |-> IF w \in DOMAIN image THEN image[w] ELSE region[w]]

(* Mutation of Verified: the image is not read back.                       *)
VerifiedBlindly(region, image) == TRUE

(* _verify_region, and the end of preload_data_echo.                       *)
Verified(region, image) == \A w \in DOMAIN image : region[w] = image[w]

(* One DMA write of an image and its read-back.  Inside a frame the error  *)
(* that the simulator reports is lost on the driver.                       *)
Preload(r, image, next) ==
  LET sent == IF backend = "cosim" /\ r # "data" THEN Beats(image) ELSE image
      lost == /\ backend = "hw" \/ ~aligned
              /\ faults < MaxFaults /\ faults' = faults + 1 /\ mem' = mem
      done == faults' = faults /\ mem' = [mem EXCEPT ![r] = Over(@, sent)]
  IN  IF DOMAIN image = {}
      THEN pc' = next /\ UNCHANGED <<sweepVars, mem, late, faults>>
      ELSE /\ lost \/ done
           /\ late' = LeftByWrites
           /\ IF backend = "hw" /\ ~Verified(mem'[r], image)
              THEN Exception
              ELSE pc' = next /\ UNCHANGED sweepVars

PreloadMeta == /\ pc = "meta" /\ Preload("meta", MetaImage, "bs")
               /\ UNCHANGED <<idx, testVars, ctaVars, runVars, stored, aligned>>

PreloadBs == /\ pc = "bs" /\ Preload("bs", BsImage, "echo")
             /\ UNCHANGED <<idx, testVars, ctaVars, runVars, stored, aligned>>

PreloadEcho == /\ pc = "echo"
               /\ Preload("data", EchoImage, IF backend = "mock" THEN "launch" ELSE "baseline")
               /\ UNCHANGED <<idx, testVars, ctaVars, runVars, stored, aligned>>

-----------------------------------------------------------------------------
(* bram_read_data_word of slot idx of the expected writes, into list.      *)
ReadSlot(list, other) ==
  LET own == Answer("line", mem.data[Expected[idx].addr])
  IN  /\ idx <= Len(Expected)
      /\ late' = Left(own)
      /\ IF Fits(own)
         THEN /\ \E v \in ReadAs(own, Expected[idx].data) : list' = Append(list, v)
              /\ idx' = idx + 1 /\ UNCHANGED <<sweepVars, pc>>
         ELSE Exception /\ UNCHANGED <<list, idx>>
      /\ UNCHANGED <<csrValues, csrs, other, verdict, ctaVars, chipVars, aligned, faults>>

(* Mutation of ReadBaseline: the slots count as zero.                      *)
ReadBaselineAsZero ==
  /\ pc = "baseline" /\ idx <= Len(Expected)
  /\ baseline' = Append(baseline, 0) /\ idx' = idx + 1
  /\ UNCHANGED <<sweepVars, pc, csrValues, csrs, actual, verdict, ctaVars, chipVars, sockVars,
                 faults>>

ReadBaseline == pc = "baseline" /\ ReadSlot(baseline, actual)

BaselineDone ==
  /\ pc = "baseline" /\ idx > Len(Expected)
  /\ pc' = "launch" /\ idx' = 1
  /\ UNCHANGED <<sweepVars, testVars, ctaVars, chipVars, sockVars, faults>>

(***************************************************************************)
(* The loop over the CTAs.                                                 *)
(***************************************************************************)

(* START.  What the chip makes of one while it runs a CTA is not known: it *)
(* may go on with any of them.                                             *)
Starts ==
  /\ running' \in IF AllRunning = {} THEN {test} ELSE {0, test}
  /\ others' \in SUBSET AllRunning

(* Mutation of Launch: effective_csrs overrides rt.csr_values itself.      *)
LaunchInPlace ==
  /\ pc = "launch" /\ idx <= NumCtas(Vector.grid)
  /\ csrs' = EffectiveCsrs(csrValues, PerCtaOverrides(Vector.json), idx - 1)
  /\ csrValues' = csrs'
  /\ Cta!LaunchCta /\ Starts
  /\ late' = LeftByWrites
  /\ pc' = "wait"
  /\ UNCHANGED <<sweepVars, idx, baseline, actual, verdict, mem, stored, aligned, faults>>

(* launch_cta: its writes, START the last.                                 *)
Launch ==
  /\ pc = "launch" /\ idx <= NumCtas(Vector.grid)
  /\ csrs' = EffectiveCsrs(csrValues, PerCtaOverrides(Vector.json), idx - 1)
  /\ Cta!LaunchCta /\ Starts
  /\ late' = LeftByWrites
  /\ pc' = "wait"
  /\ UNCHANGED <<sweepVars, idx, csrValues, baseline, actual, verdict, mem, stored, aligned,
                 faults>>

(* The wait returns: what CtaService says of it rests on the answers.      *)
WaitReturns ==
  /\ IF aligned THEN Cta!ReportDone ELSE outcome' = "done" /\ UNCHANGED <<cta, finished, leftover>>
  /\ pc' = "launch" /\ idx' = idx + 1 /\ UNCHANGED sweepVars

(* Mutation of Wait: no deadline.                                          *)
WaitForEver ==
  /\ pc = "wait"
  /\ LET own == Answer("rd32", 0)
     IN  /\ late' = Left(own)
         /\ IF Fits(own)
            THEN WaitReturns
            ELSE Cta!GiveUp /\ Exception /\ UNCHANGED idx
  /\ UNCHANGED <<testVars, chipVars, aligned, faults>>

(* wait_for_cta_done returns, raises its TimeoutError, or gets an answer   *)
(* that is not a read's.                                                   *)
Wait ==
  /\ pc = "wait"
  /\ LET own == Answer("rd32", 0)
     IN  /\ late' = Left(own)
         /\ IF Fits(own)
            THEN \/ WaitReturns
                 \/ backend # "mock" /\ Cta!GiveUp /\ pc' = "hang" /\ UNCHANGED <<idx, sweepVars>>
            ELSE Cta!GiveUp /\ Exception /\ UNCHANGED idx
  /\ UNCHANGED <<testVars, chipVars, aligned, faults>>

CtasDone ==
  /\ pc = "launch" /\ idx > NumCtas(Vector.grid)
  /\ IF backend = "mock"
     THEN EndTest(TRUE) /\ UNCHANGED idx
     ELSE pc' = "readBack" /\ idx' = 1 /\ UNCHANGED sweepVars
  /\ UNCHANGED <<testVars, ctaVars, chipVars, sockVars, faults>>

(* _dump_hang_state: four CSR reads while the chip hangs; the first that   *)
(* raises ends it.                                                         *)
DumpHangState ==
  /\ pc = "hang"
  /\ LET misfits == {i \in 1..4 : aligned /\ i <= Len(late) /\ late[i].kind # "rd32"}
         made    == IF misfits = {} THEN 4 ELSE Min(misfits)
         queue   == late \o [i \in 1..made |-> Answer("rd32", 0)]
     IN  /\ late' = SubSeq(queue, made + 1, Len(queue))
         /\ IF misfits = {}
            THEN pc' = "hangReadBack" /\ idx' = 1 /\ UNCHANGED sweepVars
            ELSE Exception /\ UNCHANGED idx
  /\ UNCHANGED <<testVars, ctaVars, chipVars, aligned, faults>>

ReadBack == pc \in {"readBack", "hangReadBack"} /\ ReadSlot(actual, baseline)

(* _classify_writes: by_addr keeps the last value read of an address.      *)
LastAt(list, addr) == list[Max({i \in DOMAIN Expected : Expected[i].addr = addr})]

Unchanged(e) == LastAt(actual, e.addr) = LastAt(baseline, e.addr)
Incorrect    == {e \in Range(Expected) : LastAt(actual, e.addr) # e.data}

ActualWrites == [i \in DOMAIN Expected |-> [Expected[i] EXCEPT !.data = actual[i]]]

(* check, the report, the diagnosis and the result.                        *)
Verify ==
  /\ pc \in {"readBack", "hangReadBack"} /\ idx > Len(Expected)
  /\ LET c == Check(ActualWrites, Expected)
     IN  /\ verdict' =
              [rows |-> [a \in {e.addr : e \in Range(Expected)} |->
                           Rows(ActualWrites, Expected, c.matched, a)],
               missing |-> {e.addr : e \in {f \in Incorrect : Unchanged(f)}},
               wrong   |-> {e.addr : e \in {f \in Incorrect : ~Unchanged(f)}},
               ok |-> c.ok,
               unmatched |-> {Expected[i].addr : i \in DOMAIN Expected \ c.matched}
                               \cup {u.addr : u \in Range(c.unexpected)}]
         /\ EndTest(pc = "readBack" /\ c.ok)
  /\ UNCHANGED <<idx, csrValues, csrs, baseline, actual, ctaVars, chipVars, sockVars, faults>>

(***************************************************************************)
(* Transfers that fail.                                                    *)
(***************************************************************************)
BarAccesses == {"resetWrite", "resetPoll", "launch", "wait", "hang"}
DmaWrites   == {"meta", "bs", "echo"}
SlotReads   == {"baseline", "readBack", "hangReadBack"}

(* The transfer the driver would make next, if it waits for an answer.     *)
OwnAnswer == CASE pc \in {"resetPoll", "wait", "hang"} -> Answer("rd32", 0)
               [] pc \in SlotReads -> Answer("line", mem.data[Expected[idx].addr])
               [] OTHER -> Answer("ack", 0)

Transferring == /\ pc \in BarAccesses \cup DmaWrites \cup SlotReads
                /\ pc = "launch" => idx <= NumCtas(Vector.grid)
                /\ pc \in SlotReads => idx <= Len(Expected)

(* A call that raises: a wait is given up; a launch may have got to START. *)
RaisedInCta == CASE pc = "wait"   -> Cta!GiveUp
                 [] pc = "launch" -> Cta!LaunchFails
                 [] OTHER         -> UNCHANGED ctaVars

(* A launch that does not get to START: what runs is an earlier CTA.       *)
NoStart == IF pc = "launch" THEN running' = 0 /\ others' = AllRunning ELSE UNCHANGED runVars

(* What the simulator makes of a request nobody has the answer of.         *)
ServedLater ==
  \/ NoStart
  \/ pc = "launch" /\ Starts
  \/ pc = "resetWrite" /\ running' = 0 /\ others' = {}

(* A DMA device, or the simulator, reports an error; the mapped BAR of the *)
(* hardware cannot.  Inside a frame any answer may look like an error.     *)
TransferFails ==
  /\ Transferring
  /\ \/ /\ faults < MaxFaults /\ faults' = faults + 1
        /\ backend = "cosim" \/ (backend = "hw" /\ pc \in DmaWrites \cup SlotReads)
        /\ NoStart
     \/ ~aligned /\ ServedLater /\ UNCHANGED faults
  /\ late' = IF late = <<>> THEN late ELSE Left(OwnAnswer)
  /\ RaisedInCta /\ Exception
  /\ UNCHANGED <<idx, testVars, mem, stored, aligned>>

(* The socket's timeout, before a frame or inside one: its exception is a  *)
(* TimeoutError too, so run_test takes one that strikes in the wait for a  *)
(* hang of the chip.  The simulator still serves the request, a START too. *)
SocketTimeout ==
  /\ Transferring /\ backend = "cosim" /\ aligned /\ faults < MaxFaults
  /\ faults' = faults + 1
  /\ late' = Append(late, OwnAnswer)
  /\ aligned' \in BOOLEAN
  /\ IF pc = "wait" THEN pc' = "hang" /\ UNCHANGED sweepVars ELSE Exception
  /\ RaisedInCta /\ ServedLater
  /\ UNCHANGED <<idx, testVars, mem, stored>>

(***************************************************************************)
(* The chip.                                                               *)
(***************************************************************************)

(* It stores where its kernel stores, a right value or a wrong one.        *)
StoresFor(t, e, v) ==
  /\ e \in Range(sweep[t].json.writes) /\ v \in {e.data, WrongData}
  /\ mem' = [mem EXCEPT !.data[e.addr] = v]
  /\ UNCHANGED <<sweepVars, pc, idx, testVars, ctaVars, runVars, sockVars, faults>>

ChipStores ==
  /\ running # 0 /\ backend # "mock"
  /\ \E e \in Range(sweep[running].json.writes) : \E v \in {e.data, WrongData} :
       /\ StoresFor(running, e, v)
       /\ stored' = IF running = test THEN stored \cup {<<e.addr, v>>} ELSE stored

OtherStores ==
  \E o \in others : \E e \in Range(sweep[o.test].json.writes) : \E v \in {e.data, WrongData} :
    StoresFor(o.test, e, v) /\ UNCHANGED stored

ChipCompletes ==
  /\ running # 0
  /\ running' = 0
  /\ Cta!CompleteCta(cta)
  /\ UNCHANGED <<sweepVars, pc, idx, testVars, mem, others, stored, sockVars, faults>>

OtherCompletes ==
  /\ \E o \in others : others' = others \ {o} /\ Cta!CompleteCta(o.cta)
  /\ UNCHANGED <<sweepVars, pc, idx, testVars, mem, running, stored, sockVars, faults>>

(* The pulse of a reset that reset_chip has not waited for.                *)
LatePulse ==
  /\ backend = "cosim" /\ others # {}
  /\ running' = 0 /\ others' = {}
  /\ UNCHANGED <<sweepVars, pc, idx, testVars, ctaVars, mem, stored, sockVars, faults>>

(* On the mock, wait_for_cta_done itself sets STATUS between its phases.   *)
MockCompletes == backend = "mock" /\ ChipCompletes

-----------------------------------------------------------------------------
Done == pc = "exit" /\ UNCHANGED kernelVars

Preloads == PreloadMeta \/ PreloadBs \/ PreloadEcho \/ ReadBaseline \/ BaselineDone
Main == \/ Connect \/ BeginTest \/ Summarize
        \/ ResetWrite \/ ResetPoll \/ Preloads
        \/ Launch \/ Wait \/ CtasDone \/ DumpHangState \/ ReadBack \/ Verify
        \/ MockCompletes
Faults == TransferFails \/ SocketTimeout
Chip   == \/ ChipStores \/ (backend # "mock" /\ ChipCompletes)
          \/ OtherStores \/ OtherCompletes \/ LatePulse

KernelNext == Main \/ Faults \/ Chip \/ Done

(* run_kernel.py runs, and the waits of its driver end.                    *)
KernelSpec == KernelInit /\ [][KernelNext]_kernelVars /\ WF_kernelVars(Main)

-----------------------------------------------------------------------------
Stages == {"connect", "next", "exit", "baseline", "readBack", "hangReadBack",
           "resetWrite", "resetPoll", "meta", "bs", "echo", "launch", "wait", "hang"}

KernelTypeOK ==
  /\ backend \in Backends /\ sweep \in Sweeps /\ test \in 0..Len(sweep)
  /\ pc \in Stages /\ md \in {"none", "open", "closed"}
  /\ running \in 0..test /\ others \subseteq [cta : 1..cta, test : 1..test]
  /\ aligned \in BOOLEAN
  /\ late \in Seq([kind : {"ack", "rd32", "line"}, val : Nat]) /\ Len(late) <= faults
  /\ Len(results) \in {test, test - 1} /\ Len(landed) = Len(results)
  /\ exit \in {"none", "0", "1", "crash"} /\ faults \in 0..MaxFaults

(* PASS is never left over: a test that passes on a board or in the        *)
(* co-simulation has had each of its writes stored by its own CTAs, with   *)
(* its own data, whatever an earlier test left in the BRAM, was still      *)
(* storing, or left in the socket.  Only writes whose slot the echo seeds  *)
(* with other data can tell (read_back_writes; addresses from 0x400 on and *)
(* data equal to the echo are beyond it), and only in a test that neither  *)
(* a CTA that has outlived the reset nor a broken frame has disturbed.     *)
PassMeansStored == backend # "mock" => \A i \in DOMAIN results : results[i] => landed[i]

(* The words that the files give a region, said without the parsers: what  *)
(* the last entry that covers a word has there, and 0 where none does.     *)
FileWord(lines, span, w) ==
  LET covers == {i \in DOMAIN lines : lines[i].kind = "entry" /\ lines[i].addr = w \div span}
      e      == lines[Max(covers)]
      place  == Len(e.words) - (w % span)
  IN  IF covers = {} \/ place < 1 THEN 0 ELSE e.words[place]

(* No CTA runs on an image that is not its files': the DMA that mis-lands, *)
(* or an image the test before left, is noticed before the launch          *)
(* (preload_meta, preload_bs, _verify_region), as long as the answers of   *)
(* the co-simulation are whole.                                            *)
RunsOnItsImages ==
  aligned /\ running # 0 /\ running = test /\ pc # "resetWrite" =>
    /\ \A w \in DOMAIN MetaImage : mem.meta[w] = FileWord(Vector.meta, LineWords, w)
    /\ \A w \in DOMAIN BsImage : mem.bs[w] = FileWord(Vector.bs, 1, w)

(* The doc of meta_read32: the chip's fetches "see zero-padding past the   *)
(* end of the populated image".                                            *)
TailReadsZero ==
  running # 0 /\ running = test /\ pc # "resetWrite" =>
    \A w \in Words : mem.meta[w] = FileWord(Vector.meta, LineWords, w)

(* What the diagnosis says of a slot is true: WRONG, a CTA of this test    *)
(* has stored there, even if the chip hangs and goes on storing while the  *)
(* slots are read; MISSING after a complete run, none has, for a slot the  *)
(* echo seeds (_classify_writes).  A CTA of another test that has outlived *)
(* the reset, or a broken frame, can make it say anything.                 *)
DiagnosisIsTrue ==
  LET touched == {s[1] : s \in stored}
  IN  Undisturbed =>
      /\ verdict.wrong \subseteq touched
      /\ outcome = "done" => verdict.missing \cap touched \cap 0..(EchoTop - 1) = {}

(* Every address with a discrepancy has a row that shows one, and no other *)
(* address has, also when writes share an address (_format_report).        *)
ReportShowsEveryFailure ==
  \A a \in DOMAIN verdict.rows :
    (a \in verdict.unmatched) <=> \E i \in DOMAIN verdict.rows[a] : verdict.rows[a][i] # "OK"

(* An override is its CTA's alone: a later CTA without one gets the value  *)
(* of the kernel (effective_csrs).                                         *)
OverridesDoNotLeak ==
  pc = "wait" =>
    \A k \in DOMAIN csrs :
      csrs[k] # Vector.json.csr[k] =>
        \E i \in DOMAIN Vector.json.overrides :
          LET o == Vector.json.overrides[i]
          IN  o.x = idx - 1 /\ k \in DOMAIN o.vals /\ o.vals[k] = csrs[k]

(* Once a socket timeout has put the answers out of step, no test of the   *)
(* sweep passes: a wrong answer never counts as the right one, as long as  *)
(* every answer is whole.  One that a timeout has cut in two can let a     *)
(* later test pass.                                                        *)
NoPassOutOfStep ==
  [][Len(results') > Len(results) /\ late # <<>> /\ aligned
       => ~results'[Len(results')]]_kernelVars

(* main returns, whatever the chip, the devices and the simulator do.      *)
MainEnds == <>(pc = "exit")
=============================================================================
