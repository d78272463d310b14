# TLA+ models of the PNCEL Alveo card

This directory models the hardware and the host software of this repository in
TLA+: the models are checked with TLC on small instances, and theorems about
them are proved with TLAPS.  The repository drives an FPGA card (an Alveo)
that an x86 host reaches over PCIe.  On the card an AXI bus is carried over an
Aurora 64b/66b link to a second board; next to it sit a matrix unit, a core
under test (Mini-Dice), register files, and the control for partial
reconfiguration.  On the host, Python programs load kernels into the card,
launch them, judge their results, and bring a board up.  Paths below are
relative to the repository; `bridge/` stands for `src/src/aurora_bridge/`,
`util/` for `src/src/utility/` and `host/` for `src/host/`.

## 1. Inventory

### The host

| Component | State | Operations | What makes it correct |
|---|---|---|---|
| Co-simulation channel, `host/cosim.py` | a socket; how far into a frame the last recv got | `read32`, `write32`, DMA write (line by line), DMA read, QUIT | a response answers its own request; no call hangs; closing ends the simulation |
| CTA launch, `host/mini_dice.py` | none but its place in a call; the chip keeps the launch registers and a sticky complete bit | `launch_cta`, `wait_for_cta_done`, `reset_chip` | "done" is about the CTA launched last; START finds this CTA's registers |
| XDMA devices, `host/xdma.py` | file descriptors; the mock's memory | BAR read and write, H2C, C2H, mock | a transfer that fails says so |
| Test vectors, `host/test_vector.py` | META and bitstream maps, CSR values, overrides | parse mem files and JSON, `meta_read32`, `effective_csrs` | what is loaded is what the files say; an override is its CTA's alone |
| Kernel runner, `host/run_kernel.py` | the sweep, its results; the board's BRAM behind it | reset, preload and verify META, BS and echo, launch every CTA, diagnose a hang, read back, report | PASS means that the chip stored it; a FAIL is diagnosed truly; the sweep ends |
| Verifier, `host/verifier.py` | matched and unexpected entries | `check`, report rows | every discrepancy is shown |
| CSR self-test, `host/csr_selftest.py` | counts per CSR and per round | write patterns, read back, verdict | the verdict names the fault there is |
| Smoke tests, `host/smoketest.py` | results | devices, BAR, loopbacks, DMA, reset | a dead path does not pass; the board is left clean |
| Bitstream info and BAR probe, `host/read_bitstream_info.py`, `probe_bar.py` | none | read addresses, compare | no read that hangs the host unless asked for |

### The card

| Component | State | Operations | What makes it correct |
|---|---|---|---|
| Full write sender, `bridge/axi_to_aurora.sv` | write FSM, AW registers, byte buffer and its count, `last_seen_r`, one-deep B staging | take AW, take a W beat, send a header or continuation flit, take the B packet, answer the master | bytes leave in order, each once; a burst's beats stay with its AW; a last, partly filled flit is sent; a B is never overwritten |
| Depacketizer, `bridge/axi_depacketizer.sv` | write FSM, AW and shadow AW, receive byte buffer, two countdowns; read FSM | take a header or continuation flit (no back-pressure), drive AW, W, wait for B; drive AR | knows header from data without an opcode on data; never overruns; no frame lost |
| Lite sender, `bridge/axi_lite_to_aurora.sv` | write FSM, AW and W registers, B staging; read FSM | take AW and W together, send one flit, take the B packet | answered only for its own write |
| Bridge top, `bridge/axi_aurora_bridge_inv.sv` | data-TX arbiter, user-K arbiter, `in_cont` gates | grant a frame to one of three senders | frames are never mixed |
| Responder and packetizer, `bridge/axi_aurora_responder.sv`, `axi_packetizer.sv` | B, B-Lite and R-Lite staging; R byte buffer and FSM | stage and send responses, send R frames | a response is staged before the next; R bytes in order |
| R receiver, `bridge/aurora_r_receiver.sv` | receive byte buffer, countdown | take flits, hand out R beats | never overruns, `rlast` on the last beat |
| AXI-Lite over Aurora, `util/axil_to_aurora.sv`, `aurora_to_axil.sv` | FSM and request registers at each end | send a request, take it, answer a read | a read returns its own data; no posted write is lost |
| Register files, `util/axil_reg_map.sv`, `axi_lite_register.sv` | write and read FSMs, registers | AXI-Lite write and read | every acknowledged write is stored |
| Matrix unit, `src/src/dynamic/mmu/` | control FSM, row counters, load and store engines, systolic array | start, load weights, load activations, compute, store | the rows the array sees are the rows of the matrix; `done` means stored |
| Mini-Dice region, `src/src/mini_dice_alveo_dynamic_region.sv` | soft-reset FSM, AXI stub, wiring | pulse reset on a register write, answer stray data writes | one reset for one request |
| Static region and decoupler, `src/src/system_config/`, `util/axi_decoupler.sv` | PR control register | decouple, reset the dynamic region | no transaction crosses while decoupled |
| Aurora wrapper and Aurora region, `src/src/aurora/`, `src/src/dynamic/aurora/` | reset synchronisers | none of its own | - |
| Board files, scripts, constraints, vendor IP | - | - | - |

### How they interact

`run_kernel.py` drives `MiniDice`, which has three backends behind the same
calls: the XDMA character devices of a card, a socket to a co-simulation, and a
dictionary.  It calls the parsers before, and the verifier after a launch; all
tests of a sweep share one chip and one BRAM.  The bring-up tools are programs
of their own that share the board: what one leaves in a register the next finds.

The near end of the bridge has a Full AXI slave (512 or 256 bits) and a Lite
slave.  Their senders share one 256-bit data channel through a frame-atomic
arbiter.  The far end's depacketizer turns frames into AXI transactions of a
Full and a Lite master port; the responder's packetizer sends B and B-Lite
back as packets on the Aurora user-K channel and R data as frames on the data
channel.  The data channel's receive side has no `tready`: a flit that is not
taken on its clock edge is gone.  Responses on user-K have no `tready` either;
each sender stages one.  The register path (`axil_to_aurora`,
`aurora_to_axil`) uses packets of its own.

### What is hard

On the host:

* A response of the co-simulation says neither which request nor which
  operation it answers.  After a recv timeout the late answer stays in the
  socket; one that strikes inside a frame leaves half a frame.
* `socket.timeout` *is* `TimeoutError` (from Python 3.10 on), which is what
  `wait_for_cta_done` raises: `run_kernel.py` takes a slow simulator for a chip
  that hangs and goes on with the socket out of step.
* Register writes are posted.  Hardware may lose one; in the co-simulation a
  read may overtake them.  The complete bit is sticky, and says of no CTA that
  it is its.
* Results are read from the memory the inputs were loaded into, in which an
  earlier test has stored, or a CTA that was given up still stores.
* A transfer may fail in any stage, or land nowhere without an error.
* A bring-up tool may be killed at any step and leaves its patterns.

On the card:

* Both ends of the write path compute from `awlen` and a byte count which flits
  belong to a frame and how many of their bytes count: no flit says so.  One
  slip turns data into headers or headers into data.
* A W beat may be taken and a flit sent on the same clock edge.
* Byte counts are as narrow as `$clog2` makes them.
* Nothing holds the sender back when the memory is slow.
* Two writers share one depacketizer whose queue is one shadow register.
* Next-state logic and latch logic are separate processes that read the same
  old state; an edge with two events shows where they disagree.
* The same holds, with other details, for the R path, the register path, the
  register files, the matrix unit's pipeline and the reset pulse.

`PROJECT.json` lists every hazard at its line, and the property that watches
it or why none does.

## 2. Modules

| Module | Models |
|---|---|
| `CosimChannel` | the socket of `cosim.py`: calls, late and broken answers, QUIT, a simulator that dies |
| `CtaService` | abstract: what a launch and its wait promise |
| `CtaLaunch` | `launch_cta`, `wait_for_cta_done`, `reset_chip` of `mini_dice.py` on all backends; implements `CtaService` |
| `TestVector`, `Verifier` | `test_vector.py`, `verifier.py`, as operators |
| `RunKernel` | `run_kernel.py` with BRAM, chip and transfer faults; launches by `CtaService` |
| `MCRunKernel` | test vectors and sweeps for `RunKernel` |
| `Board` | the board of the bring-up tools, and the shell |
| `CsrSelftest`, `Smoketest`, `BoardProbes` | `csr_selftest.py`; `smoketest.py`; `read_bitstream_info.py` and `probe_bar.py` |
| `Bringup`, `MCBringup` | the tools one after the other on one board; boards for it |
| `ByteBuffer` | the byte buffers of both ends: write at an offset, shift out |
| `AuroraFlit` | geometry of a chunked write frame: flits, byte totals, counter widths |
| `AxiToAurora`, `Depacketizer` | write paths of `axi_to_aurora.sv` and `axi_depacketizer.sv` |
| `AxiWriteService` | abstract: what the write bridge promises its master and its memory |
| `AuroraWrite` | sender, link, depacketizer, B staging, master and memory; implements `AxiWriteService` |
| `BridgeWrite` | `AuroraWrite` plus Lite sender, arbiter, shared depacketizer |
| `AuroraLink` | the data wire, shared by the write and the read direction |
| `RSender`, `RReceiver` | chunked R sender of `axi_packetizer.sv`; `aurora_r_receiver.sv` |
| `AxiReadService` | abstract: what the read bridge promises its master |
| `AuroraRead` | AR packets of both slaves, the depacketizer's read FSM, memory, R and R-Lite back; implements `AxiReadService` |
| `BridgeDuplex` | `AuroraWrite` and `AuroraRead` in opposite directions on one data channel: arbiter, `in_cont` cross-gating |
| `MmuPkg`, `SystolicArray`, `MmuEngines`, `MmuControl` | tile sizes; skews, mesh and valid pipe; load and store engines; control FSM, compute sub-FSM, drive registers |
| `Mmu` | `mmu_top.sv`: all of these, the buffers, HBM and the host, one clock edge a step |
| `CosimChannel_proofs`, `CtaLaunch_proofs`, `RunKernel_proofs`, `Bringup_proofs`, `AuroraWrite_proofs`, `BridgeWrite_proofs`, `Mmu_proofs` | theorems about the module of that name |
| `BridgeDuplex_proofs` | theorems about `AuroraRead` and about `BridgeDuplex` |

Composition is by EXTENDS: `AuroraWrite` extends the two ends and joins their
actions over the wires; `BridgeWrite` extends `AuroraWrite`; `AuroraRead`
extends `RSender` and `RReceiver`; `BridgeDuplex` extends `AuroraWrite` and
`AuroraRead`, which share the data wire of `AuroraLink`; `Mmu` extends
`MmuControl`, `MmuEngines` and `SystolicArray`; `Bringup` extends the tools,
which share `Board`.  `RunKernel` takes launch and wait from `CtaService` by
INSTANCE, as actions of its own, rather than the registers and polls of
`CtaLaunch`: that `CtaLaunch` implements that service is checked and proved, so
the sweep need not contain it.  In the same way it has, of `CosimChannel`, only
what that module shows, that after `n` timeouts every call takes the answer of
`n` requests before.  No module uses a RECURSIVE operator.

### Correspondence on the host

A step of the Python program that another actor could see from the outside, or
that can fail, is an action; a loop is one action per turn where something may
happen between two turns, and one action where nothing does.

* **`CosimChannel`.**  One action for a send, and one for each way a recv ends:
  a whole frame, a timeout before or inside a frame, the peer's end of file.
  After a timeout inside a frame what follows is read as a header by luck, so
  `RecvGarbage` lets the call end in any way.  Lengths count 4-byte words.  The
  ids of requests and answers are history, not in the code's frames: the code
  has none, and the properties ask what that costs.
* **`CtaLaunch`.**  Posted writes wait in `link`, `reset_chip`'s write of
  SOFT_RESET like the others.  A hardware read comes after all of them
  (`CanRead`), but the link may lose one; a co-simulation read may come before;
  the mock has no link.  So the poll of `reset_chip` may read a bit that was
  never set, and the chip goes on (`LeftByReset`); what it makes of a START
  while it runs a CTA is not in the repository, so it may go on with any of
  them.  `leftover` (CTAs that run when `reset_chip` returns) and `early` (a
  launch that begins before the reset is over) are history.  `Want` is the
  value of a register for a CTA: registers in `Shared` have the same value for
  all of them.  The ten launch registers are `NRegs`.  A poll and the look at
  the clock after it are two steps.
* **`RunKernel`.**  `pc` is the stage of `run_test` and `main`.  `mem` has the
  META, BS and DATA regions as words; addresses are word numbers.  `late` holds
  the answers nobody has taken, `aligned` says that no timeout has struck inside
  a frame; after one every answer may be read as anything, and every call may
  raise.  `ResetWrite` may stop nothing, as in `CtaLaunch`: then `others` are the
  CTAs of earlier tests that go on storing and completing, until the pulse of an
  overtaken reset ends them (`LatePulse`).  A call that times out is served
  later, a START too (`ServedLater`).  `stored` and `landed` are history: what
  this test's CTA has stored, and per test whether that was all it had to.  Three
  things are coarser than the code.  An error of the simulator whose answer is
  late raises at the call that fails and not at the one that takes it.  A launch
  has more writes than there are late answers, so it leaves acks only
  (`LeftByWrites`).  A late pulse that kills the CTA of the test in progress is a
  chip that hangs.
  The vectors of `MCRunKernel` are chosen by what the parsers and the echo tell
  apart: overrides, gaps, short lines, comments, repeated entries, data equal
  to the seed, a slot past the echo, two writes to one address, a broken file.
* **`Bringup`.**  A CSR value is the set of its bits, so a stuck lane is a set
  operation.  A board is a record of what is wrong with it.  The shell starts
  tools in any order and may kill one; the board may change in between
  (`Change`), and what was said before is then forgotten, being about the board
  before.  A tool without devices raises, and one that reads a region or a chip
  that does not answer hangs with its host.  `PROBES` has the addresses of
  `probe_bar.py`, each with its own flag; that a flagged one is skipped is one
  `if`, and no property repeats it.

### Correspondence on the card

One action is what one clock edge does to one path.  Variables carry the
registers' names or those of the table in each module's header; guards are the
`valid & ready` of the handshake; the variables an action leaves UNCHANGED are
the registers the edge does not write.

* **Data.**  A W byte *is* its position (1, 2, 3, ...) in the stream of bytes the
  master hands over.  `Zero` is a byte with its strobe clear, `Garbled` two
  bytes ORed into one place or metadata read as data.  A byte that is lost,
  repeated, misplaced or merged is therefore visible in every later state.
* **Both on one edge.**  `AcceptWAndEmit` is the edge on which a beat enters and
  a flit leaves.  In the depacketizer a flit and a W handshake on one edge
  have the effect of the handshake followed by the flit (the code shifts, then
  writes at the shifted count), so the model orders them; the one pair with no
  such order is a header on the edge of the B handshake, `BFireWithHeader`.
* **Headers and data.**  A byte does not say what its value is, so where the
  depacketizer looks for a header, a continuation flit may begin with `OP_AW` or
  not: `FlitMisread` takes it for one, with any AW its data can spell, and
  `FlitIgnored` passes it over.  `fullLost` and `misread` record when a Full
  header was lost and when a flit was misread.
* **Read data.**  A byte of memory is its address, and the reads of a run are of
  disjoint stretches, so a byte tells which read and which beat it belongs to.
  On the read path `tkeep` says how many bytes count; there is no countdown.
* **Clock domains.**  The two ends run on different clocks; their steps
  interleave, joined by the wires.
* **The matrix unit** is one clock domain, so a step of `Mmu` is one clock edge of
  everything: each part reads the others' registers as they were.  A matrix
  element is a name, zero is `Nothing`, a partial sum is the set of products
  added so far, so that a result tells which elements it was made of.  The
  registers of an engine are a record and its clock edge a function of them.
  The DSP primitive (external) is modelled with the pipeline the comments of
  `mmu_systolic_pe.sv` configure: one register on A, one on the weight, one on P.
  The memory ports complete a handshake on any edge they like.  `driven` and
  `rushed` are history: the rows fed into the array, and the rows of C whose AW
  a port took on the first edge of its offer.
* **AW fields.**  `len` and `lite` decide control; everything else the bridge
  copies is one `id`.
* **The link** (vendor core, external) keeps flits in order and loses none; its
  transmit side may refuse for any time.  The master presents W beats before,
  with or after their AW, as AXI allows.  The memory may refuse AW, W and B
  for any time.

`PROJECT.json` "map" gives, for every definition, the lines it models.

## 3. Runs

| Run | Shows |
|---|---|
| `cosim` | calls with timeouts before and inside a frame, error answers, a simulator that dies: the answer a call takes lags by exactly the waits given up, a read never takes another operation's answer, no call hangs, closing ends the simulation |
| `launch` | three launches with waits and resets between them on all three backends, writes lost or overtaken, that of the reset too, a chip that hangs: done speaks of the CTA launched last or of one that a reset has left running, no CTA starts on left-over registers unannounced, every wait ends, refinement of `CtaService` |
| `kernel` | sweeps over three backends with failed transfers, timeouts before and inside frames, resets that stop nothing and a chip that computes wrongly, late or not at all: PASS means stored, CTAs run on their images, the diagnosis and the report are true, overrides stay with their CTA, nothing passes out of step, `main` ends |
| `bringup` | three tools in any order, killed or not, on ten boards: the self-test names the fault, a constant fault is never called intermittent, dead paths do not pass, a pass leaves the board clean |
| `write_256` | 32-byte beats, three bursts of one to four beats, as many as the receive buffer holds, every interleaving: types, no flit ignored, bytes in order, no overrun, refinement of `AxiWriteService`, every burst answered |
| `bridge_write` | two writers, and data that may look like a header: a flit is misread only behind a lost Full header, and until then frames stay whole, what lands is intact, an answer means stored |
| `read_256` | 32-byte beats, three Full reads of one or two beats and two Lite reads, which compete for the one read FSM: bytes in order at both ends, no header before the read before is drained, no overrun by reads that fit the buffer, refinement of `AxiReadService` |
| `duplex` | write frames and read frames on one data channel: each flit has one taker, the write service is implemented, both directions complete |
| `mmu` | two kernels, starts at any time, memory ports that answer when they like, `LATENCY` longer than the data's way: no stale `done`, captured is one whole row driven, `Slip` rows late, `fsm_done` means stored but for rushed rows, kernels complete |
| `fast_kernel` (violation) | a CTA that is done before the first poll is said never to have started |
| `stale_tail` (violation) | a shorter META image runs with the end of the image before behind it |
| `write_room` (violation) | 64-byte beats, a two-beat burst: a beat is accepted without room |

Some further configurations stand beside the runs and are not among them.  The
first passes; the others have one invariant each, which TLC finds violated
(`tlc -config X.cfg M`), and belong to the findings of section 4:

| Configuration | Module | Invariant |
|---|---|---|
| `AuroraWrite_wide.cfg` | `AuroraWrite` | `ImplementsService`: 64-byte beats, the geometry of `pncel_dynamic_region.sv`, single-beat bursts of three flits each; passes |
| `BridgeWrite_race.cfg` | `BridgeWrite` | `QueuedAwIsDrivenNext` |
| `AuroraRead_short.cfg` | `AuroraRead` | `LastBeatHasRlast` |
| `Mmu_latency.cfg` | `Mmu` | `LatchesItsRow`, for a 3 x 3 mesh |
| `Mmu_rows.cfg` | `Mmu` | `RowsMeetTheirData` |
| `Mmu_store.cfg` | `Mmu` | `SendsItsRow` |
| `MCBringup_vanish.cfg` | `MCBringup` | `VanishedWritesAreHard` |

The type invariants that are proved (section 5), and those of the modules whose
other invariants imply what a wrong type would show, are defined and not listed
in the configurations.

### Bounds

*Host.*  `cosim`: three requests and calls of up to two lines let a call with
several turns time out in its first or second turn and two calls follow it out
of step.  `launch`: three CTAs, so that a CTA follows one that was done and one
that was given up; three registers, one of which never changes, so that a lost
write can and cannot be seen; two losses, so that the same register can miss
two CTAs, or a register write and a reset; a reset begins with at most two
writes under way (`MaxUnderWay`).  The theorems of section 5 hold for all of
these numbers.  `kernel`:
META lines of two words, regions of two lines, a transfer unit of two, and an
echo of two words give every image a tail, a short line and a word past the
echo; two faults (failed transfers, timeouts, resets that stop nothing) are one
that matters and one in the test after it; the three
sweeps run one vector twice, one after a file that does not parse, and one with
two writes to one address.  `stale_tail` has a sweep of its own and no faults.
`bringup`: two CSRs of five bits for four of sixteen, because the patterns and
the verdict go by bit and by CSR; two rounds, the least that can differ
(`RoundsAssumption` asks for one: none leaves no verdict); three
tools, so that one runs after a tool that ran after a killed one; one write
lost now and then.  The ten boards are one that works
and nine with one or two things wrong, one of them with two stuck lanes of
either sort.

*Bridge.*  The geometry constants are the code's own, per `DATA_W`: `HDR`,
`CONT`, `SLACK` and the counter moduli are not scaled down.  Four 32-byte beats
pass through every fill level of both buffers that occurs at all (the levels
repeat after the frame's second continuation flit), need up to five flits, and
are as many as the receive buffer holds when the memory stalls: five overrun
it (section 4).  Three bursts are enough for a B, an AW and W beats of three
different bursts to be in play: the burst being answered, the one whose AW may
be accepted, and the one whose W beats are presented early.  `bridge_write` has 32-byte
beats and bursts of up to two, so that a Full frame can pause between its flits
while the Lite writer asks for the channel.  A misread flit spells an AW of at
most the writer's number of beats, on either port, with one id: neither end
compares ids.

For reads, two beats of 32 bytes need a header flit and two continuation flits,
the last one nearly empty, and fill the receive buffer to its last byte.  Three
reads are enough for one to meet what another left behind and for a read to
be lost in between; the Lite reads race with them for the read FSM.  `duplex` has one or two writes
and reads of at most two beats: enough for either frame to be pending while the
other is under way.

*Matrix unit.*  `mmu` has `K = 3`, `N = 2`: as in the code's 32 x 32, `LATENCY` is
longer than the data's way, here by one row and there by 60 (section 4), and the
mesh is not square, so K and N cannot stand for each other.  Four rows of A and
two banks give each store engine a second row, and the last row captured none
that was driven; four writes of the start bit are two kernels and the two starts
that end in `S_IDLE` or are ignored.  Rows are two beats or more, what the load
engine is modelled for (`RowAssumption`).  The ports take AW on any edge, the
first of its offer among them.  That the array's rows are not those of the
matrices (`Mmu_rows.cfg`) is in this model too; the properties of `mmu` speak of
the rows that were driven and the weights the array holds.

### Fairness

`ChannelSpec`: the host's recv ends, because the socket has a timeout, and the
simulator reads what it is sent; nothing makes the host call, or the simulator
live.  `LaunchSpec`: the driver's loops run, the clock advances, the link
moves; nothing makes the chip complete a CTA or end a reset.  `KernelSpec`:
`Main` only, the program runs and the waits of its driver end, which is what
`launch` and `cosim` show; the chip may do nothing.  `BringupSpec` has none,
and its run no deadlock check: the shell need not start anything, and a hung
host is the end.

`FairSpec` has weak fairness of `Near` (all actions of the near
clock domain) and of `Far`: each clock runs, the AXI master presents the beats
it owes and takes its B, the link accepts, the memory answers.  Each handshake
stays enabled once it is enabled.  `DuplexSpec` has weak fairness of each end's
clock domain in the same way; it includes that the AXI master of a granted write
frame presents the rest of its beats: a master that does not holds the data
channel, and the other end's reads wait.  `BridgeSpec` has no fairness and its run no
deadlock check: the bridge may really stop, after the lost writes of
section 4, and then nothing more happens.  `ReadSpec` has
none and its run no deadlock check, since its masters may wait for a lost read.
`MmuFairSpec` has weak fairness, for each memory port, of a
clock edge on which it answers; that the clock runs is part of it.

### Restrictions

Each is stated where it applies.  `DeadPathNeverPasses` leaves out a reset bit
that cannot be set: `reset_chip` takes a bit that reads 0 for a reset that is
over, and nothing on the host could tell.  `PassMeansStored` speaks of hardware
and the co-simulation (the mock has no chip), and of slots the echo seeds with
other data than the one expected: for the rest the read-back cannot tell a
store from what was there, as the code's comments say.  It and `DiagnosisIsTrue`
speak of tests that neither a CTA of an earlier test nor a broken frame has
disturbed, and `RunsOnItsImages` and `NoPassOutOfStep` of whole frames
(section 4, 3 and 4).  Of the register writes of the host `RunKernel` loses only
that of the reset; `launch` loses any.  `NoRxOverrun` and `NoReadOverrun` are run,
and proved, for bursts and reads that fit the receive buffers, which the code
does not demand: they check that no other bytes get in, and do not say that the
buffers cannot overrun.

In `BridgeWrite` reads are
idle (the arbiter's `R_RESP` state and the `in_cont` gates are in
`BridgeDuplex`, where in turn the Lite masters are idle, and
`EachFlitHasOneTaker` quantifies over what a data byte looks like).  Its
properties end with the first misread flit, but for `MisreadOnlyAfterLoss`.  The R receiver treats a flit and an R handshake of one edge as the
handshake followed by the flit; that is not so for a *header* flit, which
discards the old buffer, but `NoHeaderBeforeDrained` shows that a header finds the
buffer empty while the master keeps one read outstanding.   B and AR packets travel on the same user-K channel in
`BridgeDuplex` but each kind has a wire of its own: they are told apart by opcode
and taken by different FSMs, and only the order among equals matters.

## 4. What the runs found

### On the host

1. **A fast kernel is called one that never started** (`host/mini_dice.py:333`,
   `fast_kernel`).  Phase 1 of `wait_for_cta_done` polls for the complete bit to
   drop.  A CTA that ends before the first poll has dropped it and set it
   again, and after the timeout the message is that it "never dropped after
   CTRL.START pulse".
2. **An image shorter than the one before keeps its tail**
   (`host/run_kernel.py:151`, `stale_tail`): nothing clears a region between the
   tests of a sweep, although `test_vector.py:121` has the chip "see
   zero-padding past the end of the populated image".
3. **A reset that never took place passes** (`host/mini_dice.py:389`).
   `reset_chip` posts its write and polls for a bit that reads 0.  If the write
   is lost, or on the co-simulation overtaken by the poll, the bit reads 0
   because it was never set, and the chip goes on with the CTAs it has, although
   `mini_dice_alveo_dynamic_region.sv:1834` has the poll return 0 "once the chip
   is ready again".  One of them may then complete for the CTA launched next, or
   store into the next test.  `DoneMeansThisCta`, `CtaService`, `PassMeansStored`
   and `DiagnosisIsTrue` name this exception; without it TLC finds each of them
   violated.
4. **After a timeout inside a frame a test may pass by luck** (`host/cosim.py:154`).
   Half a frame is left, and its rest is read as a status and a length.  A read
   that asks for as many bytes may then take anything for its data.
   `NoPassOutOfStep` and `RunsOnItsImages` are about whole frames for this
   reason.

What the code says and what its comments say part in some smaller places; the
models contain the behaviour.

* The legend of `csr_selftest.py:172` reads "HARD-readback0=all writes
  vanish->read 0".  A board whose CSRs read 0 gets PARTIAL, because 0 is one of
  the patterns and counts as landed (`MCBringup_vanish.cfg`).
* `read_bitstream_info.py` documents exit code 0 for a plausible value of
  either layout and returns it for the new one only.
* `probe_bar.py:169` and `:179` name `0x8FF04` REG_STATUS; `mini_dice.py:59` has
  STARTPC there.
* The example at `test_vector.py:102` gives `0x12345678` where the code gives
  `0x34567890`.
* The AMBIGUOUS branch of `run_kernel.py:215` cannot be reached.
* `write32` of `cosim.py` looks at the status of its answer and not at its
  length, so when answers are late it takes a read's for its ack
  (`AnswersLagByTimeouts` has this; `NoPassOutOfStep` shows that no test passes
  on it).

### On the card

5. **The room test wraps** (`bridge/axi_to_aurora.sv:287`, code bug, `write_room`).
   `count_r + STRB_W` is computed in the width of `count_r` before it is
   compared with `BUF_BYTES`.  With 512-bit beats `64 + 64` is 0 modulo 128, so
   a second beat is taken into a 96-byte buffer that already holds 64.  The
   256-bit build is not affected: `96 + 32` never occurs, since 64 bytes is
   the most the buffer can hold.  The repository's testbenches send one-beat
   bursts only.
6. **A header on the edge of the B handshake** (`bridge/axi_depacketizer.sv:444`,
   `BridgeWrite_race.cfg`) is put in the shadow registers while the FSM goes to
   IDLE; it is never driven, and the depacketizer refuses every header after it.
7. **A one-beat read loses its `rlast`** (`bridge/aurora_r_receiver.sv:163`,
   `AuroraRead_short.cfg`) when its beat fits the header flit, that is with 128-bit
   data, the module's default.  `last_seen_r` is cleared by the same flit that
   should set it.
8. **`LATENCY` of the systolic array** (`mmu_systolic_array.sv:68`,
   `Mmu_latency.cfg`) is `2K + 2N - 2`; the data takes `K + N + 2` edges: `r` through
   the input skew, one into A1 of each column, one per row of the mesh, and the
   output skew.  So with `c_valid` of a row comes the row driven `K + N - 4` edges
   later, although the comment at `:23-25` has the consumer "latch C rows" by it
   (`LatchesItsRow`).  In the code's 32 x 32 that is 60 edges, of 32 rows driven:
   the unit stores zeros, which is the theorem `CodeTileStoresZeros`.
9. **The drive registers run one edge ahead of the buffers**
   (`mmu_control.sv:250`, `:262`, `Mmu_rows.cfg`): they are registered with
   the read, not with its data, so row `r` of the mesh gets row `r - 1`.
10. **The store engine captures early** (`mmu_store_engine.sv:141`,
    `Mmu_store.cfg`) when `awready` is high in the first cycle of `S_AW`, as AXI
    allows: the row before it is stored in its place, and `fsm_done` says nothing
    of it (`DoneMeansStored` has this case).
11. **The data of a lost frame can be read as a header**
    (`bridge/axi_depacketizer.sv:265-267`).  A Full header that comes while
    another write is driven is lost.  `rx_is_cont` then stays 0, so a continuation
    flit of that frame whose first byte is `OP_AW` is taken for an AW: what its data
    spell is written, counted down and answered.  `MisreadOnlyAfterLoss` says that
    it takes a lost Full header; the other properties of `bridge_write` say
    nothing from the misread flit on.

Three more places where comments promise more than the code does were met
while modelling.  The
receive buffer overruns when a burst longer than its bytes meets a stalled memory
(`bridge/axi_depacketizer.sv:298`; `NoRxOverrun` with `MaxBeats = 8`).  A header
that arrives while a write is being driven is lost although the shadow registers
are free (`:265` against the comment at `:204`; in `bridge_write` this is why
writes can be lost).  A second outstanding read is lost
(`bridge/axi_depacketizer.sv:284` against `bridge/axi_to_aurora.sv:427`), so the
master of `AuroraRead` keeps one; a Lite read beside a Full read is lost in the
same way, and `read_256` has that.

The R path has twins: the room test of `bridge/axi_packetizer.sv:168`
wraps in the same way, and `bridge/aurora_r_receiver.sv:179` overruns for reads of more
than its buffer's bytes (64 in the 256-bit build) if the master is slow.
`read_256` is kept to shorter reads, which do not overrun it.

Until a lost frame's data is read as a header (11), a bridge that loses writes
does not corrupt others: `LandedIntact` and `AnsweredMeansStored` hold, and with
lost reads `ImplementsReadService`.

## 5. Proofs

Each theorem is proved for all values of the constants that satisfy the named
assumptions of the modules (`ChannelAssumption`, `LaunchAssumption`,
`GeometryAssumption`, `TileAssumption` and so on) and the conditions its ASSUME
states, which are all listed here.  `PROJECT.json` "theorems" lists them with
the property each states.

**`CtaLaunch_proofs`.**  For any number of launches, registers and lost writes,
on any of the backends: `DoneIsThisCta`, `GarbageIsAnnounced`, and
`LaunchRefines`, that the driver and its CSR link implement `CtaService`.
`LaunchInv` has six parts.  `DriverInv`: what the caller sees follows from where
the driver is.  `NumberInv`: each START under way is that of a CTA launched
before, in the order of the launches, and later than all that has run.
`LeftInv`: the CTAs that may still complete are those `leftover` names, which
the last reset did not stop because it was lost or a START overtook it, and the
CTA launched last; so as long as none of the left-over ones has completed, the
bit that a wait finds in phase 2 is its own CTA's.  `LinkInv`: in a launch that
began after the reset pulse was over, the link carries the CTA's registers, then
its START, then later resets.  `RegsInv`: a register is right, or its write is
under way, or the driver has warned.  The two exceptions are stated in the
properties and not in the theorems: `DoneMeansThisCta` and the refinement allow
a wait to end on a CTA that a lost or overtaken reset left running, and
`NoSilentGarbageStart` says nothing of a launch begun while the reset still
held (section 4, 3 and 4).

**`CosimChannel_proofs`.**  For any number of requests and lines: `AnswersLag`
and `ReadsGetReads`.  The argument is a count: `PairInv` says that the answers
and after them the requests in the socket are numbered without a gap from
`issued - abandoned - W` on, `W` being 1 while a call waits, and that while both
ends are up there are exactly as many as waits were given up, plus `W`.  So the
head of the answers is the request made `abandoned` requests ago.  `AnswerInv`
says that an answer is that of its request in operation and length, from which
the length checks of the wrappers give `ReadsGetReads`.

**`RunKernel_proofs`.**  For any test vectors, sweeps, region and line sizes and
number of failed transfers: `PassMeansStored`, `RunsOnItsImages`,
`DiagnosisIsTrue`, `ReportShowsEveryFailure`, `OverridesDoNotLeak` and
`NoPassOutOfStep`.  `KernelInv` has, beside types and the place in the sweep
(`FlowInv`): whose CTA the chip runs, which may be one of the test before
(`CtaInv`); which answers nobody has taken (`AnswerInv`); that the images are in
the BRAM from their verification on, also under a CTA that outlives its test
(`ImageInv`); that a seeded slot has its echo or what the chip stored there last
(`SlotInv`), and the two read-back lists what the slots had when they were read
(`ListInv`).  From the last two a slot that changed to the expected value was
stored by this test's CTAs.  `ImageInv` and `AnswerInv` hold as long as no
socket timeout has split a frame (`aligned`); after one the next calls parse
whatever bytes come, and nothing is claimed of what they return.  `CtaInv`,
`SlotInv` and what `ListInv` says of values hold while, besides, no CTA has
outlived its reset (`Undisturbed`), and so does what `VerdictInv` says of the
verdict.  `RunsOnItsImages` and `NoPassOutOfStep` carry the condition
`aligned`, `PassMeansStored` and `DiagnosisIsTrue` `Undisturbed`;
`ReportShowsEveryFailure` and `OverridesDoNotLeak` carry none.  The loops of `verifier.py` and `test_vector.py` are
folds in the model; what they compute is proved by induction over a finite set
of turns, for each loop in a lemma of its own.  Two conditions: `DiagnosisHolds`
assumes `EchoTells`, that no wrong value equals a slot's echo, since a slot
stored with what it held cannot tell; `LateAnswersNeverPass` assumes
`SomethingToDo`, that every vector launches a CTA: a sweep of an empty grid
judges a memory nobody wrote.

**`Bringup_proofs`.**  For any set of boards, any CSRs, widths and rounds: all
properties of `bringup`, and the types of the tools.  `SmokeInv` says what each
passed smoke test has shown of the board so far (`PassedSoFar`).  `SelftestInv`
says that the counts of a sweep are the numbers of patterns tried that land:
whether one lands depends on the board alone, and not on what was in the CSR.
So a constant fault counts the same in every round, which is
`IntermittentIsReal`, and a lane shows exactly if it is stuck, in the walking 1
or the walking 0, which is `VerdictNamesTheFault`.  With lost writes a count is still
at most the number of patterns tried.  `VerdictHolds` assumes `LanesLetThrough`:
stuck lanes that let no pattern through are no PARTIAL but all writes dropped,
and the verdict says that instead.

**`AuroraWrite_proofs`.**  It begins with the byte buffer: a buffer holds a
stretch of a numbered stream, and writing at an offset, ORing in and shifting
out keep it one.  `TypeCorrect` holds for every geometry.  For every
number of bursts, under two conditions: `OrderHolds` (the invariant), `NoFlitIgnored`,
`BytesInOrder`, `NoRxOverrun`, `PushOnlyIntoRoom`, and that the write path
implements `AxiWriteService`.  `OrderInv` gives each register its place in the
master's stream of bytes: where the burst being sent starts and ends, for each
state of the sender (`SenderInv`); that the flits on the wire cover without a
gap what lies between the receive buffer's end and the transmit buffer's start
(`ChainInv`); and that the far end waits for the header, drives the burst or is
through with it, both its countdowns reaching the burst's end (`ReceiverInv`).
No flit says any of this; it is what the two ends compute from `awlen`, and why
they agree.  The conditions are those of findings: `NoWrap`, that no sum of the
room test reaches 2^`CNT_W` or bursts are of one beat (finding 5), and
`BurstFits`, that a burst fits the receive buffer.  The second is a restriction
on the master, since the code bounds `awlen` nowhere and there is no
back-pressure: under it the assertion at axi_to_aurora.sv:476 is only shown to
agree with the counts at both ends, not to be out of reach of a long burst
behind a memory that stalls.  The 256-bit build meets both for bursts of up to four beats,
the 512-bit build for single beats.  The lemmas are about a wire `w` that
carries write flits alone: here it is the data channel, in the two bridges it
is what remains of the channel without the other frames, so that each action of
the write path is treated once.

**`BridgeWrite_proofs`.**  Under the same two conditions, and until a flit of
data is read as a header (`misread`, finding 11): `HeaderIsNeverData`,
`AnsweredMeansStored` and `LandedIntact`, which say so themselves, and that the
Full port implements `AxiWriteService` beside a Lite writer and the race at the
B handshake, in behaviours with `[]~misread`.  `OnlyLossesMislead` shows when
that may happen: a flit is misread only after a Full header was lost, since
until then the far end counts down every frame it was told of.
`HeaderIsNeverData` alone says nothing of why a frame ends where its receiver
thinks it does, so `BridgeInv` splits the wire into a wire of Full flits `w`,
with the sender's half of `OrderInv`, and at most one Lite frame, which is ahead
of the Full frame or behind it but not inside (`FrameInv`: the arbiter holds a
grant until `tlast`).  At the far end each port has at most one write, driven or
in the shadow registers (`DrivenInv`); the one receive buffer holds bytes of one
of them only (`BufferInv`), which is why a beat that lands is its writer's; and
each port's B is nowhere or in one of its staging places (`FullInv`, `LiteInv`).
The receiver's half of `OrderInv` does not hold here: a Full frame may be passed
over by a busy depacketizer, or sit in the shadow registers for good
(finding 6).  `BridgeInv` allows for it: the frame is then missing between
wire and buffer, its writer waits in `WAIT_B`, and no B can be on its way.  So a
lost frame hangs its writer, and until its data is misread (finding 11) it costs
no other write its bytes or its answer.

**`BridgeDuplex_proofs`, reads alone.**  As for writes, over the memory's
numbered bytes: `ReadInv` has five positions of the one Full read in progress,
handed to the master, arrived, sent, fetched and asked for, in that order;
`ArInv` says where its AR is while Lite reads compete for the FSM.  It gives
`ReadBytesInOrder`, `NoHeaderBeforeDrained`, `NoReadOverrun`,
`LastBeatHasRlast` and the refinement of `AxiReadService`.  Conditions:
`BeatOutgrowsHeader` (`RHDR < STRB`; 30 < 32 in the 256-bit build;
`AuroraRead_short.cfg` shows that it is needed, finding 7) and `ReadFits`, that
a read fits the R receiver's buffer.

**`BridgeDuplex_proofs`, both directions.**  Under `NoWrap` and `BurstFits`:
`EachFlitHasOneTaker`, and that the write service is implemented beside reads;
with `ReadFits` and `BeatOutgrowsHeader` also, the read service beside writes.
Which receiver takes a flit depends on what both have seen before it, so the
invariant is about all of the wire.  `DuplexOrder` takes it apart into R flits,
the write flits `w` (with `OrderInv`), and R flits again, and says: the R flits
are whole frames but for the one being sent and the one being received
(`Frames`); what the R receiver waits for is what comes first, and what the R
sender sends next continues what comes last; no R flit is inside a write
frame.  From this and the far end's countdown, `remRx = 0` whenever an R flit is
next (`NothingOwed`), so the gates never close on the wrong receiver.  For this
nothing is assumed of the reads: of an R flit only `op` and `tlast` matter.

The reads' turn needs more. `ReadInv` is stated over a sequence of R flits, not
over the wire, so that it can be asked of the flits on both sides of `w`
(`DuplexReadInv`). Each step of `BridgeDuplex` takes the first of these flits,
adds one at the end or leaves them alone (`Follows`, `ReadWireStep`), as a step
of the reads alone does; so the lemmas about those serve twice, and the read
service, too, is implemented on the shared wire (`DuplexImplementsReads`), with
the four invariants of the reads (`DuplexReadsUndisturbed`), under the
conditions of both directions together. `BridgeDuplex.cfg` meets them all, with
`ReadFits` tight.

**`Mmu_proofs`.**  For any mesh, number of rows, banks and kernels, whenever the
ports answer; only rows of one beat are left out (`RowAssumption`).
`LoadedHolds` (`LoadedBeforeCompute`): `Phase` follows each load engine through
loading, loaded, back in `IDLE` with `done` still up, and at rest, and the first
edges of the compute phase see it through them; a buffer with what is on its
write port holds the rows before the engine's.  `CapturesHolds`
(`CapturesWhatWasDriven`) follows rows of activations by age (`PipeInv`): after
`n` edges of `C_STREAM_A` row `i` is `n - i` edges old, which says where it is in
skews and mesh and what its partial sums are (`RowAt`).  The rows of zeros
driven before the first and after the last are followed like the others, because
`LATENCY` has nothing to do with where a row is: what is captured as row `i` is
the row driven `K + N - 4` edges after it, row `i` itself only where that is 0.
`DoneHolds` (`DoneMeansStored`) adds the store engines (`StoreInv`), and that the
banks' rows tile the matrix.  A row whose AW was accepted on the edge it was
first offered (`rushed`, finding 10) is left out of the promise; `StoredAs` says
what HBM has of it, the row before it in the bank.  `CodeTileStoresZeros` is the
instance the card is built as, M = N = K = 32: when the unit reports done, every
row that was not rushed is stored as zeros (finding 8).

*Only model-checked.*  Liveness (`EveryCallReturns`, `CloseStopsSim`,
`WaitReturns`, `MainEnds`, `EveryBurstAnswered`, `BothDirectionsComplete`,
`KernelCompletes`) is out of the prover's reach.  Every invariant and every
action property of the passing runs is proved, and every refinement.

## 6. Not modelled

On the host: the extra reads that `--verbose` of `run_kernel.py` makes;
`bram_write_data_word`, which nothing calls; the range check of the BAR, which
no register of the driver fails; a second `connect` of the socket, which no
caller makes; the descriptors `from_env` leaves open when a later device fails
to open (`mini_dice.py:129`); the smoke tests on the mock and the
co-simulation, whose calls are those of `CosimChannel` one after the other; and
the text the probes print beside a value.

In the matrix unit: `mmu_region.sv` (wiring), the registers that hold the
addresses of the matrices (the model's HBM holds one pair of matrices at a
time), and rows of one memory beat, for which `mmu_load_engine.sv:143` takes
the slice `[-1:0]`, of which tools make different things.

The AXI-Lite path over Aurora, the register files, the soft-reset FSM and data
stub of the Mini-Dice region, and the decoupler are small machines beside the
paths above.  The models of the host take a register access as one step, but
for the posted writes of `CtaLaunch`'s link, and the soft reset as one pulse.

The wiring of the top levels and dynamic regions, clock converters, width
converters, switches, the Aurora, XDMA and HBM cores, board files, constraints
and build scripts hold no logic of this repository's own or are vendor code.
The modules named in the table above as external submodules
(`axi_lite_fifo`, `axi_lite_switch`, `rr_arbiter`, packet formers, the
Mini-Dice core, the cache hierarchy) are not in the repository.
