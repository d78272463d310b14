---------------------------- MODULE BoardProbes ----------------------------
(***************************************************************************)
(* The two tools that only read the BAR: src/host/read_bitstream_info.py   *)
(* and src/host/probe_bar.py.  A read that no slave answers completes with *)
(* a sentinel or, in the sub-IPs and the chip's CSRs, hangs the host.      *)
(***************************************************************************)
EXTENDS Board

VARIABLES
  info,       \* [VERDICT] of read_bitstream_info.py, "none" before it
  infoExit,   \* its exit code
  flagged,    \* probe_bar.py was given --dangerous, or an address with --addr
  left        \* probes to come

probeVars == <<info, infoExit, flagged, left>>

ProbesInit == info = "none" /\ infoExit = "none" /\ flagged = FALSE /\ left = <<>>

(***************************************************************************)
(* read_bitstream_info.py.                                                 *)
(***************************************************************************)
ForgetProbes == info' = "none" /\ infoExit' = "none" /\ flagged' = FALSE /\ left' = <<>>

StartInfo == Start("info") /\ info' = "none" /\ infoExit' = "none" /\ UNCHANGED <<flagged, left>>

(* _read_via_xdma_user: a mapping of 16 MB, or of 1 MB on a smaller BAR,   *)
(* which the old base is beyond.  Only the layout of the bitstream has     *)
(* scfg_reg at a base; the other addresses get a DECERR, or all ones.      *)
ReadViaXdmaUser(base) ==
  CASE board.layout = "post" /\ base = "new"      -> "epoch"
    [] board.layout = "pre" /\ base = "old"       -> "epoch"
    [] board.layout # "pre" /\ base = "old"       -> "pastBar"
    [] OTHER                                      -> "decerr"

(* _probe: past the BAR and a DECERR both mean nothing is there.           *)
Probe(base) == ReadViaXdmaUser(base) \notin {"pastBar", "decerr"}

InfoMain ==
  /\ tool = "info"
  /\ info' = IF board.devices /\ Probe("new") THEN "post-shrink"
             ELSE IF board.devices /\ Probe("old") THEN "pre-shrink"
             ELSE "not reachable"
  /\ infoExit' = IF info' = "post-shrink" THEN "0" ELSE "1"
  /\ tool' = "none"
  /\ UNCHANGED <<board, tools, csr, drops, memVars, flagged, left>>

(***************************************************************************)
(* probe_bar.py.                                                           *)
(***************************************************************************)

(* PROBES: the addresses by name, each with its own danger flag.           *)
Entry(at, dangerous) == [at |-> at, dangerous |-> dangerous]
PROBES ==
  << Entry("CMS", TRUE), Entry("QSPI", TRUE), Entry("SYSMON", TRUE), Entry("HBICAP", TRUE),
     Entry("REG_BUILD_TIMESTAMP", FALSE), Entry("REG_SYSTEM_RST", FALSE),
     Entry("REG_SYSTEM_STATUS", FALSE), Entry("REG_PR_CTRL", FALSE),
     Entry("regmap0", FALSE), Entry("SOFT_RESET", FALSE), Entry("scratch", FALSE),
     Entry("REG_STATUS", FALSE),
     Entry("0xA0000", FALSE), Entry("0xC0000", FALSE), Entry("0xF0000", FALSE) >>

Skipped(probe) == probe.dangerous /\ ~flagged

(* With --addr one address is read, whichever it is.                       *)
StartProbeBar ==
  /\ Start("probe")
  /\ \/ flagged' \in BOOLEAN /\ left' = PROBES
     \/ \E i \in DOMAIN PROBES : flagged' = TRUE /\ left' = <<PROBES[i]>>
  /\ UNCHANGED <<info, infoExit>>

(* Whether the slave behind an address answers.                            *)
Answers(at) == CASE at \in {"CMS", "QSPI", "SYSMON", "HBICAP"} -> board.subIps
                 [] at = "REG_STATUS"                          -> board.chip
                 [] OTHER                                      -> TRUE

ProbeOne ==
  /\ tool = "probe" /\ left # <<>> /\ board.devices
  /\ tool' = IF Skipped(Head(left)) \/ Answers(Head(left).at) THEN "probe" ELSE "hung"
  /\ left' = Tail(left)
  /\ UNCHANGED <<board, tools, csr, drops, memVars, info, infoExit, flagged>>

ProbesDone ==
  /\ tool = "probe" /\ (left = <<>> \/ ~board.devices)
  /\ tool' = "none" /\ flagged' = FALSE /\ left' = <<>>
  /\ UNCHANGED <<board, tools, csr, drops, memVars, info, infoExit>>
=============================================================================
