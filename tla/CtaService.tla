----------------------------- MODULE CtaService -----------------------------
(***************************************************************************)
(* What MiniDice.launch_cta, wait_for_cta_done and reset_chip promise      *)
(* their caller: a wait that returns says that the chip has completed the  *)
(* CTA launched last, or one that the last reset has left running; a wait  *)
(* that gives up says nothing, and the next launch comes only after a      *)
(* reset.                                                                  *)
(***************************************************************************)
EXTENDS Naturals

VARIABLES
  cta,        \* number of the CTA launched last, 0 before the first
  outcome,    \* "idle", "pending", "done" or "failed"
  finished,   \* the CTAs the chip has completed
  leftover    \* the CTAs the last reset has not stopped

serviceVars == <<cta, outcome, finished, leftover>>

ServiceInit == cta = 0 /\ outcome = "idle" /\ finished = {} /\ leftover = {}

LaunchCta == /\ outcome \in {"idle", "done"}
             /\ cta' = cta + 1 /\ outcome' = "pending"
             /\ UNCHANGED <<finished, leftover>>

(* The chip completes a CTA in its own time, also one given up.            *)
CompleteCta(c) == /\ c \in 1..cta
                  /\ finished' = finished \cup {c}
                  /\ UNCHANGED <<cta, outcome, leftover>>

ReportDone == /\ outcome = "pending"
              /\ cta \in finished \/ leftover \cap finished # {}
              /\ outcome' = "done"
              /\ UNCHANGED <<cta, finished, leftover>>

(* An exception out of launch_cta; START may have been sent.                *)
LaunchFails == /\ outcome \in {"idle", "done"}
               /\ cta' = cta + 1 /\ outcome' = "failed"
               /\ UNCHANGED <<finished, leftover>>

GiveUp == /\ outcome = "pending"
          /\ outcome' = "failed"
          /\ UNCHANGED <<cta, finished, leftover>>

(* reset_chip begins a test; while it runs, and when it fails, nothing is  *)
(* launched.  The mock has no pulse to wait for: its reset is the end only. *)
BeginReset == /\ outcome # "pending"
              /\ outcome' = "failed"
              /\ UNCHANGED <<cta, finished, leftover>>

(* A reset whose write is lost or late stops nothing.                      *)
EndReset == /\ outcome # "pending"
            /\ outcome' = "idle"
            /\ leftover' \in SUBSET ((1..cta) \ finished)
            /\ UNCHANGED <<cta, finished>>

ServiceNext == \/ LaunchCta \/ LaunchFails \/ \E c \in 1..cta : CompleteCta(c)
               \/ ReportDone \/ GiveUp \/ BeginReset \/ EndReset

ServiceSpec == ServiceInit /\ [][ServiceNext]_serviceVars
=============================================================================
