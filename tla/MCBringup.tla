----------------------------- MODULE MCBringup -----------------------------
(***************************************************************************)
(* Boards for Bringup: one that works, and ones with a fault each.         *)
(***************************************************************************)
EXTENDS Bringup

Good == [lane0 |-> {}, lane1 |-> {}, dead |-> {}, deadReads |-> {},
         devices |-> TRUE, lite |-> TRUE, h2c |-> TRUE, fsm |-> "ok",
         subIps |-> TRUE, chip |-> TRUE, layout |-> "post"]

Vanishing == [Good EXCEPT !.dead = {"STARTPC", "CSRX0"}]

(* {0, 1, 2} is no pattern of five bits.                                   *)
MCBoards ==
  {Good, Vanishing,
   [Good EXCEPT !.lane0 = {2}], [Good EXCEPT !.lane0 = {0, 4}, !.lane1 = {3}],
   [Good EXCEPT !.dead = {"CSRX0"}, !.deadReads = {0, 1, 2}],
   [Good EXCEPT !.lite = FALSE, !.layout = "none"],
   [Good EXCEPT !.h2c = FALSE, !.layout = "pre"],
   [Good EXCEPT !.fsm = "stuckSet", !.subIps = FALSE],
   [Good EXCEPT !.devices = FALSE, !.chip = FALSE],
   [Good EXCEPT !.fsm = "stuckClear", !.chip = FALSE]}

VanishingBoards == {Vanishing}
MCNames == <<"STARTPC", "CSRX0">>
=============================================================================
