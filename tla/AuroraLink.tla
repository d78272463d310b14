----------------------------- MODULE AuroraLink -----------------------------
(***************************************************************************)
(* The data channel of the Aurora link from one end to the other           *)
(* (external): flits in order, none lost.  Write frames and read-response  *)
(* frames travel on the same wire.                                         *)
(***************************************************************************)
EXTENDS AuroraFlit

VARIABLE
  dataWire    \* flits sent and not yet arrived
=============================================================================
