-------------------------- MODULE AxiWriteService ---------------------------
(***************************************************************************)
(* What the write bridge promises: to the master it is an AXI slave with   *)
(* one write outstanding, to the memory an AXI master, and the memory sees *)
(* the very beats the master handed over: same bytes, same order, wlast on *)
(* the last beat of each burst and nowhere else, under the id of its AW.   *)
(* A burst is answered after all of its beats have been stored.            *)
(***************************************************************************)
EXTENDS Integers

CONSTANTS
  STRB,        \* bytes of a beat
  MaxBursts    \* bursts the master writes

VARIABLES
  lens,      \* beats of each burst
  issued,    \* bursts whose AW has been taken
  given,     \* the next beat to take from the master
  stored,    \* the next beat to put in memory
  memW,      \* the beat put in memory last
  answered   \* bursts answered

vars == <<lens, issued, given, stored, memW, answered>>

(* A place in the stream of beats: burst, beat of that burst, bytes before.*)
Start == [burst |-> 1, beat |-> 1, bytes |-> 0]

IsLast(p) == p.beat = lens[p.burst]
After(p) ==
  [burst |-> IF IsLast(p) THEN p.burst + 1 ELSE p.burst,
   beat  |-> IF IsLast(p) THEN 1 ELSE p.beat + 1,
   bytes |-> p.bytes + STRB]

(* The n bytes of the master's stream after the first p.                   *)
Stream(p, n) == [i \in 1..n |-> p + i]

Init ==
  /\ lens \in [1..MaxBursts -> Nat \ {0}]
  /\ issued = 0 /\ answered = 0
  /\ given = Start /\ stored = Start
  /\ memW = [data |-> <<>>, last |-> FALSE, id |-> 0]

Issue ==
  /\ issued < MaxBursts /\ answered = issued
  /\ issued' = issued + 1
  /\ UNCHANGED <<lens, given, stored, memW, answered>>

Give ==
  /\ given.burst <= issued
  /\ given' = After(given)
  /\ UNCHANGED <<lens, issued, stored, memW, answered>>

Store ==
  /\ stored.bytes < given.bytes
  /\ stored' = After(stored)
  /\ memW' = [data |-> Stream(stored.bytes, STRB), last |-> IsLast(stored),
              id |-> stored.burst]
  /\ UNCHANGED <<lens, issued, given, answered>>

Answer ==
  /\ answered < issued /\ issued < stored.burst
  /\ answered' = issued
  /\ UNCHANGED <<lens, issued, given, stored, memW>>

Next == Issue \/ Give \/ Store \/ Answer

Spec == Init /\ [][Next]_vars
=============================================================================
