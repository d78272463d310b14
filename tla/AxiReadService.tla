--------------------------- MODULE AxiReadService ---------------------------
(***************************************************************************)
(* What the read bridge promises an AXI master with one read outstanding:  *)
(* it gets the beats the memory returned for its own read, in order, with  *)
(* rlast on the last beat and nowhere else, under the id of its AR.        *)
(***************************************************************************)
EXTENDS Integers

CONSTANTS
  STRB,       \* bytes of a beat
  MaxReads,   \* reads the master issues
  MaxBeats    \* beats of a read, at most

VARIABLES
  rlens,      \* beats of each read
  asked,      \* reads issued
  fetched,    \* beats the memory has returned for the newest read
  taken,      \* beats of it the master has taken
  masterR     \* the beat the master took last

vars == <<rlens, asked, fetched, taken, masterR>>

(* Reads are of disjoint stretches of memory, whose bytes are numbered.    *)
ReadBeat(id, beat) ==
  [i \in 1..STRB |-> ((id - 1) * MaxBeats + (beat - 1)) * STRB + i]

Init ==
  /\ rlens \in [1..MaxReads -> 1..MaxBeats]
  /\ asked = 0 /\ fetched = 0 /\ taken = 0
  /\ masterR = [data |-> <<>>, last |-> FALSE, id |-> 0]

Complete == asked = 0 \/ (asked > 0 /\ taken = rlens[asked])

Issue ==
  /\ asked < MaxReads /\ Complete
  /\ asked' = asked + 1 /\ fetched' = 0 /\ taken' = 0
  /\ UNCHANGED <<rlens, masterR>>

Fetch ==
  /\ asked > 0 /\ fetched < rlens[asked]
  /\ fetched' = fetched + 1
  /\ UNCHANGED <<rlens, asked, taken, masterR>>

Deliver ==
  /\ taken < fetched
  /\ taken' = taken + 1
  /\ masterR' = [data |-> ReadBeat(asked, taken + 1),
                 last |-> (taken + 1 = rlens[asked]), id |-> asked]
  /\ UNCHANGED <<rlens, asked, fetched>>

Next == Issue \/ Fetch \/ Deliver

Spec == Init /\ [][Next]_vars
=============================================================================
