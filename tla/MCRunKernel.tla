---------------------------- MODULE MCRunKernel ----------------------------
(***************************************************************************)
(* Test vectors for RunKernel: two CTAs with an override for the first,    *)
(* gaps and short lines in the images (Long); the same with one slot (Duo) *)
(* and with one CTA (One); smaller images, a comment, a corrected entry,   *)
(* data equal to the echo and a slot past it (Small); two writes to one    *)
(* address (Twice); a file that does not parse (Broken).                   *)
(***************************************************************************)
EXTENDS RunKernel

Store(a, d) == [addr |-> a, data |-> d, strb |-> 3]

Json(overrides, writes) ==
  [csr |-> [k \in 0..1 |-> 5], overrides |-> overrides, writes |-> writes]

Long == [readable |-> TRUE, grid |-> <<2, 1, 1>>,
         meta |-> <<Entry(0, <<6, 7>>), Entry(1, <<8>>)>>,
         bs   |-> <<Entry(0, <<4>>), Entry(2, <<9>>)>>,
         json |-> Json(<<[x |-> 0, vals |-> [k \in {1} |-> 6]]>>, <<Store(1, 0), Store(0, 2)>>)]

Duo == [Long EXCEPT !.json.writes = <<Store(1, 0)>>]
One == [Duo EXCEPT !.grid = <<1, 1, 1>>, !.meta = <<Entry(0, <<6, 7>>), Entry(1, <<9, 8>>)>>]

Small == [readable |-> TRUE, grid |-> <<1, 1, 1>>,
          meta |-> <<Entry(0, <<1, 1>>), Comment, Entry(0, <<2, 3>>)>>,
          bs   |-> <<Entry(0, <<5>>)>>,
          json |-> Json(<<>>, <<Store(1, 1), Store(2, 3)>>)]

Twice == [readable |-> TRUE, grid |-> <<1, 1, 1>>,
          meta |-> <<Comment>>, bs |-> <<Entry(5, <<7>>)>>,
          json |-> Json(<<>>, <<Store(0, 1), Store(0, 3)>>)]

Broken == [Small EXCEPT !.readable = FALSE]

MCVectors == {Long, Duo, One, Small, Twice, Broken}
MCSweeps  == {<<Long>>, <<One, Duo>>, <<Broken, Small>>, <<Twice>>}
TailSweeps == {<<Long, Small>>}
=============================================================================
