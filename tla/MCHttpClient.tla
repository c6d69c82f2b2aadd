---------------------------- MODULE MCHttpClient ----------------------------
(***************************************************************************)
(* What instances of HttpClient have in common: one lock for all URLs, and *)
(* header sections with the Cache-Control line before the empty line, in a *)
(* trailer, absent, zero, and one past the largest int.                    *)
(***************************************************************************)
EXTENDS HttpClient, TLC

CONSTANTS tKeys1, x1

MCPartitionOf == [u \in Urls |-> x1]

MCOneDocument == [u \in Urls |-> <<tKeys1>>]

Other  == [name |-> "other", age |-> 0]  \* a run of lines that are not Cache-Control
CC(n)  == [name |-> "cache-control", age |-> n]

\* No Cache-Control line; one in the header proper; one in the trailer of a
\* chunked answer.
MCHeaderSections ==
  {<<Other>>, <<Other, CC(1), Other>>, <<Other, CC(0)>>, <<Other, CC(1)>>,
   <<Other, CC(IntMax + 1)>>}

MCPlainSections   == {<<Other, CC(1), Other>>}
MCTrailerSections == {<<Other, CC(1)>>}

\* Backends are interchangeable in every safety property.
MCSymmetry == Permutations(Backends)
=============================================================================
