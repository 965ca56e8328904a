--------------------------- MODULE MCAdaptiveRTO ---------------------------
(***************************************************************************)
(* AdaptiveRTO with the source's limits in units of 1/1024 ms, fine enough *)
(* that two measurements are exact and a third is off by at most one unit. *)
(***************************************************************************)
EXTENDS AdaptiveRTO

Milliseconds(n) == n * 1024

MCMinRTO == Milliseconds(200)
MCMaxRTO == Milliseconds(3000)
MCClockGranularity == Milliseconds(1)
MCBaseTimeout == Milliseconds(1000)

\* A LAN link, a link near the minimum timeout, a slow link, and a link
\* whose round trip is above half the cap (the floor then exceeds the cap).
MCSamples == {Milliseconds(n) : n \in {1, 150, 800, 2000}}

=============================================================================
