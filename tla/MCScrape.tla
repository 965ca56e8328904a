----------------------------- MODULE MCScrape ------------------------------
(***************************************************************************)
(* Three probes: two that are lost together, and one that is registered    *)
(* while the scrape is taken.  Two panics within events, so that one can   *)
(* meet the series another one left.  `moved` is reset by every scrape and *)
(* the loop adds at most four moves for each probe, so the bounds make the *)
(* instance finite.                                                        *)
(***************************************************************************)
EXTENDS Scrape

=============================================================================
