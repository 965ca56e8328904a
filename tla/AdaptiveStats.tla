--------------------------- MODULE AdaptiveStats ---------------------------
(***************************************************************************)
(* The retransmission-timeout estimator of internal/prober/adaptive.go, as *)
(* operators over its record of fields.  It is RFC 6298 applied to probe   *)
(* round trips: two exponentially weighted averages, a timeout built from  *)
(* them, and a doubling on consecutive timeouts.                           *)
(*                                                                         *)
(* The source computes in float64 seconds.  Here a duration is a natural   *)
(* number of fine units and each average is rounded down.  The assumption  *)
(* on ClockGranularity keeps a unit small enough (1/32 of a millisecond or *)
(* less) that the rounding is below the granularity term of the formula.   *)
(***************************************************************************)
EXTENDS Integers

CONSTANTS
  MinRTO,            \* DefaultMinRTO, 200 ms
  MaxRTO,            \* DefaultMaxRTO, 3 s
  ClockGranularity   \* DefaultClockGranularity, 1 ms: the G of RFC 6298

ASSUME RTOAssumption ==
  /\ MinRTO \in Nat /\ MaxRTO \in Nat /\ ClockGranularity \in Nat
  /\ 32 <= ClockGranularity
  /\ ClockGranularity <= MinRTO
  /\ MinRTO <= MaxRTO

Larger(a, b) == IF a >= b THEN a ELSE b
Smaller(a, b) == IF a <= b THEN a ELSE b
Distance(a, b) == Larger(a - b, b - a)

Stats == [srtt : Nat, rttvar : Nat, rto : Nat, consecutiveTimeouts : Nat]

NewAdaptiveStats(baseTimeout) ==
  [srtt |-> 0, rttvar |-> 0, rto |-> baseTimeout, consecutiveTimeouts |-> 0]

-----------------------------------------------------------------------------
(* Update: srtt = 0 stands for "no measurement yet", rttvar is computed    *)
(* from the old srtt, and the timeout from both new averages.              *)

FirstSample(r) == [srtt |-> r, rttvar |-> r \div 2]

\* Plausible bug: the two gains (1/8 and 1/4) swapped.
SmoothedSwappedGains(a, r) ==
  [srtt |-> (3 * a.srtt + r) \div 4,
   rttvar |-> (7 * a.rttvar + Distance(a.srtt, r)) \div 8]

\* Plausible bug: the error is taken without its absolute value.
SmoothedSignedError(a, r) ==
  [srtt |-> (7 * a.srtt + r) \div 8,
   rttvar |-> (3 * a.rttvar + (a.srtt - r)) \div 4]

Smoothed(a, r) ==
  [srtt |-> (7 * a.srtt + r) \div 8,
   rttvar |-> (3 * a.rttvar + Distance(a.srtt, r)) \div 4]

Update(a, r) ==
  LET e == IF a.srtt = 0 THEN FirstSample(r) ELSE Smoothed(a, r)
  IN  [srtt |-> e.srtt,
       rttvar |-> e.rttvar,
       rto |-> e.srtt + Larger(ClockGranularity, 4 * e.rttvar),
       consecutiveTimeouts |-> 0]

-----------------------------------------------------------------------------
(* Backoff: the first timeout of a series only counts, every later one     *)
(* doubles the timeout up to MaxRTO.                                       *)

\* Plausible bug: the timeout grows by a constant instead of doubling.
BackoffAdditive(a) ==
  [a EXCEPT !.consecutiveTimeouts = @ + 1,
            !.rto = IF a.consecutiveTimeouts >= 1
                    THEN Smaller(@ + MinRTO, MaxRTO) ELSE @]

Backoff(a) ==
  [a EXCEPT !.consecutiveTimeouts = @ + 1,
            !.rto = IF a.consecutiveTimeouts >= 1
                    THEN Smaller(2 * @, MaxRTO) ELSE @]

-----------------------------------------------------------------------------
(* CurrentRTO: the estimate is cut at MaxRTO first and raised to the       *)
(* dynamic floor afterwards, so the floor wins.                            *)

Floor(a) == Larger(MinRTO, 2 * a.srtt)

\* Plausible bug: the cap is applied by Backoff alone.
CurrentRTOUncapped(a) == Larger(a.rto, Floor(a))

CurrentRTO(a) == Larger(Smaller(a.rto, MaxRTO), Floor(a))

=============================================================================
