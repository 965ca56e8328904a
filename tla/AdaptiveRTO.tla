---------------------------- MODULE AdaptiveRTO ----------------------------
(***************************************************************************)
(* The life of one AdaptiveStats value: the probe loop feeds it a round    *)
(* trip for every echo it counts and tells it of every sweep that found a  *)
(* timeout, in any order.                                                  *)
(***************************************************************************)
EXTENDS AdaptiveStats, FiniteSets

CONSTANTS
  BaseTimeout,    \* Config.BaseTimeout, the timeout before any measurement
  Samples,        \* the round trips a measurement may return
  MaxUpdates,     \* bound: measurements per behaviour
  MaxTimeouts     \* bound: consecutive timeouts

ASSUME AdaptiveRTOAssumption ==
  /\ BaseTimeout \in Nat \ {0}
  /\ Samples \subseteq Nat \ {0}
  /\ MaxUpdates \in Nat /\ MaxTimeouts \in Nat

VARIABLES
  stats,    \* the AdaptiveStats record
  updates   \* how many measurements it has taken (for the bound)

vars == <<stats, updates>>

TypeOK == stats \in Stats /\ updates \in 0 .. MaxUpdates

Init == stats = NewAdaptiveStats(BaseTimeout) /\ updates = 0

\* An echo with round trip r has been matched to its probe.
Observe(r) ==
  /\ updates < MaxUpdates
  /\ stats' = Update(stats, r)
  /\ updates' = updates + 1

\* A sweep of the pending probes found at least one timed out.
Miss ==
  /\ stats.consecutiveTimeouts < MaxTimeouts
  /\ stats' = Backoff(stats)
  /\ UNCHANGED updates

Next == (\E r \in Samples : Observe(r)) \/ Miss

Spec == Init /\ [][Next]_vars

-----------------------------------------------------------------------------
(* SampleCovered: right after a round trip is measured, the timeout covers *)
(* a repeat of that same round trip, up to the cap: after a latency jump   *)
(* the first probe that is measured (one swept before its echo never is)   *)
(* makes the timeout long enough for the next one, so the variance term    *)
(* must outgrow the lag of the smoothed mean at once.                      *)
SampleCovered ==
  [][\A r \in Samples : Observe(r) => CurrentRTO(stats') >= Smaller(r, MaxRTO)]_vars

(* BackoffNeverLowers: a timeout never makes the visible timeout shorter,  *)
(* even when the estimate before it was above the cap that doubling is cut *)
(* to (Backoff clamps at MaxRTO, Update does not).                         *)
BackoffNeverLowers == [][Miss => CurrentRTO(stats') >= CurrentRTO(stats)]_vars

(* BackoffSaturates: a run of consecutive timeouts takes the timeout to    *)
(* the cap from any estimate within MaxTimeouts of them, so a link whose   *)
(* round trip jumped to just under the cap is always found again.          *)
BackoffSaturates ==
  stats.consecutiveTimeouts = MaxTimeouts => CurrentRTO(stats) >= MaxRTO

=============================================================================
