------------------------ MODULE AdaptiveRTO_proofs -------------------------
(***************************************************************************)
(* What holds of every behaviour of the estimator, from the lemmas about   *)
(* its operations.                                                         *)
(***************************************************************************)
EXTENDS AdaptiveRTO, AdaptiveStats_proofs

(* TypeCorrect: the estimator stays within its type.                       *)
THEOREM TypeCorrect == Spec => []TypeOK
<1>1. Init => TypeOK
  BY AdaptiveRTOAssumption DEF Init, TypeOK, NewAdaptiveStats, Stats
<1>2. TypeOK /\ [Next]_vars => TypeOK'
  <2> SUFFICES ASSUME TypeOK, [Next]_vars PROVE TypeOK'
    OBVIOUS
  <2>1. ASSUME NEW r \in Samples, Observe(r) PROVE TypeOK'
    BY <2>1, UpdateType, AdaptiveRTOAssumption DEF TypeOK, Observe
  <2>2. CASE Miss
    BY <2>2, BackoffType DEF TypeOK, Miss
  <2>3. CASE UNCHANGED vars
    BY <2>3 DEF TypeOK, vars
  <2>4. QED
    BY <2>1, <2>2, <2>3 DEF Next
<1>3. QED
  BY <1>1, <1>2, PTL DEF Spec

(* CoversEverySample: a measured round trip is covered by the next timeout *)
(* in every behaviour of the estimator.                                    *)
THEOREM CoversEverySample == Spec => SampleCovered
<1>1. TypeOK /\ [Next]_vars =>
        [\A r \in Samples : Observe(r) => CurrentRTO(stats') >= Smaller(r, MaxRTO)]_vars
  BY UpdateCovers, AdaptiveRTOAssumption DEF TypeOK, Observe
<1>2. QED
  BY <1>1, TypeCorrect, PTL DEF Spec, SampleCovered

(* TimeoutsNeverShorten: a timeout never shortens the next one.            *)
THEOREM TimeoutsNeverShorten == Spec => BackoffNeverLowers
<1>1. TypeOK /\ [Next]_vars => [Miss => CurrentRTO(stats') >= CurrentRTO(stats)]_vars
  BY BackoffRaises DEF TypeOK, Miss
<1>2. QED
  BY <1>1, TypeCorrect, PTL DEF Spec, BackoffNeverLowers

-----------------------------------------------------------------------------
(* The run of timeouts.  Powers of two are a function here, given by its   *)
(* values: power[k] is 2^k.                                                *)

\* The doublings since the first timeout of the run are in the estimate, or
\* it has reached the cap.  `low` is the lowest estimate a run starts from.
Doubled(power, low, a) ==
  \/ a.rto >= MaxRTO
  \/ /\ a.consecutiveTimeouts = 0 => a.rto >= low
     /\ a.consecutiveTimeouts > 0 => a.rto >= power[a.consecutiveTimeouts - 1] * low

BackedOff(power, least, low) ==
  /\ stats.consecutiveTimeouts <= MaxTimeouts
  /\ stats.srtt = 0 \/ stats.srtt >= least
  /\ Doubled(power, low, stats)

\* One more timeout is one more doubling.
LEMMA MissDoubles ==
  ASSUME NEW power \in [Nat -> Nat], power[0] = 1,
         \A k \in Nat : power[k + 1] = 2 * power[k],
         NEW low \in Nat, NEW a \in Stats, Doubled(power, low, a)
  PROVE  Doubled(power, low, Backoff(a))
<1> DEFINE b == Backoff(a)
           n == a.consecutiveTimeouts
<1> SUFFICES Doubled(power, low, b)
  OBVIOUS
<1>1. /\ n \in Nat /\ a.rto \in Nat /\ MaxRTO \in Nat
      /\ b.consecutiveTimeouts = n + 1
      /\ b.rto = IF n >= 1 THEN Smaller(2 * a.rto, MaxRTO) ELSE a.rto
  BY RTOAssumption DEF Backoff, Stats
<1> HIDE DEF b
<1>2. CASE a.rto >= MaxRTO
  BY <1>1, <1>2 DEF Smaller, Doubled
<1>3. CASE n = 0 /\ a.rto >= low
  <2>1. b.rto = a.rto /\ b.consecutiveTimeouts - 1 = 0 /\ power[0] * low = low
    BY <1>1, <1>3
  <2>2. QED BY <1>1, <1>3, <2>1 DEF Doubled
<1>4. CASE n > 0 /\ a.rto >= power[n - 1] * low
  <2> DEFINE x == power[n - 1] * low
  <2>1. n - 1 \in Nat /\ power[n - 1] \in Nat
    BY <1>1, <1>4
  <2>2. power[(n - 1) + 1] = 2 * power[n - 1] /\ (n - 1) + 1 = n
    BY <1>1, <2>1
  <2>3. power[n] * low = 2 * x /\ x \in Nat
    BY <2>1, <2>2
  <2>4. a.rto >= x
    BY <1>4
  <2> HIDE DEF x
  <2>5. b.rto >= MaxRTO \/ b.rto >= 2 * x
    BY <1>1, <1>4, <2>3, <2>4 DEF Smaller
  <2>6. b.consecutiveTimeouts - 1 = n /\ b.consecutiveTimeouts > 0
    BY <1>1
  <2>7. QED BY <1>1, <2>3, <2>5, <2>6 DEF Doubled
<1>5. QED BY <1>1, <1>2, <1>3, <1>4 DEF Doubled

\* A measurement starts from an estimate that no measured link is below.
LEMMA ObserveStarts ==
  ASSUME NEW a \in Stats, NEW r \in Nat \ {0}, NEW least \in Nat, least <= r,
         a.srtt = 0 \/ a.srtt >= least
  PROVE  /\ Update(a, r).srtt >= least
         /\ Update(a, r).rto >= least + ClockGranularity
         /\ Update(a, r).consecutiveTimeouts = 0
<1> DEFINE e == IF a.srtt = 0 THEN FirstSample(r) ELSE Smoothed(a, r)
           u == Update(a, r)
<1>1. /\ u.srtt = e.srtt /\ u.consecutiveTimeouts = 0
      /\ u.rto = e.srtt + Larger(ClockGranularity, 4 * e.rttvar)
  BY DEF Update
<1>2. e.srtt >= least /\ e.srtt \in Nat
  BY DEF FirstSample, Smoothed, Stats
<1>3. e.rttvar \in Int
  <2>1. a.srtt \in Nat /\ a.rttvar \in Nat /\ Distance(a.srtt, r) \in Int
    BY DEF Stats, Distance, Larger
  <2>2. QED BY <2>1 DEF FirstSample, Smoothed
<1> HIDE DEF e, u
<1>4. u.rto >= e.srtt + ClockGranularity /\ u.rto \in Int /\ ClockGranularity \in Nat
  BY <1>1, <1>2, <1>3, RTOAssumption DEF Larger
<1>5. u.rto >= least + ClockGranularity
  BY <1>2, <1>4
<1>6. QED BY <1>1, <1>2, <1>5 DEF u

(* BackoffSaturates: for any limits, if the doublings a run of timeouts    *)
(* makes take the lowest estimate, of a link with the least round trip or  *)
(* before any measurement, to the cap, then a whole run reaches the cap    *)
(* from every state of the estimator (Backoff in adaptive.go).             *)
THEOREM RunsReachTheCap ==
  ASSUME NEW power \in [Nat -> Nat], power[0] = 1,
         \A k \in Nat : power[k + 1] = 2 * power[k],
         NEW least \in Nat, \A r \in Samples : least <= r,
         MaxTimeouts > 0,
         power[MaxTimeouts - 1] * Smaller(BaseTimeout, least + ClockGranularity) >= MaxRTO
  PROVE  Spec => []BackoffSaturates
<1> DEFINE low == Smaller(BaseTimeout, least + ClockGranularity)
<1>1. low \in Nat /\ low <= BaseTimeout /\ low <= least + ClockGranularity
  BY RTOAssumption, AdaptiveRTOAssumption DEF Smaller
<1> HIDE DEF low
<1>2. Init => BackedOff(power, least, low)
  BY <1>1, AdaptiveRTOAssumption DEF Init, NewAdaptiveStats, BackedOff, Doubled
<1>3. TypeOK /\ BackedOff(power, least, low) /\ [Next]_vars => BackedOff(power, least, low)'
  <2> SUFFICES ASSUME TypeOK, BackedOff(power, least, low), [Next]_vars
               PROVE  BackedOff(power, least, low)'
    OBVIOUS
  <2>1. ASSUME NEW r \in Samples, Observe(r) PROVE BackedOff(power, least, low)'
    <3>1. /\ stats' = Update(stats, r) /\ stats \in Stats /\ r \in Nat \ {0} /\ least <= r
          /\ stats.srtt = 0 \/ stats.srtt >= least
      BY <2>1, AdaptiveRTOAssumption DEF Observe, TypeOK, BackedOff
    <3>2. /\ stats'.srtt >= least /\ stats'.rto >= least + ClockGranularity
          /\ stats'.consecutiveTimeouts = 0
      BY <3>1, ObserveStarts
    <3>3. stats' \in Stats
      BY <3>1, UpdateType
    <3>4. stats'.rto >= low
      BY <1>1, <3>2, <3>3, RTOAssumption DEF Stats
    <3>5. QED BY <3>2, <3>4, AdaptiveRTOAssumption DEF BackedOff, Doubled
  <2>2. CASE Miss
    <3>1. stats' = Backoff(stats) /\ stats \in Stats /\ stats.consecutiveTimeouts < MaxTimeouts
      BY <2>2 DEF Miss, TypeOK
    <3>2. Doubled(power, low, stats')
      BY <1>1, <3>1, MissDoubles DEF BackedOff
    <3>3. stats'.srtt = stats.srtt /\ stats'.consecutiveTimeouts = stats.consecutiveTimeouts + 1
      BY <3>1 DEF Backoff, Stats
    <3>4. stats'.consecutiveTimeouts <= MaxTimeouts
      BY <3>1, <3>3, AdaptiveRTOAssumption DEF Stats
    <3>5. QED BY <3>2, <3>3, <3>4 DEF BackedOff
  <2>3. CASE UNCHANGED vars
    BY <2>3 DEF vars, BackedOff
  <2>4. QED BY <2>1, <2>2, <2>3 DEF Next
<1>4. TypeOK /\ BackedOff(power, least, low) => BackoffSaturates
  <2> SUFFICES ASSUME TypeOK, BackedOff(power, least, low),
                      stats.consecutiveTimeouts = MaxTimeouts
               PROVE  CurrentRTO(stats) >= MaxRTO
    BY DEF BackoffSaturates
  <2>1. stats.rto >= MaxRTO /\ stats.rto \in Nat /\ stats.srtt \in Nat
    <3>1. power[MaxTimeouts - 1] * low >= MaxRTO /\ power[MaxTimeouts - 1] * low \in Nat
      <4>1. power[MaxTimeouts - 1] \in Nat
        BY AdaptiveRTOAssumption
      <4>2. QED BY <1>1, <4>1 DEF low
    <3>2. QED BY <3>1, RTOAssumption DEF TypeOK, Stats, BackedOff, Doubled
  <2>2. QED BY <2>1, RTOAssumption DEF CurrentRTO, Larger, Smaller, Floor
<1>5. QED BY <1>2, <1>3, <1>4, TypeCorrect, PTL DEF Spec

=============================================================================
