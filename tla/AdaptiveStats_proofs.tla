----------------------- MODULE AdaptiveStats_proofs ------------------------
(***************************************************************************)
(* Lemmas about the three operations of the estimator, for all limits that *)
(* satisfy RTOAssumption and for all round trips.  They are cited by the   *)
(* proofs about AdaptiveRTO and about ProbeLoop.                           *)
(***************************************************************************)
EXTENDS AdaptiveStats, TLAPS

(* UpdateType: a measurement leaves natural numbers in every field.        *)
LEMMA UpdateType ==
  ASSUME NEW a \in Stats, NEW r \in Nat
  PROVE  Update(a, r) \in Stats
<1>1. FirstSample(r) \in [srtt : Nat, rttvar : Nat]
  BY DEF FirstSample
<1>2. Smoothed(a, r) \in [srtt : Nat, rttvar : Nat]
  <2>1. (7 * a.srtt + r) \div 8 \in Nat
    BY DEF Stats
  <2>2. (3 * a.rttvar + Distance(a.srtt, r)) \div 4 \in Nat
    BY DEF Stats, Distance, Larger
  <2>3. QED
    BY <2>1, <2>2 DEF Smoothed
<1>3. QED
  BY <1>1, <1>2, RTOAssumption DEF Update, Stats, Larger

(* BackoffType: a timeout leaves natural numbers in every field.           *)
LEMMA BackoffType ==
  ASSUME NEW a \in Stats
  PROVE  Backoff(a) \in Stats
<1>1. a.consecutiveTimeouts + 1 \in Nat /\ Smaller(2 * a.rto, MaxRTO) \in Nat
  BY RTOAssumption DEF Stats, Smaller
<1>2. QED
  BY <1>1 DEF Backoff, Stats

(* CurrentRTORange: the timeout is at least MinRTO and twice the smoothed  *)
(* round trip, and at most the larger of MaxRTO and that.                  *)
LEMMA CurrentRTORange ==
  ASSUME NEW a \in Stats
  PROVE  /\ CurrentRTO(a) \in Nat
         /\ CurrentRTO(a) >= MinRTO /\ CurrentRTO(a) >= 2 * a.srtt
         /\ CurrentRTO(a) <= Larger(MaxRTO, 2 * a.srtt)
BY RTOAssumption DEF CurrentRTO, Floor, Stats, Larger, Smaller

(* SmoothedCovers: rounding down included, the new mean plus four times    *)
(* the new deviation, or plus one clock tick, reaches the new round trip.  *)
LEMMA SmoothedCovers ==
  ASSUME NEW a \in Stats, NEW r \in Nat
  PROVE  LET e == Smoothed(a, r) IN
         r <= e.srtt + Larger(ClockGranularity, 4 * e.rttvar)
<1> DEFINE s == a.srtt
           v == a.rttvar
           m == (7 * s + r) \div 8
           d == (3 * v + Distance(s, r)) \div 4
<1>1. s \in Nat /\ v \in Nat /\ ClockGranularity \in Nat /\ ClockGranularity >= 32
  BY RTOAssumption DEF Stats
<1>2. r <= m + Larger(ClockGranularity, 4 * d)
  <2>1. m \in Nat /\ d \in Nat /\ 8 * m >= 7 * s + r - 7
    BY <1>1 DEF Distance, Larger
  <2>2. CASE r <= s
    BY <1>1, <2>1, <2>2 DEF Larger
  <2>3. CASE r > s /\ r - s <= 32
    BY <1>1, <2>1, <2>3 DEF Larger
  <2>4. CASE r - s > 32
    <3>1. Distance(s, r) = r - s
      BY <1>1, <2>4 DEF Distance, Larger
    <3>2. 4 * d >= r - s - 3
      BY <1>1, <3>1, <2>4
    <3>3. r <= m + 4 * d
      BY <1>1, <2>1, <3>2, <2>4
    <3>4. QED
      BY <1>1, <2>1, <3>3 DEF Larger
  <2>5. QED
    BY <1>1, <2>2, <2>3, <2>4
<1>3. QED
  BY <1>2 DEF Smoothed

(* UpdateCovers: after a measurement of r, from any estimate, the timeout  *)
(* is at least r or the cap.                                               *)
LEMMA UpdateCovers ==
  ASSUME NEW a \in Stats, NEW r \in Nat
  PROVE  CurrentRTO(Update(a, r)) >= Smaller(r, MaxRTO)
<1> DEFINE b == Update(a, r)
<1>1. b \in Stats
  BY UpdateType
<1>2. b.rto >= r
  <2>1. CASE a.srtt = 0
    BY <2>1, RTOAssumption DEF Update, FirstSample, Larger
  <2>2. CASE a.srtt # 0
    BY <2>2, SmoothedCovers DEF Update
  <2>3. QED
    BY <2>1, <2>2
<1> HIDE DEF b
<1>3. CurrentRTO(b) >= Smaller(b.rto, MaxRTO)
  BY <1>1, RTOAssumption DEF CurrentRTO, Floor, Stats, Larger, Smaller
<1>4. QED
  BY <1>1, <1>2, <1>3, RTOAssumption DEF Stats, Smaller, CurrentRTO, Floor, Larger, b

(* UpdateWithin: the smoothed round trip is at most the longest one seen.  *)
LEMMA UpdateWithin ==
  ASSUME NEW a \in Stats, NEW r \in Nat, NEW m \in Nat, a.srtt <= m, r <= m
  PROVE  Update(a, r).srtt <= m
<1>1. a.srtt \in Nat /\ (7 * a.srtt + r) \div 8 <= m
  BY DEF Stats
<1>2. QED
  BY <1>1 DEF Update, FirstSample, Smoothed

(* BackoffRaises: a timeout does not lower the timeout in use.             *)
LEMMA BackoffRaises ==
  ASSUME NEW a \in Stats
  PROVE  CurrentRTO(Backoff(a)) >= CurrentRTO(a)
BY RTOAssumption DEF Backoff, CurrentRTO, Floor, Stats, Larger, Smaller

=============================================================================
