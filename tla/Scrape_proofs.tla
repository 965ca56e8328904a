--------------------------- MODULE Scrape_proofs ----------------------------
(***************************************************************************)
(* A scrape is off by no more than the probes that move while it is taken  *)
(* and those that panics displaced before, for any number of probes, of    *)
(* panics and of events during the scrape, and any order in which the      *)
(* series are read.                                                        *)
(***************************************************************************)
EXTENDS Scrape, TLAPS

\* What the first update of a move leaves to the second one.
Imbalance ==
  CASE pc = "echoed" -> -1
    [] pc \in {"expired", "cut", "registered"} -> 1
    [] pc = "panicked" -> pending
    [] pc = "stopped" -> -dropped
    [] OTHER -> 0

\* What an event in progress puts between the gauge and the map.
Lead ==
  CASE pc = "matched" -> 1
    [] pc \in {"released", "dropping", "entered"} -> -1
    [] OTHER -> 0

\* What is left of both is the work of panics.
Off == Unbalanced - Imbalance
Drift == OffTheMap - Lead

Balanced ==
  /\ Distance(Off) + Distance(Drift) <= torn
  /\ pc \in {"expired", "released", "cut", "dropping", "entered", "registered"} => pending > 0
  /\ pending <= sent + (IF pc \in {"entered", "registered", "panicked"} THEN 1 ELSE 0)
  /\ pc \in {"entered", "registered"} => sent < MaxProbes
  /\ pc = "stopped" => pending = 0

Base == TypeOK /\ Balanced

LEMMA BaseInit == Init => Base
BY ScrapeAssumption DEF Init, Base, TypeOK, Balanced, Imbalance, Lead, Off, Drift,
  Unbalanced, OffTheMap, Distance, Points

LEMMA BaseTurn == Base /\ Turn => Base'
<1> SUFFICES ASSUME Base, Turn PROVE Base'
  OBVIOUS
<1> USE ScrapeAssumption DEF Base, TypeOK, Balanced, Imbalance, Lead, Off, Drift, Unbalanced,
           OffTheMap, Distance, Points, WithinEvent, series, scrape, Moves
<1>1. CASE Fire
  BY <1>1 DEF Fire, Goes
<1>2. CASE TakeEcho
  <2>1. CASE Match
    BY <2>1 DEF Match
  <2>2. CASE LeaveGauge
    BY <2>2 DEF LeaveGauge
  <2>3. CASE Observe
    BY <2>3 DEF Observe
  <2>4. QED BY <1>2, <2>1, <2>2, <2>3 DEF TakeEcho
<1>3. CASE DrainEnds
  BY <1>3 DEF DrainEnds, Goes
<1>5. CASE Sweep
  <2>1. CASE CountLost("sweep", "expired")
    BY <2>1 DEF CountLost
  <2>2. CASE Release("expired", "released")
    BY <2>2 DEF Release
  <2>3. CASE Forget("released", "sweep")
    BY <2>3 DEF Forget, Deletes
  <2>4. QED BY <1>5, <2>1, <2>2, <2>3 DEF Sweep
<1>6. CASE SweepEnds
  BY <1>6 DEF SweepEnds, Goes
<1>7. CASE Flush
  <2>1. CASE CountLost("flush", "cut")
    BY <2>1 DEF CountLost
  <2>2. CASE Release("cut", "dropping")
    BY <2>2 DEF Release
  <2>3. CASE Forget("dropping", "flush")
    BY <2>3 DEF Forget, Deletes
  <2>4. QED BY <1>7, <2>1, <2>2, <2>3 DEF Flush
<1>8. CASE Redial
  BY <1>8 DEF Redial, Goes
<1>9. CASE Register
  <2>1. CASE Enter
    BY <2>1 DEF Enter
  <2>2. CASE JoinGauge
    BY <2>2 DEF JoinGauge
  <2>3. CASE CountSent
    BY <2>3 DEF CountSent
  <2>4. QED BY <1>9, <2>1, <2>2, <2>3 DEF Register
<1>10. CASE WriteFails
  BY <1>10 DEF WriteFails, Goes
<1>11. QED
  BY <1>1, <1>2, <1>3, <1>5, <1>6, <1>7, <1>8, <1>9, <1>10 DEF Turn

LEMMA BaseEnds == Base /\ Ends => Base'
<1> SUFFICES ASSUME Base, Ends PROVE Base'
  OBVIOUS
<1> USE ScrapeAssumption DEF Base, TypeOK, Balanced, Imbalance, Lead, Off, Drift, Unbalanced,
           OffTheMap, Distance, Points, WithinEvent, series, scrape, Moves
<1>1. CASE Panic
  <2> USE <1>1 DEF Panic, LostByPanic
  <2>1. CASE pc \in {"wait", "drain", "sweep", "flush", "write"}
    BY <2>1
  <2>2. CASE pc \in {"matched", "echoed"}
    BY <2>2
  <2>3. CASE pc \in {"expired", "released", "cut", "dropping"}
    BY <2>3
  <2>4. CASE pc \in {"entered", "registered"}
    BY <2>4
  <2>5. QED BY <2>1, <2>2, <2>3, <2>4
<1>2. CASE Recover
  BY <1>2 DEF Recover
<1>3. CASE Cancel
  BY <1>3 DEF Cancel
<1>4. QED BY <1>1, <1>2, <1>3 DEF Ends

LEMMA BaseScraper == Base /\ Scraper => Base'
<1> SUFFICES ASSUME Base, Scraper PROVE Base'
  OBVIOUS
<1> USE DEF Base, TypeOK, Balanced, Imbalance, Lead, Off, Drift, Unbalanced, OffTheMap,
            Distance, loopVars, series
<1>1. CASE ScrapeStarts
  <2>1. OnTheMove \in Nat
    BY DEF OnTheMove
  <2>2. QED BY <1>1, <2>1 DEF ScrapeStarts
<1>2. CASE \E f \in Families : Reads(f)
  <2>1. PICK f \in Families : Reads(f)
    BY <1>2
  <2>2. Signed(f) \in Int
    BY DEF Signed, Families
  <2>3. QED BY <2>1, <2>2 DEF Reads
<1>3. QED BY <1>1, <1>2 DEF Scraper

LEMMA BaseAlways == Spec => []Base
<1>1. Base /\ [Next]_vars => Base'
  <2>1. Base /\ UNCHANGED vars => Base'
    BY DEF Base, TypeOK, Balanced, Imbalance, Lead, Off, Drift, Unbalanced, OffTheMap,
           Distance, vars, loopVars, series, scrape
  <2>2. QED BY <2>1, BaseTurn, BaseEnds, BaseScraper DEF Next
<1>2. QED BY <1>1, BaseInit, PTL DEF Spec

(* TypeOK: the gauge of probes in flight leaves the range of the probes    *)
(* written only by panics within events, one each (TypeOK of Scrape).      *)
THEOREM TypeCorrect == Spec => []TypeOK
<1>1. Base => TypeOK
  BY DEF Base
<1>2. QED BY <1>1, BaseAlways, PTL

(* RestartsBalance: when the loop waits, the balance of the series and the *)
(* gauge's agreement with the pending map are together off by at most one  *)
(* probe for each panic that fell within an event.                         *)
THEOREM PanicsDisplaceOne == Spec => []RestartsBalance
<1>1. Base => RestartsBalance
  BY DEF Base, TypeOK, Balanced, Imbalance, Lead, Off, Drift, Unbalanced, OffTheMap,
         Distance, RestartsBalance
<1>2. QED BY <1>1, BaseAlways, PTL

-----------------------------------------------------------------------------
(* The gap a scrape would end with if the loop stood still: what has been  *)
(* read, and the present value of what has not.  A read does not change    *)
(* it; the two updates of a move change it by the probes that move, or not *)
(* at all, or cancel out.                                                  *)
Unread(f, v) == IF f \in todo THEN v ELSE 0

Projected ==
  gap + Unread("rtt", rtt) + Unread("timedOut", timedOut)
      + Unread("inflight", inflight) + Unread("sent", -sent)

\* What the second update of the move in progress will still add to it.
Coming ==
  CASE pc = "echoed" -> Unread("rtt", 1)
    [] pc \in {"expired", "cut"} -> Unread("inflight", -1)
    [] pc = "registered" -> Unread("sent", -1)
    [] pc = "panicked" -> Unread("inflight", -pending)
    [] OTHER -> 0

GapInv ==
  /\ Distance(Projected) <= moved + torn
  /\ Distance(Projected + Coming) <= moved + torn

LEMMA GapInit == Init => GapInv
BY DEF Init, GapInv, Projected, Coming, Unread, Distance

LEMMA GapTurn == Base /\ GapInv /\ Turn => GapInv'
<1> SUFFICES ASSUME Base, GapInv, Turn PROVE GapInv'
  OBVIOUS
<1> USE DEF Base, TypeOK, GapInv, Projected, Coming, Unread, Distance, WithinEvent,
            series, scrape, Moves
<1>1. CASE Fire
  BY <1>1 DEF Fire, Goes
<1>2. CASE TakeEcho
  <2>1. CASE Match
    BY <2>1 DEF Match
  <2>2. CASE LeaveGauge
    BY <2>2 DEF LeaveGauge
  <2>3. CASE Observe
    BY <2>3 DEF Observe
  <2>4. QED BY <1>2, <2>1, <2>2, <2>3 DEF TakeEcho
<1>3. CASE DrainEnds
  BY <1>3 DEF DrainEnds, Goes
<1>5. CASE Sweep
  <2>1. CASE CountLost("sweep", "expired")
    BY <2>1 DEF CountLost
  <2>2. CASE Release("expired", "released")
    BY <2>2 DEF Release
  <2>3. CASE Forget("released", "sweep")
    BY <2>3 DEF Forget, Deletes
  <2>4. QED BY <1>5, <2>1, <2>2, <2>3 DEF Sweep
<1>6. CASE SweepEnds
  BY <1>6 DEF SweepEnds, Goes
<1>7. CASE Flush
  <2>1. CASE CountLost("flush", "cut")
    BY <2>1 DEF CountLost
  <2>2. CASE Release("cut", "dropping")
    BY <2>2 DEF Release
  <2>3. CASE Forget("dropping", "flush")
    BY <2>3 DEF Forget, Deletes
  <2>4. QED BY <1>7, <2>1, <2>2, <2>3 DEF Flush
<1>8. CASE Redial
  BY <1>8 DEF Redial, Goes
<1>9. CASE Register
  <2>1. CASE Enter
    BY <2>1 DEF Enter
  <2>2. CASE JoinGauge
    BY <2>2 DEF JoinGauge
  <2>3. CASE CountSent
    BY <2>3 DEF CountSent
  <2>4. QED BY <1>9, <2>1, <2>2, <2>3 DEF Register
<1>10. CASE WriteFails
  BY <1>10 DEF WriteFails, Goes
<1>11. QED
  BY <1>1, <1>2, <1>3, <1>5, <1>6, <1>7, <1>8, <1>9, <1>10 DEF Turn

LEMMA GapEnds == Base /\ GapInv /\ Ends => GapInv'
<1> SUFFICES ASSUME Base, GapInv, Ends PROVE GapInv'
  OBVIOUS
<1> USE DEF Base, TypeOK, GapInv, Projected, Coming, Unread, Distance, WithinEvent,
            series, scrape, Moves
<1>1. CASE Panic
  BY <1>1 DEF Panic, LostByPanic
<1>2. CASE Recover
  BY <1>2 DEF Recover
<1>3. CASE Cancel
  BY <1>3 DEF Cancel
<1>4. QED BY <1>1, <1>2, <1>3 DEF Ends

(* DistanceSum: the triangle inequality.                                   *)
LEMMA DistanceSum ==
  ASSUME NEW a \in Int, NEW b \in Int, NEW m \in Int, NEW n \in Int,
         Distance(a) <= m, Distance(b) <= n
  PROVE  Distance(a + b) <= m + n
BY DEF Distance

LEMMA GapScraper == Base /\ GapInv /\ Scraper => GapInv'
<1> SUFFICES ASSUME Base, GapInv, Scraper PROVE GapInv'
  OBVIOUS
\* The scrape starts with the imbalance of the move in progress, which that
\* move takes back.
<1>1. CASE ScrapeStarts
  <2>1. /\ Projected' = rtt + timedOut + inflight - sent
        /\ UNCHANGED <<pc, pending, sent, rtt, timedOut, inflight, dropped>>
        /\ todo' = Families
        /\ moved' = OnTheMove
    BY <1>1 DEF ScrapeStarts, Projected, Unread, Families, loopVars, series, Base, TypeOK
  <2>2. Projected' = Imbalance + Off /\ Distance(Off) <= torn /\ Off \in Int
    BY <2>1 DEF Base, TypeOK, Balanced, Imbalance, Off, Drift, Unbalanced, OffTheMap, Lead,
                Distance
  <2> HIDE DEF Off
  <2>3. Distance(Imbalance) <= OnTheMove /\ Distance(Imbalance + Coming') <= OnTheMove
    BY <2>1 DEF Coming, Unread, OnTheMove, Imbalance, Families, Base, TypeOK, Balanced, Distance
  <2>4. Imbalance \in Int /\ Coming' \in Int /\ OnTheMove \in Nat /\ torn \in Nat
    BY <2>1 DEF Coming, Unread, OnTheMove, Imbalance, Families, Base, TypeOK
  <2>5. torn' = torn
    BY <1>1 DEF ScrapeStarts, loopVars
  <2>6. /\ Distance(Imbalance + Off) <= OnTheMove + torn
        /\ Distance((Imbalance + Coming') + Off) <= OnTheMove + torn
    BY <2>2, <2>3, <2>4, DistanceSum
  <2>7. Projected' + Coming' = (Imbalance + Coming') + Off
    BY <2>2, <2>4
  <2>8. QED
    BY <2>1, <2>2, <2>5, <2>6, <2>7 DEF GapInv
<1>2. CASE \E f \in Families : Reads(f)
  <2>1. PICK f \in Families : Reads(f)
    BY <1>2
  <2>2. Projected' = Projected
    BY <2>1 DEF Reads, Projected, Unread, Signed, Families, loopVars, series, Base, TypeOK
  <2>3. Coming' = Coming \/ Coming' = 0
    BY <2>1 DEF Reads, Coming, Unread, Families, loopVars, series, Base, TypeOK
  <2>4. UNCHANGED <<moved, torn>> /\ Projected \in Int /\ Coming \in Int
    BY <2>1 DEF Reads, loopVars, Base, TypeOK, Projected, Coming, Unread
  <2>5. QED BY <2>2, <2>3, <2>4 DEF GapInv
<1>3. QED BY <1>1, <1>2 DEF Scraper

(* ScrapeGap: a complete scrape differs from the documented balance by at  *)
(* most the probes that moved while it was taken and one for each panic so *)
(* far that fell within an event, whatever the loop did in between.        *)
THEOREM ScrapesAreTight == Spec => []ScrapeGap
<1>1. Base /\ GapInv /\ [Next]_vars => GapInv'
  <2>1. GapInv /\ UNCHANGED vars => GapInv'
    BY DEF GapInv, Projected, Coming, Unread, Distance, vars, loopVars, series, scrape
  <2>2. QED BY <2>1, GapTurn, GapEnds, GapScraper DEF Next
<1>2. Base /\ GapInv => ScrapeGap
  BY DEF Base, TypeOK, GapInv, ScrapeGap, Projected, Unread
<1>3. QED BY <1>1, <1>2, GapInit, BaseAlways, PTL DEF Spec

=============================================================================
