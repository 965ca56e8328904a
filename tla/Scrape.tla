------------------------------- MODULE Scrape -------------------------------
(***************************************************************************)
(* What a scrape of the metrics endpoint sees of one target.  The loop of  *)
(* internal/prober/client.go moves a probe between the series with two     *)
(* atomic updates of two of them, and the registry reads the series one    *)
(* after another in any order, so a scrape can fall between the two, and   *)
(* between the reads of two series the loop can go on.  A panic can fall   *)
(* between them too: the recovery knows the pending map only, and takes    *)
(* every probe in it for one that is on the gauge and has no verdict.      *)
(*                                                                         *)
(* Only the series of the documented sanity check are kept, and the points *)
(* of the loop where one of them or the map is written: which echo, which  *)
(* timeout and which failure brought the loop there is any.                *)
(***************************************************************************)
EXTENDS Integers

CONSTANTS
  MaxProbes,   \* bound: probes written
  MaxTorn      \* bound: panics between the updates of one event

ASSUME ScrapeAssumption == MaxProbes \in Nat /\ MaxTorn \in Nat

VARIABLES
  pc,         \* where the loop is: "wait", "drain", "sweep", "flush", "write",
              \* one of the points within an event below, "panicked" (the
              \* pending probes are counted, not yet off the gauge), "stopped"
  pending,    \* len(pending)
  sent,       \* link_probes_sent_total
  rtt,        \* link_rtt_seconds_count
  timedOut,   \* link_probes_timed_out_total
  inflight,   \* link_probes_inflight
  dropped,    \* history: probes that left the gauge at the shutdown
  torn,       \* history: panics between the updates of one event
  todo,       \* the series the scrape has not read yet, {}: it is complete
  gap,        \* rtt + timedOut + inflight - sent, as far as read
  moved       \* history: probes that were on the move during the scrape

series == <<sent, rtt, timedOut, inflight>>
loopVars == <<pc, pending, series, dropped, torn>>
scrape == <<todo, gap>>
vars == <<loopVars, scrape, moved>>

Families == {"sent", "rtt", "timedOut", "inflight"}

\* An echo: out of the map, off the gauge, observed.  A loss, in the sweep or
\* the flush: counted, off the gauge, out of the map.  A probe: in the map, on
\* the gauge, counted as sent.  These are the points after the first update
\* and after the second.
WithinEvent == {"matched", "echoed", "expired", "released", "cut", "dropping",
                "entered", "registered"}

Points == {"wait", "drain", "sweep", "flush", "write", "panicked", "stopped"} \cup WithinEvent

TypeOK ==
  /\ pc \in Points
  /\ pending \in 0 .. MaxProbes + 1
  /\ sent \in 0 .. MaxProbes /\ rtt \in Nat /\ timedOut \in Nat
  /\ inflight \in -torn .. MaxProbes + 1 + torn
  /\ dropped \in Nat /\ torn \in 0 .. MaxTorn
  /\ todo \in SUBSET Families /\ gap \in Int /\ moved \in Nat

\* SeedMetrics and newTargetMetrics create every series at zero.
Init ==
  /\ pc = "wait" /\ pending = 0
  /\ sent = 0 /\ rtt = 0 /\ timedOut = 0 /\ inflight = 0
  /\ dropped = 0 /\ torn = 0
  /\ todo = {} /\ gap = 0 /\ moved = 0

\* A step of the loop that writes no series.
Goes(from, to) ==
  /\ pc = from /\ pc' = to
  /\ UNCHANGED <<pending, series, dropped, torn, scrape, moved>>

\* n probes start to move: they count for the scrape that is being taken.
Moves(n) ==
  /\ moved' = moved + n
  /\ UNCHANGED scrape

-----------------------------------------------------------------------------
(* The loop.                                                               *)

Fire == Goes("wait", "drain")

\* The response of a pending probe.
Match ==
  /\ pc = "drain" /\ pending > 0
  /\ pc' = "matched" /\ pending' = pending - 1
  /\ UNCHANGED <<series, dropped, torn, scrape, moved>>

LeaveGauge ==
  /\ pc = "matched"
  /\ pc' = "echoed"
  /\ inflight' = inflight - 1
  /\ Moves(1)
  /\ UNCHANGED <<pending, sent, rtt, timedOut, dropped, torn>>

Observe ==
  /\ pc = "echoed"
  /\ pc' = "drain"
  /\ rtt' = rtt + 1
  /\ UNCHANGED <<pending, sent, timedOut, inflight, dropped, torn, scrape, moved>>

TakeEcho == Match \/ LeaveGauge \/ Observe

DrainEnds == Goes("drain", "sweep")

\* The two loops over pending that count probes as lost.
CountLost(from, to) ==
  /\ pc = from /\ pending > 0
  /\ pc' = to
  /\ timedOut' = timedOut + 1
  /\ Moves(1)
  /\ UNCHANGED <<pending, sent, rtt, inflight, dropped, torn>>

Release(from, to) ==
  /\ pc = from
  /\ pc' = to
  /\ inflight' = inflight - 1
  /\ UNCHANGED <<pending, sent, rtt, timedOut, dropped, torn, scrape, moved>>

\* Plausible bug: the entry stays in the map that is about to be thrown away.
KeepsEntry == 0

Deletes == 1

Forget(from, to) ==
  /\ pc = from
  /\ pc' = to /\ pending' = pending - Deletes
  /\ UNCHANGED <<series, dropped, torn, scrape, moved>>

Sweep ==
  CountLost("sweep", "expired") \/ Release("expired", "released") \/ Forget("released", "sweep")
SweepEnds == Goes("sweep", "write") \/ Goes("sweep", "flush")
Flush ==
  CountLost("flush", "cut") \/ Release("cut", "dropping") \/ Forget("dropping", "flush")

\* Every pending probe is counted, then the loop returns and the target
\* dials again.
Redial == pending = 0 /\ Goes("flush", "wait")

\* Registered after the write.
Enter ==
  /\ pc = "write" /\ sent < MaxProbes
  /\ pc' = "entered" /\ pending' = pending + 1
  /\ UNCHANGED <<series, dropped, torn, scrape, moved>>

JoinGauge ==
  /\ pc = "entered"
  /\ pc' = "registered"
  /\ inflight' = inflight + 1
  /\ Moves(1)
  /\ UNCHANGED <<pending, sent, rtt, timedOut, dropped, torn>>

CountSent ==
  /\ pc = "registered"
  /\ pc' = "wait"
  /\ sent' = sent + 1
  /\ UNCHANGED <<pending, rtt, timedOut, inflight, dropped, torn, scrape, moved>>

Register == Enter \/ JoinGauge \/ CountSent

WriteFails == Goes("write", "wait")

\* Plausible bug: the recovery takes the pending probes off the gauge and
\* forgets to count them.
LostSilently == 0

LostByPanic == pending

\* A panic, anywhere in the loop: the recovery counts the pending probes.
Panic ==
  /\ pc \in {"wait", "drain", "sweep", "flush", "write"} \cup WithinEvent
  /\ torn' = torn + (IF pc \in WithinEvent THEN 1 ELSE 0)
  /\ torn' <= MaxTorn
  /\ pc' = "panicked"
  /\ timedOut' = timedOut + LostByPanic
  /\ Moves(pending)
  /\ UNCHANGED <<pending, sent, rtt, inflight, dropped>>

\* Then it takes them off the gauge, and the map goes with the session.
Recover ==
  /\ pc = "panicked"
  /\ pc' = "wait" /\ pending' = 0
  /\ inflight' = inflight - pending
  /\ UNCHANGED <<sent, rtt, timedOut, dropped, torn, scrape, moved>>

\* Probes in flight leave the gauge without a verdict.
Cancel ==
  /\ pc = "wait"
  /\ pc' = "stopped" /\ pending' = 0
  /\ inflight' = inflight - pending /\ dropped' = pending
  /\ Moves(pending)
  /\ UNCHANGED <<sent, rtt, timedOut, torn>>

-----------------------------------------------------------------------------
(* The scrape.                                                             *)

\* Probes between the two updates of a move.
OnTheMove ==
  CASE pc \in {"echoed", "expired", "cut", "registered"} -> 1
    [] pc = "panicked" -> pending
    [] pc = "stopped" -> dropped
    [] OTHER -> 0

ScrapeStarts ==
  /\ todo = {}
  /\ todo' = Families /\ gap' = 0 /\ moved' = OnTheMove
  /\ UNCHANGED loopVars

Signed(f) ==
  CASE f = "sent" -> -sent
    [] f = "rtt" -> rtt
    [] f = "timedOut" -> timedOut
    [] f = "inflight" -> inflight

Reads(f) ==
  /\ f \in todo
  /\ todo' = todo \ {f} /\ gap' = gap + Signed(f)
  /\ UNCHANGED <<loopVars, moved>>

Turn ==
  \/ Fire \/ TakeEcho \/ DrainEnds
  \/ Sweep \/ SweepEnds \/ Flush \/ Redial
  \/ Register \/ WriteFails
Ends == Panic \/ Recover \/ Cancel
Scraper == ScrapeStarts \/ \E f \in Families : Reads(f)

Next == Turn \/ Ends \/ Scraper

Spec == Init /\ [][Next]_vars

-----------------------------------------------------------------------------
Distance(n) == IF n < 0 THEN -n ELSE n

(* ScrapeGap: in a complete scrape, link_probes_sent_total differs from    *)
(* link_rtt_seconds_count + link_probes_timed_out_total +                  *)
(* link_probes_inflight by no more than the probes that were moving from   *)
(* one to another while it was taken, or left at the shutdown, and one for *)
(* each panic so far that fell within an event ("Sanity check" of the      *)
(* README).  Without either it balances.                                   *)
ScrapeGap == todo = {} => Distance(gap) <= moved + torn

(* RestartsBalance: what the comment in the recovery promises, as far as   *)
(* it is so.  When the loop waits, a panic has cost nothing if it fell     *)
(* between two events; one within an event has displaced one probe, in the *)
(* balance of the series or between the gauge and the pending map, and not *)
(* in both.                                                                *)
Unbalanced == rtt + timedOut + inflight - sent
OffTheMap == inflight - pending
RestartsBalance == pc = "wait" => Distance(Unbalanced) + Distance(OffTheMap) <= torn

=============================================================================
