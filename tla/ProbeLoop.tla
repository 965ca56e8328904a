----------------------------- MODULE ProbeLoop -----------------------------
(***************************************************************************)
(* One target of the prober: probeTarget and runEchoLoop of                *)
(* internal/prober/client.go, the reader goroutine of the session, and the *)
(* datagram path to the echo server and back, which delays, reorders,      *)
(* duplicates, corrupts and loses what it carries.                         *)
(*                                                                         *)
(* Time is relative and counted in ticks: how long each open probe has     *)
(* been out, how much of the timer is left, how old the socket is.  Ages   *)
(* stop growing once they are past every limit they are compared with, so  *)
(* behaviours are infinite over finitely many states and liveness can be   *)
(* checked.  A wake-up may be late by any amount.                          *)
(***************************************************************************)
EXTENDS AdaptiveStats, FiniteSets, Sequences, Functions

CONSTANTS
  Adaptive,            \* Config.Adaptive
  BaseInterval,        \* Config.BaseInterval, in ticks
  BaseTimeout,         \* Config.BaseTimeout, in ticks
  ReconnectInterval,   \* lifetime of a socket, in ticks
  RetryPause,          \* the pause after a failed dial or a panic, in ticks
  LinkUpMissThreshold,
  maxConsecutiveWriteFails,
  RespChCap,           \* capacity of respCh
  Tick,                \* fine units of AdaptiveStats in a tick
  MaxRTT,              \* bound: the longest measured round trip, in ticks
  AgeCap,              \* bound: where the age of a probe stops growing
  MaxProbes,           \* bound: successful writes
  MaxPanics,           \* bound: panics of the echo loop
  MaxDups              \* bound: datagrams delivered more than once

\* AgeCap is above every timeout the loop can have, so that an age that no
\* longer grows is an expired one: a timeout is BaseTimeout at first, then
\* at most MaxRTO or twice a smoothed round trip.
ASSUME ProbeLoopAssumption ==
  /\ Adaptive \in BOOLEAN
  /\ BaseInterval \in Nat \ {0} /\ BaseTimeout \in Nat \ {0}
  /\ ReconnectInterval \in Nat \ {0} /\ RetryPause \in Nat
  /\ LinkUpMissThreshold \in Nat \ {0}
  /\ maxConsecutiveWriteFails \in Nat \ {0}
  /\ RespChCap \in Nat \ {0}
  /\ Tick \in Nat \ {0}
  /\ MaxRTT \in Nat /\ AgeCap \in Nat
  /\ MaxProbes \in Nat /\ MaxPanics \in Nat /\ MaxDups \in Nat

ASSUME AgeCapAssumption ==
  /\ AgeCap >= MaxRTT /\ AgeCap > BaseTimeout
  /\ Adaptive => AgeCap * Tick > MaxRTO /\ AgeCap > 2 * MaxRTT

VARIABLES
  pc,         \* where the target's goroutine is
  ctxDone,    \* the context is cancelled
  timer,      \* ticks left on intervalTimer, or on the retry timer
  sockAge,    \* time since `started`
  stats,      \* the AdaptiveStats, kept across sessions
  rto,        \* the timeout of this turn of the loop: the link_rto gauge
  pending,    \* open probes: sequence number -> age of its sentTime
  writeFails, \* successive failed writes of this session
  seq, misses, prevSeq, prevRTT,   \* probeLoopState; prevSeq = 0 is ~havePrev
  jitterRun,  \* the jitter estimate, as the number of terms it has folded
  reader,     \* the reader goroutine: "none", "reading" or "exited"
  held,       \* the response the reader is pushing: at most one
  respCh,     \* responses the reader has pushed
  wire,       \* probes and echoes on their way
  panics, dups,                             \* spent bounds
  sent, rttCount, timedOut, inflight, linkUp,   \* the exported metrics
  echoed, lost   \* history: the probes behind rttCount and timedOut

state == <<seq, misses, prevSeq, prevRTT, jitterRun>>
turn == <<timer, sockAge, rto, writeFails>>
net == <<reader, held, respCh, wire, dups>>
metrics == <<sent, rttCount, timedOut, inflight, linkUp>>
history == <<echoed, lost>>
vars == <<pc, ctxDone, stats, pending, panics, state, turn, net, metrics, history>>

Datagram == [seq : Nat \ {0}, ok : BOOLEAN]
Response == [seq : Nat \ {0}, ok : BOOLEAN, rtt : 0 .. MaxRTT]

ControlType ==
  /\ pc \in {"dial", "wait", "drain", "send", "pause", "stopped"}
  /\ ctxDone \in BOOLEAN
  /\ timer \in Nat /\ sockAge \in 0 .. ReconnectInterval /\ rto \in Nat
  /\ writeFails \in 0 .. maxConsecutiveWriteFails + 1
  /\ panics \in 0 .. MaxPanics

StateType ==
  /\ seq \in 0 .. MaxProbes
  /\ misses \in Nat /\ jitterRun \in Nat
  /\ prevSeq \in 0 .. seq /\ prevRTT \in 0 .. MaxRTT

OpenType ==
  /\ DOMAIN pending \subseteq 1 .. seq
  /\ pending \in [DOMAIN pending -> 0 .. AgeCap]

NetType ==
  /\ reader \in {"none", "reading", "exited"}
  /\ held \subseteq Response /\ (reader # "reading" => held = {})
  /\ respCh \in Seq(Response) /\ Len(respCh) <= RespChCap
  /\ wire \subseteq Datagram
  /\ dups \in 0 .. MaxDups

MetricsType ==
  /\ sent \in Nat /\ rttCount \in Nat /\ timedOut \in Nat /\ inflight \in Int
  /\ linkUp \in {0, 1}

HistoryType == echoed \subseteq 1 .. seq /\ lost \subseteq 1 .. seq

TypeOK ==
  /\ ControlType /\ stats \in Stats /\ StateType /\ OpenType
  /\ NetType /\ MetricsType /\ HistoryType

Init ==
  /\ pc = "dial" /\ ctxDone = FALSE
  /\ timer = 0 /\ sockAge = 0 /\ rto = 0 /\ writeFails = 0
  /\ stats = NewAdaptiveStats(BaseTimeout * Tick)
  /\ pending = << >>
  /\ seq = 0 /\ misses = 0 /\ prevSeq = 0 /\ prevRTT = 0 /\ jitterRun = 0
  /\ reader = "none" /\ held = {} /\ respCh = << >> /\ wire = {}
  /\ panics = 0 /\ dups = 0
  /\ sent = 0 /\ rttCount = 0 /\ timedOut = 0 /\ inflight = 0 /\ linkUp = 0
  /\ echoed = {} /\ lost = {}

-----------------------------------------------------------------------------
(* Operators the actions share.                                            *)

\* Plausible bug: the timeout is asked for once in a session.
TimeoutOfTheSession(a) ==
  IF pc # "dial" THEN rto ELSE IF Adaptive THEN CurrentRTO(a) ELSE BaseTimeout * Tick

TimeoutOfTheTurn(a) == IF Adaptive THEN CurrentRTO(a) ELSE BaseTimeout * Tick

\* The timeout is chosen at the top of the loop, before the wait, and is the
\* one the sweep after that wait compares with.
LoopTop(a) ==
  /\ pc' = "wait"
  /\ timer' = BaseInterval
  /\ rto' = TimeoutOfTheTurn(a)

Expired(s) == pending[s] * Tick > rto

\* The deferred calls of runEchoLoop: the socket is closed, the reader is
\* released, and what was on its way to this socket is gone.
SessionOver ==
  /\ reader' = "none" /\ held' = {} /\ respCh' = << >> /\ wire' = {}
  /\ UNCHANGED dups

-----------------------------------------------------------------------------
(* probeTarget: dial, retry, stop.                                         *)

DialOK ==
  /\ pc = "dial"
  /\ LoopTop(stats)
  /\ sockAge' = 0 /\ writeFails' = 0
  /\ reader' = "reading"
  /\ UNCHANGED <<ctxDone, stats, pending, panics, state, held, respCh, wire, dups,
                 metrics, history>>

\* A cancelled context makes the dial fail too.
DialFail ==
  /\ pc = "dial"
  /\ linkUp' = 0
  /\ pc' = "pause" /\ timer' = RetryPause
  /\ UNCHANGED <<ctxDone, stats, pending, panics, state, sockAge, rto, writeFails, net,
                 sent, rttCount, timedOut, inflight, history>>

RetryDial ==
  /\ pc = "pause" /\ timer = 0
  /\ pc' = "dial"
  /\ UNCHANGED <<ctxDone, stats, pending, panics, state, turn, net, metrics, history>>

\* Plausible bug: the pause is a plain sleep that does not watch ctx.
StopWhileAsleep == FALSE

StopWhilePaused ==
  /\ pc = "pause" /\ ctxDone
  /\ pc' = "stopped"
  /\ UNCHANGED <<ctxDone, stats, pending, panics, state, turn, net, metrics, history>>

-----------------------------------------------------------------------------
(* runEchoLoop, waiting for the timer or for the context.  When both are   *)
(* ready the select takes either.                                          *)

Fire ==
  /\ pc = "wait" /\ timer = 0
  /\ pc' = "drain"
  /\ UNCHANGED <<ctxDone, stats, pending, panics, state, turn, net, metrics, history>>

\* The open probes die with the loop: they leave the gauge and count nowhere.
StopSession ==
  /\ pc = "wait" /\ ctxDone
  /\ pc' = "stopped"
  /\ inflight' = inflight - Cardinality(DOMAIN pending)
  /\ pending' = << >>
  /\ SessionOver
  /\ UNCHANGED <<ctxDone, stats, panics, state, turn, sent, rttCount, timedOut, linkUp,
                 history>>

-----------------------------------------------------------------------------
(* The drain: one response after the other until respCh is empty.          *)

\* Plausible bug: the echoed timestamp alone accepts a response.
MatchesTimestamp(r) == r.ok

Matches(r) == r.seq \in DOMAIN pending /\ r.ok

\* Plausible bug: any two samples in a row make a jitter term.
JitterFoldsAnyPair(s) == prevSeq # 0

JitterContinues(s) == prevSeq # 0 /\ s = prevSeq + 1

\* Plausible bug: an echo does not end a run of timeouts.
StatsAfterKeepingSeries(r) ==
  [Update(stats, r * Tick) EXCEPT !.consecutiveTimeouts = stats.consecutiveTimeouts]

StatsAfterEcho(r) == Update(stats, r * Tick)

CountEcho ==
  /\ pc = "drain" /\ respCh # << >>
  /\ LET r == Head(respCh) IN
     /\ Matches(r)
     /\ pending' = Restrict(pending, DOMAIN pending \ {r.seq})
     /\ inflight' = inflight - 1
     /\ rttCount' = rttCount + 1
     /\ jitterRun' = IF JitterContinues(r.seq) THEN jitterRun + 1 ELSE 0
     /\ prevSeq' = r.seq /\ prevRTT' = r.rtt
     /\ stats' = IF Adaptive THEN StatsAfterEcho(r.rtt) ELSE stats
     /\ echoed' = echoed \cup {r.seq}
  /\ misses' = 0 /\ linkUp' = 1
  /\ respCh' = Tail(respCh)
  /\ UNCHANGED <<pc, ctxDone, panics, seq, turn, reader, held, wire, dups, sent, timedOut,
                 lost>>

\* An unknown sequence number, or an echo that is not what was sent: the
\* probe, if open, stays open.
DiscardEcho ==
  /\ pc = "drain" /\ respCh # << >>
  /\ ~Matches(Head(respCh))
  /\ respCh' = Tail(respCh)
  /\ UNCHANGED <<pc, ctxDone, stats, pending, panics, state, turn, reader, held, wire,
                 dups, metrics, history>>

-----------------------------------------------------------------------------
(* The sweep: every open probe past the timeout is lost.  They share one   *)
(* clock reading, and the estimator hears of the sweep once.               *)

\* Plausible bug: the link is judged before the misses of this sweep count.
LinkAfterOldMisses(n) == IF misses >= LinkUpMissThreshold THEN 0 ELSE linkUp

\* Plausible bug: losses are counted and judge no link.
LinkIgnoresLosses(n) == linkUp

LinkAfter(n) == IF n >= LinkUpMissThreshold THEN 0 ELSE linkUp

\* Plausible bug: every lost probe is a timeout for the estimator.
BackoffPerProbe(n) ==
  LET after[i \in 0 .. n] == IF i = 0 THEN stats ELSE Backoff(after[i - 1])
  IN  IF Adaptive THEN after[n] ELSE stats

StatsAfterSweep(n) == IF Adaptive /\ n > 0 THEN Backoff(stats) ELSE stats

Sweep ==
  /\ pc = "drain" /\ respCh = << >>
  /\ LET late == {s \in DOMAIN pending : Expired(s)}
         n == Cardinality(late) IN
     /\ pending' = Restrict(pending, DOMAIN pending \ late)
     /\ timedOut' = timedOut + n
     /\ inflight' = inflight - n
     /\ misses' = misses + n
     /\ linkUp' = LinkAfter(misses + n)
     /\ stats' = StatsAfterSweep(n)
     /\ lost' = lost \cup late
  /\ pc' = "send"
  /\ UNCHANGED <<ctxDone, panics, seq, prevSeq, prevRTT, jitterRun, turn, net, sent, rttCount,
                 echoed>>

-----------------------------------------------------------------------------
(* The end of a turn: re-dial, or write the next probe.                    *)

\* Plausible bug: the socket is only replaced when no probe is open.
ReconnectWhenIdle == sockAge >= ReconnectInterval /\ DOMAIN pending = {}

ReconnectDue == sockAge >= ReconnectInterval

\* Plausible bug: the probes abandoned with a session are dropped uncounted.
CountNoAbandoned == 0

CountAbandoned == Cardinality(DOMAIN pending)

\* The open probes of a session that ends without the context are counted
\* as timed out, and not as misses.
Abandon ==
  /\ timedOut' = timedOut + CountAbandoned
  /\ inflight' = inflight - Cardinality(DOMAIN pending)
  /\ lost' = lost \cup DOMAIN pending
  /\ pending' = << >>
  /\ SessionOver

\* probeTarget looks at the context before it dials again.
Reconnect ==
  /\ pc = "send" /\ ReconnectDue
  /\ Abandon
  /\ pc' = IF ctxDone THEN "stopped" ELSE "dial"
  /\ UNCHANGED <<ctxDone, stats, panics, state, turn, sent, rttCount, linkUp, echoed>>

\* The write panics and the loop recovers: the probe it was about to send
\* was never registered.
SendPanic ==
  /\ pc = "send" /\ ~ReconnectDue
  /\ panics < MaxPanics
  /\ panics' = panics + 1
  /\ Abandon
  /\ pc' = IF ctxDone THEN "stopped" ELSE "pause"
  /\ timer' = RetryPause
  /\ UNCHANGED <<ctxDone, stats, state, sockAge, rto, writeFails, sent, rttCount, linkUp,
                 echoed>>

\* The probe is registered after the write, in the same turn.
SendOK ==
  /\ pc = "send" /\ ~ReconnectDue
  /\ seq < MaxProbes
  /\ seq' = seq + 1
  /\ wire' = wire \cup {[seq |-> seq', ok |-> TRUE]}
  /\ pending' = [s \in DOMAIN pending \cup {seq'} |-> IF s = seq' THEN 0 ELSE pending[s]]
  /\ inflight' = inflight + 1 /\ sent' = sent + 1
  /\ writeFails' = 0
  /\ LoopTop(stats)
  /\ UNCHANGED <<ctxDone, stats, panics, misses, prevSeq, prevRTT, jitterRun, sockAge, reader,
                 held, respCh, dups, rttCount, timedOut, linkUp, history>>

\* Plausible bug: failed writes are logged and leave the link as it was.
LinkKeptOnWriteFail == linkUp

\* The link is marked down by the failed write that reaches the limit, and by
\* that one only.
LinkOnWriteFail == IF writeFails + 1 = maxConsecutiveWriteFails THEN 0 ELSE linkUp

\* A failed write consumes no sequence number.  Past the limit the count
\* only has to stay past it.
SendFail ==
  /\ pc = "send" /\ ~ReconnectDue
  /\ writeFails' = Smaller(writeFails + 1, maxConsecutiveWriteFails + 1)
  /\ linkUp' = LinkOnWriteFail
  /\ LoopTop(stats)
  /\ UNCHANGED <<ctxDone, stats, pending, panics, state, sockAge, net, sent, rttCount,
                 timedOut, inflight, history>>

-----------------------------------------------------------------------------
(* The reader goroutine.  It stamps the arrival before it pushes, and the  *)
(* push blocks while respCh is full.                                       *)

\* A probe and its echo take some time, and MaxRTT at most.  An echo of a
\* settled probe will be discarded, its round trip does not matter.
Stamped(m) ==
  [seq |-> m.seq, ok |-> m.ok,
   rtt |-> IF m.seq \in DOMAIN pending THEN pending[m.seq] ELSE 0]

Receive(m) ==
  /\ reader = "reading" /\ held = {}
  /\ m.seq \in DOMAIN pending => pending[m.seq] \in 1 .. MaxRTT
  /\ held' = {Stamped(m)}
  /\ \/ wire' = wire \ {m} /\ UNCHANGED dups
     \/ dups < MaxDups /\ dups' = dups + 1 /\ UNCHANGED wire
  /\ UNCHANGED <<pc, ctxDone, stats, pending, panics, state, turn, reader, respCh, metrics,
                 history>>

\* Plausible bug: a queue without a capacity.
AlwaysRoom == TRUE

Room == Len(respCh) < RespChCap

ReaderPush ==
  /\ Room
  /\ \E r \in held : respCh' = Append(respCh, r)
  /\ held' = {}
  /\ UNCHANGED <<pc, ctxDone, stats, pending, panics, state, turn, reader, wire, dups,
                 metrics, history>>

\* The reader sees the context, between two reads or in a blocked push, or
\* it gives up on a socket that takes no deadline.
ReaderExits ==
  /\ reader = "reading" /\ (ctxDone \/ held = {})
  /\ reader' = "exited" /\ held' = {}
  /\ UNCHANGED <<pc, ctxDone, stats, pending, panics, state, turn, respCh, wire, dups,
                 metrics, history>>

-----------------------------------------------------------------------------
(* The environment: datagrams damaged on the way, the clock, cancellation. *)
(* A lost datagram is one that is never received.                          *)

\* The damage passes the reader's filters and shows in the timestamp.  A
\* datagram that fails size, magic or HMAC is as good as lost.
Corrupt(m) ==
  /\ m.ok
  /\ wire' = (wire \ {m}) \cup {[m EXCEPT !.ok = FALSE]}
  /\ UNCHANGED <<pc, ctxDone, stats, pending, panics, state, turn, reader, held, respCh,
                 dups, metrics, history>>

TimePasses ==
  /\ pc \in {"wait", "pause"}
  /\ timer' = Larger(timer - 1, 0)
  /\ sockAge' = IF pc = "wait" THEN Smaller(sockAge + 1, ReconnectInterval) ELSE sockAge
  /\ pending' = [s \in DOMAIN pending |-> Smaller(pending[s] + 1, AgeCap)]
  /\ UNCHANGED <<pc, ctxDone, stats, panics, state, rto, writeFails, net, metrics, history>>

Cancel ==
  /\ ~ctxDone
  /\ ctxDone' = TRUE
  /\ UNCHANGED <<pc, stats, pending, panics, state, turn, net, metrics, history>>

\* The goroutine has returned: not a deadlock.
Stopped == pc = "stopped" /\ UNCHANGED vars

-----------------------------------------------------------------------------
Retry == DialOK \/ DialFail \/ RetryDial \/ StopWhilePaused
Drain == CountEcho \/ DiscardEcho
Send == Reconnect \/ SendPanic \/ SendOK \/ SendFail

Next ==
  \/ Retry \/ Fire \/ StopSession
  \/ Drain \/ Sweep \/ Send
  \/ \E m \in wire : Receive(m) \/ Corrupt(m)
  \/ ReaderPush \/ ReaderExits
  \/ TimePasses \/ Cancel \/ Stopped

Spec == Init /\ [][Next]_vars

\* The goroutine runs when it can, timers expire, and a select whose context
\* stays done takes that branch in the end: on every turn it is ready well
\* before the timer.
Fairness ==
  /\ WF_vars(DialOK \/ DialFail) /\ WF_vars(RetryDial)
  /\ WF_vars(Fire) /\ WF_vars(Drain) /\ WF_vars(Sweep) /\ WF_vars(Send)
  /\ WF_vars(TimePasses)
  /\ SF_vars(StopSession) /\ SF_vars(StopWhilePaused)

LiveSpec == Spec /\ Fairness

\* A machine whose name lookups and sends work: no dial and no write can be
\* refused for ever.
HealthySpec == LiveSpec /\ SF_vars(DialOK) /\ SF_vars(SendOK)

-----------------------------------------------------------------------------
(* Safety.                                                                 *)

(* Accounts: every probe sent is in exactly one place, counted as echoed,  *)
(* counted as lost, or open, and each metric is the size of its place.     *)
(* Echo handling, sweep, reconnect flush, panic recovery and shutdown each *)
(* move probes between the places by their own code.                       *)
Verdicts == echoed \cap lost = {} /\ (echoed \cup lost) \cap DOMAIN pending = {}
Covered == pc # "stopped" => 1 .. seq = echoed \cup lost \cup DOMAIN pending
Counted ==
  /\ sent = seq
  /\ rttCount = Cardinality(echoed)
  /\ timedOut = Cardinality(lost)
  /\ inflight = Cardinality(DOMAIN pending)
Accounts == Verdicts /\ Covered /\ Counted

(* Balance: what a scrape between two steps of the loop adds up to, and    *)
(* what the dashboards divide: sent = rtt count + timed out + inflight.    *)
(* After shutdown nothing is left in flight and no probe is counted twice. *)
Balance ==
  /\ pc # "stopped" => sent = rttCount + timedOut + inflight
  /\ pc = "stopped" => inflight = 0 /\ sent >= rttCount + timedOut

(* LinkUpIsEarned: link_up is never 1 with a threshold of losses counted   *)
(* since the last echo, across sweeps, re-dials and panics.                *)
LinkUpIsEarned == linkUp = 1 => misses < LinkUpMissThreshold

(* JitterNeverSpansALoss: the n terms of the jitter estimate are           *)
(* differences of n+1 probes with consecutive numbers, all echoed; no      *)
(* reordering, loss, failed write, re-dial or panic slips a gap between    *)
(* two of them.                                                            *)
JitterNeverSpansALoss ==
  jitterRun > 0 => jitterRun < prevSeq /\ (prevSeq - jitterRun) .. prevSeq \subseteq echoed

(* RunsAgree: in adaptive mode the estimator's run of timeouts and the     *)
(* loop's run of misses, which live in different records, start and end    *)
(* together, across sweeps, re-dials and panics; probes cut short by a     *)
(* re-dial or a panic prolong neither.                                     *)
RunsAgree ==
  /\ stats.consecutiveTimeouts <= misses
  /\ Adaptive => (stats.consecutiveTimeouts = 0 <=> misses = 0)

(* DoublesOncePerSweep: while a run of losses lasts, the timeout of a turn *)
(* (link_rto) is never below that of the turn before and never more than   *)
(* twice it, however many probes the sweep between them lost and whatever  *)
(* else fell between: one sweep is one timeout.                            *)
DoublesOncePerSweep ==
  [][stats.consecutiveTimeouts >= 2 /\ rto' # rto => rto' \in rto .. 2 * rto]_vars

(* TimeoutCoversTheLink: a turn never waits with a timeout below the last  *)
(* round trip counted (up to the cap), in whatever turn or session that    *)
(* was: losses, re-dials and panics since have not lowered it, and no echo *)
(* has been left out.                                                      *)
TimeoutCoversTheLink ==
  Adaptive /\ pc = "wait" /\ prevSeq # 0 => rto >= Smaller(prevRTT * Tick, MaxRTO)

(* RTOBounded: no turn of the loop waits longer for an echo than the cap   *)
(* or twice the longest round trip measured, whatever sequence of echoes   *)
(* and timeouts led to it (a fixed timeout is what was configured).        *)
LongestTimeout == IF Adaptive THEN Larger(MaxRTO, 2 * MaxRTT * Tick) ELSE BaseTimeout * Tick
RTOBounded == rto <= LongestTimeout

Ledger == INSTANCE ProbeLedger WITH issued <- seq, open <- DOMAIN pending,
                                    closed <- (pc = "stopped")

(* KeepsTheLedger: the loop implements the abstract ledger.                *)
KeepsTheLedger == Ledger!Spec

-----------------------------------------------------------------------------
(* Liveness.                                                               *)

(* DeadLinkShows: once no echo is counted any more, link_up comes to rest  *)
(* at 0, whether probes time out, writes fail or names stop resolving: a   *)
(* monitor does not go on showing a dead link as up.  Probes time out only *)
(* in a session that outlasts their timeout: the first one, written before *)
(* the write failures are enough to show by themselves, must be found late *)
(* before the re-dial cuts it short.  Wake-ups may be late for a while,    *)
(* but not in every session for ever.                                      *)
SessionsOutlastTimeouts ==
  (ReconnectInterval - maxConsecutiveWriteFails * BaseInterval) * Tick > LongestTimeout
NoMoreEchoes == <>[][rttCount' <= rttCount]_vars
EventuallyPrompt == <>[][TimePasses => timer > 0]_vars
DeadLinkShows ==
  SessionsOutlastTimeouts /\ NoMoreEchoes /\ EventuallyPrompt
    => <>[](linkUp = 0 \/ pc = "stopped")

(* AddressRefreshed: again and again the target dials, and so resolves its *)
(* name, also when the interval is below the timeout and probes are in     *)
(* flight at every moment for ever.                                        *)
AddressRefreshed == []<>(pc \in {"dial", "stopped"})

(* CancelStops: a cancelled target returns from wherever it is, so that    *)
(* RunClient's wait ends.                                                  *)
CancelStops == ctxDone ~> pc = "stopped"

-----------------------------------------------------------------------------
(* Statements of the documentation that the code does not keep.            *)

(* ProbesGetSent: "At each interval it: ... 3. Sends a new probe"          *)
(* (client.go, runEchoLoop): with dials and writes that work, a first      *)
(* probe is sent unless the context is cancelled.                          *)
ProbesGetSent == <>(ctxDone \/ sent > 0)

(* WriteFailuresShow: persistent local send errors mark the target down;   *)
(* "a frozen link_up while nothing is being probed is the worst failure    *)
(* mode for a monitor" (client.go, maxConsecutiveWriteFails).              *)
WriteFailuresShow ==
  pc = "wait" /\ writeFails >= maxConsecutiveWriteFails => linkUp = 0

=============================================================================
