# Verification of link_ping_prometheus

TLA+ models of the UDP prober, its timeout estimator, its echo server, the link
between the two, the metrics a scrape sees, and the process around them; the TLC
runs that check them on small instances, and TLAPS proofs for all values of
their constants. The reference is the Go code under `src/`; every definition
that models code is mapped to its lines in `PROJECT.json`.

To check a run: `tlc -config ProbeLoop.cfg MCProbeLoop.tla`. To check proofs:
`tlapm ProbeLoop_proofs.tla`.

## The system

| part | code | state it keeps | operations | interacts with |
| --- | --- | --- | --- | --- |
| probe loop, one per target | `client.go` `probeTarget`, `runEchoLoop` | socket and its age, open probes with send times, sequence number, misses, jitter, write failures, the target's metric series | dial, wait, drain, sweep, re-dial, write, recover, stop | reader (channel `respCh`), estimator (calls), network (socket), context |
| reader, one per session | goroutine in `runEchoLoop` | one response it is pushing, failed deadlines | read, filter, stamp, push, exit | socket, `respCh`, context, `done` |
| timeout estimator | `adaptive.go` | SRTT, RTTVAR, RTO, consecutive timeouts | `Update`, `Backoff`, `CurrentRTO` | called by the loop only |
| echo server | `server.go` | socket, one rate-limiter window with its counters, received counters | start, receive, limit, validate, echo, panic, close | network, context |
| client start | `RunClient`, `Config.Validate` | a wait group | validate, seed metrics, start loops, wait | loops |
| process lifecycle | `main.go` `main`, `Start`, `Stop`, `run` | contexts, wait groups, metrics listener | start, mode dispatch, drain, stop deadline | all of the above |
| validation, targets file, allowlist | `validate.go`, `LoadTargets`, `ParseAllowlist` | none | pure functions at start | `run`, `RunClient` |
| metrics registry and endpoint | `metrics.go`, `main.go` | Prometheus collectors | register, seed, update, guard, serve | loops, scrapers |
| flags, logging, service command | `main.go` | the registered command line | parse, check, record | process, service manager |
| installer scripts, dashboards, packaging | `installer/`, json, `Dockerfile` | none | | |

What is hard here, and therefore modelled: probes overlap when the interval is
shorter than the timeout, so echoes are reordered against each other and
against sweeps; five code paths take a probe out of the open set and each moves
its own counters; sockets are replaced while probes are in flight; writes,
dials, deadlines and the loop itself fail; estimator, miss counter, jitter and
link state survive sessions; a wake-up can be late by any amount.

What makes each part correct:

- loop: each probe sent gets at most one verdict and the counters are the sizes
  of the verdicts; `link_up` agrees with the misses and comes down on a dead
  link; jitter is taken over neighbours only; a turn's timeout covers the link
  and one sweep is one timeout to it; the name is resolved again and again;
  cancellation ends it.
- estimator: a measured round trip is covered by the next timeout; timeouts
  raise it, to the cap in the end, and never lower it.
- reader: a session, however it ends, leaves no socket and no goroutine behind,
  and a session that lost its reader is replaced by one that has one.
- echo server: its counters agree; what it echoes in any second is bounded;
  strangers cannot starve allowed clients; cancellation closes the socket.
- both ends together: what the server counts and what the client counts differ
  by what the network did, and no round trip is counted of a probe the server
  refused.
- metrics: a scrape at any moment balances up to the probes that were moving
  and those a panic displaced.
- process: no half outlives `run`, a failure shows in the exit code, a stop is
  heard; credentials half given never open the endpoint; a registered service
  starts.

## Modules

| module | models | checked by | proofs |
| --- | --- | --- | --- |
| `AdaptiveStats` | the estimator's operations as operators | through the two below | `AdaptiveStats_proofs` (lemmas) |
| `AdaptiveRTO` | the life of one estimator under any calls | `MCAdaptiveRTO` | `AdaptiveRTO_proofs` |
| `ProbeLedger` | abstract: what the prober promises about a probe | refined by `ProbeLoop` | |
| `ProbeLoop` | loop, reader and network of one target | `MCProbeLoop` | `ProbeLoop_proofs` |
| `Reader` | the goroutines of one target across its sessions | `MCReader` | `Reader_proofs` |
| `Scrape` | the counters of a target update by update, and a scrape | `MCScrape` | `Scrape_proofs` |
| `EchoServer` | echo server and limiter | `MCEchoServer` | `EchoServer_proofs` |
| `Link` | composes `EchoServer` with the targets of a prober over a network | `MCLink` | `Link_proofs` |
| `Startup` | command line, environment, targets, credentials, allowlist as predicates | through `Service` | through `Service_proofs` |
| `Service` | process, modes, `RunClient`, Start and Stop, started by `Startup` | `MCService` | `Service_proofs` |

**AdaptiveStats.** Durations are natural numbers of fine units; the source uses
float64 seconds. `Smoothed` rounds down. `RTOAssumption` asks that the clock
granularity be at least 32 units, so the rounding of the averages is smaller
than the granularity term and the properties are about the formula, not about
the rounding.

**ProbeLoop.** `pc` follows the goroutine: `dial` (in `probeTarget`), `wait`
(the select on timer and context), `drain`, `send` (after the sweep), `pause`
(the 1 s retry timers), `stopped`. One action is one uninterrupted piece of
the loop: taking one response (`CountEcho`, `DiscardEcho`), the whole sweep with
its link judgement (`Sweep`), the re-dial flush (`Reconnect`), a write and what
follows up to the next wait (`SendOK`, `SendFail`, `SendPanic`). The reader
interleaves between any two of them, in two steps, because the arrival is
stamped before a push that may block. `held` is what it is pushing. The network
is a set of datagrams: not receiving one is loss, receiving one and leaving it
is duplication, any order is reordering, `Corrupt` damages the echoed timestamp.
Datagrams that fail size, magic or HMAC are like lost ones. A session that ends
takes its socket, channel and datagrams with it (`SessionOver`), because a new
socket has another port.

Time is relative: `pending` maps each open probe to its age, `timer` and
`sockAge` count ticks. `TimePasses` is enabled whenever the loop waits, also
when its timer is already over: a late wake-up. Ages stop growing above every
limit (`AgeCapAssumption`), so the model is finite without bounding time.
What the loop does between two waits takes no time.

The metrics are variables with the values a scrape would see between two
actions; `Scrape` takes the updates of one event apart. `echoed` and `lost` are
history, and no guard reads them.

Sequence numbers are bounded by `MaxProbes`, and a target that may send no more
would show a dead link by its failing writes alone. For liveness,
`MCProbeLoop` therefore adds a step to `Next`: `Renumber` forgets the oldest
probe once it is settled and moves the numbers of the others down by one, so
that under `EndlessSpec` a target can send for ever over finitely many states.
It may be taken or not, no fairness makes it happen.

**Reader.** The same loop, with only what blocks and what releases kept: `loop`
is where the target's goroutine is, `reader[s]` where the reader of session `s`
is (`top` of its loop, in a `read`, in a `push`, `gone`). The deferred calls are
two actions in the order Go runs them, `CloseConn` and then `CloseDone`, so a
reader can be caught between. A slot is taken again by a new session when its
reader is gone: sessions are not bounded, readers at one time are. Failed
deadlines, failed reads, echoes, panics and cancellation may come at any time.

**Scrape.** One action per update of the pending map and of `sent`, `rtt` count,
`timedOut` and `inflight`, in the order of the source, and one per series a
scrape reads, in any order. `Panic` may come at every point, between the updates
of one event too (`WithinEvent`), and `Recover` does what the deferred function
does: it counts the whole map as lost and takes it off the gauge. `gap` is the
balance as far as read. `moved` and `torn` are history: the probes whose move
from one series to another overlapped the scrape, and the panics that fell
within an event.

**Link.** `Server == INSTANCE EchoServer` shares its variables with the module.
A target is reduced to what `ProbeLedger` keeps of it, which `ProbeLoop` is
proved to implement: probes sent, open, echoed, lost. The network holds
datagrams to the server until they are `MaxDelay` old and echoes for ever; it
may drop or copy any. Whether secrets and clocks of the two ends agree is chosen
once, at the start (`authentic`). A panic of the server comes before or after
the datagram was counted; one that it swallowed before the count is in
`vanished` with those the network lost, since neither end can tell them apart.

**EchoServer.** One datagram per step, since one goroutine handles it and shares
nothing. `Forms` are the classes the code tells apart. Replay and skew are one
class (`stale`). A skipped read error leaves no trace and is no action.

**Service.** `run` follows `program.run`: checks, `bound`, the mode, `joining`
(both mode waits for the server), `draining` (metrics shutdown), `returned`.
`server` and `client` are the two halves, `probing` the loops `RunClient`
waits for. `args` is the command line and environment of the process: typed in
the foreground, as recorded by the installer in a service. `UsageFails` is
`main` refusing it, `BindMetrics` needs `RunAccepts`, `ClientRefuses` is
`Config.Validate`. The halves are
`EchoServer` and `ProbeLoop` seen from outside: they end some time after their
context is done, which the runs of those modules show, or fail. The process
ends by `os.Exit` or `main`'s return (`Exits`), or when the service framework's
`Stop` comes back. How the framework turns an error of `Stop` into an exit code
is external.

**Startup.** Predicates on a record for the command line. Credentials are where
they come from, names and hosts are sequences over one character for each class
the code tells apart, and the answers of library functions (`net.ParseIP`,
`net.SplitHostPort`, the JSON decoder, loading a key pair) are fields. The
code's limits on lengths are constants.

## Runs

| run | instance | shows |
| --- | --- | --- |
| `adaptive_rto` | the source's limits in 1/1024 ms, round trips 1, 150, 800, 2000 ms, 4 measurements, 12 consecutive timeouts | `SampleCovered`, `BackoffNeverLowers`, `BackoffSaturates`. Twelve doublings are what a 1 ms link needs: the estimate starts far below the 200 ms floor, and the visible timeout does not move until the estimate passes it |
| `probe_loop` | fixed timeout of 2 ticks, interval 1, socket life 5, 3 probes, threshold 2, channel of 1, a panic, a duplicate | `Accounts`, `Balance`, `KeepsTheLedger`, `LinkUpIsEarned`, `JitterNeverSpansALoss` |
| `probe_loop_adaptive` | the estimator on, round trips to 2 s, 4 probes, a panic | `RunsAgree`, `DoublesOncePerSweep`, `TimeoutCoversTheLink`, `RTOBounded` |
| `probe_loop_live` | fixed timeout 1, interval 1, socket life 4, 3 sequence numbers used over and over, a panic, `EndlessSpec` | `DeadLinkShows`, `AddressRefreshed`, `CancelStops` |
| `echo_server` | two allowed clients and a stranger, caps 2 and 3, window of 2 ticks, 7 accepted probes | `GlobalIsTheSum`, `SlidingBound`, `NotStarved`, `CancelFreesTheSocket` |
| `reader` | two readers at a time, channel of 2, three failed deadlines | `EndedSessionsAreReleased`, `ReadersLeave`, `DeafnessHeals`, `CancelEndsAll` |
| `scrape` | 3 probes, 2 panics within an event, any number between events | `ScrapeGap`, `RestartsBalance` |
| `link` | two targets of one client, interval 2, window and delay of 1, cap 2, 2 probes each, one copy | `EchoedWasCounted`, `MismatchIsTheWire` |
| `service` | all modes and hosts, command lines that leave a working one in one respect, every failure | `MetricsSpanProbing`, `CleanExitIsAsked`, `NoSilentDeath`, `StopIsHeard`, `MetricsGuarded`, `HostsByRFC1123` |

Three more runs, `never_sends`, `write_failures` and `install_args`, are in the
section on disagreements.

Why the bounds are enough: interval below timeout puts up to three probes in
flight, so each of them can be settled by a different path. A socket life of 5
with 3 probes gives sweeps, re-dials over open probes, and a second session
with state from the first. A channel of 1 makes the reader block; the code's
100 is the same wait, reached later. Threshold 2 is the smallest for which one
miss and the limit differ.

Two readers are the one of the session and one that has not noticed the end of
its own; the loop does not wait for readers, so more are possible, and the
invariant is proved for any number. A channel of 2 is full, empty and neither.
Three probes in `scrape` put a lost probe, one in flight and one being registered
into one scrape, and two torn events let the second panic meet what the first
displaced. Seven accepted probes in `echo_server` are more than two windows of
the global cap, so both halves of `SlidingBound` can fail.

In `probe_loop_live` a probe is written at every tick with a timeout of one, so
with prompt echoes or without, one is in flight at every sweep: a re-dial that
waits for an idle moment never comes. The socket life of 4 is the least that
satisfies `SessionsOutlastTimeouts` with a write failure before the first probe.
Both ways a link is marked down without a dial are needed: the property fails
if the sweep judges no link, and if a failed write judges none.

In `link` the second target makes the server's counter the sum of two ledgers
that share a cap, and a delay as long as the window lets a probe fall into the
window of another. The caps are exactly what the two targets can bring to a
window, so one charge too many is seen. With longer delays `CapsAreSized` is
false and the equation fails, as it should: see the remark below.

In `service` all 256 combinations of credentials, TLS files and
`-metrics-allow-insecure` are started, and all 1365 hosts of up to five
characters, with a label limit of 2 and a host limit of 4, so that every limit
is met from both sides. Command lines that differ from a working one in two
respects are left out, except where the code reads both together.

Each passing run keeps deadlock checking on, except `adaptive_rto` and `link`,
whose behaviours end when their bounds are spent. `Stopped` marks the end of a
target, `Quiet` of a target and all its readers.

### Where code and documentation disagree

Three runs check a statement of the documentation and find it violated.

- `never_sends` (bug): `Config.Validate` accepts any positive interval. From
  `ReconnectInterval` on (5 minutes), the socket is too old whenever the loop
  reaches its write, and the target re-dials for ever without one probe. It
  holds under `HealthySpec`: dials and writes succeed again and again.
- `write_failures` (bug): `link_up` goes to 0 on exactly the third failed write
  of a run. A late echo takes it back to 1 and no later failed write takes it
  down, though nothing is being probed. It ends with the socket or with the
  sweep of enough open probes, so `DeadLinkShows` holds nevertheless.
- `install_args` (bug): the installer makes relative values of a list of flags
  absolute paths, and the three log rotation flags, which are integers, are in
  the list. A service installed with `-log-file-max-mb=20` is registered with
  `-log-file-max-mb=<directory>/20` and ends in `flag.Parse` at each start.

More statements differ from the code as modelled; no run is kept for them.

- `metrics.go` says a probe unresolved past the RTO is a loss. The drain comes
  before the sweep and does not look at the timeout (`CountEcho`), so an echo
  later than the timeout counts when it is drained first.
- Comments in `prober.go` and `client.go` say the re-dial waits for an idle
  moment. `Reconnect` flushes, as the comment above it explains.
- The README says `link_up` is 0 after three consecutive probes time out. Misses
  are counted since the last drained echo, so an echoed probe between lost ones
  does not always separate them (`LinkAfter`).
- The cap on the RTO is exceeded for round trips above 1.5 s, because the floor
  of twice the smoothed round trip is applied after it (`CurrentRTO`).
- `server.go` says the per-IP cap must cover the largest supported client, 2000
  probes a second, and it is exactly that. Delay variation can crowd more than a
  second's probes into a window; then the limiter refuses probes that the wire
  delivered. `MismatchIsTheWire` therefore asks for `CapsAreSized`.
- `ScrapeGap` is what remains of "always equals" in the README's sanity check:
  a scrape during an update is off by the probes that are moving, and for good
  by one for each panic that fell between the updates of one event.
- The recovery in `client.go` says the balance is kept across the restart. It
  takes each pending probe for one on the gauge without a verdict. After
  `delete` and before `Observe`, after the `Inc` of `timedOut` and before the
  `delete`, or after registering and before the `Inc` of `sent`, that is false
  for one probe: it is counted twice or never, or the gauge stays off by one
  (`RestartsBalance`).
- The README says `link_up` is 0 after three consecutive probes time out. With a
  fixed timeout as long as a session, which `SessionsOutlastTimeouts` excludes,
  and timers on time, no probe is ever found late: each is counted as timed out by the re-dial, which is no
  miss, and a dead link goes on showing `link_up` = 1.

### Fairness

`Spec` has none. `LiveSpec` assumes that the Go scheduler runs the goroutine
(weak fairness of dial, drain, sweep, write and of a timer that is over), that
time passes, and that a select with a cancelled context takes that branch in
the end (strong fairness of `StopSession` and `StopWhilePaused`): the branch is
ready at once on every turn, the timer only after the interval. Nothing is
assumed of the network, the reader or the success of dials and writes.
`DeadLinkShows` is for behaviours in which no echo is counted from some point
on (`NoMoreEchoes`), while the target goes on sending, and whose wake-ups are on
time from some point on (`EventuallyPrompt`): a session whose first turn always
outlasts the socket's life neither sends nor fails. `AddressRefreshed` and
`CancelStops` need neither. `EndlessSpec` is `LiveSpec` with `Renumber`.
`HealthySpec` adds strong fairness of `DialOK` and `SendOK`; it only serves
`never_sends`. In `Reader`, every goroutine runs, a read returns by its
deadline, and a session nothing else ends reaches the age of a re-dial; strong
fairness covers the selects with a cancelled context and a dial that is possible
again and again. Failed deadlines are not excluded: `DeafnessHeals` says the next
session has a reader at first, not that it keeps it.
For the echo server, the goroutine that waits for the context
runs, and a read of a closed socket returns. For the process, goroutines run
and cancelled halves end; failures, signals and Stop need not come, and Stop's
deadline is not relied on.

## Proofs

Everything below holds for all constants satisfying the named assumptions
(`RTOAssumption`, `AdaptiveRTOAssumption`, `ProbeLoopAssumption`,
`ReaderAssumption`, `ScrapeAssumption`, `StartupAssumption`,
`ServiceAssumption`, `EchoServerAssumption`, and `LinkAssumption`, which has the
server's as a part). Every invariant and every action property of the passing
runs is a theorem.

- `AdaptiveStats_proofs`: type and range of the operations, `SmoothedCovers`
  (mean plus four deviations or one granularity reaches the sample, rounding
  included) and `BackoffRaises`.
- `AdaptiveRTO_proofs`: `TypeCorrect`; `CoversEverySample` and
  `TimeoutsNeverShorten`, action properties from those lemmas;
  `RunsReachTheCap`. The last asks for one inequality of the constants: the
  doublings a full run makes take the lowest estimate, of the least round trip
  or of the base timeout, to the cap. The numbers 2^k in it are a function
  given by its equations. The run's constants satisfy it (2^11 times 2 ms is
  above 3000 ms), as they must: with fewer timeouts `BackoffSaturates` is false.
- `ProbeLoop_proofs`: `TypeCorrect`. `TypeOK` is inductive; it is a conjunction
  of groups, `Kept` says which variables each depends on, so the proof of
  an action is about the groups it disturbs.
  `AccountsHold`, `BalanceHolds` and `ImplementsTheLedger` come from one
  inductive invariant `IInv == TypeOK /\ Accounts /\ NoneOpen`. `Accounts` lacks
  one fact, that a goroutine without a session has no open probe; without it the
  step from `pause` to `stopped` could leave probes in the inflight gauge.
  `Leaving` and `Joining` say what moving a set of probes between two places does
  to their sizes, and every path that settles probes cites them. For the
  refinement, each action is `Issue`, `Echo`, `Lose`, `Close` or a stutter of `ProbeLedger`.
  Then `LinkEarned`, `JitterConsecutive` (strengthened: the
  last sample is an echoed probe), `RunsStartAndEndTogether` (strengthened: a
  fixed timeout never touches the estimator), `RTOStaysBounded` (strengthened:
  the smoothed round trip is at most the longest). `OneSweepDoubles` and
  `TimeoutsCoverTheLink` share `TurnInv`: while the loop waits the turn's
  timeout is the estimator's, and until it waits again at most one timeout or
  an echo has moved the estimator, whatever sessions ended in between.
- `Reader_proofs`: `TypeCorrect` and `SessionsAreReleased`, for any set of slots
  and any capacity. The invariant adds one fact: between the two
  deferred calls the current session has lost its socket already.
- `Scrape_proofs`: `TypeCorrect`, `PanicsDisplaceOne`, `ScrapesAreTight`.
  `Balanced` follows the balance of the series and the gauge against the pending
  map through every point of an event; `Imbalance` and `Lead` are what the event
  in progress owes to each, and what is left of both is the work of panics. For
  the scrape, `GapInv` speaks of `Projected`, the gap it would end with if the
  loop stood still: a read leaves that as it is, a first update moves it by the
  probes that start to move, and `Coming`, what the second update still owes,
  brings it back or not,
  depending on which of the two series was read in between. The bound needs
  both, since the second update adds nothing to `moved`.
- `Service_proofs`: `TypeCorrect`, `MetricsFirstAndLast`, `CleanExitsAreAsked`,
  `MetricsAreGuarded`, `HostsAreNames`, from `SInv`, for every
  set of command lines. The last two say that what the checks of `Startup`
  accepted still holds of the running process. The core of the others is
  `WhoCancelled`: a half that ended without error was cancelled, and the halves
  never cancel each other without an error; so a `nil` from run means someone
  asked for it. `HostsAreNames` is for hosts of any length: `ByPosition`
  compares the labels between the dots with the positions of RFC 1123, by way of
  the label around a position, which lies between the greatest cut before it and
  the least after it (`StretchInLabel`).
- `EchoServer_proofs`: `TypeCorrect`, `GlobalSums`, `SlidingBounded`,
  `NoneStarved`. First the sum of a function over a finite set
  (`SumFunctionOnSet` of the community modules): it takes out one element at a
  time (`SumElement`), grows with its terms (`SumMonotone`), and follows a
  change at one place (`SumChangesAt`). The limiter's counters agree and never
  exceed what was offered (`LimiterInv`). `SlidingBound` is not inductive: the
  last second usually overlaps two windows. `WindowPaid` says that the echoes
  since the window began are charged in it, `SecondPaid` that those of the
  whole last second are charged in it or fitted in the one before; when a
  window starts, the first gives the second its second term. `NotStarved` is
  then about the limiter alone: who was dropped for want of room had offered as
  much, or all together had.
- `Link_proofs`: `TypeCorrect`; the server's own invariant is cited
  from `EchoServer_proofs`. `RoundTripsCounted` goes through the echoes the
  server wrote: a round trip is one of them (`RoundTripsWritten`), and each
  different one was counted when it was written (`WrittenCounted`); copies make
  no new ones. `MismatchExplained` is the longest argument. What is to be shown
  is `Balanced`; it is lost exactly when the limiter refuses an allowed client,
  so the invariant `Wire` must exclude that (`NoRefusal`). `Allowance(s, w)`
  bounds what one target can have in a window that has run for `w` ticks, or on
  the way to it, if it last sent `s` ticks ago. It grows by one when the target
  sends, never shrinks with time, and before the window is over is at most
  `PerWindow`. `WindowFits` says that charges and datagrams on the wire together
  stay within it, per client and for all; `Aged` and `Distinct`, that probes on
  the wire are as old as the interval makes them and come once, restore it when
  a window starts anew.

TLC checks each of these inductive invariants on the instances of the runs too;
`Base /\ Wire` of `Link_proofs` on two instances with two targets each.

What is proved about sums, sets and numbers by induction is proved from a
minimal counterexample: a set of sets or of numbers for which a fact holds, and
the well-foundedness of strict inclusion or of `<` (`SubsetInduction`,
`NatInductionSet`, `HasLeast`). The library's own induction rules take an
operator as a parameter, which no installed prover can instantiate.

Only model-checked: liveness (`DeadLinkShows`, `AddressRefreshed`, `CancelStops`,
`CancelFreesTheSocket`, `ReadersLeave`, `DeafnessHeals`, `CancelEndsAll`,
`NoSilentDeath`, `StopIsHeard`), since fairness and ENABLED are beyond the
prover, and the three statements the code does not keep.

## Not modelled

Log output, the HTTP server, the Prometheus registry and histogram buckets are
library code. Of the service command, uninstall, start and stop only call the
service library, whose state is the service manager's; its restart of a failed
service is outside too. The bytes of a probe and the HMAC are abstracted to the
classes of datagram they separate. The value of the jitter estimate is not
kept, only what it was folded from. Targets run independently, so one stands
for all, except in `Link`, where they share the server, and in `Service`, which
starts them together. Left out of the loop: the reallocation of the pending
map, warnings, and a panic anywhere but at the write (in `ProbeLoop`; `Reader`
and `Scrape` have it at every point): a panic elsewhere in a turn ends the
session through the same deferred function.

Hazards without a property: a storm of panics keeps `link_up` as it was, a
metrics server that breaks leaves the agent running, and a panic in a reader
ends the process. The code promises nothing for the first two; the last is what
Go does. Datagrams of an allowed address that are no probes are charged before
they are looked at, on purpose; `NotStarved` counts them as offered, and so only
says whom they can cost. Losses are recognised in the order of sweeps, not of
probes; the code's own definition is in `LinkUpIsEarned`. Checks that are one
guard (duplicate labels, the age of a socket before a write) are in the model
and have no property of their own.

## Plan

1. Done: all modules above, and a proof of every safety and action property a
   passing run checks.
2. Recovery: `AdaptiveRTO` on a link whose round trip has jumped, with the
   loop's sweeps: an echo is counted again after boundedly many probes.
3. Bounds of the composition: `ScrapeGap` for both ends of a `Link` scraped one
   after the other.
