------------------------------ MODULE Service ------------------------------
(***************************************************************************)
(* The process around the prober: main and program of main.go with         *)
(* RunClient of internal/prober/client.go.  It runs in the foreground      *)
(* under a signal context, or as a service whose framework calls Start     *)
(* and Stop; it serves metrics and is an echo server, a client, or both.   *)
(*                                                                         *)
(* A probe loop is ProbeLoop seen from outside: it runs until its context  *)
(* is done and returns some time later.  The server half is EchoServer in  *)
(* the same way, and may fail.                                             *)
(***************************************************************************)
EXTENDS Startup

CONSTANT CommandLines   \* command lines with their environment, as typed

ASSUME ServiceAssumption == CommandLines \subseteq CommandLine

VARIABLES
  host,       \* "foreground" or "service"
  args,       \* the command line and environment of the process
  run,        \* where the process is: "parsing" in main, then in run()
              \* "starting", "bound", "mode", "joining", "draining", "returned"
  runErr,     \* what run() returns: "nil", or who failed
  ctxDone,    \* p.ctx is cancelled: a signal, or Stop
  modeCtxDone,  \* modeCtx is cancelled by one of the halves
  server,     \* RunServer: "off", "starting", "serving", "nil" or "error"
  client,     \* RunClient: "off", "starting", "waiting", "nil" or "error"
  probing,    \* the targets whose probe loops are running
  metrics,    \* the metrics server: "down", "listening", "broken" or "closed"
  stop,       \* Stop: "none", "waiting" or "returned"
  exit        \* the process: "alive", "clean" or "failure"

halves == <<server, client, probing, modeCtxDone>>
process == <<stop, exit>>
vars == <<host, args, run, runErr, ctxDone, halves, metrics, process>>

mode == args.mode
Targets == DOMAIN Listed(args)

TypeOK ==
  /\ host \in {"foreground", "service"} /\ args \in CommandLine
  /\ run \in {"parsing", "starting", "bound", "mode", "joining", "draining", "returned"}
  /\ runErr \in {"nil", "usage", "startup", "server", "client"}
  /\ ctxDone \in BOOLEAN /\ modeCtxDone \in BOOLEAN
  /\ server \in {"off", "starting", "serving", "nil", "error"}
  /\ client \in {"off", "starting", "waiting", "nil", "error"}
  /\ probing \subseteq Targets /\ (probing # {} => client = "waiting")
  /\ metrics \in {"down", "listening", "broken", "closed"}
  /\ stop \in {"none", "waiting", "returned"}
  /\ exit \in {"alive", "clean", "failure"}

\* A service runs what the installer recorded; the installer is this program
\* and has passed main's own checks.
Init ==
  /\ \E typed \in CommandLines :
       \/ host = "foreground" /\ args = typed
       \/ host = "service" /\ MainAccepts(typed) /\ args = Recorded(typed)
  /\ run = "parsing" /\ runErr = "nil"
  /\ ctxDone = FALSE /\ modeCtxDone = FALSE
  /\ server = "off" /\ client = "off" /\ probing = {}
  /\ metrics = "down"
  /\ stop = "none" /\ exit = "alive"

\* Plausible bug: modeCtx is derived from a fresh background context.
HalvesOnTheirOwn == modeCtxDone \/ (ctxDone /\ mode # "both")

\* What the halves wait for.  In both mode it is derived from p.ctx.
HalvesCancelled == ctxDone \/ modeCtxDone

ServerOver == server \in {"nil", "error"}
ClientOver == client \in {"nil", "error"}

-----------------------------------------------------------------------------
(* main and run: checks, metrics listener, mode.                           *)

UsageFails ==
  /\ run = "parsing" /\ ~MainAccepts(args)
  /\ run' = "returned" /\ runErr' = "usage"
  /\ UNCHANGED <<host, args, ctxDone, halves, metrics, process>>

Runs ==
  /\ run = "parsing" /\ MainAccepts(args)
  /\ run' = "starting"
  /\ UNCHANGED <<host, args, runErr, ctxDone, halves, metrics, process>>

\* A check fails, or the metrics address cannot be bound.
StartupFails ==
  /\ run = "starting"
  /\ run' = "returned" /\ runErr' = "startup"
  /\ UNCHANGED <<host, args, ctxDone, halves, metrics, process>>

BindMetrics ==
  /\ run = "starting" /\ RunAccepts(args)
  /\ run' = "bound" /\ metrics' = "listening"
  /\ UNCHANGED <<host, args, runErr, ctxDone, halves, process>>

\* Serve gives up on the listener: it is logged.
MetricsBreak ==
  /\ metrics = "listening"
  /\ metrics' = "broken"
  /\ UNCHANGED <<host, args, run, runErr, ctxDone, halves, process>>

Dispatch ==
  /\ run = "bound"
  /\ run' = "mode"
  /\ server' = IF mode = "client" THEN "off" ELSE "starting"
  /\ client' = IF mode = "server" THEN "off" ELSE "starting"
  /\ UNCHANGED <<host, args, runErr, ctxDone, probing, modeCtxDone, metrics, process>>

-----------------------------------------------------------------------------
(* The halves.                                                             *)

ServerListens ==
  /\ server = "starting"
  /\ server' = "serving"
  /\ UNCHANGED <<host, args, run, runErr, ctxDone, client, probing, modeCtxDone, metrics,
                 process>>

\* Plausible bug: a failed server leaves the client probing alone.
ClientGoesOn == FALSE

CancelsTheClient == mode = "both"

\* The port is taken, or the loop panics.
ServerFails ==
  /\ server \in {"starting", "serving"}
  /\ server' = "error"
  /\ modeCtxDone' = (modeCtxDone \/ CancelsTheClient)
  /\ UNCHANGED <<host, args, run, runErr, ctxDone, client, probing, metrics, process>>

ServerEnds ==
  /\ server = "serving" /\ HalvesCancelled
  /\ server' = "nil"
  /\ UNCHANGED <<host, args, run, runErr, ctxDone, client, probing, modeCtxDone, metrics,
                 process>>

ClientRefuses ==
  /\ client = "starting" /\ ~Validate(args)
  /\ client' = "error"
  /\ UNCHANGED <<host, args, run, runErr, ctxDone, server, probing, modeCtxDone, metrics,
                 process>>

ClientStarts ==
  /\ client = "starting" /\ Validate(args)
  /\ client' = "waiting" /\ probing' = Targets
  /\ UNCHANGED <<host, args, run, runErr, ctxDone, server, modeCtxDone, metrics, process>>

LoopReturns(t) ==
  /\ HalvesCancelled
  /\ probing' = probing \ {t}
  /\ UNCHANGED <<host, args, run, runErr, ctxDone, server, client, modeCtxDone, metrics,
                 process>>

\* Plausible bug: the wait group is left with the first loop that returns.
FirstLoopReturned == probing # Targets

AllLoopsReturned == probing = {}

ClientEnds ==
  /\ client = "waiting" /\ AllLoopsReturned
  /\ client' = "nil"
  /\ UNCHANGED <<host, args, run, runErr, ctxDone, server, probing, modeCtxDone, metrics,
                 process>>

-----------------------------------------------------------------------------
(* run: the end of the mode.                                               *)

\* Plausible bug: the server's error stays in its goroutine.
ResultOfTheClient == IF client = "error" THEN "client" ELSE "nil"

\* The server's error wins.
Result ==
  CASE server = "error" -> "server"
    [] server # "error" /\ client = "error" -> "client"
    [] OTHER -> "nil"

SingleModeEnds ==
  /\ run = "mode"
  /\ \/ mode = "server" /\ ServerOver
     \/ mode = "client" /\ ClientOver
  /\ run' = "draining" /\ runErr' = Result
  /\ UNCHANGED <<host, args, ctxDone, halves, metrics, process>>

\* In both mode the client has returned, for whatever reason: the server is
\* told to end and waited for.
CancelServer ==
  /\ run = "mode" /\ mode = "both" /\ ClientOver
  /\ run' = "joining" /\ modeCtxDone' = TRUE
  /\ UNCHANGED <<host, args, runErr, ctxDone, server, client, probing, metrics, process>>

JoinServer ==
  /\ run = "joining" /\ ServerOver
  /\ run' = "draining" /\ runErr' = Result
  /\ UNCHANGED <<host, args, ctxDone, halves, metrics, process>>

\* Shutdown takes five seconds at most.
CloseMetrics ==
  /\ run = "draining"
  /\ run' = "returned" /\ metrics' = "closed"
  /\ UNCHANGED <<host, args, runErr, ctxDone, halves, process>>

-----------------------------------------------------------------------------
(* The process: os.Exit in main and in the service's goroutine, Stop.      *)

Exits ==
  /\ exit = "alive" /\ run = "returned"
  /\ runErr # "nil" \/ host = "foreground"
  /\ exit' = IF runErr = "nil" THEN "clean" ELSE "failure"
  /\ UNCHANGED <<host, args, run, runErr, ctxDone, halves, metrics, stop>>

\* The signal context is there when main has parsed the flags.
Signal ==
  /\ host = "foreground" /\ ~ctxDone /\ run # "parsing"
  /\ ctxDone' = TRUE
  /\ UNCHANGED <<host, args, run, runErr, halves, metrics, process>>

\* The framework calls Stop once, after Start has returned.
StopCalled ==
  /\ host = "service" /\ stop = "none" /\ exit = "alive" /\ run # "parsing"
  /\ stop' = "waiting" /\ ctxDone' = TRUE
  /\ UNCHANGED <<host, args, run, runErr, halves, metrics, exit>>

StopReturns ==
  /\ stop = "waiting" /\ exit = "alive"
  /\ run = "returned" /\ runErr = "nil"
  /\ stop' = "returned" /\ exit' = "clean"
  /\ UNCHANGED <<host, args, run, runErr, ctxDone, halves, metrics>>

\* Twenty seconds are over.  Stop's error makes the framework's Run fail.
StopTimesOut ==
  /\ stop = "waiting" /\ exit = "alive"
  /\ stop' = "returned" /\ exit' = "failure"
  /\ UNCHANGED <<host, args, run, runErr, ctxDone, halves, metrics>>

-----------------------------------------------------------------------------
Starts == UsageFails \/ Runs \/ StartupFails \/ BindMetrics
StartServer == ServerListens \/ ServerFails
StartClient == ClientRefuses \/ ClientStarts

\* A process that has exited takes no step.
Works ==
  \/ Starts \/ Dispatch \/ StartServer \/ ServerEnds \/ StartClient \/ ClientEnds
  \/ \E t \in probing : LoopReturns(t)
  \/ SingleModeEnds \/ CancelServer \/ JoinServer \/ CloseMetrics
  \/ MetricsBreak

Next ==
  \/ exit = "alive" /\ (Works \/ Exits \/ Signal \/ StopCalled \/ StopReturns \/ StopTimesOut)
  \/ exit # "alive" /\ UNCHANGED vars

Spec == Init /\ [][Next]_vars

\* Goroutines run, and a cancelled loop or server ends: CancelStops of
\* ProbeLoop and CancelFreesTheSocket of EchoServer.  Failures, signals and
\* Stop need not happen, and so does the deadline of Stop.
LiveSpec ==
  /\ Spec
  /\ WF_vars(exit = "alive" /\ Starts) /\ WF_vars(exit = "alive" /\ Dispatch)
  /\ WF_vars(exit = "alive" /\ server = "starting" /\ StartServer)
  /\ WF_vars(exit = "alive" /\ ServerEnds)
  /\ WF_vars(exit = "alive" /\ StartClient)
  /\ WF_vars(exit = "alive" /\ \E t \in probing : LoopReturns(t))
  /\ WF_vars(exit = "alive" /\ ClientEnds)
  /\ WF_vars(exit = "alive" /\ (SingleModeEnds \/ CancelServer \/ JoinServer \/ CloseMetrics))
  /\ WF_vars(exit = "alive" /\ (Exits \/ StopReturns))

-----------------------------------------------------------------------------
(* MetricsSpanProbing: no loop and no responder runs before the metrics    *)
(* address is bound or after the metrics server is shut down, in any mode  *)
(* and however the mode ends: run never leaves a half behind.              *)
MetricsSpanProbing ==
  probing # {} \/ server = "serving" => metrics \in {"listening", "broken"}

(* CleanExitIsAsked: the process exits cleanly only because it was asked   *)
(* to, and with neither half failed: every other end is a failure that the *)
(* service manager's restart action sees.                                  *)
CleanExitIsAsked ==
  exit = "clean" => ctxDone /\ runErr = "nil" /\ "error" \notin {server, client}

(* NoSilentDeath: a process that no longer does its job, one half failed   *)
(* or both ended, comes to its end; it does not stay as a service that     *)
(* runs and measures nothing.                                              *)
NoSilentDeath ==
  server = "error" \/ client = "error" \/ run = "returned" ~> exit # "alive"

(* StopIsHeard: a signal or a Stop at any moment, during the start too,    *)
(* ends the process.                                                       *)
StopIsHeard == ctxDone ~> exit # "alive"

Requests ==
  [given : BOOLEAN, user : {"", "flag", "env"}, pass : {"", "flag", "env"}]

(* MetricsGuarded: an operator who gave a user or a password, as a flag or *)
(* in the environment, gets an endpoint that serves nobody without a user  *)
(* and a password that were given together, and that takes them over plain *)
(* HTTP only when that was allowed: no combination half given opens it.    *)
MetricsGuarded ==
  LET auth == resolveMetricsAuth(args)
  IN  metrics \in {"listening", "broken"}
        /\ {args.userFlag, args.passFlag, args.userEnv, args.passEnv} # {""} =>
          /\ \A r \in Requests :
               MetricsAuth(auth, r) => r.given /\ r.user = r.pass /\ r.user # ""
          /\ args.cert \/ args.allowInsecure

\* RFC 1123 position by position: hyphens inside a label, dots between
\* labels, a dot in every stretch that is longer than a label.
HostName(h) ==
  /\ Len(h) <= MaxHostLen
  /\ \A i \in DOMAIN h :
       /\ h[i] \in {"a", "-", "."}
       /\ h[i] # "a" => i \in 2 .. Len(h) - 1
       /\ h[i] = "." => h[i - 1] = "a" /\ h[i + 1] = "a"
  /\ \A i \in 1 .. Len(h) - MaxLabelLen : \E j \in i .. i + MaxLabelLen : h[j] = "."

(* HostsByRFC1123: the label-wise check of isValidHost accepts exactly the *)
(* IPs and the names RFC 1123 allows, so that no configured host is        *)
(* refused, or probed, by the way its dots fall.                           *)
HostsByRFC1123 ==
  \A i \in Targets :
    LET a == Listed(args)[i].address
    IN  /\ a.host # <<>> => (isValidHost(a) <=> a.ip \/ HostName(a.host))
        /\ i \in probing => a.ip \/ HostName(a.host)

(* RegisteredServiceStarts: "The tool records runtime flags at install     *)
(* time" (README): what the service is started with is a command line the  *)
(* program takes.                                                          *)
RegisteredServiceStarts == host = "service" => runErr # "usage"

=============================================================================
