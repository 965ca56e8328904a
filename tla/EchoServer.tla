---------------------------- MODULE EchoServer -----------------------------
(***************************************************************************)
(* The UDP echo responder of internal/prober/server.go: RunServer,         *)
(* ServePacketConn and its fixed-window rate limiter.                      *)
(*                                                                         *)
(* Time is relative: how old the limiter's window is, and how much was     *)
(* echoed in each of the last ticks.  Datagrams come from the environment, *)
(* one per turn of the loop, and the loop handles each in one step: it is  *)
(* one goroutine and shares nothing but its counters.                      *)
(***************************************************************************)
EXTENDS Integers, FiniteSetsExt

CONSTANTS
  Clients,        \* remote IPs
  allowed,        \* the allowlist, a subset of Clients
  Secret,         \* an echo secret is configured
  MaxPktsPerIP, MaxPktsGlobal,
  WindowLen,      \* one second, in ticks
  MaxReceived     \* bound: accepted datagrams per behaviour

ASSUME EchoServerAssumption ==
  /\ IsFiniteSet(Clients) /\ allowed \subseteq Clients
  /\ Secret \in BOOLEAN
  /\ MaxPktsPerIP \in Nat \ {0} /\ MaxPktsGlobal \in Nat \ {0}
  /\ WindowLen \in Nat \ {0}
  /\ MaxReceived \in Nat

VARIABLES
  status,       \* "idle", "serving", and what RunServer returned: "nil" or "error"
  ctxDone,      \* the context is cancelled
  sockOpen,     \* the packet socket is open
  windowAge,    \* time since the limiter's window began
  perIP, global,  \* the limiter's counters
  received,     \* ServerProbesReceived, per remote IP
  recent,       \* history: echoes per client in the current and earlier ticks
  offered       \* history: datagrams from allowed clients in this window

limiter == <<windowAge, perIP, global>>
history == <<recent, offered>>
vars == <<status, ctxDone, sockOpen, limiter, received, history>>

\* What a datagram is to the responder: a plain probe, a probe with a valid
\* HMAC and a fresh timestamp, one whose timestamp is outside maxReplayWindow,
\* one with a wrong HMAC, or anything of the wrong size or magic.
Forms == {"plain", "authentic", "stale", "forged", "garbage"}
Datagram == [src : Clients, form : Forms]

Sum(f) == SumFunctionOnSet(f, Clients)
Nothing == [c \in Clients |-> 0]

TypeOK ==
  /\ status \in {"idle", "serving", "nil", "error"}
  /\ ctxDone \in BOOLEAN /\ sockOpen \in BOOLEAN
  /\ windowAge \in 0 .. WindowLen
  /\ perIP \in [Clients -> 0 .. MaxPktsPerIP] /\ global \in 0 .. MaxPktsGlobal
  /\ received \in [Clients -> 0 .. MaxReceived]
  /\ recent \in [0 .. WindowLen - 1 -> [Clients -> 0 .. MaxReceived]]
  /\ offered \in [Clients -> 0 .. MaxPktsGlobal]

\* The limiter's window starts as Go's zero time: long over.
Init ==
  /\ status = "idle" /\ ctxDone = FALSE /\ sockOpen = FALSE
  /\ windowAge = WindowLen /\ perIP = Nothing /\ global = 0
  /\ received = Nothing
  /\ recent = [k \in 0 .. WindowLen - 1 |-> Nothing]
  /\ offered = Nothing

-----------------------------------------------------------------------------
(* RunServer.                                                              *)

\* The allowlist is empty, or the port cannot be bound.
StartFails ==
  /\ status = "idle"
  /\ status' = "error"
  /\ UNCHANGED <<ctxDone, sockOpen, limiter, received, history>>

Listen ==
  /\ status = "idle" /\ allowed # {}
  /\ status' = "serving" /\ sockOpen' = TRUE
  /\ UNCHANGED <<ctxDone, limiter, received, history>>

\* Plausible bug: the socket is closed by the loop, when it sees the context.
ClosesWhileServing == ctxDone /\ status = "serving"

MustClose == ctxDone

\* The goroutine RunServer leaves behind to wait for the context.
CloseSocket ==
  /\ MustClose /\ sockOpen
  /\ sockOpen' = FALSE
  /\ UNCHANGED <<status, ctxDone, limiter, received, history>>

-----------------------------------------------------------------------------
(* rateLimiter.allow: a window that is over is replaced first, then both   *)
(* caps must have room.                                                    *)

WindowOver == windowAge >= WindowLen

\* Plausible bug: the counters are cleared and the window is not moved.
AgeAfterForgottenReset == windowAge

AgeAfter == IF WindowOver THEN 0 ELSE windowAge

\* Plausible bug: only the per-IP counters are cleared.
GlobalCarriedOver == global

GlobalBefore == IF WindowOver THEN 0 ELSE global

PerIPBefore == IF WindowOver THEN Nothing ELSE perIP

\* Plausible bug: a full counter lets one packet more through.
HasRoomOffByOne(c) == GlobalBefore <= MaxPktsGlobal /\ PerIPBefore[c] <= MaxPktsPerIP

HasRoom(c) == GlobalBefore < MaxPktsGlobal /\ PerIPBefore[c] < MaxPktsPerIP

\* What allow(c) leaves in the limiter.
Charge(c) ==
  LET n == IF HasRoom(c) THEN 1 ELSE 0 IN
  /\ windowAge' = AgeAfter
  /\ global' = GlobalBefore + n
  /\ perIP' = [PerIPBefore EXCEPT ![c] = @ + n]

Offer(c) ==
  LET before == IF WindowOver THEN Nothing ELSE offered IN
  offered' = [before EXCEPT ![c] = IF @ < MaxPktsGlobal THEN @ + 1 ELSE @]

\* Plausible bug: sources are charged before they are looked up.
ChargedBeforeLookup(c) == TRUE

Charged(c) == c \in allowed

Limit(c) ==
  IF Charged(c)
  THEN Charge(c) /\ (IF c \in allowed THEN Offer(c) ELSE UNCHANGED offered)
  ELSE UNCHANGED <<limiter, offered>>

-----------------------------------------------------------------------------
(* ServePacketConn: one turn of the loop.                                  *)

Valid(d) == d.form = IF Secret THEN "authentic" ELSE "plain"

Accepted(d) == d.src \in allowed /\ HasRoom(d.src) /\ Valid(d)

Drop(d) ==
  /\ status = "serving" /\ sockOpen
  /\ ~Accepted(d)
  /\ Limit(d.src)
  /\ UNCHANGED <<status, ctxDone, sockOpen, received, recent>>

Count(d) ==
  /\ Accepted(d)
  /\ Sum(received) < MaxReceived
  /\ received' = [received EXCEPT ![d.src] = @ + 1]

\* The probe is counted, and written back unless the write fails.
Echo(d) ==
  /\ status = "serving" /\ sockOpen
  /\ Limit(d.src)
  /\ Count(d)
  /\ \/ recent' = [recent EXCEPT ![0][d.src] = @ + 1]
     \/ UNCHANGED recent
  /\ UNCHANGED <<status, ctxDone, sockOpen>>

\* A panic while a datagram is handled ends the loop with an error, at any
\* point of that turn.  The socket stays open: only the context closes it.
Panic ==
  /\ status = "serving" /\ sockOpen
  /\ status' = "error"
  /\ \/ UNCHANGED <<limiter, offered, received>>
     \/ \E d \in Datagram : Limit(d.src) /\ (Count(d) \/ UNCHANGED received)
  /\ UNCHANGED <<ctxDone, sockOpen, recent>>

\* A read error: a closed socket or a cancelled context is a clean end, any
\* other error is skipped.
Return ==
  /\ status = "serving" /\ (ctxDone \/ ~sockOpen)
  /\ status' = "nil"
  /\ UNCHANGED <<ctxDone, sockOpen, limiter, received, history>>

-----------------------------------------------------------------------------
Cancel ==
  /\ ~ctxDone
  /\ ctxDone' = TRUE
  /\ UNCHANGED <<status, sockOpen, limiter, received, history>>

TimePasses ==
  /\ windowAge' = IF windowAge < WindowLen THEN windowAge + 1 ELSE windowAge
  /\ recent' = [k \in 0 .. WindowLen - 1 |-> IF k = 0 THEN Nothing ELSE recent[k - 1]]
  /\ UNCHANGED <<status, ctxDone, sockOpen, perIP, global, received, offered>>

Next ==
  \/ StartFails \/ Listen \/ CloseSocket
  \/ \E d \in Datagram : Drop(d) \/ Echo(d)
  \/ Panic \/ Return \/ Cancel \/ TimePasses

Spec == Init /\ [][Next]_vars

\* The goroutine that waits for the context runs, and a read of a closed
\* socket returns.
LiveSpec == Spec /\ WF_vars(CloseSocket) /\ WF_vars(Return /\ ~sockOpen)

-----------------------------------------------------------------------------
(* GlobalIsTheSum: the two counters the limiter keeps agree in every       *)
(* window, so the global cap bounds what the clients got together.         *)
GlobalIsTheSum == global = Sum(perIP)

(* SlidingBound: in any span of one second, wherever it starts, a client   *)
(* is echoed at most twice its cap and all clients twice the global cap.   *)
(* The window is fixed, so the cap itself does not hold for every span.    *)
LastSecond(c) == SumFunction([k \in 0 .. WindowLen - 1 |-> recent[k][c]])
SlidingBound ==
  /\ \A c \in Clients : LastSecond(c) <= 2 * MaxPktsPerIP
  /\ Sum([c \in Clients |-> LastSecond(c)]) <= 2 * MaxPktsGlobal

(* NotStarved: a valid probe of an allowed client is counted as long as    *)
(* the allowed clients stay within the caps, whatever anyone else sends.   *)
NotStarved ==
  [][\A d \in Datagram :
       LET before == IF WindowOver THEN Nothing ELSE offered IN
       Drop(d) /\ d.src \in allowed /\ Valid(d)
         => before[d.src] >= MaxPktsPerIP \/ Sum(before) >= MaxPktsGlobal]_vars

(* CancelFreesTheSocket: after cancellation the socket is closed and the   *)
(* loop is over, also when a panic had ended the loop before.              *)
CancelFreesTheSocket ==
  ctxDone /\ status # "idle" ~> ~sockOpen /\ status \in {"nil", "error"}

=============================================================================
