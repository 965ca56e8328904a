-------------------------------- MODULE Link --------------------------------
(***************************************************************************)
(* Both ends of a link: the targets of one prober and the echo server that *)
(* answers them, over a network that loses, delays, reorders and           *)
(* duplicates.  The server is EchoServer.  A target is the probe loop as   *)
(* ProbeLedger has it, which ProbeLoop implements: it writes probes an     *)
(* interval apart, takes an echo for an open probe only, and a timeout may *)
(* come at any time.                                                       *)
(*                                                                         *)
(* This is where the two counters meet that the README tells operators to  *)
(* compare, the client's link_probes_sent_total and the server's           *)
(* link_server_probes_received_total.                                      *)
(***************************************************************************)
EXTENDS Integers, FiniteSetsExt

CONSTANTS
  Clients, allowed, Secret, MaxPktsPerIP, MaxPktsGlobal, WindowLen, MaxReceived,
               \* of EchoServer
  Targets,     \* the targets at this server, of all clients
  ipOf,        \* the address the server sees the probes of a target come from
  Interval,    \* BaseInterval, in ticks
  MaxDelay,    \* age at which a datagram arrives or is lost, in ticks
  MaxProbes,   \* bound: probes per target
  MaxDups      \* bound: duplicated datagrams

VARIABLES
  status, ctxDone, sockOpen, windowAge, perIP, global, received, recent, offered,
             \* of EchoServer
  authentic, \* what the server takes the clients' probes for: their secrets
             \* agree with its own and their clocks with its clock, or not
  issued, open, echoed, lost,   \* of ProbeLedger, per target
  since,     \* time since the target's last write, as far as it matters
  forward,   \* datagrams on their way to the server
  back,      \* echoes on their way to the client
  vanished,  \* history: datagrams that never got to be counted, per client:
             \* lost on the way, or taken down by a panic of the server
  dups       \* number of duplicated datagrams

serverVars == <<status, ctxDone, sockOpen, windowAge, perIP, global, received, recent, offered>>
ledgers == <<issued, open, echoed, lost>>
network == <<forward, back, vanished, dups>>
vars == <<serverVars, authentic, ledgers, since, network>>

Server == INSTANCE EchoServer

ASSUME LinkAssumption ==
  /\ Server!EchoServerAssumption
  /\ IsFiniteSet(Targets) /\ ipOf \in [Targets -> Clients]
  /\ Interval \in Nat \ {0} /\ MaxDelay \in Nat
  /\ MaxProbes \in Nat /\ MaxDups \in Nat

Probes == 1 .. MaxProbes
TargetsOf(c) == {t \in Targets : ipOf[t] = c}

TypeOK ==
  /\ Server!TypeOK
  /\ authentic \in Server!Forms
  /\ issued \in [Targets -> 0 .. MaxProbes]
  /\ open \in [Targets -> SUBSET Probes]
  /\ echoed \in [Targets -> SUBSET Probes] /\ lost \in [Targets -> SUBSET Probes]
  /\ since \in [Targets -> 0 .. Interval]
  /\ forward \subseteq [t : Targets, seq : Probes, age : 0 .. MaxDelay, copy : 0 .. MaxDups]
  /\ back \subseteq [t : Targets, seq : Probes]
  /\ vanished \in [Clients -> Nat] /\ dups \in 0 .. MaxDups

\* With a secret, probes carry an HMAC under the client's secret and its
\* time; without, they have the short size.
Kinds == IF Secret THEN {"authentic", "stale", "forged", "garbage"} ELSE {"plain", "garbage"}

Agree == authentic \in {"authentic", "plain"}

Init ==
  /\ Server!Init
  /\ authentic \in Kinds
  /\ issued = [t \in Targets |-> 0]
  /\ open = [t \in Targets |-> {}]
  /\ echoed = [t \in Targets |-> {}] /\ lost = [t \in Targets |-> {}]
  /\ since = [t \in Targets |-> 0]
  /\ forward = {} /\ back = {}
  /\ vanished = [c \in Clients |-> 0] /\ dups = 0

-----------------------------------------------------------------------------
(* The targets.                                                            *)

\* A write that fails leaves no trace.
Send(t) ==
  /\ since[t] = Interval /\ issued[t] < MaxProbes
  /\ issued' = [issued EXCEPT ![t] = @ + 1]
  /\ open' = [open EXCEPT ![t] = @ \cup {issued'[t]}]
  /\ since' = [since EXCEPT ![t] = 0]
  /\ forward' = forward \cup {[t |-> t, seq |-> issued'[t], age |-> 0, copy |-> 0]}
  /\ UNCHANGED <<serverVars, authentic, echoed, lost, back, vanished, dups>>

Matches(e) == e.seq \in open[e.t]

\* The echo stays in the network: it may come again.
TakeEcho(e) ==
  /\ Matches(e)
  /\ open' = [open EXCEPT ![e.t] = @ \ {e.seq}]
  /\ echoed' = [echoed EXCEPT ![e.t] = @ \cup {e.seq}]
  /\ UNCHANGED <<serverVars, authentic, issued, lost, since, network>>

Timeout(t) ==
  /\ \E s \in open[t] :
       /\ open' = [open EXCEPT ![t] = @ \ {s}]
       /\ lost' = [lost EXCEPT ![t] = @ \cup {s}]
  /\ UNCHANGED <<serverVars, authentic, issued, echoed, since, network>>

-----------------------------------------------------------------------------
(* The network.  An echo that is lost is one that is never taken.          *)

Vanish(m) ==
  /\ forward' = forward \ {m}
  /\ vanished' = [vanished EXCEPT ![ipOf[m.t]] = @ + 1]
  /\ UNCHANGED <<serverVars, authentic, ledgers, since, back, dups>>

Duplicate(m) ==
  /\ dups < MaxDups
  /\ dups' = dups + 1
  /\ forward' = forward \cup {[m EXCEPT !.copy = dups']}
  /\ UNCHANGED <<serverVars, authentic, ledgers, since, back, vanished>>

TimePasses ==
  /\ \A m \in forward : m.age < MaxDelay
  /\ Server!TimePasses
  /\ since' = [t \in Targets |-> IF since[t] < Interval THEN since[t] + 1 ELSE since[t]]
  /\ forward' = {[m EXCEPT !.age = @ + 1] : m \in forward}
  /\ UNCHANGED <<authentic, ledgers, back, vanished, dups>>

-----------------------------------------------------------------------------
(* The server.                                                             *)

Datagram(m) == [src |-> ipOf[m.t], form |-> authentic]
EchoOf(m) == [t |-> m.t, seq |-> m.seq]

\* Plausible bug: the datagram is written back before it is looked at.
EchoesFirst(m) == {EchoOf(m)}

WrittenOnDrop(m) == {}

Refuse(m) ==
  /\ Server!Drop(Datagram(m))
  /\ forward' = forward \ {m}
  /\ back' = back \cup WrittenOnDrop(m)
  /\ UNCHANGED <<authentic, ledgers, since, vanished, dups>>

\* The write may fail: then nothing is on its way back.
Reflect(m) ==
  /\ Server!Echo(Datagram(m))
  /\ forward' = forward \ {m}
  /\ back' = IF recent' = recent THEN back ELSE back \cup {EchoOf(m)}
  /\ UNCHANGED <<authentic, ledgers, since, vanished, dups>>

\* A panic in the turn of a datagram, before or after it was counted.  Before,
\* the datagram goes down with the server: the counters cannot tell it from
\* one that the wire lost, and it is the last the server ever reads.
PanicOn(m) ==
  /\ Server!Panic
  /\ forward' = forward \ {m}
  /\ \/ /\ received' = received
        /\ vanished' = [vanished EXCEPT ![ipOf[m.t]] = @ + 1]
     \/ /\ Server!Accepted(Datagram(m))
        /\ received' = [received EXCEPT ![ipOf[m.t]] = @ + 1]
        /\ UNCHANGED vanished
  /\ UNCHANGED <<authentic, ledgers, since, back, dups>>

ServerRuns ==
  /\ Server!StartFails \/ Server!Listen \/ Server!CloseSocket \/ Server!Return \/ Server!Cancel
  /\ UNCHANGED <<authentic, ledgers, since, network>>

Next ==
  \/ \E t \in Targets : Send(t) \/ Timeout(t)
  \/ \E e \in back : TakeEcho(e)
  \/ \E m \in forward : Vanish(m) \/ Duplicate(m) \/ Refuse(m) \/ Reflect(m) \/ PanicOn(m)
  \/ ServerRuns \/ TimePasses

Spec == Init /\ [][Next]_vars

-----------------------------------------------------------------------------
\* Summed over the targets of a client.
Total(f, c) == SumFunctionOnSet(f, TargetsOf(c))
Sent(c) == Total(issued, c)
RoundTrips(c) == Total([t \in Targets |-> Cardinality(echoed[t])], c)
OnTheWay(c) == Cardinality({m \in forward : ipOf[m.t] = c})

(* EchoedWasCounted: every round trip the client counts is a probe the     *)
(* server counted: link_rtt_seconds_count never exceeds                    *)
(* link_server_probes_received_total, with echoes duplicated, late, lost   *)
(* on the way back, refused or cut off by a panic.                         *)
EchoedWasCounted == \A c \in Clients : RoundTrips(c) <= received[c]

\* What one target can bring to one window of the limiter: the probes it
\* writes in the window and, delayed, those of MaxDelay before it.
PerWindow == (WindowLen + MaxDelay - 1) \div Interval + 1
CapsAreSized ==
  /\ \A c \in Clients : Cardinality(TargetsOf(c)) * PerWindow <= MaxPktsPerIP
  /\ Cardinality(Targets) * PerWindow <= MaxPktsGlobal

(* MismatchIsTheWire: "any mismatch is probes that never reached the       *)
(* server" (link_server_probes_received_total, and "Cross-check with the   *)
(* server" of the README): sent - received is what the network has or has  *)
(* lost and nothing else, except for the one datagram that a panic of the  *)
(* server may take down.  This is for allowed clients whose secret and     *)
(* clock agree with the server's, if the caps have room for what delay can *)
(* crowd into a window, and the network makes no copies.                   *)
MismatchIsTheWire ==
  Agree /\ CapsAreSized /\ dups = 0 =>
    \A c \in allowed : Sent(c) - received[c] = vanished[c] + OnTheWay(c)

=============================================================================
