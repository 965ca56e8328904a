---------------------------- MODULE ProbeLedger ----------------------------
(***************************************************************************)
(* What the prober promises about every probe it sends, whatever the       *)
(* timeouts, the socket and the network do: a probe is open until it gets  *)
(* exactly one verdict, echoed or lost, and a verdict is final.  Closing   *)
(* the ledger (shutdown) ends it: the probes open at that moment get no    *)
(* verdict and none is issued afterwards.                                  *)
(***************************************************************************)
EXTENDS Naturals, FiniteSets

VARIABLES
  issued,   \* number of probes sent so far; they are numbered 1 .. issued
  open,     \* the probes waiting for a verdict
  echoed,   \* the probes counted as a round trip
  lost,     \* the probes counted as timed out
  closed    \* the prober has shut down

vars == <<issued, open, echoed, lost, closed>>

Init ==
  /\ issued = 0
  /\ open = {} /\ echoed = {} /\ lost = {}
  /\ closed = FALSE

\* The next probe is sent.
Issue ==
  /\ ~closed
  /\ issued' = issued + 1
  /\ open' = open \cup {issued'}
  /\ UNCHANGED <<echoed, lost, closed>>

\* The echo of an open probe is counted.
Echo(s) ==
  /\ ~closed
  /\ s \in open
  /\ open' = open \ {s}
  /\ echoed' = echoed \cup {s}
  /\ UNCHANGED <<issued, lost, closed>>

\* Some open probes are given up together.
Lose(S) ==
  /\ ~closed
  /\ S # {} /\ S \subseteq open
  /\ open' = open \ S
  /\ lost' = lost \cup S
  /\ UNCHANGED <<issued, echoed, closed>>

\* Shutdown, possibly while giving some open probes up (an echo loop that
\* panics when the prober is already cancelled counts its probes as lost).
Close(S) ==
  /\ ~closed
  /\ S \subseteq open
  /\ closed' = TRUE
  /\ open' = {}
  /\ lost' = lost \cup S
  /\ UNCHANGED <<issued, echoed>>

Next ==
  \/ Issue
  \/ \E s \in open : Echo(s)
  \/ \E S \in SUBSET open : Lose(S) \/ Close(S)

Spec == Init /\ [][Next]_vars

=============================================================================
