--------------------------- MODULE Service_proofs ---------------------------
(***************************************************************************)
(* What holds of the process for any command lines and environments.       *)
(***************************************************************************)
EXTENDS Service, SequenceTheorems, WellFoundedInduction, TLAPS

-----------------------------------------------------------------------------
(* The inductive invariant, by topic.                                      *)

\* A half runs only while run is in its mode, and only in a mode that has it.
HalvesInMode ==
  /\ run \in {"parsing", "starting", "bound"} => server = "off" /\ client = "off"
  /\ server # "off" => mode # "client"
  /\ client # "off" => mode # "server"

\* The metrics server is there from the bind to the end of the draining.
MetricsBound ==
  run \in {"bound", "mode", "joining", "draining"} => metrics \in {"listening", "broken"}

\* Nothing is served before the checks, and nothing probed before its own.
Checked ==
  /\ metrics # "down" => RunAccepts(args)
  /\ client = "waiting" => Validate(args)

\* After the mode, both halves have ended.
HalvesSettled ==
  /\ run = "joining" => mode = "both" /\ client \in {"nil", "error"}
  /\ run \in {"draining", "returned"} =>
       client \in {"off", "nil", "error"} /\ server \in {"off", "nil", "error"}

\* A loop or a half that ended without error was cancelled, and not by
\* itself.
WhoCancelled ==
  /\ client = "waiting" => Targets # {} /\ (probing = Targets \/ HalvesCancelled)
  /\ server = "nil" \/ client = "nil" => HalvesCancelled
  /\ modeCtxDone => ctxDone \/ "error" \in {server, client}

\* What run returns tells how the halves ended.
Reported ==
  /\ run \in {"draining", "returned"} /\ runErr = "nil" =>
       /\ "error" \notin {server, client}
       /\ "nil" \in {server, client}
  /\ exit = "clean" => run = "returned" /\ runErr = "nil"

SInv ==
  TypeOK /\ HalvesInMode /\ MetricsBound /\ Checked /\ HalvesSettled /\ WhoCancelled /\ Reported

-----------------------------------------------------------------------------
(* What the installer records is a command line.                           *)
LEMMA RecordedType == ASSUME NEW cmd \in CommandLine PROVE Recorded(cmd) \in CommandLine
<1> DEFINE a == [cmd EXCEPT !.userFlag = ""]
           b == [a EXCEPT !.passFlag = ""]
           r == IF b.rotation = "unset" THEN b.rotation ELSE "text"
<1>1. a \in CommandLine
  BY ZenonT(30) DEF CommandLine
<1> HIDE DEF a
<1>2. b \in CommandLine
  BY <1>1, ZenonT(30) DEF CommandLine
<1> HIDE DEF b
<1>3. r \in {"unset", "default", "zero", "number", "negative", "text"}
  OBVIOUS
<1> HIDE DEF r
<1>4. [b EXCEPT !.rotation = r] \in CommandLine
  BY <1>2, <1>3, ZenonT(30) DEF CommandLine
<1>5. QED
  BY <1>4 DEF Recorded, a, b, r

LEMMA InitInv == Init => SInv
<1> SUFFICES ASSUME Init PROVE SInv
  OBVIOUS
<1>1. args \in CommandLine
  BY ServiceAssumption, RecordedType DEF Init
<1>2. QED
  BY <1>1 DEF Init, SInv, TypeOK, HalvesInMode, MetricsBound, Checked, HalvesSettled,
     WhoCancelled, HalvesCancelled, Reported

(* The command line stays, and with it everything read from it.            *)
LEMMA ArgsStay ==
  [Next]_vars =>
    /\ mode' = mode /\ Targets' = Targets /\ args' = args
    /\ RunAccepts(args)' = RunAccepts(args) /\ Validate(args)' = Validate(args)
<1> SUFFICES ASSUME [Next]_vars
             PROVE  /\ mode' = mode /\ Targets' = Targets /\ args' = args
                    /\ RunAccepts(args)' = RunAccepts(args)
                    /\ Validate(args)' = Validate(args)
  OBVIOUS
<1>1. args' = args
  BY DEF Next, Works, Starts, StartServer, StartClient, UsageFails, Runs, StartupFails,
         BindMetrics, MetricsBreak, Dispatch, ServerListens, ServerFails, ServerEnds,
         ClientRefuses, ClientStarts, LoopReturns, ClientEnds, SingleModeEnds,
         CancelServer, JoinServer, CloseMetrics, Exits, Signal, StopCalled,
         StopReturns, StopTimesOut, vars
<1>2. mode' = mode /\ Targets' = Targets
  BY <1>1 DEF mode, Targets
<1>3. RunAccepts(args)' = RunAccepts(args)
  BY <1>1
<1>4. Validate(args)' = Validate(args)
  BY <1>1
<1>5. QED BY <1>1, <1>2, <1>3, <1>4

LEMMA StepInv == SInv /\ [Next]_vars => SInv'
<1> SUFFICES ASSUME SInv, [Next]_vars PROVE SInv'
  OBVIOUS
<1> USE DEF SInv, halves, process
<1>0. /\ mode' = mode /\ Targets' = Targets /\ args' = args
      /\ RunAccepts(args)' = RunAccepts(args) /\ Validate(args)' = Validate(args)
  BY ArgsStay
<1>23. ASSUME exit = "alive", UsageFails \/ Runs PROVE SInv'
  BY <1>0, <1>23 DEF UsageFails, Runs, TypeOK, HalvesInMode, MetricsBound, Checked, HalvesSettled,
     WhoCancelled, HalvesCancelled, Reported
<1>1. ASSUME exit = "alive", StartupFails PROVE SInv'
  BY <1>0, <1>1 DEF StartupFails, TypeOK, HalvesInMode, MetricsBound, Checked, HalvesSettled,
     WhoCancelled, HalvesCancelled, Reported
<1>2. ASSUME exit = "alive", BindMetrics PROVE SInv'
  BY <1>0, <1>2 DEF BindMetrics, TypeOK, HalvesInMode, MetricsBound, Checked, HalvesSettled,
     WhoCancelled, HalvesCancelled, Reported
<1>3. ASSUME exit = "alive", MetricsBreak PROVE SInv'
  BY <1>0, <1>3 DEF MetricsBreak, TypeOK, HalvesInMode, MetricsBound, Checked, HalvesSettled,
     WhoCancelled, HalvesCancelled, Reported
<1>4. ASSUME exit = "alive", Dispatch PROVE SInv'
  BY <1>0, <1>4 DEF Dispatch, TypeOK, HalvesInMode, MetricsBound, Checked, HalvesSettled,
     WhoCancelled, HalvesCancelled, Reported
<1>5. ASSUME exit = "alive", ServerListens PROVE SInv'
  BY <1>0, <1>5 DEF ServerListens, TypeOK, HalvesInMode, MetricsBound, Checked, HalvesSettled,
     WhoCancelled, HalvesCancelled, Reported
<1>6. ASSUME exit = "alive", ServerFails PROVE SInv'
  BY <1>0, <1>6 DEF ServerFails, CancelsTheClient, TypeOK, HalvesInMode, MetricsBound, Checked, HalvesSettled,
     WhoCancelled, HalvesCancelled, Reported
<1>7. ASSUME exit = "alive", ServerEnds PROVE SInv'
  BY <1>0, <1>7 DEF ServerEnds, TypeOK, HalvesInMode, MetricsBound, Checked, HalvesSettled,
     WhoCancelled, HalvesCancelled, Reported
<1>8. ASSUME exit = "alive", ClientRefuses PROVE SInv'
  BY <1>0, <1>8 DEF ClientRefuses, TypeOK, HalvesInMode, MetricsBound, Checked, HalvesSettled,
     WhoCancelled, HalvesCancelled, Reported
<1>9. ASSUME exit = "alive", ClientStarts PROVE SInv'
  <2>1. Targets # {}
    BY <1>9 DEF ClientStarts, Validate, Targets
  <2>2. QED
    BY <1>0, <1>9, <2>1 DEF ClientStarts, TypeOK, HalvesInMode, MetricsBound, Checked,
       HalvesSettled, WhoCancelled, HalvesCancelled, Reported
<1>10. ASSUME exit = "alive", ClientEnds PROVE SInv'
  BY <1>0, <1>10 DEF ClientEnds, AllLoopsReturned, TypeOK, HalvesInMode, MetricsBound, Checked, HalvesSettled,
     WhoCancelled, HalvesCancelled, Reported
<1>11. ASSUME exit = "alive", SingleModeEnds PROVE SInv'
  BY <1>0, <1>11 DEF SingleModeEnds, Result, ServerOver, ClientOver, TypeOK, HalvesInMode, MetricsBound, Checked, HalvesSettled,
     WhoCancelled, HalvesCancelled, Reported
<1>12. ASSUME exit = "alive", CancelServer PROVE SInv'
  BY <1>0, <1>12 DEF CancelServer, ClientOver, TypeOK, HalvesInMode, MetricsBound, Checked, HalvesSettled,
     WhoCancelled, HalvesCancelled, Reported
<1>13. ASSUME exit = "alive", JoinServer PROVE SInv'
  BY <1>0, <1>13 DEF JoinServer, Result, ServerOver, TypeOK, HalvesInMode, MetricsBound, Checked, HalvesSettled,
     WhoCancelled, HalvesCancelled, Reported
<1>14. ASSUME exit = "alive", CloseMetrics PROVE SInv'
  BY <1>0, <1>14 DEF CloseMetrics, TypeOK, HalvesInMode, MetricsBound, Checked, HalvesSettled,
     WhoCancelled, HalvesCancelled, Reported
<1>15. ASSUME exit = "alive", Exits PROVE SInv'
  BY <1>0, <1>15 DEF Exits, TypeOK, HalvesInMode, MetricsBound, Checked, HalvesSettled,
     WhoCancelled, HalvesCancelled, Reported
<1>16. ASSUME exit = "alive", Signal PROVE SInv'
  BY <1>0, <1>16 DEF Signal, TypeOK, HalvesInMode, MetricsBound, Checked, HalvesSettled,
     WhoCancelled, HalvesCancelled, Reported
<1>17. ASSUME exit = "alive", StopCalled PROVE SInv'
  BY <1>0, <1>17 DEF StopCalled, TypeOK, HalvesInMode, MetricsBound, Checked, HalvesSettled,
     WhoCancelled, HalvesCancelled, Reported
<1>18. ASSUME exit = "alive", StopReturns PROVE SInv'
  BY <1>0, <1>18 DEF StopReturns, TypeOK, HalvesInMode, MetricsBound, Checked, HalvesSettled,
     WhoCancelled, HalvesCancelled, Reported
<1>19. ASSUME exit = "alive", StopTimesOut PROVE SInv'
  BY <1>0, <1>19 DEF StopTimesOut, TypeOK, HalvesInMode, MetricsBound, Checked, HalvesSettled,
     WhoCancelled, HalvesCancelled, Reported
<1>20. ASSUME exit = "alive", NEW t \in probing, LoopReturns(t) PROVE SInv'
  BY <1>0, <1>20 DEF LoopReturns, TypeOK, HalvesInMode, MetricsBound, Checked, HalvesSettled,
     WhoCancelled, HalvesCancelled, Reported
<1>21. CASE UNCHANGED vars
  BY <1>0, <1>21 DEF vars, TypeOK, HalvesInMode, MetricsBound, Checked, HalvesSettled,
     WhoCancelled, HalvesCancelled, Reported
<1>22. QED
  BY <1>1, <1>2, <1>3, <1>4, <1>5, <1>6, <1>7, <1>8, <1>9, <1>10, <1>11, <1>12, <1>13, <1>14, <1>15, <1>16, <1>17, <1>18, <1>19, <1>20, <1>21, <1>23
     DEF Next, Works, Starts, StartServer, StartClient

LEMMA Inductive == Spec => []SInv
BY InitInv, StepInv, PTL DEF Spec

(* TypeCorrect: the process stays within its states, and probe loops run   *)
(* only while RunClient waits for them.                                    *)
THEOREM TypeCorrect == Spec => []TypeOK
<1>1. SInv => TypeOK
  BY DEF SInv
<1>2. QED
  BY <1>1, Inductive, PTL

(* MetricsFirstAndLast: nothing probes or echoes before the metrics        *)
(* address is bound or after the metrics server is shut down.              *)
THEOREM MetricsFirstAndLast == Spec => []MetricsSpanProbing
<1>1. SInv => MetricsSpanProbing
  BY DEF SInv, TypeOK, HalvesInMode, MetricsBound, Checked, HalvesSettled, MetricsSpanProbing
<1>2. QED
  BY <1>1, Inductive, PTL

(* CleanExitsAreAsked: the process exits cleanly only when it was asked to *)
(* and neither half has failed.                                            *)
THEOREM CleanExitsAreAsked == Spec => []CleanExitIsAsked
<1>1. SInv => CleanExitIsAsked
  BY DEF SInv, TypeOK, WhoCancelled, HalvesCancelled, Reported, CleanExitIsAsked
<1>2. QED
  BY <1>1, Inductive, PTL

(* MetricsGuarded: with any command line and environment, credentials that *)
(* were given at all are demanded, as a pair from one place.               *)
THEOREM MetricsAreGuarded == Spec => []MetricsGuarded
<1>1. SInv => MetricsGuarded
  <2> SUFFICES ASSUME SInv, metrics \in {"listening", "broken"},
                      {args.userFlag, args.passFlag, args.userEnv, args.passEnv} # {""}
               PROVE  /\ \A r \in Requests : MetricsAuth(resolveMetricsAuth(args), r) =>
                            r.given /\ r.user = r.pass /\ r.user # ""
                      /\ args.cert \/ args.allowInsecure
    BY DEF MetricsGuarded
  <2>1. MetricsAuthOK(args)
    BY DEF SInv, Checked, RunAccepts
  <2>2. /\ args.userFlag \in {"", "flag"} /\ args.passFlag \in {"", "flag"}
        /\ args.userEnv \in {"", "env"} /\ args.passEnv \in {"", "env"}
    BY DEF SInv, TypeOK, CommandLine
  <2>3. /\ resolveMetricsAuth(args).user # ""
        /\ resolveMetricsAuth(args).pass = resolveMetricsAuth(args).user
        /\ args.cert \/ args.allowInsecure
    BY <2>1, <2>2 DEF MetricsAuthOK, resolveMetricsAuth
  <2> DEFINE auth == resolveMetricsAuth(args)
  <2>4. ASSUME NEW r \in Requests, MetricsAuth(auth, r)
        PROVE  r.given /\ r.user = r.pass /\ r.user # ""
    <3>1. r = [given |-> TRUE, user |-> auth.user, pass |-> auth.pass]
      BY <2>3, <2>4 DEF MetricsAuth
    <3>2. r.given = TRUE /\ r.user = auth.user /\ r.pass = auth.pass
      BY <3>1
    <3>3. QED BY <2>3, <3>2
  <2>5. QED BY <2>3, <2>4
<1>2. QED
  BY <1>1, Inductive, PTL

-----------------------------------------------------------------------------
(* Host names.  isValidHost splits at the dots and looks at the labels;    *)
(* the standard is read position by position.  The bridge is the label     *)
(* around a position: the nearest cut before it and the nearest after it.  *)

(* HasLeast, HasGreatest: a set of numbers has a least one, and a greatest *)
(* one if it is bounded.                                                   *)
LEMMA HasLeast ==
  ASSUME NEW S, S \subseteq Nat, S # {}
  PROVE  \E x \in S : \A y \in S : x <= y
<1> DEFINE R == OpToRel(<, Nat)
<1>1. \E x \in S : \A y \in S : ~(<<y, x>> \in R)
  BY NatLessThanWellFounded, WFMin, Zenon
<1>2. PICK x \in S : \A y \in S : ~(<<y, x>> \in R)
  <2> HIDE DEF R
  <2> QED BY <1>1
<1>3. ASSUME NEW y \in S PROVE x <= y
  <2>1. x \in Nat /\ y \in Nat
    OBVIOUS
  <2>2. y < x => <<y, x>> \in R
    BY <2>1 DEF OpToRel
  <2>3. ~(y < x)
    BY <1>2, <2>2
  <2>4. QED BY <2>1, <2>3
<1>4. QED BY <1>3

LEMMA HasGreatest ==
  ASSUME NEW n \in Nat, NEW S, S \subseteq 0 .. n, S # {}
  PROVE  \E x \in S : \A y \in S : y <= x
<1> DEFINE T == {n - y : y \in S}
<1>1. \A y \in S : n - y \in Nat
  OBVIOUS
<1>2. T \subseteq Nat /\ T # {}
  BY <1>1
<1>3. \E z \in T : \A y \in T : z <= y
  <2> HIDE DEF T
  <2>1. QED BY <1>2, HasLeast
<1>4. PICK z \in T : \A y \in T : z <= y
  BY <1>3
<1>5. PICK x \in S : z = n - x
  BY <1>4
<1>6. ASSUME NEW y \in S PROVE y <= x
  <2>1. n - x <= n - y
    BY <1>4, <1>5
  <2>2. x \in Int /\ y \in Int
    OBVIOUS
  <2>3. QED BY <2>1, <2>2
<1>7. QED BY <1>6

\* Two cuts with none between them.
Neighbours(h, c, d) ==
  c \in Cuts(h) /\ d \in Cuts(h) /\ c < d /\ ~\E e \in Cuts(h) : c < e /\ e < d

LEMMA CutsRange ==
  ASSUME NEW h \in Seq(Characters)
  PROVE  Cuts(h) \subseteq 0 .. Len(h) + 1 /\ Len(h) \in Nat
BY DEF Cuts

(* StretchInLabel: a stretch without a dot lies between two neighbours.    *)
LEMMA StretchInLabel ==
  ASSUME NEW h \in Seq(Characters), NEW i \in 1 .. Len(h), NEW j \in i .. Len(h),
         \A k \in i .. j : h[k] # "."
  PROVE  \E c, d \in Cuts(h) : Neighbours(h, c, d) /\ c < i /\ j < d
<1> DEFINE n == Len(h)
           Left == {c \in Cuts(h) : c < i}
           Right == {d \in Cuts(h) : j < d}
<1>1. n \in Nat /\ Cuts(h) \subseteq 0 .. n + 1
  BY CutsRange
<1>2. 0 \in Left /\ n + 1 \in Right
  BY <1>1 DEF Cuts
<1>3. PICK c \in Left : \A e \in Left : e <= c
  <2>1. Left \subseteq 0 .. n + 1 /\ Left # {} /\ n + 1 \in Nat
    BY <1>1, <1>2
  <2> HIDE DEF Left, n
  <2>2. QED BY <2>1, HasGreatest
<1>4. PICK d \in Right : \A e \in Right : d <= e
  <2>1. Right \subseteq Nat /\ Right # {}
    BY <1>1, <1>2
  <2> HIDE DEF Right, n
  <2>2. QED BY <2>1, HasLeast
<1>5. ASSUME NEW e \in Cuts(h), c < e, e < d PROVE FALSE
  <2>1. e \in Nat /\ c \in Nat /\ d \in Nat /\ e # 0 /\ e # n + 1
    BY <1>1, <1>5
  <2>2. e \notin Left /\ e \notin Right
    BY <1>3, <1>4, <1>5, <2>1
  <2>3. e \in i .. j
    BY <2>1, <2>2
  <2>4. h[e] = "."
    BY <1>5, <2>1 DEF Cuts
  <2>5. QED BY <2>3, <2>4
<1>6. c \in Cuts(h) /\ d \in Cuts(h) /\ c < i /\ j < d
  OBVIOUS
<1>7. c < d
  BY <1>1, <1>6
<1>8. Neighbours(h, c, d)
  BY <1>5, <1>6, <1>7 DEF Neighbours
<1>9. QED BY <1>6, <1>8

(* LabelBetween, LabelHasCuts: the labels are what stands between          *)
(* neighbouring cuts, position by position.                                *)
LEMMA LabelBetween ==
  ASSUME NEW h \in Seq(Characters), NEW c, NEW d, Neighbours(h, c, d)
  PROVE  LET label == SubSeq(h, c + 1, d - 1)
         IN  /\ label \in Labels(h) /\ c \in Nat /\ d \in 1 .. Len(h) + 1 /\ c < d
             /\ Len(label) = d - c - 1 /\ DOMAIN label = 1 .. d - c - 1
             /\ \A k \in 1 .. d - c - 1 : label[k] = h[c + k]
<1> DEFINE label == SubSeq(h, c + 1, d - 1)
<1>1. c \in Nat /\ d \in 1 .. Len(h) + 1 /\ c < d /\ Len(h) \in Nat
  BY CutsRange DEF Neighbours
<1>2. label \in Labels(h)
  <2> DEFINE e == <<c, d>>
  <2>1. e \in Cuts(h) \X Cuts(h) /\ e[1] = c /\ e[2] = d
    BY DEF Neighbours
  <2>2. e[1] < e[2] /\ ~\E f \in Cuts(h) : e[1] < f /\ f < e[2]
    BY <2>1 DEF Neighbours
  <2>3. label = SubSeq(h, e[1] + 1, e[2] - 1)
    BY <2>1
  <2> HIDE DEF e, label
  <2>4. QED BY <2>1, <2>2, <2>3 DEF Labels
<1>3. \A k \in c + 1 .. d - 1 : h[k] \in Characters
  BY <1>1
<1>4. /\ label \in Seq(Characters)
      /\ Len(label) = IF c + 1 <= d - 1 THEN (d - 1) - (c + 1) + 1 ELSE 0
      /\ \A k \in 1 .. (d - 1) - (c + 1) + 1 : label[k] = h[c + 1 + k - 1]
  <2>1. c + 1 \in Int /\ d - 1 \in Int
    BY <1>1
  <2> HIDE DEF label
  <2>2. QED BY <1>3, <2>1, SubSeqProperties DEF label
<1>5. Len(label) = d - c - 1
  BY <1>1, <1>4
<1>6. DOMAIN label = 1 .. d - c - 1
  BY <1>4, <1>5
<1>7. \A k \in 1 .. d - c - 1 : label[k] = h[c + k]
  BY <1>1, <1>4
<1>8. QED BY <1>1, <1>2, <1>5, <1>6, <1>7

LEMMA LabelHasCuts ==
  ASSUME NEW h \in Seq(Characters), NEW label \in Labels(h)
  PROVE  \E c, d \in Cuts(h) : Neighbours(h, c, d) /\ label = SubSeq(h, c + 1, d - 1)
<1>1. PICK e \in Cuts(h) \X Cuts(h) :
         /\ e[1] < e[2] /\ ~\E f \in Cuts(h) : e[1] < f /\ f < e[2]
         /\ label = SubSeq(h, e[1] + 1, e[2] - 1)
  BY DEF Labels
<1>2. e[1] \in Cuts(h) /\ e[2] \in Cuts(h)
  OBVIOUS
<1>3. QED BY <1>1, <1>2 DEF Neighbours

\* What isValidHost asks of the labels, and the same of the positions between
\* neighbouring cuts.
LabelsValid(h) ==
  \A label \in Labels(h) :
    /\ Len(label) \in 1 .. MaxLabelLen
    /\ NoHyphenAtTheEnds(label)
    /\ \A i \in DOMAIN label : label[i] \in {"a", "-"}

ValidBetween(h, c, d) ==
  /\ d - c - 1 \in 1 .. MaxLabelLen
  /\ h[c + 1] # "-" /\ h[d - 1] # "-"
  /\ \A k \in c + 1 .. d - 1 : h[k] \in {"a", "-"}

LEMMA LabelsByPosition ==
  ASSUME NEW h \in Seq(Characters)
  PROVE  LabelsValid(h) <=> \A c, d \in Cuts(h) : Neighbours(h, c, d) => ValidBetween(h, c, d)
<1>1. ASSUME NEW c \in Cuts(h), NEW d \in Cuts(h), Neighbours(h, c, d)
      PROVE  LET label == SubSeq(h, c + 1, d - 1)
             IN  /\ label \in Labels(h)
                 /\ (/\ Len(label) \in 1 .. MaxLabelLen
                     /\ NoHyphenAtTheEnds(label)
                     /\ \A i \in DOMAIN label : label[i] \in {"a", "-"})
                    <=> ValidBetween(h, c, d)
  <2> DEFINE label == SubSeq(h, c + 1, d - 1)
             m == d - c - 1
  <2>1. /\ label \in Labels(h) /\ c \in Nat /\ d \in 1 .. Len(h) + 1 /\ c < d
        /\ Len(label) = m /\ DOMAIN label = 1 .. m
        /\ \A k \in 1 .. m : label[k] = h[c + k]
    <3> HIDE DEF label
    <3> QED BY <1>1, LabelBetween DEF label
  <2>2. m \in Int /\ MaxLabelLen \in Nat /\ c + m = d - 1 /\ d \in Nat
    BY <2>1, StartupAssumption
  <2> HIDE DEF label
  <2>3. ASSUME m >= 1
        PROVE  label[1] = h[c + 1] /\ label[m] = h[d - 1]
    <3>1. 1 \in 1 .. m /\ m \in 1 .. m
      BY <2>2, <2>3
    <3>2. label[1] = h[c + 1] /\ label[m] = h[c + m]
      BY <2>1, <3>1
    <3>3. QED BY <2>2, <3>2
  <2>4. (\A i \in DOMAIN label : label[i] \in {"a", "-"})
          <=> \A k \in c + 1 .. d - 1 : h[k] \in {"a", "-"}
    <3>1. ASSUME \A i \in DOMAIN label : label[i] \in {"a", "-"}, NEW k \in c + 1 .. d - 1
          PROVE  h[k] \in {"a", "-"}
      <4>1. k - c \in 1 .. m /\ c + (k - c) = k
        BY <2>1, <2>2
      <4>2. label[k - c] = h[c + (k - c)]
        BY <2>1, <4>1
      <4>3. label[k - c] \in {"a", "-"}
        BY <2>1, <3>1, <4>1
      <4>4. QED BY <4>1, <4>2, <4>3
    <3>2. ASSUME \A k \in c + 1 .. d - 1 : h[k] \in {"a", "-"}, NEW i \in DOMAIN label
          PROVE  label[i] \in {"a", "-"}
      <4>1. i \in 1 .. m
        BY <2>1
      <4>2. c + i \in c + 1 .. d - 1
        BY <2>1, <2>2, <4>1
      <4>3. QED BY <2>1, <3>2, <4>1, <4>2
    <3>3. QED BY <3>1, <3>2
  <2>5. Len(label) \in 1 .. MaxLabelLen => m >= 1
    BY <2>1, <2>2
  <2>6. m \in 1 .. MaxLabelLen => m >= 1
    BY <2>2
  <2>7. QED
    BY <2>1, <2>3, <2>4, <2>5, <2>6 DEF ValidBetween, NoHyphenAtTheEnds, label
<1>2. ASSUME LabelsValid(h), NEW c \in Cuts(h), NEW d \in Cuts(h), Neighbours(h, c, d)
      PROVE  ValidBetween(h, c, d)
  BY <1>1, <1>2 DEF LabelsValid
<1>3. ASSUME \A c, d \in Cuts(h) : Neighbours(h, c, d) => ValidBetween(h, c, d)
      PROVE  LabelsValid(h)
  <2> SUFFICES ASSUME NEW label \in Labels(h)
               PROVE  /\ Len(label) \in 1 .. MaxLabelLen
                      /\ NoHyphenAtTheEnds(label)
                      /\ \A i \in DOMAIN label : label[i] \in {"a", "-"}
    BY DEF LabelsValid
  <2>1. PICK c \in Cuts(h), d \in Cuts(h) :
           Neighbours(h, c, d) /\ label = SubSeq(h, c + 1, d - 1)
    BY LabelHasCuts
  <2>2. ValidBetween(h, c, d)
    BY <1>3, <2>1
  <2>3. QED BY <1>1, <2>1, <2>2
<1>4. QED BY <1>2, <1>3

(* ByPosition: split at the dots and looked at label by label, a host is   *)
(* valid exactly if it is one position by position.                        *)
LEMMA ByPosition ==
  ASSUME NEW h \in Seq(Characters), h # <<>>, Len(h) <= MaxHostLen
  PROVE  LabelsValid(h) <=> HostName(h)
<1> DEFINE n == Len(h)
<1>1. n \in Nat /\ n >= 1 /\ DOMAIN h = 1 .. n /\ MaxLabelLen \in Nat
  BY StartupAssumption
<1>2. Cuts(h) \subseteq 0 .. n + 1
  BY CutsRange
<1>3. ASSUME NEW i \in 1 .. n, h[i] = "." PROVE i \in Cuts(h)
  BY <1>1, <1>3 DEF Cuts
<1>4. 0 \in Cuts(h) /\ n + 1 \in Cuts(h)
  BY DEF Cuts
<1>5. \A i \in 1 .. n : h[i] \in Characters
  BY <1>1
<1>6. ASSUME NEW i \in 0 .. n, i \in Cuts(h), i + 1 \in Cuts(h)
      PROVE  Neighbours(h, i, i + 1)
  BY <1>1, <1>2, <1>6 DEF Neighbours
<1> HIDE DEF n
<1>7. ASSUME LabelsValid(h) PROVE HostName(h)
  <2>1. \A c, d \in Cuts(h) : Neighbours(h, c, d) => ValidBetween(h, c, d)
    BY <1>7, LabelsByPosition
  <2>2. ASSUME NEW i \in 0 .. n PROVE ~(i \in Cuts(h) /\ i + 1 \in Cuts(h))
    <3> SUFFICES ASSUME i \in Cuts(h), i + 1 \in Cuts(h) PROVE FALSE
      OBVIOUS
    <3>1. ValidBetween(h, i, i + 1)
      BY <1>6, <2>1
    <3>2. (i + 1) - i - 1 = 0
      BY <1>1
    <3>3. QED BY <1>1, <3>1, <3>2 DEF ValidBetween
  <2>3. ASSUME NEW i \in 1 .. n, NEW j \in i .. n, \A k \in i .. j : h[k] # "."
        PROVE  j - i < MaxLabelLen /\ h[i] \in {"a", "-"} /\ h[j] \in {"a", "-"}
    <3>1. PICK c \in Cuts(h), d \in Cuts(h) : Neighbours(h, c, d) /\ c < i /\ j < d
      BY <2>3, StretchInLabel DEF n
    <3>2. ValidBetween(h, c, d)
      BY <2>1, <3>1
    <3>3. c \in Int /\ d \in Int /\ i \in Int /\ j \in Int
      BY <1>1, <1>2
    <3>4. j - i < MaxLabelLen
      BY <1>1, <3>1, <3>2, <3>3 DEF ValidBetween
    <3>5. i \in c + 1 .. d - 1 /\ j \in c + 1 .. d - 1
      BY <3>1, <3>3
    <3>6. QED BY <3>2, <3>4, <3>5 DEF ValidBetween
  <2>4. ASSUME NEW i \in 1 .. n PROVE h[i] \in {"a", "-", "."}
    <3>1. CASE h[i] = "."
      BY <3>1
    <3>2. CASE h[i] # "."
      <4>1. i \in i .. n /\ \A k \in i .. i : k = i
        BY <1>1
      <4>2. \A k \in i .. i : h[k] # "."
        BY <3>2, <4>1
      <4>3. QED BY <2>3, <4>1, <4>2
    <3>3. QED BY <3>1, <3>2
  \* The character after a cut and the one before a cut is a letter.
  <2>5. ASSUME NEW c \in Cuts(h), c < n PROVE h[c + 1] = "a"
    <3>1. c \in 0 .. n /\ c + 1 \in 1 .. n
      BY <1>1, <1>2, <2>5
    <3>2. c + 1 \notin Cuts(h)
      BY <2>2, <3>1
    <3>3. h[c + 1] # "."
      BY <1>3, <3>1, <3>2
    <3>4. \A k \in c + 1 .. c + 1 : k = c + 1
      BY <3>1
    <3>5. \A k \in c + 1 .. c + 1 : h[k] # "."
      BY <3>3, <3>4
    <3>6. c + 1 \in c + 1 .. n
      BY <1>1, <3>1
    <3>7. PICK b \in Cuts(h), d \in Cuts(h) : Neighbours(h, b, d) /\ b < c + 1 /\ c + 1 < d
      BY <3>1, <3>5, <3>6, StretchInLabel DEF n
    <3>8. b \in Int /\ d \in Int /\ c \in Int
      BY <1>1, <1>2
    <3>9. b = c
      BY <3>7, <3>8 DEF Neighbours
    <3>10. h[c + 1] # "-"
      BY <2>1, <3>7, <3>9 DEF ValidBetween
    <3>11. QED BY <2>4, <3>1, <3>3, <3>10
  <2>6. ASSUME NEW d \in Cuts(h), 1 < d PROVE h[d - 1] = "a"
    <3>1. d \in 2 .. n + 1 /\ d - 1 \in 1 .. n /\ (d - 1) + 1 = d
      BY <1>1, <1>2, <2>6
    <3>2. d - 1 \notin Cuts(h)
      BY <1>1, <2>2, <3>1
    <3>3. h[d - 1] # "."
      BY <1>3, <3>1, <3>2
    <3>4. \A k \in d - 1 .. d - 1 : k = d - 1
      BY <3>1
    <3>5. \A k \in d - 1 .. d - 1 : h[k] # "."
      BY <3>3, <3>4
    <3>6. d - 1 \in d - 1 .. n
      BY <1>1, <3>1
    <3>7. PICK c \in Cuts(h), e \in Cuts(h) : Neighbours(h, c, e) /\ c < d - 1 /\ d - 1 < e
      BY <3>1, <3>5, <3>6, StretchInLabel DEF n
    <3>8. c \in Int /\ d \in Int /\ e \in Int
      BY <1>1, <1>2
    <3>9. e = d
      BY <3>7, <3>8 DEF Neighbours
    <3>10. h[d - 1] # "-"
      BY <2>1, <3>7, <3>9 DEF ValidBetween
    <3>11. QED BY <2>4, <3>1, <3>3, <3>10
  <2>7. h[1] = "a" /\ h[n] = "a"
    <3>1. 0 < n /\ 1 < n + 1 /\ 0 + 1 = 1 /\ (n + 1) - 1 = n
      BY <1>1
    <3>2. h[0 + 1] = "a" /\ h[(n + 1) - 1] = "a"
      BY <1>4, <2>5, <2>6, <3>1
    <3>3. QED BY <3>1, <3>2
  <2>8. ASSUME NEW i \in 1 .. n, h[i] # "a" PROVE i \in 2 .. n - 1
    <3>1. i # 1 /\ i # n
      BY <2>7, <2>8
    <3>2. QED BY <1>1, <3>1
  <2>9. ASSUME NEW i \in 1 .. n, h[i] = "." PROVE h[i - 1] = "a" /\ h[i + 1] = "a"
    <3>1. i \in 2 .. n - 1 /\ i \in Cuts(h)
      BY <1>3, <2>8, <2>9
    <3>2. 1 < i /\ i < n
      BY <1>1, <3>1
    <3>3. QED BY <2>5, <2>6, <3>1, <3>2
  <2>10. ASSUME NEW i \in 1 .. n - MaxLabelLen PROVE \E j \in i .. i + MaxLabelLen : h[j] = "."
    <3>1. i \in 1 .. n /\ i + MaxLabelLen \in i .. n /\ (i + MaxLabelLen) - i = MaxLabelLen
      BY <1>1
    <3>2. CASE \A k \in i .. i + MaxLabelLen : h[k] # "."
      <4>1. (i + MaxLabelLen) - i < MaxLabelLen
        BY <2>3, <3>1, <3>2
      <4>2. QED BY <1>1, <3>1, <4>1
    <3>3. QED BY <3>2
  <2>11. QED
    BY <1>1, <2>4, <2>8, <2>9, <2>10 DEF HostName, n
<1>8. ASSUME HostName(h) PROVE LabelsValid(h)
  <2>1. /\ \A i \in 1 .. n : h[i] \in {"a", "-", "."}
        /\ \A i \in 1 .. n : h[i] # "a" => i \in 2 .. n - 1
        /\ \A i \in 1 .. n : h[i] = "." => h[i - 1] = "a" /\ h[i + 1] = "a"
        /\ \A i \in 1 .. n - MaxLabelLen : \E j \in i .. i + MaxLabelLen : h[j] = "."
    BY <1>1, <1>8 DEF HostName, n
  <2> SUFFICES ASSUME NEW c \in Cuts(h), NEW d \in Cuts(h), Neighbours(h, c, d)
               PROVE  ValidBetween(h, c, d)
    BY LabelsByPosition
  <2>2. c \in 0 .. n /\ d \in 1 .. n + 1 /\ c < d
    BY <1>1, <1>2 DEF Neighbours
  <2>3. ASSUME NEW k \in c + 1 .. d - 1 PROVE k \in 1 .. n /\ h[k] # "." /\ h[k] \in {"a", "-"}
    <3>1. k \in 1 .. n /\ c < k /\ k < d
      BY <1>1, <2>2
    <3>2. k \notin Cuts(h)
      BY <3>1 DEF Neighbours
    <3>3. QED BY <1>3, <2>1, <3>1, <3>2
  \* After a cut, and before one, stands a letter.
  <2>4. c + 1 \in 1 .. n /\ h[c + 1] = "a"
    <3>1. CASE c = 0
      <4>1. 1 \in 1 .. n /\ ~(1 \in 2 .. n - 1) /\ c + 1 = 1
        BY <1>1, <3>1
      <4>2. QED BY <2>1, <4>1
    <3>2. CASE c # 0
      <4>1. c \in 1 .. n /\ h[c] = "."
        BY <1>1, <2>2, <3>2 DEF Cuts, n
      <4>2. h[c + 1] = "a" /\ c \in 2 .. n - 1
        BY <2>1, <4>1
      <4>3. QED BY <1>1, <4>2
    <3>3. QED BY <3>1, <3>2
  <2>5. d - 1 \in 1 .. n /\ h[d - 1] = "a"
    <3>1. CASE d = n + 1
      <4>1. n \in 1 .. n /\ ~(n \in 2 .. n - 1) /\ d - 1 = n
        BY <1>1, <3>1
      <4>2. QED BY <2>1, <4>1
    <3>2. CASE d # n + 1
      <4>1. d \in 1 .. n /\ h[d] = "."
        BY <1>1, <2>2, <3>2 DEF Cuts, n
      <4>2. h[d - 1] = "a" /\ d \in 2 .. n - 1
        BY <2>1, <4>1
      <4>3. QED BY <1>1, <4>2
    <3>3. QED BY <3>1, <3>2
  <2>6. d - c - 1 >= 1
    <3>1. d # c + 1
      <4>1. SUFFICES ASSUME d = c + 1 PROVE FALSE
        OBVIOUS
      <4>2. d \in 1 .. n /\ d # 0 /\ d # n + 1
        BY <1>1, <2>2, <2>4, <4>1
      <4>3. h[d] = "."
        BY <4>2 DEF Cuts, n
      <4>4. QED BY <2>4, <4>1, <4>3
    <3>2. QED BY <2>2, <1>1, <3>1
  <2>7. d - c - 1 <= MaxLabelLen
    <3>1. SUFFICES ASSUME d - c - 1 > MaxLabelLen PROVE FALSE
      BY <1>1, <2>2
    <3>2. c + 1 \in 1 .. n - MaxLabelLen
      BY <1>1, <2>2, <3>1
    <3>3. PICK j \in c + 1 .. c + 1 + MaxLabelLen : h[j] = "."
      BY <2>1, <3>2
    <3>4. j \in c + 1 .. d - 1
      BY <1>1, <2>2, <3>1
    <3>5. QED BY <2>3, <3>3, <3>4
  <2>8. d - c - 1 \in 1 .. MaxLabelLen
    BY <1>1, <2>2, <2>6, <2>7
  <2>9. QED BY <2>3, <2>4, <2>5, <2>8 DEF ValidBetween
<1>9. QED BY <1>7, <1>8

(* ListedAddress: every listed target has an address.                      *)
LEMMA ListedAddress ==
  ASSUME NEW cmd \in CommandLine, NEW i \in DOMAIN Listed(cmd)
  PROVE  Listed(cmd)[i].address \in Address
<1>1. cmd.list \in Seq(Target) /\ cmd.target \in Seq(Address)
  BY DEF CommandLine
<1>2. CASE cmd.file # ""
  <2>1. Listed(cmd) = cmd.list
    BY <1>2 DEF Listed
  <2>2. cmd.list[i] \in Target
    BY <1>1, <2>1
  <2>3. QED BY <2>1, <2>2 DEF Target
<1>3. CASE cmd.file = "" /\ cmd.target # <<>>
  <2> DEFINE only == [name |-> DefaultName, address |-> cmd.target[1]]
  <2>1. Listed(cmd) = <<only>>
    BY <1>3 DEF Listed
  <2>2. cmd.target[1] \in Address
    <3>1. ASSUME NEW s \in Seq(Address), s # <<>> PROVE s[1] \in Address
      BY <3>1
    <3>2. QED BY <1>1, <1>3, <3>1
  <2>3. i = 1
    BY <2>1
  <2>4. Listed(cmd)[i] = only
    BY <2>1, <2>3
  <2>5. QED BY <2>2, <2>4
<1>4. CASE cmd.file = "" /\ ~(cmd.target # <<>>)
  <2>1. Listed(cmd) = <<>>
    BY <1>4, Zenon DEF Listed
  <2>2. DOMAIN << >> = {}
    OBVIOUS
  <2>3. i \in {}
    BY <2>1, <2>2, Zenon
  <2>4. QED BY <2>3
<1>5. QED BY <1>2, <1>3, <1>4

(* HostsByRFC1123: whatever targets are given, the label-wise check        *)
(* accepts the IPs and the names of RFC 1123 and no others, and no other   *)
(* host is probed.                                                         *)
THEOREM HostsAreNames == Spec => []HostsByRFC1123
<1>1. SInv => HostsByRFC1123
  <2> SUFFICES ASSUME SInv, NEW i \in Targets
               PROVE  LET a == Listed(args)[i].address
                      IN  /\ a.host # <<>> => (isValidHost(a) <=> a.ip \/ HostName(a.host))
                          /\ i \in probing => a.ip \/ HostName(a.host)
    BY DEF HostsByRFC1123
  <2> DEFINE a == Listed(args)[i].address
  <2>1. a \in Address
    <3>1. args \in CommandLine /\ i \in DOMAIN Listed(args)
      BY DEF SInv, TypeOK, Targets
    <3>2. QED BY <3>1, ListedAddress
  <2>2. i \in probing => a.host # <<>> /\ isValidHost(a)
    <3> SUFFICES ASSUME i \in probing PROVE a.host # <<>> /\ isValidHost(a)
      OBVIOUS
    <3>1. Validate(args) /\ i \in DOMAIN Listed(args)
      BY DEF SInv, TypeOK, Checked, Targets
    <3>2. validateTargets(Listed(args))
      BY <3>1 DEF Validate
    <3>3. ValidateTarget(a)
      BY <3>1, <3>2 DEF validateTargets
    <3> HIDE DEF a
    <3>4. QED BY <3>3 DEF ValidateTarget
  <2> HIDE DEF a
  <2>3. ASSUME a.host # <<>> PROVE isValidHost(a) <=> a.ip \/ HostName(a.host)
    <3>1. a.host \in Seq(Characters)
      BY <2>1 DEF Address
    <3>2. isValidHost(a) <=> a.ip \/ (Len(a.host) <= MaxHostLen /\ LabelsValid(a.host))
      BY DEF isValidHost, LabelsValid
    <3>3. HostName(a.host) => Len(a.host) <= MaxHostLen
      BY DEF HostName
    <3>4. Len(a.host) <= MaxHostLen => (LabelsValid(a.host) <=> HostName(a.host))
      BY <2>3, <3>1, ByPosition
    <3>5. QED BY <3>2, <3>3, <3>4
  <2>4. QED BY <2>2, <2>3 DEF a
<1>2. QED
  BY <1>1, Inductive, PTL

=============================================================================
