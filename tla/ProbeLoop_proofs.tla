------------------------- MODULE ProbeLoop_proofs --------------------------
(***************************************************************************)
(* Theorems about ProbeLoop for all values of its constants: any interval, *)
(* timeout, threshold and queue capacity, any number of probes, panics and *)
(* duplicates.  Types come first, then the account of the probes and the   *)
(* refinement of ProbeLedger, then the link state, the jitter estimate,    *)
(* and the timeout of a turn, each invariant proved beside TypeOK and      *)
(* strengthened where it is not inductive as it stands.                    *)
(***************************************************************************)
EXTENDS ProbeLoop, AdaptiveStats_proofs, FiniteSetTheorems

-----------------------------------------------------------------------------
(* Lemmas.                                                                 *)

(* TicksType: a number of ticks in fine units is a natural number.         *)
LEMMA TicksType ==
  ASSUME NEW n \in Nat
  PROVE  n * Tick \in Nat
BY ProbeLoopAssumption

(* TimeoutType: the timeout chosen at the top of the loop is a natural     *)
(* number.                                                                 *)
LEMMA TimeoutType ==
  ASSUME stats \in Stats
  PROVE  TimeoutOfTheTurn(stats) \in Nat
BY TicksType, CurrentRTORange, ProbeLoopAssumption DEF TimeoutOfTheTurn

(* OpenFinite: finitely many probes are open, and so are those a sweep     *)
(* finds late.                                                             *)
LEMMA OpenFinite ==
  ASSUME StateType, OpenType
  PROVE  /\ IsFiniteSet(DOMAIN pending)
         /\ \A S \in SUBSET DOMAIN pending : IsFiniteSet(S) /\ Cardinality(S) \in Nat
<1>1. IsFiniteSet(1 .. seq)
  <2>1. seq \in Int
    BY ProbeLoopAssumption DEF StateType
  <2>2. QED
    BY <2>1, FS_Interval
<1>2. IsFiniteSet(DOMAIN pending)
  BY <1>1, FS_Subset DEF OpenType
<1>3. QED
  BY <1>2, FS_Subset, FS_CardinalityType

(* EmptyOpen: a session that has ended leaves no probe open.               *)
LEMMA EmptyOpen ==
  ASSUME pending' = << >>
  PROVE  OpenType'
<1>1. DOMAIN pending' = {} /\ pending' \in [{} -> 0 .. AgeCap]
  OBVIOUS
<1>2. QED
  BY <1>1 DEF OpenType

(* FewerOpen: settling probes leaves an age for each other one.            *)
LEMMA FewerOpen ==
  ASSUME OpenType, NEW S, pending' = Restrict(pending, DOMAIN pending \ S), seq' = seq
  PROVE  OpenType' /\ DOMAIN pending' = DOMAIN pending \ S
<1> DEFINE D == DOMAIN pending \ S
<1>1. pending' = [s \in D |-> pending[s]]
  BY DEF Restrict
<1>2. DOMAIN pending' = D
  BY <1>1
<1>3. \A s \in D : pending'[s] \in 0 .. AgeCap
  BY <1>1 DEF OpenType
<1>4. QED
  BY <1>1, <1>2, <1>3 DEF OpenType

-----------------------------------------------------------------------------
(* Type correctness.                                                       *)

LEMMA InitType == Init => TypeOK
<1> SUFFICES ASSUME Init PROVE TypeOK
  OBVIOUS
<1>1. stats \in Stats
  BY TicksType, ProbeLoopAssumption DEF Init, NewAdaptiveStats, Stats
<1>2. OpenType
  <2>1. DOMAIN pending = {} /\ pending \in [{} -> 0 .. AgeCap]
    BY DEF Init
  <2>2. QED
    BY <2>1 DEF OpenType
<1>3. respCh = << >> /\ Len(<< >>) = 0 /\ << >> \in Seq(Response)
  BY DEF Init
<1>4. NetType
  <2>1. reader = "none" /\ held = {} /\ wire = {} /\ dups \in 0 .. MaxDups
    BY ProbeLoopAssumption DEF Init
  <2>2. QED
    BY <1>3, <2>1, ProbeLoopAssumption DEF NetType
<1>5. ControlType
  <2>1. ctxDone \in BOOLEAN
    BY Zenon DEF Init
  <2>2. 0 \in 0 .. maxConsecutiveWriteFails + 1 /\ 0 \in 0 .. MaxPanics
        /\ 0 \in 0 .. ReconnectInterval
    BY ProbeLoopAssumption
  <2>3. QED
    BY <2>1, <2>2 DEF Init, ControlType
<1>6. StateType
  BY ProbeLoopAssumption DEF Init, StateType
<1>7. MetricsType /\ HistoryType
  BY DEF Init, MetricsType, HistoryType
<1>8. QED
  BY <1>1, <1>2, <1>4, <1>5, <1>6, <1>7 DEF TypeOK

(* What an action leaves alone keeps its type.                             *)
LEMMA Kept ==
  ASSUME TypeOK
  PROVE  /\ UNCHANGED <<pc, ctxDone, panics, turn>> => ControlType'
         /\ UNCHANGED stats => (stats \in Stats)'
         /\ UNCHANGED state => StateType'
         /\ UNCHANGED <<pending, seq>> => OpenType'
         /\ UNCHANGED net => NetType'
         /\ UNCHANGED metrics => MetricsType'
         /\ UNCHANGED <<history, seq>> => HistoryType'
<1>1. ASSUME UNCHANGED <<pc, ctxDone, panics, turn>> PROVE ControlType'
  BY <1>1 DEF TypeOK, ControlType, turn
<1>2. ASSUME UNCHANGED state PROVE StateType'
  BY <1>2 DEF TypeOK, StateType, state
<1>3. ASSUME UNCHANGED <<pending, seq>> PROVE OpenType'
  BY <1>3 DEF TypeOK, OpenType
<1>4. ASSUME UNCHANGED net PROVE NetType'
  BY <1>4 DEF TypeOK, NetType, net
<1>5. ASSUME UNCHANGED metrics PROVE MetricsType'
  BY <1>5 DEF TypeOK, MetricsType, metrics
<1>6. ASSUME UNCHANGED <<history, seq>> PROVE HistoryType'
  BY <1>6 DEF TypeOK, HistoryType, history
<1>7. QED
  BY <1>1, <1>2, <1>3, <1>4, <1>5, <1>6 DEF TypeOK

(* SessionOverType: the end of a session empties the reader's side.        *)
LEMMA SessionOverType ==
  ASSUME NetType, SessionOver
  PROVE  NetType'
<1>1. respCh' = << >> /\ Len(<< >>) = 0 /\ << >> \in Seq(Response)
  BY DEF SessionOver
<1>2. reader' = "none" /\ held' = {} /\ wire' = {} /\ dups' \in 0 .. MaxDups
  BY DEF SessionOver, NetType
<1>3. QED
  BY <1>1, <1>2, ProbeLoopAssumption DEF NetType

\* Leaves below name the groups of TypeOK an action disturbs; Kept gives the
\* others.
LEMMA StepType == TypeOK /\ [Next]_vars => TypeOK'
<1> SUFFICES ASSUME TypeOK, [Next]_vars PROVE TypeOK'
  OBVIOUS
<1>1. CASE DialOK
  <2>1. ControlType'
    <3>1. ctxDone' \in BOOLEAN /\ panics' \in 0 .. MaxPanics
      BY <1>1, Zenon DEF TypeOK, ControlType, DialOK
    <3>2. pc' = "wait" /\ timer' \in Nat /\ rto' \in Nat
      BY <1>1, TimeoutType, ProbeLoopAssumption DEF TypeOK, DialOK, LoopTop
    <3>3. sockAge' \in 0 .. ReconnectInterval
          /\ writeFails' \in 0 .. maxConsecutiveWriteFails + 1
      BY <1>1, ProbeLoopAssumption DEF DialOK
    <3>4. QED
      BY <3>1, <3>2, <3>3 DEF ControlType
  <2>2. NetType'
    BY <1>1 DEF TypeOK, NetType, DialOK
  <2>3. QED
    BY <1>1, <2>1, <2>2, Kept DEF TypeOK, DialOK, state
<1>2. CASE DialFail
  <2>1. ControlType'
    BY <1>2, ProbeLoopAssumption DEF TypeOK, ControlType, DialFail
  <2>2. MetricsType'
    BY <1>2 DEF TypeOK, MetricsType, DialFail
  <2>3. QED
    BY <1>2, <2>1, <2>2, Kept DEF TypeOK, DialFail, state
<1>3. CASE RetryDial
  <2>1. ControlType'
    BY <1>3 DEF TypeOK, ControlType, RetryDial, turn
  <2>2. QED
    BY <1>3, <2>1, Kept DEF TypeOK, RetryDial, state
<1>4. CASE StopWhilePaused
  <2>1. ControlType'
    BY <1>4 DEF TypeOK, ControlType, StopWhilePaused, turn
  <2>2. QED
    BY <1>4, <2>1, Kept DEF TypeOK, StopWhilePaused, state
<1>5. CASE Fire
  <2>1. ControlType'
    BY <1>5 DEF TypeOK, ControlType, Fire, turn
  <2>2. QED
    BY <1>5, <2>1, Kept DEF TypeOK, Fire, state
<1>6. CASE StopSession
  <2>1. ControlType'
    BY <1>6 DEF TypeOK, ControlType, StopSession, turn
  <2>2. OpenType' /\ NetType'
    BY <1>6, EmptyOpen, SessionOverType DEF TypeOK, StopSession
  <2>3. MetricsType'
    BY <1>6, OpenFinite DEF TypeOK, MetricsType, StopSession
  <2>4. QED
    BY <1>6, <2>1, <2>2, <2>3, Kept DEF TypeOK, StopSession, state
<1>7. CASE CountEcho
  <2> DEFINE r == Head(respCh)
  <2>1. r \in Response /\ Tail(respCh) \in Seq(Response) /\ Len(Tail(respCh)) <= RespChCap
    BY <1>7, ProbeLoopAssumption DEF TypeOK, NetType, CountEcho
  <2>2. r.rtt \in Nat /\ r.seq \in DOMAIN pending /\ r.seq \in 1 .. seq
    BY <1>7, <2>1 DEF TypeOK, OpenType, CountEcho, Matches, Response
  <2>3. stats' \in Stats
    BY <1>7, <2>2, TicksType, UpdateType DEF TypeOK, CountEcho, StatsAfterEcho
  <2>4. OpenType'
    BY <1>7, FewerOpen DEF TypeOK, CountEcho
  <2>5. StateType'
    <3>1. r.seq \in 0 .. seq /\ r.rtt \in 0 .. MaxRTT
      BY <2>1, <2>2 DEF Response
    <3>2. QED
      BY <1>7, <3>1, ProbeLoopAssumption DEF TypeOK, StateType, CountEcho
  <2>6. NetType'
    BY <1>7, <2>1 DEF TypeOK, NetType, CountEcho
  <2>7. MetricsType'
    BY <1>7 DEF TypeOK, MetricsType, CountEcho
  <2>8. HistoryType'
    BY <1>7, <2>2 DEF TypeOK, HistoryType, CountEcho
  <2>9. QED
    BY <1>7, <2>3, <2>4, <2>5, <2>6, <2>7, <2>8, Kept DEF TypeOK, CountEcho
<1>8. CASE DiscardEcho
  <2>1. Tail(respCh) \in Seq(Response) /\ Len(Tail(respCh)) <= RespChCap
    BY <1>8, ProbeLoopAssumption DEF TypeOK, NetType, DiscardEcho
  <2>2. NetType'
    BY <1>8, <2>1 DEF TypeOK, NetType, DiscardEcho
  <2>3. QED
    BY <1>8, <2>2, Kept DEF TypeOK, DiscardEcho, state
<1>9. CASE Sweep
  <2> DEFINE late == {s \in DOMAIN pending : Expired(s)}
  <2>1. late \subseteq DOMAIN pending /\ Cardinality(late) \in Nat
    BY OpenFinite DEF TypeOK
  <2>2. ControlType'
    BY <1>9 DEF TypeOK, ControlType, Sweep, turn
  <2>3. stats' \in Stats
    BY <1>9, BackoffType DEF TypeOK, Sweep, StatsAfterSweep
  <2>4. OpenType'
    BY <1>9, FewerOpen DEF TypeOK, Sweep
  <2>5. StateType'
    BY <1>9, <2>1 DEF TypeOK, StateType, Sweep
  <2>6. MetricsType'
    BY <1>9, <2>1 DEF TypeOK, MetricsType, Sweep, LinkAfter
  <2>7. HistoryType'
    BY <1>9, <2>1 DEF TypeOK, OpenType, HistoryType, Sweep
  <2>8. QED
    BY <1>9, <2>2, <2>3, <2>4, <2>5, <2>6, <2>7, Kept DEF TypeOK, Sweep
<1>10. CASE Reconnect
  <2>1. ControlType'
    BY <1>10 DEF TypeOK, ControlType, Reconnect, turn
  <2>2. OpenType' /\ NetType'
    BY <1>10, EmptyOpen, SessionOverType DEF TypeOK, Reconnect, Abandon
  <2>3. MetricsType'
    BY <1>10, OpenFinite DEF TypeOK, MetricsType, Reconnect, Abandon, CountAbandoned
  <2>4. HistoryType'
    BY <1>10 DEF TypeOK, OpenType, HistoryType, Reconnect, Abandon, state
  <2>5. QED
    BY <1>10, <2>1, <2>2, <2>3, <2>4, Kept DEF TypeOK, Reconnect
<1>11. CASE SendPanic
  <2>1. ControlType'
    BY <1>11, ProbeLoopAssumption DEF TypeOK, ControlType, SendPanic
  <2>2. OpenType' /\ NetType'
    BY <1>11, EmptyOpen, SessionOverType DEF TypeOK, SendPanic, Abandon
  <2>3. MetricsType'
    BY <1>11, OpenFinite DEF TypeOK, MetricsType, SendPanic, Abandon, CountAbandoned
  <2>4. HistoryType'
    BY <1>11 DEF TypeOK, OpenType, HistoryType, SendPanic, Abandon, state
  <2>5. QED
    BY <1>11, <2>1, <2>2, <2>3, <2>4, Kept DEF TypeOK, SendPanic
<1>12. CASE SendOK
  <2>1. seq' \in 0 .. MaxProbes /\ seq' = seq + 1 /\ seq \in Nat /\ seq' \in Nat \ {0}
    BY <1>12, ProbeLoopAssumption DEF TypeOK, StateType, SendOK
  <2>2. ControlType'
    BY <1>12, TimeoutType, ProbeLoopAssumption DEF TypeOK, ControlType, SendOK, LoopTop
  <2>3. StateType'
    BY <1>12, <2>1 DEF TypeOK, StateType, SendOK
  <2>4. OpenType'
    <3> DEFINE D == DOMAIN pending \cup {seq'}
    <3>1. pending' = [s \in D |-> IF s = seq' THEN 0 ELSE pending[s]]
      BY <1>12 DEF SendOK
    <3>2. \A s \in D : (IF s = seq' THEN 0 ELSE pending[s]) \in 0 .. AgeCap
      BY ProbeLoopAssumption DEF TypeOK, OpenType
    <3>3. D \subseteq 1 .. seq'
      BY <2>1 DEF TypeOK, OpenType
    <3>4. QED
      BY <3>1, <3>2, <3>3 DEF OpenType
  <2>5. NetType'
    <3>1. [seq |-> seq', ok |-> TRUE] \in Datagram
      BY <2>1 DEF Datagram
    <3>2. QED
      BY <1>12, <3>1 DEF TypeOK, NetType, SendOK
  <2>6. MetricsType' /\ HistoryType'
    BY <1>12, <2>1 DEF TypeOK, MetricsType, HistoryType, SendOK, history
  <2>7. QED
    BY <1>12, <2>2, <2>3, <2>4, <2>5, <2>6 DEF TypeOK, SendOK
<1>13. CASE SendFail
  <2>1. ControlType'
    BY <1>13, TimeoutType, ProbeLoopAssumption
       DEF TypeOK, ControlType, SendFail, LoopTop, Smaller
  <2>2. MetricsType'
    BY <1>13 DEF TypeOK, MetricsType, SendFail, LinkOnWriteFail
  <2>3. QED
    BY <1>13, <2>1, <2>2, Kept DEF TypeOK, SendFail, state
<1>14. ASSUME NEW m \in wire, Receive(m) PROVE TypeOK'
  <2>1. Stamped(m) \in Response
    BY <1>14, ProbeLoopAssumption
       DEF TypeOK, NetType, OpenType, Receive, Stamped, Response, Datagram
  <2>2. NetType'
    BY <1>14, <2>1, ProbeLoopAssumption DEF TypeOK, NetType, Receive
  <2>3. QED
    BY <1>14, <2>2, Kept DEF TypeOK, Receive, state
<1>15. ASSUME NEW m \in wire, Corrupt(m) PROVE TypeOK'
  <2>1. [m EXCEPT !.ok = FALSE] \in Datagram
    BY <1>15 DEF TypeOK, NetType, Datagram
  <2>2. NetType'
    BY <1>15, <2>1 DEF TypeOK, NetType, Corrupt
  <2>3. QED
    BY <1>15, <2>2, Kept DEF TypeOK, Corrupt, state
<1>16. CASE ReaderPush
  <2>1. PICK r \in held : respCh' = Append(respCh, r)
    BY <1>16 DEF ReaderPush
  <2>2. respCh' \in Seq(Response) /\ Len(respCh') <= RespChCap
    BY <1>16, <2>1, ProbeLoopAssumption DEF TypeOK, NetType, ReaderPush, Room
  <2>3. NetType'
    BY <1>16, <2>2 DEF TypeOK, NetType, ReaderPush
  <2>4. QED
    BY <1>16, <2>3, Kept DEF TypeOK, ReaderPush, state
<1>17. CASE ReaderExits
  <2>1. NetType'
    BY <1>17 DEF TypeOK, NetType, ReaderExits
  <2>2. QED
    BY <1>17, <2>1, Kept DEF TypeOK, ReaderExits, state
<1>18. CASE TimePasses
  <2>1. ControlType'
    BY <1>18, ProbeLoopAssumption DEF TypeOK, ControlType, TimePasses, Smaller, Larger
  <2>2. OpenType'
    <3>1. pending' = [s \in DOMAIN pending |-> Smaller(pending[s] + 1, AgeCap)]
      BY <1>18 DEF TimePasses
    <3>2. \A s \in DOMAIN pending : Smaller(pending[s] + 1, AgeCap) \in 0 .. AgeCap
      BY ProbeLoopAssumption DEF TypeOK, OpenType, Smaller
    <3>3. QED
      BY <1>18, <3>1, <3>2 DEF TypeOK, OpenType, TimePasses, state
  <2>3. QED
    BY <1>18, <2>1, <2>2, Kept DEF TypeOK, TimePasses, state
<1>19. CASE Cancel
  <2>1. ControlType'
    BY <1>19 DEF TypeOK, ControlType, Cancel, turn
  <2>2. QED
    BY <1>19, <2>1, Kept DEF TypeOK, Cancel, state
<1>20. CASE UNCHANGED vars
  BY <1>20, Kept DEF TypeOK, vars, state
<1>21. QED
  BY <1>1, <1>2, <1>3, <1>4, <1>5, <1>6, <1>7, <1>8, <1>9, <1>10, <1>11, <1>12, <1>13,
     <1>14, <1>15, <1>16, <1>17, <1>18, <1>19, <1>20 DEF Next, Retry, Drain, Send, Stopped

(* TypeCorrect: the loop, its reader and its metrics stay within their     *)
(* types; in particular respCh never holds more than its capacity and no   *)
(* sequence number is pending that was not sent.                           *)
THEOREM TypeCorrect == Spec => []TypeOK
BY InitType, StepType, PTL DEF Spec

-----------------------------------------------------------------------------
(* The account of the probes.  The loop keeps an exact account of those it *)
(* sends, and so implements ProbeLedger.                                   *)

\* A goroutine that has no session has no open probe.
NoneOpen == pc \in {"dial", "pause", "stopped"} => DOMAIN pending = {}

IInv == TypeOK /\ Accounts /\ NoneOpen

\* What Accounts reads besides pc and the ages of the open probes.
accounts == <<DOMAIN pending, seq, sent, rttCount, timedOut, inflight, echoed, lost>>

-----------------------------------------------------------------------------
(* Lemmas.                                                                 *)

(* AllFinite: the three places of a probe are finite.                      *)
LEMMA AllFinite ==
  ASSUME TypeOK
  PROVE  IsFiniteSet(DOMAIN pending) /\ IsFiniteSet(echoed) /\ IsFiniteSet(lost)
<1>1. IsFiniteSet(1 .. seq)
  <2>1. seq \in Int
    BY ProbeLoopAssumption DEF TypeOK, StateType
  <2>2. QED
    BY <2>1, FS_Interval
<1>2. QED
  BY <1>1, FS_Subset DEF TypeOK, OpenType, HistoryType

(* Joining: probes in two places without a common one add up.              *)
LEMMA Joining ==
  ASSUME NEW P, NEW Q, IsFiniteSet(P), IsFiniteSet(Q), P \cap Q = {}
  PROVE  /\ IsFiniteSet(P \cup Q)
         /\ Cardinality(P \cup Q) = Cardinality(P) + Cardinality(Q)
         /\ Cardinality(P) \in Nat /\ Cardinality(Q) \in Nat
<1>1. Cardinality(P) \in Nat /\ Cardinality(Q) \in Nat
  BY FS_CardinalityType
<1>2. Cardinality(P \cap Q) = 0
  BY FS_EmptySet
<1>3. /\ IsFiniteSet(P \cup Q)
      /\ Cardinality(P \cup Q) = Cardinality(P) + Cardinality(Q) - Cardinality(P \cap Q)
  BY FS_Union
<1>4. QED
  BY <1>1, <1>2, <1>3

(* Leaving: some probes leave a place, and their number its count.         *)
LEMMA Leaving ==
  ASSUME NEW P, IsFiniteSet(P), NEW S \in SUBSET P
  PROVE  /\ Cardinality(P) \in Nat /\ Cardinality(S) \in Nat
         /\ Cardinality(P \ S) = Cardinality(P) - Cardinality(S)
<1>1. IsFiniteSet(S)
  BY FS_Subset
<1>2. P \cap S = S
  OBVIOUS
<1>3. QED BY <1>1, <1>2, FS_CardinalityType, FS_Difference

(* Undisturbed: a step that leaves the accounts and the end of the loop    *)
(* alone keeps them right.                                                 *)
LEMMA Undisturbed ==
  ASSUME Accounts, UNCHANGED accounts, pc' = "stopped" \/ pc # "stopped"
  PROVE  Accounts'
<1>1. Verdicts'
  BY DEF Accounts, Verdicts, accounts
<1>2. Covered'
  BY DEF Accounts, Covered, accounts
<1>3. Counted'
  BY DEF Accounts, Counted, accounts
<1>4. QED
  BY <1>1, <1>2, <1>3 DEF Accounts

(* Abandoned: a session that ends early counts its open probes as lost.    *)
LEMMA Abandoned ==
  ASSUME IInv, pc # "stopped", Abandon, UNCHANGED <<seq, sent, rttCount, echoed>>
  PROVE  Accounts' /\ NoneOpen'
<1> DEFINE P == DOMAIN pending
<1>1. P' = {} /\ lost' = lost \cup P
  BY DEF Abandon
<1>2. P \cap lost = {} /\ P \cap echoed = {} /\ echoed \cap lost = {}
  BY DEF IInv, Accounts, Verdicts
<1>3. Cardinality(lost \cup P) = Cardinality(lost) + Cardinality(P)
      /\ Cardinality(P) \in Nat
  <2>1. IsFiniteSet(P) /\ IsFiniteSet(lost)
    BY AllFinite DEF IInv
  <2> HIDE DEF P
  <2>2. lost \cap P = {}
    BY <1>2
  <2>3. QED
    BY <2>1, <2>2, Joining
<1>4. Verdicts'
  BY <1>1, <1>2 DEF Verdicts
<1>5. Covered'
  BY <1>1 DEF IInv, Accounts, Covered
<1>6. Counted'
  <2>1. timedOut' = Cardinality(lost')
    BY <1>1, <1>3 DEF IInv, Accounts, Counted, Abandon, CountAbandoned
  <2>2. inflight' = Cardinality(P')
    BY <1>1, <1>3, FS_EmptySet DEF IInv, Accounts, Counted, Abandon
  <2>3. QED
    BY <2>1, <2>2 DEF IInv, Accounts, Counted
<1>7. QED
  BY <1>1, <1>4, <1>5, <1>6 DEF Accounts, NoneOpen

-----------------------------------------------------------------------------
(* The invariant is inductive.                                             *)

LEMMA InitAccounts == Init => IInv
<1> SUFFICES ASSUME Init PROVE IInv
  OBVIOUS
<1>1. DOMAIN pending = {} /\ echoed = {} /\ lost = {} /\ seq = 0
  BY DEF Init
<1>2. Verdicts /\ Covered
  BY <1>1 DEF Verdicts, Covered
<1>3. Counted
  BY <1>1, FS_EmptySet DEF Counted, Init
<1>4. QED
  BY <1>1, <1>2, <1>3, InitType DEF IInv, Accounts, NoneOpen

LEMMA StepAccounts == IInv /\ [Next]_vars => IInv'
<1> SUFFICES ASSUME IInv, [Next]_vars PROVE Accounts' /\ NoneOpen'
  BY StepType DEF IInv
<1> USE DEF IInv
<1>1. CASE DialOK
  BY <1>1, Undisturbed DEF DialOK, LoopTop, NoneOpen, accounts, state, metrics, history
<1>2. CASE DialFail
  BY <1>2, Undisturbed DEF DialFail, NoneOpen, accounts, state, history
<1>3. CASE RetryDial
  BY <1>3, Undisturbed DEF RetryDial, NoneOpen, accounts, state, metrics, history
<1>4. CASE StopWhilePaused
  BY <1>4, Undisturbed DEF StopWhilePaused, NoneOpen, accounts, state, metrics, history
<1>5. CASE Fire
  BY <1>5, Undisturbed DEF Fire, NoneOpen, accounts, state, metrics, history
<1>6. CASE StopSession
  <2>1. DOMAIN pending' = {} /\ pc' = "stopped"
    BY <1>6 DEF StopSession
  <2>2. Verdicts' /\ Covered'
    BY <1>6, <2>1 DEF Accounts, Verdicts, Covered, StopSession, history
  <2>3. inflight' = Cardinality(DOMAIN pending')
    BY <1>6, <2>1, FS_EmptySet, AllFinite, FS_CardinalityType
       DEF Accounts, Counted, StopSession
  <2>4. Counted'
    BY <1>6, <2>3 DEF Accounts, Counted, StopSession, state, history
  <2>5. QED
    BY <2>1, <2>2, <2>4 DEF Accounts, NoneOpen
<1>7. CASE CountEcho
  <2> DEFINE s == Head(respCh).seq
             P == DOMAIN pending
  <2>1. s \in P /\ P' = P \ {s} /\ seq' = seq
    BY <1>7, FewerOpen DEF CountEcho, Matches, TypeOK
  <2>2. echoed' = echoed \cup {s} /\ lost' = lost
    BY <1>7 DEF CountEcho
  <2>3. Cardinality(P \ {s}) = Cardinality(P) - 1
        /\ Cardinality(echoed \cup {s}) = Cardinality(echoed) + 1
    <3>1. IsFiniteSet(P) /\ IsFiniteSet(echoed) /\ P \cap echoed = {}
      BY AllFinite DEF Accounts, Verdicts
    <3> HIDE DEF P, s
    <3>2. {s} \in SUBSET P /\ Cardinality({s}) = 1
      BY <2>1, FS_Singleton
    <3>3. Cardinality(P \ {s}) = Cardinality(P) - Cardinality({s})
      BY <3>1, <3>2, Leaving
    <3>4. IsFiniteSet({s}) /\ echoed \cap {s} = {}
      BY <3>1, <3>2, FS_Singleton
    <3>5. Cardinality(echoed \cup {s}) = Cardinality(echoed) + Cardinality({s})
      BY <3>1, <3>4, Joining
    <3>6. QED
      BY <3>2, <3>3, <3>5
  <2> HIDE DEF s, P
  <2>4. Verdicts' /\ Covered'
    BY <1>7, <2>1, <2>2 DEF Accounts, Verdicts, Covered, CountEcho, P
  <2>5. Counted'
    BY <1>7, <2>1, <2>2, <2>3 DEF Accounts, Counted, CountEcho, P
  <2>6. QED
    BY <1>7, <2>4, <2>5 DEF Accounts, NoneOpen, CountEcho
<1>8. CASE DiscardEcho
  BY <1>8, Undisturbed DEF DiscardEcho, NoneOpen, accounts, state, metrics, history
<1>9. CASE Sweep
  <2> DEFINE P == DOMAIN pending
             S == {s \in P : Expired(s)}
  <2>1. S \subseteq P /\ P' = P \ S /\ seq' = seq
    BY <1>9, FewerOpen DEF Sweep, TypeOK
  <2>2. lost' = lost \cup S /\ echoed' = echoed
    BY <1>9 DEF Sweep
  <2>3. Cardinality(P \ S) = Cardinality(P) - Cardinality(S)
        /\ Cardinality(lost \cup S) = Cardinality(lost) + Cardinality(S)
    <3>1. IsFiniteSet(P) /\ IsFiniteSet(lost) /\ P \cap lost = {}
      BY AllFinite DEF Accounts, Verdicts
    <3>2. S \in SUBSET P
      OBVIOUS
    <3> HIDE DEF P, S
    <3>3. Cardinality(P \ S) = Cardinality(P) - Cardinality(S)
      BY <3>1, <3>2, Leaving
    <3>4. IsFiniteSet(S) /\ lost \cap S = {}
      BY <3>1, <3>2, FS_Subset
    <3>5. Cardinality(lost \cup S) = Cardinality(lost) + Cardinality(S)
      BY <3>1, <3>4, Joining
    <3>6. QED
      BY <3>3, <3>5
  <2>4. timedOut' = timedOut + Cardinality(S) /\ inflight' = inflight - Cardinality(S)
    BY <1>9 DEF Sweep
  <2> HIDE DEF S, P
  <2>5. Verdicts' /\ Covered'
    BY <1>9, <2>1, <2>2 DEF Accounts, Verdicts, Covered, Sweep, P
  <2>6. Counted'
    BY <1>9, <2>1, <2>2, <2>3, <2>4 DEF Accounts, Counted, Sweep, P
  <2>7. QED
    BY <1>9, <2>5, <2>6 DEF Accounts, NoneOpen, Sweep
<1>10. CASE Reconnect
  BY <1>10, Abandoned DEF Reconnect, state
<1>11. CASE SendPanic
  BY <1>11, Abandoned DEF SendPanic, state
<1>12. CASE SendOK
  <2> DEFINE P == DOMAIN pending
  <2>1. seq \in Nat /\ seq' = seq + 1 /\ P' = P \cup {seq'}
    BY <1>12, ProbeLoopAssumption DEF SendOK, TypeOK, StateType
  <2>2. UNCHANGED <<echoed, lost, rttCount, timedOut>>
    BY <1>12 DEF SendOK, history
  <2>3. seq' \notin P /\ seq' \notin echoed /\ seq' \notin lost
    BY <2>1 DEF TypeOK, OpenType, HistoryType
  <2>4. Cardinality(P \cup {seq'}) = Cardinality(P) + 1
    BY <2>3, AllFinite, FS_AddElement
  <2>5. 1 .. seq' = (1 .. seq) \cup {seq'}
    BY <2>1
  <2> HIDE DEF P
  <2>6. Verdicts'
    BY <2>1, <2>2, <2>3 DEF Accounts, Verdicts, P
  <2>7. Covered'
    BY <1>12, <2>1, <2>2, <2>5 DEF Accounts, Covered, SendOK, P
  <2>8. Counted'
    BY <1>12, <2>1, <2>2, <2>4 DEF Accounts, Counted, SendOK, P
  <2>9. QED
    BY <1>12, <2>6, <2>7, <2>8 DEF Accounts, NoneOpen, SendOK, LoopTop
<1>13. CASE SendFail
  BY <1>13, Undisturbed DEF SendFail, LoopTop, NoneOpen, accounts, state, history
<1>14. ASSUME NEW m \in wire, Receive(m) PROVE Accounts' /\ NoneOpen'
  BY <1>14, Undisturbed DEF Receive, NoneOpen, accounts, state, metrics, history
<1>15. ASSUME NEW m \in wire, Corrupt(m) PROVE Accounts' /\ NoneOpen'
  BY <1>15, Undisturbed DEF Corrupt, NoneOpen, accounts, state, metrics, history
<1>16. CASE ReaderPush
  BY <1>16, Undisturbed DEF ReaderPush, NoneOpen, accounts, state, metrics, history
<1>17. CASE ReaderExits
  BY <1>17, Undisturbed DEF ReaderExits, NoneOpen, accounts, state, metrics, history
<1>18. CASE TimePasses
  <2>1. DOMAIN pending' = DOMAIN pending
    BY <1>18 DEF TimePasses
  <2>2. QED
    BY <1>18, <2>1, Undisturbed
       DEF TimePasses, NoneOpen, accounts, state, metrics, history
<1>19. CASE Cancel
  BY <1>19, Undisturbed DEF Cancel, NoneOpen, accounts, state, metrics, history
<1>20. CASE UNCHANGED vars
  BY <1>20, Undisturbed DEF vars, NoneOpen, accounts, state, metrics, history
<1>21. QED
  BY <1>1, <1>2, <1>3, <1>4, <1>5, <1>6, <1>7, <1>8, <1>9, <1>10, <1>11, <1>12, <1>13,
     <1>14, <1>15, <1>16, <1>17, <1>18, <1>19, <1>20 DEF Next, Retry, Drain, Send, Stopped

(* Inductive: the accounts and the types hold in every reachable state.    *)
LEMMA Inductive == Spec => []IInv
BY InitAccounts, StepAccounts, PTL DEF Spec

-----------------------------------------------------------------------------
(* AccountsHold: every probe is in one place, and every exported counter   *)
(* is the size of its place, in every reachable state.                     *)
THEOREM AccountsHold == Spec => []Accounts
<1>1. IInv => Accounts
  BY DEF IInv
<1>2. QED
  BY <1>1, Inductive, PTL

(* BalanceHolds: sent = rtt count + timed out + inflight before shutdown,  *)
(* and nothing in flight after it.                                         *)
THEOREM BalanceHolds == Spec => []Balance
<1>1. IInv => Balance
  <2> SUFFICES ASSUME IInv PROVE Balance
    OBVIOUS
  <2> DEFINE P == DOMAIN pending
             E == echoed
             L == lost
  <2>1. /\ IsFiniteSet(P) /\ IsFiniteSet(E) /\ IsFiniteSet(L)
        /\ E \cap L = {} /\ (E \cup L) \cap P = {}
        /\ E \subseteq 1 .. seq /\ L \subseteq 1 .. seq /\ seq \in Nat
    BY AllFinite, ProbeLoopAssumption
       DEF IInv, Accounts, Verdicts, TypeOK, HistoryType, StateType
  <2>2. /\ sent = seq /\ rttCount = Cardinality(E) /\ timedOut = Cardinality(L)
        /\ inflight = Cardinality(P)
    BY DEF IInv, Accounts, Counted
  <2>3. pc # "stopped" => 1 .. seq = (E \cup L) \cup P
    BY DEF IInv, Accounts, Covered
  <2>4. pc = "stopped" => P = {}
    BY DEF IInv, NoneOpen
  <2> HIDE DEF P, E, L
  <2>5. /\ IsFiniteSet(E \cup L)
        /\ Cardinality(E \cup L) = Cardinality(E) + Cardinality(L)
        /\ Cardinality(E) \in Nat /\ Cardinality(L) \in Nat
    BY <2>1, Joining
  <2>6. IsFiniteSet(1 .. seq) /\ Cardinality(1 .. seq) = seq
    BY <2>1, FS_Interval
  <2>7. Cardinality((E \cup L) \cup P) = Cardinality(E \cup L) + Cardinality(P)
        /\ Cardinality(P) \in Nat
    BY <2>1, <2>5, Joining
  <2>8. Cardinality(E \cup L) <= seq
    <3>1. E \cup L \in SUBSET (1 .. seq)
      BY <2>1
    <3>2. QED
      BY <3>1, <2>6, FS_Subset
  <2>9. QED
    BY <2>2, <2>3, <2>4, <2>5, <2>6, <2>7, <2>8, FS_EmptySet DEF Balance
<1>2. QED
  BY <1>1, Inductive, PTL

-----------------------------------------------------------------------------
(* Refinement: each step of the loop is a step of the ledger or leaves it  *)
(* as it is.                                                               *)

LEMMA LedgerInit == Init => Ledger!Init
BY DEF Init, Ledger!Init

LEMMA LedgerStep == IInv /\ IInv' /\ [Next]_vars => [Ledger!Next]_(Ledger!vars)
<1> SUFFICES ASSUME IInv, IInv', [Next]_vars PROVE Ledger!Next \/ UNCHANGED Ledger!vars
  OBVIOUS
<1> DEFINE P == DOMAIN pending
           Same == P' = P /\ UNCHANGED <<seq, echoed, lost>>
                   /\ (pc' = "stopped" <=> pc = "stopped")
<1>1. Same => UNCHANGED Ledger!vars
  BY DEF Ledger!vars
<1>2. CASE DialOK \/ DialFail \/ RetryDial \/ Fire \/ DiscardEcho \/ SendFail \/ Cancel
  BY <1>1, <1>2 DEF DialOK, DialFail, RetryDial, Fire, DiscardEcho, SendFail, Cancel,
                    LoopTop, state, history
<1>3. CASE ReaderPush \/ ReaderExits \/ Stopped \/ UNCHANGED vars
  BY <1>1, <1>3 DEF ReaderPush, ReaderExits, Stopped, vars, state, history
<1>4. CASE \E m \in wire : Receive(m) \/ Corrupt(m)
  BY <1>1, <1>4 DEF Receive, Corrupt, state, history
<1>5. CASE TimePasses
  <2>1. P' = P
    BY <1>5 DEF TimePasses
  <2>2. QED
    BY <1>1, <1>5, <2>1 DEF TimePasses, state, history
<1>6. CASE StopWhilePaused \/ StopSession
  <2>1. P' = {} /\ pc # "stopped" /\ pc' = "stopped" /\ UNCHANGED <<seq, echoed, lost>>
    BY <1>6 DEF StopWhilePaused, StopSession, IInv, NoneOpen, state, history
  <2>2. {} \in SUBSET P /\ Ledger!Close({})
    BY <2>1 DEF Ledger!Close
  <2>3. QED
    BY <2>2 DEF Ledger!Next
<1>7. CASE CountEcho
  <2> DEFINE s == Head(respCh).seq
  <2>1. s \in P /\ P' = P \ {s}
    BY <1>7, FewerOpen DEF CountEcho, Matches, IInv, TypeOK
  <2>2. Ledger!Echo(s)
    BY <1>7, <2>1 DEF CountEcho, Ledger!Echo
  <2>3. QED
    BY <2>1, <2>2 DEF Ledger!Next
<1>8. CASE Sweep
  <2> DEFINE S == {s \in P : Expired(s)}
  <2>1. S \in SUBSET P /\ P' = P \ S
    BY <1>8, FewerOpen DEF Sweep, IInv, TypeOK
  <2>2. lost' = lost \cup S /\ UNCHANGED <<seq, echoed>> /\ pc = "drain" /\ pc' = "send"
    BY <1>8 DEF Sweep
  <2> HIDE DEF S
  <2>3. CASE S = {}
    BY <1>1, <2>1, <2>2, <2>3
  <2>4. CASE S # {}
    BY <2>1, <2>2, <2>4 DEF Ledger!Next, Ledger!Lose
  <2>5. QED
    BY <2>3, <2>4
<1>9. CASE Reconnect \/ SendPanic
  <2>1. /\ pc = "send" /\ P' = {} /\ lost' = lost \cup P /\ UNCHANGED <<seq, echoed>>
    BY <1>9 DEF Reconnect, SendPanic, Abandon, state
  <2>2. P \in SUBSET P
    OBVIOUS
  <2> HIDE DEF P
  <2>3. CASE pc' = "stopped"
    BY <2>1, <2>2, <2>3 DEF Ledger!Next, Ledger!Close, P
  <2>4. CASE pc' # "stopped" /\ P # {}
    BY <2>1, <2>2, <2>4 DEF Ledger!Next, Ledger!Lose, P
  <2>5. CASE pc' # "stopped" /\ P = {}
    BY <1>1, <2>1, <2>5
  <2>6. QED
    BY <2>3, <2>4, <2>5
<1>10. CASE SendOK
  <2>1. /\ pc = "send" /\ pc' = "wait" /\ seq' = seq + 1 /\ P' = P \cup {seq'}
        /\ UNCHANGED <<echoed, lost>>
    BY <1>10 DEF SendOK, LoopTop, history
  <2>2. QED
    BY <2>1 DEF Ledger!Next, Ledger!Issue
<1>11. QED
  BY <1>2, <1>3, <1>4, <1>5, <1>6, <1>7, <1>8, <1>9, <1>10 DEF Next, Retry, Drain, Send

(* ImplementsTheLedger: the loop implements ProbeLedger.                   *)
THEOREM ImplementsTheLedger == Spec => KeepsTheLedger
BY LedgerInit, LedgerStep, Inductive, PTL DEF Spec, KeepsTheLedger, Ledger!Spec

-----------------------------------------------------------------------------
(* LinkUpIsEarned is inductive.                                            *)

(* LinkEarned: link_up = 1 is never shown with a threshold of losses since *)
(* the last echo.                                                          *)
THEOREM LinkEarned == Spec => []LinkUpIsEarned
<1>1. Init => LinkUpIsEarned
  BY DEF Init, LinkUpIsEarned
<1>2. TypeOK /\ LinkUpIsEarned /\ [Next]_vars => LinkUpIsEarned'
  <2> SUFFICES ASSUME TypeOK, LinkUpIsEarned, [Next]_vars PROVE LinkUpIsEarned'
    OBVIOUS
  <2> USE DEF LinkUpIsEarned
  <2>1. CASE UNCHANGED <<linkUp, misses>>
    BY <2>1
  <2>2. CASE DialFail \/ SendFail
    BY <2>2 DEF DialFail, SendFail, LinkOnWriteFail, state
  <2>3. CASE CountEcho
    BY <2>3, ProbeLoopAssumption DEF CountEcho
  <2>4. CASE Sweep
    <3> DEFINE n == misses + Cardinality({s \in DOMAIN pending : Expired(s)})
    <3>1. n \in Nat /\ misses' = n /\ linkUp' = LinkAfter(n)
      BY <2>4, OpenFinite DEF Sweep, TypeOK, StateType
    <3> HIDE DEF n
    <3>2. QED
      BY <3>1, ProbeLoopAssumption DEF LinkAfter
  <2>5. CASE DialOK \/ RetryDial \/ StopWhilePaused \/ Fire \/ StopSession \/ DiscardEcho
    BY <2>1, <2>5 DEF DialOK, RetryDial, StopWhilePaused, Fire, StopSession, DiscardEcho,
                      state, metrics
  <2>6. CASE Reconnect \/ SendPanic \/ SendOK \/ TimePasses \/ Cancel
    BY <2>1, <2>6 DEF Reconnect, SendPanic, SendOK, TimePasses, Cancel, state, metrics
  <2>7. CASE ReaderPush \/ ReaderExits \/ (\E m \in wire : Receive(m) \/ Corrupt(m))
    BY <2>1, <2>7 DEF ReaderPush, ReaderExits, Receive, Corrupt, state, metrics
  <2>8. CASE Stopped \/ UNCHANGED vars
    BY <2>1, <2>8 DEF Stopped, vars, state, metrics
  <2>9. QED
    BY <2>2, <2>3, <2>4, <2>5, <2>6, <2>7, <2>8 DEF Next, Retry, Drain, Send
<1>3. QED
  BY <1>1, <1>2, TypeCorrect, PTL DEF Spec

-----------------------------------------------------------------------------
(* The jitter estimate.  A run of no terms still starts at an echoed probe *)
(* (or at none), which the next consecutive echo turns into a term.        *)

JitterInv ==
  /\ JitterNeverSpansALoss
  /\ prevSeq # 0 => prevSeq \in echoed

(* JitterConsecutive: every term of the jitter estimate is the difference  *)
(* of two probes with consecutive numbers, both echoed.                    *)
THEOREM JitterConsecutive == Spec => []JitterNeverSpansALoss
<1>1. Init => JitterInv
  BY DEF Init, JitterInv, JitterNeverSpansALoss
<1>2. TypeOK /\ JitterInv /\ [Next]_vars => JitterInv'
  <2> SUFFICES ASSUME TypeOK, JitterInv, [Next]_vars PROVE JitterInv'
    OBVIOUS
  <2>1. CASE UNCHANGED <<prevSeq, jitterRun, echoed>>
    BY <2>1 DEF JitterInv, JitterNeverSpansALoss
  <2>2. CASE CountEcho
    <3> DEFINE s == Head(respCh).seq
    <3>1. s \in Nat /\ s # 0 /\ prevSeq \in Nat /\ jitterRun \in Nat
      <4>1. s \in 1 .. seq
        BY <2>2 DEF CountEcho, Matches, TypeOK, OpenType
      <4>2. seq \in Nat
        BY ProbeLoopAssumption DEF TypeOK, StateType
      <4> HIDE DEF s
      <4>3. QED
        BY <4>1, <4>2 DEF TypeOK, StateType
    <3>2. /\ prevSeq' = s /\ echoed' = echoed \cup {s}
          /\ jitterRun' = IF JitterContinues(s) THEN jitterRun + 1 ELSE 0
      BY <2>2 DEF CountEcho
    <3> HIDE DEF s
    <3>3. prevSeq' \in echoed'
      BY <3>2
    <3>4. CASE JitterContinues(s) /\ jitterRun = 0
      BY <3>1, <3>2, <3>4 DEF JitterContinues, JitterInv, JitterNeverSpansALoss
    <3>5. CASE JitterContinues(s) /\ jitterRun # 0
      <4>1. /\ s = prevSeq + 1 /\ jitterRun' = jitterRun + 1 /\ jitterRun < prevSeq
            /\ (prevSeq - jitterRun) .. prevSeq \subseteq echoed
        BY <3>1, <3>2, <3>5 DEF JitterContinues, JitterInv, JitterNeverSpansALoss
      <4>2. (s - jitterRun') .. s = ((prevSeq - jitterRun) .. prevSeq) \cup {s}
        BY <3>1, <4>1
      <4>3. QED
        BY <3>1, <3>2, <3>3, <4>1, <4>2 DEF JitterInv, JitterNeverSpansALoss
    <3>6. CASE ~JitterContinues(s)
      BY <3>2, <3>3, <3>6 DEF JitterInv, JitterNeverSpansALoss
    <3>7. QED
      BY <3>4, <3>5, <3>6
  <2>3. CASE DialOK \/ DialFail \/ RetryDial \/ StopWhilePaused \/ Fire \/ StopSession
    BY <2>1, <2>3 DEF DialOK, DialFail, RetryDial, StopWhilePaused, Fire, StopSession,
                      state, history
  <2>4. CASE DiscardEcho \/ Sweep \/ Reconnect \/ SendPanic \/ SendOK \/ SendFail
    BY <2>1, <2>4 DEF DiscardEcho, Sweep, Reconnect, SendPanic, SendOK, SendFail,
                      state, history
  <2>5. CASE ReaderPush \/ ReaderExits \/ TimePasses \/ Cancel
    BY <2>1, <2>5 DEF ReaderPush, ReaderExits, TimePasses, Cancel, state, history
  <2>6. CASE \E m \in wire : Receive(m) \/ Corrupt(m)
    BY <2>1, <2>6 DEF Receive, Corrupt, state, history
  <2>7. CASE Stopped \/ UNCHANGED vars
    BY <2>1, <2>7 DEF Stopped, vars, state, history
  <2>8. QED
    BY <2>2, <2>3, <2>4, <2>5, <2>6, <2>7 DEF Next, Retry, Drain, Send
<1>3. JitterInv => JitterNeverSpansALoss
  BY DEF JitterInv
<1>4. QED
  BY <1>1, <1>2, <1>3, TypeCorrect, PTL DEF Spec

-----------------------------------------------------------------------------
(* The estimator and the loop.  A fixed timeout leaves the estimator as it *)
(* was created.                                                            *)

BackoffInv ==
  /\ RunsAgree
  /\ ~Adaptive => stats.consecutiveTimeouts = 0

(* RunsStartAndEndTogether: the estimator's run of timeouts is never longer    *)
(* than the loop's run of misses, and with Adaptive both start and end     *)
(* together.                                                               *)
THEOREM RunsStartAndEndTogether == Spec => []RunsAgree
<1>1. Init => BackoffInv
  BY DEF Init, NewAdaptiveStats, BackoffInv, RunsAgree
<1>2. TypeOK /\ BackoffInv /\ [Next]_vars => BackoffInv'
  <2> SUFFICES ASSUME TypeOK, BackoffInv, [Next]_vars PROVE BackoffInv'
    OBVIOUS
  <2>1. CASE UNCHANGED <<stats, misses>>
    BY <2>1 DEF BackoffInv, RunsAgree
  <2>2. CASE CountEcho
    <3>1. misses' = 0 /\ stats'.consecutiveTimeouts = 0
      BY <2>2 DEF CountEcho, StatsAfterEcho, Update, BackoffInv
    <3>2. QED
      BY <3>1 DEF BackoffInv, RunsAgree
  <2>3. CASE Sweep
    <3> DEFINE late == {s \in DOMAIN pending : Expired(s)}
               n == Cardinality(late)
    <3>1. /\ misses' = misses + n
          /\ stats' = IF Adaptive /\ n > 0 THEN Backoff(stats) ELSE stats
      BY <2>3 DEF Sweep, StatsAfterSweep
    <3>2. n \in Nat
      BY OpenFinite DEF TypeOK
    <3>3. /\ misses \in Nat /\ stats \in Stats /\ stats.consecutiveTimeouts \in Nat
          /\ Backoff(stats).consecutiveTimeouts = stats.consecutiveTimeouts + 1
      BY DEF TypeOK, StateType, Stats, Backoff
    <3> HIDE DEF late, n
    <3>4. CASE Adaptive /\ n > 0
      BY <3>1, <3>2, <3>3, <3>4 DEF BackoffInv, RunsAgree
    <3>5. CASE ~Adaptive
      BY <3>1, <3>2, <3>3, <3>5 DEF BackoffInv, RunsAgree
    <3>6. CASE n = 0
      BY <3>1, <3>2, <3>3, <3>6 DEF BackoffInv, RunsAgree
    <3>7. QED
      BY <3>2, <3>4, <3>5, <3>6
  <2>4. CASE DialOK \/ DialFail \/ RetryDial \/ StopWhilePaused \/ Fire \/ StopSession
    BY <2>1, <2>4 DEF DialOK, DialFail, RetryDial, StopWhilePaused, Fire, StopSession, state
  <2>5. CASE DiscardEcho \/ Reconnect \/ SendPanic \/ SendOK \/ SendFail
    BY <2>1, <2>5 DEF DiscardEcho, Reconnect, SendPanic, SendOK, SendFail, state
  <2>6. CASE ReaderPush \/ ReaderExits \/ TimePasses \/ Cancel
    BY <2>1, <2>6 DEF ReaderPush, ReaderExits, TimePasses, Cancel, state
  <2>7. CASE \E m \in wire : Receive(m) \/ Corrupt(m)
    BY <2>1, <2>7 DEF Receive, Corrupt, state
  <2>8. CASE Stopped \/ UNCHANGED vars
    BY <2>1, <2>8 DEF Stopped, vars, state
  <2>9. QED
    BY <2>2, <2>3, <2>4, <2>5, <2>6, <2>7, <2>8 DEF Next, Retry, Drain, Send
<1>3. BackoffInv => RunsAgree
  BY DEF BackoffInv
<1>4. QED
  BY <1>1, <1>2, <1>3, TypeCorrect, PTL DEF Spec

-----------------------------------------------------------------------------
(* The timeout of a turn.  It is computed from the smoothed round trip,    *)
(* which no sequence of samples takes above the longest of them.           *)

RTOInv == stats.srtt <= MaxRTT * Tick /\ RTOBounded

LEMMA LoopTopBounded ==
  ASSUME TypeOK, RTOInv, LoopTop(stats)
  PROVE  RTOBounded'
<1> DEFINE M == MaxRTT * Tick
<1>1. M \in Nat /\ stats.srtt <= M /\ stats.srtt \in Nat /\ MaxRTO \in Nat
      /\ 2 * MaxRTT * Tick = 2 * M
  BY ProbeLoopAssumption, RTOAssumption DEF RTOInv, TypeOK, Stats
<1>2. CurrentRTO(stats) \in Nat /\ CurrentRTO(stats) <= Larger(MaxRTO, 2 * stats.srtt)
  BY CurrentRTORange DEF TypeOK
<1>3. BaseTimeout * Tick <= BaseTimeout * Tick
  BY ProbeLoopAssumption
<1> HIDE DEF M
<1>4. CurrentRTO(stats) <= Larger(MaxRTO, 2 * M)
  BY <1>1, <1>2 DEF Larger
<1>5. QED
  BY <1>1, <1>3, <1>4 DEF LoopTop, TimeoutOfTheTurn, RTOBounded, LongestTimeout

(* RTOStaysBounded: no turn of the loop waits longer for an echo than the  *)
(* cap or twice the longest round trip measured.                           *)
THEOREM RTOStaysBounded == Spec => []RTOBounded
<1>1. Init => RTOInv
  <2>1. MaxRTT * Tick \in Nat /\ BaseTimeout * Tick \in Nat /\ MaxRTO \in Nat
        /\ 2 * MaxRTT * Tick \in Nat
    BY ProbeLoopAssumption, RTOAssumption
  <2>2. QED
    BY <2>1 DEF Init, NewAdaptiveStats, RTOInv, RTOBounded, LongestTimeout, Larger
<1>2. TypeOK /\ RTOInv /\ [Next]_vars => RTOInv'
  <2> SUFFICES ASSUME TypeOK, RTOInv, [Next]_vars PROVE RTOInv'
    OBVIOUS
  <2>1. CASE UNCHANGED <<stats, rto>>
    BY <2>1 DEF RTOInv, RTOBounded, LongestTimeout
  <2>2. CASE DialOK \/ SendOK \/ SendFail
    <3>1. LoopTop(stats) /\ stats' = stats
      BY <2>2 DEF DialOK, SendOK, SendFail
    <3>2. QED
      BY <3>1, LoopTopBounded DEF RTOInv
  <2>3. CASE CountEcho
    <3> DEFINE r == Head(respCh).rtt
    <3>1. Head(respCh) \in Response
      BY <2>3 DEF CountEcho, TypeOK, NetType
    <3>2. r \in 0 .. MaxRTT
      BY <3>1 DEF Response
    <3>3. stats' = IF Adaptive THEN Update(stats, r * Tick) ELSE stats
      BY <2>3 DEF CountEcho, StatsAfterEcho
    <3> HIDE DEF r
    <3>4. r * Tick \in Nat /\ MaxRTT * Tick \in Nat /\ r * Tick <= MaxRTT * Tick
      <4>1. r \in Nat /\ MaxRTT - r \in Nat /\ Tick \in Nat /\ MaxRTT \in Nat
        BY <3>2, ProbeLoopAssumption
      <4>2. (MaxRTT - r) * Tick \in Nat
        BY <4>1
      <4>3. (MaxRTT - r) * Tick = MaxRTT * Tick - r * Tick
        BY <4>1
      <4>4. r * Tick \in Nat /\ MaxRTT * Tick \in Nat
        BY <4>1
      <4>5. QED
        BY <4>2, <4>3, <4>4
    <3>5. stats'.srtt <= MaxRTT * Tick
      BY <3>3, <3>4, UpdateWithin DEF RTOInv, TypeOK
    <3>6. RTOBounded'
      BY <2>3 DEF CountEcho, turn, RTOInv, RTOBounded, LongestTimeout
    <3>7. QED
      BY <3>5, <3>6 DEF RTOInv
  <2>4. CASE Sweep
    <3>1. stats'.srtt = stats.srtt
      BY <2>4 DEF Sweep, StatsAfterSweep, Backoff, TypeOK, Stats
    <3>2. rto' = rto
      BY <2>4 DEF Sweep, turn
    <3>3. QED
      BY <3>1, <3>2 DEF RTOInv, RTOBounded, LongestTimeout
  <2>5. CASE DialFail \/ RetryDial \/ StopWhilePaused \/ Fire \/ StopSession \/ DiscardEcho
    BY <2>1, <2>5 DEF DialFail, RetryDial, StopWhilePaused, Fire, StopSession,
                      DiscardEcho, turn
  <2>6. CASE Reconnect \/ SendPanic \/ ReaderPush \/ ReaderExits \/ TimePasses \/ Cancel
    BY <2>1, <2>6 DEF Reconnect, SendPanic, ReaderPush, ReaderExits, TimePasses, Cancel, turn
  <2>7. CASE \E m \in wire : Receive(m) \/ Corrupt(m)
    BY <2>1, <2>7 DEF Receive, Corrupt, turn
  <2>8. CASE Stopped \/ UNCHANGED vars
    BY <2>1, <2>8 DEF Stopped, vars, turn
  <2>9. QED
    BY <2>2, <2>3, <2>4, <2>5, <2>6, <2>7, <2>8 DEF Next, Retry, Drain, Send
<1>3. RTOInv => RTOBounded
  BY DEF RTOInv
<1>4. QED
  BY <1>1, <1>2, <1>3, TypeCorrect, PTL DEF Spec

-----------------------------------------------------------------------------
(* The timeout of a turn and the estimator.  The turn waits with the       *)
(* estimator's timeout, and when it ends at most one timeout or echo has   *)
(* moved the estimator since; re-dials and panics leave both alone.        *)

TurnInv ==
  /\ Adaptive /\ pc = "wait" => rto = CurrentRTO(stats)
  /\ Adaptive /\ pc = "drain" => rto = CurrentRTO(stats) \/ stats.consecutiveTimeouts = 0
  /\ stats.consecutiveTimeouts >= 2 => Adaptive /\ CurrentRTO(stats) \in rto .. 2 * rto
  /\ Adaptive /\ prevSeq # 0 => CurrentRTO(stats) >= Smaller(prevRTT * Tick, MaxRTO)

(* BackoffAtMostDoubles: one timeout at most doubles the timeout in use.   *)
LEMMA BackoffAtMostDoubles ==
  ASSUME NEW a \in Stats
  PROVE  CurrentRTO(Backoff(a)) <= 2 * CurrentRTO(a)
BY RTOAssumption DEF Backoff, CurrentRTO, Floor, Stats, Larger, Smaller

(* LoopTopTurn: a new turn takes the estimator's timeout.                  *)
LEMMA LoopTopTurn ==
  ASSUME TypeOK, TurnInv, LoopTop(stats), stats' = stats, UNCHANGED <<prevSeq, prevRTT>>
  PROVE  TurnInv'
<1>1. CurrentRTO(stats) \in Nat
  BY CurrentRTORange DEF TypeOK
<1>2. pc' = "wait" /\ (Adaptive => rto' = CurrentRTO(stats))
  BY DEF LoopTop, TimeoutOfTheTurn
<1>3. CurrentRTO(stats)' = CurrentRTO(stats)
  OBVIOUS
<1>4. QED
  BY <1>1, <1>2, <1>3 DEF TurnInv

LEMMA StepTurn == TypeOK /\ TurnInv /\ [Next]_vars => TurnInv'
<1> SUFFICES ASSUME TypeOK, TurnInv, [Next]_vars PROVE TurnInv'
  OBVIOUS
<1>1. CASE /\ UNCHANGED <<stats, rto, prevSeq, prevRTT>>
           /\ pc' \in {"wait", "drain"} => pc' = pc \/ (pc = "wait" /\ pc' = "drain")
  BY <1>1 DEF TurnInv
<1>2. CASE DialOK \/ SendOK \/ SendFail
  BY <1>2, LoopTopTurn DEF DialOK, SendOK, SendFail, state
<1>3. CASE CountEcho
  <2> DEFINE r == Head(respCh).rtt
  <2>1. Head(respCh) \in Response
    BY <1>3 DEF CountEcho, TypeOK, NetType
  <2>2. r \in Nat
    BY <2>1, ProbeLoopAssumption DEF Response
  <2>3. /\ stats' = IF Adaptive THEN Update(stats, r * Tick) ELSE stats
        /\ pc' = "drain" /\ prevRTT' = r
    BY <1>3 DEF CountEcho, StatsAfterEcho
  <2> HIDE DEF r
  <2>4. CASE Adaptive
    <3>1. CurrentRTO(stats') >= Smaller(prevRTT' * Tick, MaxRTO)
      BY <2>2, <2>3, <2>4, TicksType, UpdateCovers DEF TypeOK
    <3>2. stats'.consecutiveTimeouts = 0
      BY <2>3, <2>4 DEF Update
    <3>3. QED
      BY <2>3, <3>1, <3>2 DEF TurnInv
  <2>5. CASE ~Adaptive
    BY <1>3, <2>3, <2>5 DEF TurnInv, CountEcho
  <2>6. QED
    BY <2>4, <2>5
<1>4. CASE Sweep
  <2>1. /\ pc = "drain" /\ pc' = "send" /\ UNCHANGED <<rto, prevSeq, prevRTT>>
        /\ stats' = stats \/ (Adaptive /\ stats' = Backoff(stats))
    BY <1>4 DEF Sweep, StatsAfterSweep, turn
  <2>2. CASE stats' = stats
    BY <2>1, <2>2 DEF TurnInv
  <2>3. CASE Adaptive /\ stats' = Backoff(stats)
    <3> DEFINE c == CurrentRTO(stats)
               d == CurrentRTO(Backoff(stats))
    <3>1. c \in Nat /\ d \in Nat /\ c <= d /\ d <= 2 * c
      BY CurrentRTORange, BackoffType, BackoffRaises, BackoffAtMostDoubles DEF TypeOK
    <3>2. /\ Backoff(stats).consecutiveTimeouts = stats.consecutiveTimeouts + 1
          /\ stats.consecutiveTimeouts \in Nat
      BY DEF TypeOK, Stats, Backoff
    <3>3. CurrentRTO(stats)' = d
      BY <2>3
    <3>4. (stats.consecutiveTimeouts)' >= 2 => d \in rto' .. 2 * rto'
      BY <2>1, <2>3, <3>1, <3>2 DEF TurnInv
    <3>5. prevSeq # 0 => d >= Smaller(prevRTT * Tick, MaxRTO)
      <4>1. MaxRTO \in Nat /\ prevRTT * Tick \in Nat
        <5>1. prevRTT \in Nat
          BY ProbeLoopAssumption DEF TypeOK, StateType
        <5>2. QED
          BY <5>1, TicksType, RTOAssumption
      <4>2. prevSeq # 0 => c >= Smaller(prevRTT * Tick, MaxRTO)
        BY <2>3 DEF TurnInv
      <4> HIDE DEF c, d
      <4>3. QED
        BY <3>1, <4>1, <4>2 DEF Smaller
    <3> HIDE DEF c, d
    <3>6. QED
      BY <2>1, <2>3, <3>3, <3>4, <3>5 DEF TurnInv
  <2>4. QED
    BY <2>1, <2>2, <2>3
<1>5. CASE DialFail \/ RetryDial \/ StopWhilePaused \/ Fire \/ StopSession \/ DiscardEcho
  BY <1>1, <1>5 DEF DialFail, RetryDial, StopWhilePaused, Fire, StopSession, DiscardEcho,
                    turn, state
<1>6. CASE Reconnect \/ SendPanic \/ ReaderPush \/ ReaderExits \/ TimePasses \/ Cancel
  BY <1>1, <1>6 DEF Reconnect, SendPanic, ReaderPush, ReaderExits, TimePasses, Cancel,
                    turn, state
<1>7. CASE \E m \in wire : Receive(m) \/ Corrupt(m)
  BY <1>1, <1>7 DEF Receive, Corrupt, turn, state
<1>8. CASE Stopped \/ UNCHANGED vars
  BY <1>1, <1>8 DEF Stopped, vars, turn, state
<1>9. QED
  BY <1>2, <1>3, <1>4, <1>5, <1>6, <1>7, <1>8 DEF Next, Retry, Drain, Send

LEMMA TurnInductive == Spec => [](TypeOK /\ TurnInv)
<1>1. Init => TurnInv
  BY DEF Init, NewAdaptiveStats, TurnInv
<1>2. QED
  BY <1>1, StepTurn, TypeCorrect, PTL DEF Spec

(* OneSweepDoubles: in a run of losses the timeout of a turn is between    *)
(* that of the turn before and twice that, however many probes were lost   *)
(* and whatever re-dials and panics fell between.                          *)
THEOREM OneSweepDoubles == Spec => DoublesOncePerSweep
<1>1. TypeOK /\ TurnInv /\ [Next]_vars =>
        [stats.consecutiveTimeouts >= 2 /\ rto' # rto => rto' \in rto .. 2 * rto]_vars
  <2> SUFFICES ASSUME TurnInv, [Next]_vars, stats.consecutiveTimeouts >= 2, rto' # rto
               PROVE  rto' \in rto .. 2 * rto
    OBVIOUS
  <2>1. CASE DialOK \/ SendOK \/ SendFail
    BY <2>1 DEF DialOK, SendOK, SendFail, LoopTop, TimeoutOfTheTurn, TurnInv
  <2>2. CASE DialFail \/ RetryDial \/ StopWhilePaused \/ Fire \/ StopSession \/ Drain
    BY <2>2 DEF DialFail, RetryDial, StopWhilePaused, Fire, StopSession, Drain, CountEcho,
                DiscardEcho, turn
  <2>3. CASE Sweep \/ Reconnect \/ SendPanic \/ TimePasses \/ Cancel
    BY <2>3 DEF Sweep, Reconnect, SendPanic, TimePasses, Cancel, turn
  <2>4. CASE ReaderPush \/ ReaderExits \/ (\E m \in wire : Receive(m) \/ Corrupt(m))
    BY <2>4 DEF ReaderPush, ReaderExits, Receive, Corrupt, turn
  <2>5. CASE Stopped \/ UNCHANGED vars
    BY <2>5 DEF Stopped, vars, turn
  <2>6. QED
    BY <2>1, <2>2, <2>3, <2>4, <2>5 DEF Next, Retry, Send
<1>2. QED
  BY <1>1, TurnInductive, PTL DEF Spec, DoublesOncePerSweep

(* TimeoutsCoverTheLink: no turn of an adaptive loop waits with a timeout  *)
(* below the last round trip counted, up to the cap.                       *)
THEOREM TimeoutsCoverTheLink == Spec => []TimeoutCoversTheLink
<1>1. TurnInv => TimeoutCoversTheLink
  BY DEF TurnInv, TimeoutCoversTheLink
<1>2. QED
  BY <1>1, TurnInductive, PTL

=============================================================================
