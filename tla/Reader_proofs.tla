--------------------------- MODULE Reader_proofs ----------------------------
(***************************************************************************)
(* Type correctness of the session goroutines and the release of ended     *)
(* sessions, for any number of sessions with a reader and any capacity.    *)
(***************************************************************************)
EXTENDS Reader, TLAPS

LoopStep ==
  \/ \E s \in Slots : Dial(s)
  \/ DialFails \/ PauseEnds \/ StopWhilePaused
  \/ Fire \/ Turn \/ LeaveCancelled \/ Deferred

ReaderStep == \E s \in Slots : Top(s) \/ Read(s) \/ Pushing(s)

(* One disjunct for the loop and one for the readers.                      *)
LEMMA NextSplits == Next <=> LoopStep \/ ReaderStep \/ Cancel \/ Quiet
BY DEF Next, LoopStep, ReaderStep

\* A step of a reader touches its own respCh, fails and program counter only.
LEMMA ReaderTypes == TypeOK /\ ReaderStep => TypeOK'
<1> SUFFICES ASSUME TypeOK, NEW s \in Slots, Top(s) \/ Read(s) \/ Pushing(s)
             PROVE  TypeOK'
  BY DEF ReaderStep
<1> USE ReaderAssumption DEF TypeOK, ReaderAt
<1>1. CASE SeesContext(s)
  BY <1>1 DEF SeesContext
<1>2. CASE SetDeadline(s)
  BY <1>2 DEF SetDeadline
<1>3. CASE DeadlineFails(s)
  <2>1. (IF fails[s] < maxDeadlineFails THEN fails[s] + 1 ELSE fails[s])
           \in 0 .. maxDeadlineFails
    OBVIOUS
  <2>2. QED BY <1>3, <2>1 DEF DeadlineFails
<1>4. CASE Read(s)
  BY <1>4 DEF Read, ReadsNothing, ReadEnds, ReadsEcho
<1>5. CASE Push(s)
  <2>1. respCh[s] + 1 \in 0 .. RespChCap
    BY <1>5 DEF Push, Room
  <2>2. QED BY <1>5, <2>1 DEF Push
<1>6. CASE DropsPush(s)
  BY <1>6 DEF DropsPush
<1>7. QED BY <1>1, <1>2, <1>3, <1>4, <1>5, <1>6 DEF Top, Pushing

LEMMA LoopTypes == TypeOK /\ LoopStep => TypeOK'
<1> SUFFICES ASSUME TypeOK, LoopStep PROVE TypeOK'
  OBVIOUS
<1> USE ReaderAssumption DEF TypeOK, session, readers
<1>1. CASE \E s \in Slots : Dial(s)
  BY <1>1 DEF Dial, StartsReader
<1>2. CASE DialFails \/ PauseEnds \/ StopWhilePaused \/ Fire \/ TurnEnds
  BY <1>2 DEF DialFails, PauseEnds, StopWhilePaused, Fire, TurnEnds
<1>3. CASE Take
  <2>1. respCh[current] - 1 \in 0 .. RespChCap
    BY <1>3 DEF Take
  <2>2. QED BY <1>3, <2>1 DEF Take
<1>4. CASE LeaveToRedial \/ LeavePanicked \/ LeaveCancelled
  BY <1>4 DEF LeaveToRedial, LeavePanicked, LeaveCancelled, Leave
<1>5. CASE CloseConn
  BY <1>5 DEF CloseConn, ClosesConn
<1>6. CASE CloseDone
  <2>1. loop' \in {"stopped", "dial", "pause"}
    BY <1>6 DEF CloseDone
  <2>2. done' \in [Slots -> BOOLEAN]
    BY <1>6 DEF CloseDone, ClosesDone
  <2>3. QED BY <1>6, <2>1, <2>2 DEF CloseDone
<1>7. QED BY <1>1, <1>2, <1>3, <1>4, <1>5, <1>6 DEF LoopStep, Turn, Deferred

(* TypeOK: no respCh ever holds more than its capacity and no reader lives *)
(* past its last failed deadline (TypeOK of Reader).                       *)
THEOREM TypeCorrect == Spec => []TypeOK
<1>1. Init => TypeOK
  <2>1. 0 \in 0 .. RespChCap /\ 0 \in 0 .. maxDeadlineFails
    BY ReaderAssumption
  <2>2. QED BY <2>1 DEF Init, TypeOK
<1>2. TypeOK /\ [Next]_vars => TypeOK'
  <2>1. TypeOK /\ (Cancel \/ Quiet \/ UNCHANGED vars) => TypeOK'
    BY DEF TypeOK, Cancel, Quiet, vars, session, readers
  <2>2. QED BY <2>1, LoopTypes, ReaderTypes, NextSplits
<1>3. QED BY <1>1, <1>2, PTL DEF Spec

-----------------------------------------------------------------------------
(* Between the two deferred calls the socket of the session is closed and  *)
(* its done channel is not: without that, the second one would not know    *)
(* what it leaves behind.                                                  *)
RInv ==
  /\ EndedSessionsAreReleased
  /\ loop = "closed" => ~open[current]

LEMMA LoopReleases == TypeOK /\ RInv /\ LoopStep => RInv'
<1> SUFFICES ASSUME TypeOK, RInv, LoopStep PROVE RInv'
  OBVIOUS
<1> USE DEF TypeOK, RInv, EndedSessionsAreReleased, Ended, InSession, session, readers
\* Only when no session is running, so that every other one has ended.
<1>1. CASE \E s \in Slots : Dial(s)
  BY <1>1 DEF Dial
<1>2. CASE DialFails \/ PauseEnds \/ StopWhilePaused \/ Fire \/ TurnEnds \/ Take
  BY <1>2 DEF DialFails, PauseEnds, StopWhilePaused, Fire, TurnEnds, Take
<1>3. CASE LeaveToRedial \/ LeavePanicked \/ LeaveCancelled
  BY <1>3 DEF LeaveToRedial, LeavePanicked, LeaveCancelled, Leave
<1>4. CASE CloseConn
  BY <1>4 DEF CloseConn, ClosesConn
<1>5. CASE CloseDone
  BY <1>5 DEF CloseDone, ClosesDone
<1>6. QED BY <1>1, <1>2, <1>3, <1>4, <1>5 DEF LoopStep, Turn, Deferred

LEMMA OthersRelease == RInv /\ (ReaderStep \/ Cancel \/ Quiet \/ UNCHANGED vars) => RInv'
<1> SUFFICES ASSUME RInv, ReaderStep \/ Cancel \/ Quiet \/ UNCHANGED vars
             PROVE  RInv'
  OBVIOUS
<1>1. UNCHANGED <<loop, current, open, done>>
  BY DEF ReaderStep, Top, Read, Pushing, SeesContext, SetDeadline, DeadlineFails,
         ReadsNothing, ReadEnds, ReadsEcho, Push, DropsPush, ReaderAt,
         Cancel, Quiet, vars, session, readers
<1>2. QED BY <1>1 DEF RInv, EndedSessionsAreReleased, Ended, InSession

(* EndedSessionsAreReleased: whichever way a session ended, by the         *)
(* context, by its age or by a panic, its socket and its done channel are  *)
(* closed (the deferred calls of runEchoLoop).                             *)
THEOREM SessionsAreReleased == Spec => []EndedSessionsAreReleased
<1>1. Init => RInv
  BY DEF Init, RInv, EndedSessionsAreReleased
<1>2. TypeOK /\ RInv /\ [Next]_vars => RInv'
  BY LoopReleases, OthersRelease, NextSplits
<1>3. RInv => EndedSessionsAreReleased
  BY DEF RInv
<1>4. QED BY <1>1, <1>2, <1>3, TypeCorrect, PTL DEF Spec

=============================================================================
