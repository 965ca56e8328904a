------------------------------- MODULE Reader -------------------------------
(***************************************************************************)
(* The goroutines of one target across its sessions: the loop that opens   *)
(* a socket, drains respCh and leaves (runEchoLoop under probeTarget of    *)
(* internal/prober/client.go), and the reader each session starts and      *)
(* nobody waits for.  A reader is released by the socket being closed, by  *)
(* `done`, or by the context, depending on where it is blocked.            *)
(*                                                                         *)
(* Only what blocks and what releases is kept: a response is one place in  *)
(* respCh, and time is the choice of when a timer or a deadline is over.   *)
(* A slot holds one session and is reused when its reader is gone, so the  *)
(* number of sessions is not bounded.                                      *)
(***************************************************************************)
EXTENDS Naturals

CONSTANTS
  Slots,       \* bound: sessions with a reader at the same time
  RespChCap,   \* capacity of respCh
  maxDeadlineFails   \* failed SetReadDeadline calls in a row that end a reader

ASSUME ReaderAssumption ==
  RespChCap \in Nat \ {0} /\ maxDeadlineFails \in Nat \ {0}

VARIABLES
  loop,     \* the target's goroutine: "dial", "pause", "wait", "drain",
            \* "leaving", "closed" (between conn.Close and close(done)), "stopped"
  why,      \* what runEchoLoop returns: "nil", "reconnect" or "panic"
  current,  \* the slot of the loop's session
  ctxDone,
  open,     \* open[s]: the socket of s is open
  done,     \* done[s]: the done channel of s is closed
  respCh,   \* respCh[s]: responses waiting in the channel of s
  reader,   \* reader[s]: "gone", "top", "read" or "push"
  fails     \* fails[s]: deadlineFails

session == <<open, done, respCh>>
readers == <<reader, fails>>
vars == <<loop, why, current, ctxDone, session, readers>>

TypeOK ==
  /\ loop \in {"dial", "pause", "wait", "drain", "leaving", "closed", "stopped"}
  /\ why \in {"nil", "reconnect", "panic"}
  /\ current \in Slots /\ ctxDone \in BOOLEAN
  /\ open \in [Slots -> BOOLEAN] /\ done \in [Slots -> BOOLEAN]
  /\ respCh \in [Slots -> 0 .. RespChCap]
  /\ reader \in [Slots -> {"gone", "top", "read", "push"}]
  /\ fails \in [Slots -> 0 .. maxDeadlineFails]

Init ==
  /\ loop = "dial" /\ why = "nil" /\ current \in Slots /\ ctxDone = FALSE
  /\ open = [s \in Slots |-> FALSE] /\ done = [s \in Slots |-> TRUE]
  /\ respCh = [s \in Slots |-> 0]
  /\ reader = [s \in Slots |-> "gone"] /\ fails = [s \in Slots |-> 0]

-----------------------------------------------------------------------------
(* The loop.                                                               *)

\* Plausible bug: the reader is started once, for the first socket.
StartsFirstReader(s) == IF why = "nil" THEN "top" ELSE "gone"

StartsReader(s) == "top"

\* A cancelled context makes the dial fail.
Dial(s) ==
  /\ loop = "dial" /\ ~ctxDone
  /\ reader[s] = "gone"
  /\ loop' = "wait" /\ current' = s
  /\ open' = [open EXCEPT ![s] = TRUE] /\ done' = [done EXCEPT ![s] = FALSE]
  /\ respCh' = [respCh EXCEPT ![s] = 0]
  /\ reader' = [reader EXCEPT ![s] = StartsReader(s)] /\ fails' = [fails EXCEPT ![s] = 0]
  /\ UNCHANGED <<why, ctxDone>>

DialFails ==
  /\ loop = "dial"
  /\ loop' = "pause"
  /\ UNCHANGED <<why, current, ctxDone, session, readers>>

PauseEnds ==
  /\ loop = "pause"
  /\ loop' = "dial"
  /\ UNCHANGED <<why, current, ctxDone, session, readers>>

\* Plausible bug: the pause is a plain sleep that does not watch ctx.
StopWhileAsleep == FALSE

StopWhilePaused ==
  /\ loop = "pause" /\ ctxDone
  /\ loop' = "stopped"
  /\ UNCHANGED <<why, current, ctxDone, session, readers>>

Fire ==
  /\ loop = "wait"
  /\ loop' = "drain"
  /\ UNCHANGED <<why, current, ctxDone, session, readers>>

Take ==
  /\ loop = "drain" /\ respCh[current] > 0
  /\ respCh' = [respCh EXCEPT ![current] = @ - 1]
  /\ UNCHANGED <<loop, why, current, ctxDone, open, done, readers>>

\* The channel was empty: sweep, write and wait again.
TurnEnds ==
  /\ loop = "drain" /\ respCh[current] = 0
  /\ loop' = "wait"
  /\ UNCHANGED <<why, current, ctxDone, session, readers>>

Leave(reason) ==
  /\ loop' = "leaving" /\ why' = reason
  /\ UNCHANGED <<current, ctxDone, session, readers>>

\* The select sees the context.
LeaveCancelled == loop = "wait" /\ ctxDone /\ Leave("nil")

\* The socket is old enough.
LeaveToRedial == loop = "drain" /\ respCh[current] = 0 /\ Leave("reconnect")

\* A panic anywhere in the turn, with whatever is still in the channel.
LeavePanicked == loop = "drain" /\ Leave("panic")

\* Plausible bug: the socket is closed at the return that asks for a re-dial
\* and at the one for the context, not by a defer.
ClosesOnReturn == why # "panic"

ClosesConn == TRUE

\* The deferred calls run last in, first out: the socket, then done.
CloseConn ==
  /\ loop = "leaving"
  /\ loop' = "closed"
  /\ open' = [open EXCEPT ![current] = @ /\ ~ClosesConn]
  /\ UNCHANGED <<why, current, ctxDone, done, respCh, readers>>

\* Plausible bug: conn.Close is taken to be enough to end the reader.
KeepsDone == FALSE

ClosesDone == TRUE

\* probeTarget looks at the context before it dials again.
CloseDone ==
  /\ loop = "closed"
  /\ done' = [done EXCEPT ![current] = @ \/ ClosesDone]
  /\ loop' = CASE why = "nil" \/ ctxDone -> "stopped"
               [] why = "reconnect" /\ ~ctxDone -> "dial"
               [] why = "panic" /\ ~ctxDone -> "pause"
  /\ UNCHANGED <<why, current, ctxDone, open, respCh, readers>>

-----------------------------------------------------------------------------
(* The reader of session s.                                                *)

ReaderAt(s, from, to) ==
  /\ reader[s] = from
  /\ reader' = [reader EXCEPT ![s] = to]
  /\ UNCHANGED <<loop, why, current, ctxDone, open, done>>

\* The context is looked at, then the deadline is set.
SeesContext(s) ==
  /\ ctxDone
  /\ ReaderAt(s, "top", "gone")
  /\ UNCHANGED <<respCh, fails>>

SetDeadline(s) ==
  /\ ~ctxDone /\ open[s]
  /\ ReaderAt(s, "top", "read")
  /\ fails' = [fails EXCEPT ![s] = 0]
  /\ UNCHANGED respCh

GivesUp(s) == fails[s] + 1 >= maxDeadlineFails

\* The socket is closed, or open and unusable.
DeadlineFails(s) ==
  /\ ~ctxDone
  /\ ReaderAt(s, "top", IF GivesUp(s) THEN "gone" ELSE "top")
  /\ fails' = [fails EXCEPT ![s] = IF @ < maxDeadlineFails THEN @ + 1 ELSE @]
  /\ UNCHANGED respCh

\* The deadline is over, or an error such as port unreachable, or a datagram
\* that is no echo: the next turn of the reader.
ReadsNothing(s) ==
  /\ open[s]
  /\ ReaderAt(s, "read", "top")
  /\ UNCHANGED <<respCh, fails>>

\* The read fails because the socket is closed, or while the context is done.
ReadEnds(s) ==
  /\ ~open[s] \/ ctxDone
  /\ ReaderAt(s, "read", "gone")
  /\ UNCHANGED <<respCh, fails>>

ReadsEcho(s) ==
  /\ open[s]
  /\ ReaderAt(s, "read", "push")
  /\ UNCHANGED <<respCh, fails>>

\* Plausible bug: a queue without a capacity.
AlwaysRoom(s) == TRUE

Room(s) == respCh[s] < RespChCap

Push(s) ==
  /\ Room(s)
  /\ ReaderAt(s, "push", "top")
  /\ respCh' = [respCh EXCEPT ![s] = @ + 1]
  /\ UNCHANGED fails

DropsPush(s) ==
  /\ ctxDone \/ done[s]
  /\ ReaderAt(s, "push", "gone")
  /\ UNCHANGED <<respCh, fails>>

-----------------------------------------------------------------------------
Cancel ==
  /\ ~ctxDone
  /\ ctxDone' = TRUE
  /\ UNCHANGED <<loop, why, current, session, readers>>

\* Everything has ended.
Quiet ==
  /\ loop = "stopped" /\ \A s \in Slots : reader[s] = "gone"
  /\ UNCHANGED vars

Top(s) == SeesContext(s) \/ SetDeadline(s) \/ DeadlineFails(s)
Read(s) == ReadsNothing(s) \/ ReadEnds(s) \/ ReadsEcho(s)
Pushing(s) == Push(s) \/ DropsPush(s)
Turn == Take \/ TurnEnds \/ LeaveToRedial \/ LeavePanicked
Deferred == CloseConn \/ CloseDone

Next ==
  \/ \E s \in Slots : Dial(s)
  \/ DialFails \/ PauseEnds \/ StopWhilePaused
  \/ Fire \/ Turn \/ LeaveCancelled \/ Deferred
  \/ \E s \in Slots : Top(s) \/ Read(s) \/ Pushing(s)
  \/ Cancel \/ Quiet

Spec == Init /\ [][Next]_vars

\* Goroutines run; a read returns by its deadline; a select with the context
\* done takes that branch in the end; a session
\* that nothing else ends comes to the age of a re-dial, and names resolve
\* again and again.
Fairness ==
  /\ \A s \in Slots : WF_vars(Top(s)) /\ WF_vars(Read(s)) /\ WF_vars(Pushing(s))
  /\ WF_vars(Fire) /\ WF_vars(Turn) /\ WF_vars(Deferred)
  /\ WF_vars(DialFails \/ \E s \in Slots : Dial(s)) /\ WF_vars(PauseEnds)
  /\ SF_vars(LeaveCancelled) /\ SF_vars(StopWhilePaused)
  /\ SF_vars(LeaveToRedial \/ LeavePanicked) /\ SF_vars(\E s \in Slots : Dial(s))

LiveSpec == Spec /\ Fairness

-----------------------------------------------------------------------------
InSession == loop \in {"wait", "drain", "leaving", "closed"}
Ended(s) == s # current \/ ~InSession

(* EndedSessionsAreReleased: whichever way a session ended, its socket is  *)
(* closed and its done channel is closed, so that no socket is left behind *)
(* by a re-dial and no reader is blocked where nothing can wake it.        *)
EndedSessionsAreReleased == \A s \in Slots : Ended(s) => ~open[s] /\ done[s]

(* ReadersLeave: every reader of an ended session ends too, from a blocked *)
(* read, from a push into a full channel that is no longer drained, or     *)
(* from the top of its loop: sessions do not pile up goroutines.           *)
ReadersLeave == \A s \in Slots : Ended(s) ~> reader[s] = "gone"

(* DeafnessHeals: "The periodic reconnect re-creates the reader" (comment  *)
(* at the deadline failures): a session that has lost its reader is        *)
(* replaced by one that has a reader, unless the context is cancelled.     *)
DeafnessHeals ==
  InSession /\ reader[current] = "gone"
    ~> ctxDone \/ (InSession /\ reader[current] # "gone")

(* CancelEndsAll: after cancellation neither the loop nor a reader of any  *)
(* session is left.                                                        *)
CancelEndsAll == ctxDone ~> loop = "stopped" /\ \A s \in Slots : reader[s] = "gone"

=============================================================================
