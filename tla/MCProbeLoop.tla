---------------------------- MODULE MCProbeLoop ----------------------------
(***************************************************************************)
(* Small instances of ProbeLoop.  A tick is 500 ms, or 1 s where the       *)
(* estimator is on, in units of 1/32 ms.                                   *)
(***************************************************************************)
EXTENDS ProbeLoop

Milliseconds(n) == n * 32

MCHalfSecond == Milliseconds(500)
MCSecond == Milliseconds(1000)
MCMinRTO == Milliseconds(200)
MCMaxRTO == Milliseconds(3000)
MCClockGranularity == Milliseconds(1)

-----------------------------------------------------------------------------
(* A target that sends for ever, over finitely many states.  When the      *)
(* sequence numbers are used up and the oldest probe is settled, its       *)
(* number is forgotten and the later ones move down by one.  Echoes of the *)
(* forgotten probe that are still under way would be discarded: they are   *)
(* lost.  Nothing else of what the loop does depends on how many probes    *)
(* came before, except for misses, which is compared with its threshold.   *)

Shifted(s) == {i - 1 : i \in s \ {1}}
Renumbered(S) == {[m EXCEPT !.seq = m.seq - 1] : m \in {d \in S : d.seq # 1}}
CountOfFirst(s) == IF 1 \in s THEN 1 ELSE 0

Renumber ==
  /\ pc = "send" /\ seq = MaxProbes
  /\ 1 \notin DOMAIN pending
  /\ \A r \in held \cup Range(respCh) : r.seq # 1
  /\ seq' = seq - 1 /\ sent' = sent - 1
  /\ pending' = [s \in Shifted(DOMAIN pending) |-> pending[s + 1]]
  /\ wire' = Renumbered(wire) /\ held' = Renumbered(held)
  /\ respCh' = [i \in DOMAIN respCh |-> [respCh[i] EXCEPT !.seq = respCh[i].seq - 1]]
  /\ echoed' = Shifted(echoed) /\ rttCount' = rttCount - CountOfFirst(echoed)
  /\ lost' = Shifted(lost) /\ timedOut' = timedOut - CountOfFirst(lost)
  /\ misses' = Smaller(misses, LinkUpMissThreshold)
  /\ prevSeq' = 0 /\ prevRTT' = 0 /\ jitterRun' = 0
  /\ UNCHANGED <<pc, ctxDone, stats, panics, turn, reader, dups, inflight, linkUp>>

EndlessSpec == Init /\ [][Next \/ Renumber]_vars /\ Fairness

=============================================================================
