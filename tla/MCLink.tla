------------------------------- MODULE MCLink -------------------------------
(***************************************************************************)
(* Two targets of one client.  A datagram is delayed by up to one tick,    *)
(* the length of a window and half an interval, so one probe of each       *)
(* target can fall in a window: the cap is two, and four are sent.         *)
(***************************************************************************)
EXTENDS Link, TLC

CONSTANTS c1, t1, t2

MCClients == {c1}
MCTargets == {t1, t2}
MCIpOf == [t \in MCTargets |-> c1]
MCSymmetry == Permutations(MCTargets)

=============================================================================
