----------------------------- MODULE MCReader ------------------------------
(***************************************************************************)
(* Two sessions may have a reader at once: the current one, and one that   *)
(* has not noticed its end yet.                                            *)
(***************************************************************************)
EXTENDS Reader

CONSTANTS s1, s2

MCSlots == {s1, s2}

=============================================================================
