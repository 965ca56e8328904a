--------------------------- MODULE MCEchoServer ----------------------------
(***************************************************************************)
(* Two allowed clients and a stranger; a second is two ticks.              *)
(***************************************************************************)
EXTENDS EchoServer

CONSTANTS a, b, x

MCClients == {a, b, x}
MCAllowed == {a, b}

=============================================================================
