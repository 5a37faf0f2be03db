---------------------------- MODULE MCConnections ---------------------------
(* Connections for TLC: two clients that differ in nothing but their name. *)
EXTENDS Connections

TwoClients == 1..2
=============================================================================
