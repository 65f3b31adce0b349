----------------------------- MODULE MCService -----------------------------
(* Instance of Service for TLC. *)
EXTENDS Service

CONSTANTS server, cli, m1, m2
=============================================================================
