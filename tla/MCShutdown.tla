----------------------------- MODULE MCShutdown -----------------------------
(* An instance of Shutdown for TLC: two connections at a time.             *)
EXTENDS Shutdown

MCMaxSessions == 2
=============================================================================
