------------------------------ MODULE MCManager ------------------------------
(* Four calls of ensure_started: one by plugin_start3, and three by hooks   *)
(* and senders in any order.                                                *)
EXTENDS Manager

MCMaxCalls == 4
=============================================================================
