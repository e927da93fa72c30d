---------------------------- MODULE MCPluginHost ----------------------------
(* Four calls of ensure_started: one by plugin_start3, and three by hooks   *)
(* and senders in any order; a change of the settings and two clicks.        *)
EXTENDS PluginHost

MCMaxCalls == 4
=============================================================================
