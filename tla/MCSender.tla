------------------------------ MODULE MCSender ------------------------------
(* Two messages, the last of which may be the exit of _stop().             *)
EXTENDS Sender

MCMaxMessages == 2
MCMaxDeaths == 2
=============================================================================
