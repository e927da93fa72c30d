----------------------------- MODULE MCPictures -----------------------------
(* Pictures with two keys, room for four items, and five resource ids.     *)
EXTENDS Pictures

ItemKeys == 1..2
=============================================================================
