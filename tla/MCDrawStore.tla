----------------------------- MODULE MCDrawStore -----------------------------
(* Instances of DrawStore for TLC: the payloads that plugins send.          *)
EXTENDS DrawStore

Draw(id, content, ttl) ==
    [id |-> id, content |-> content, command |-> NoCommand, ttl |-> ttl]
Command(command) ==
    [id |-> NoId, content |-> Blank, command |-> command, ttl |-> -1]

\* Key 1 and 2 stand for "AUTOID:10" and "AUTOID:9", 3 and 4 for names.
MCIds == {3, 4}
MCAutoKeys == <<2, 1>>
MCContents == {"c1", "c2", "broken"}

\* Every name keeps its picture; the anonymous sender renames that of 3.
StablePayloads ==
    {<<Draw(3, "c1", -1)>>, <<Draw(3, "c1", 1)>>, <<Draw(4, "c2", 1)>>,
     <<Draw(NoId, "c1", -1)>>,
     <<Command("overlay_off")>>, <<Command("overlay_on")>>, <<Command("exit")>>}

\* Pictures move between names, several items come in one message, messages
\* are malformed, empty, or hold a vector that can not be built.
MixedPayloads ==
    {<<Draw(3, "c1", -1)>>, <<Draw(4, "c1", 1), Draw(3, "c2", -1)>>,
     <<Draw(NoId, "c2", -1), Draw(4, "c2", -1), Draw(3, Blank, -1)>>,
     <<Draw(3, Blank, -1)>>, <<Draw(4, "broken", 1)>>, <<Draw(4, "c2", 1), Malformed>>,
     <<[Command("unknown") EXCEPT !.content = "c1"]>>,
     <<Command("overlay_off")>>, <<Command("overlay_on")>>}

\* Two names that repeat their messages.
RepeatedPayloads == {<<Draw(3, "c1", -1)>>, <<Draw(4, "c2", -1)>>}

\* What the proofs of the properties assume of the plugins.
ASSUME StableAssumption ==
    Payloads = StablePayloads => NamesKeepPictures /\ OneItemEach /\ AutoKeysAreFresh
ASSUME MixedAssumption ==
    Payloads = MixedPayloads => TogglesArePlain /\ AutoKeysAreFresh
=============================================================================
