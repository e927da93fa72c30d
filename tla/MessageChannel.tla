--------------------------- MODULE MessageChannel ---------------------------
(***************************************************************************)
(* What the network side of the overlay promises a plugin that keeps its   *)
(* connection: the bodies it sends are processed in order, once each.  A   *)
(* connection that drops loses a tail of them.  After the plugin broke the *)
(* protocol anything may be processed, but only behind what came before.   *)
(***************************************************************************)
EXTENDS Sequences, Naturals

CONSTANT Bodies     \* the bodies plugins send

VARIABLES
    sent,           \* the bodies sent, in order
    processed,      \* the bodies handed to process_payload, in order
    open,           \* the connection lives
    broken          \* the plugin wrote what is not a message

vars == <<sent, processed, open, broken>>

Init == sent = <<>> /\ processed = <<>> /\ open = TRUE /\ broken = FALSE

SendBody(body) ==
    /\ open /\ ~broken
    /\ sent' = Append(sent, body)
    /\ UNCHANGED <<processed, open, broken>>

Process ==
    /\ open /\ Len(processed) < Len(sent)
    /\ processed' = Append(processed, sent[Len(processed) + 1])
    /\ UNCHANGED <<sent, open, broken>>

BreakProtocol ==
    /\ open /\ ~broken
    /\ broken' = TRUE
    /\ UNCHANGED <<sent, processed, open>>

\* What a broken plugin's bytes happen to spell.
ProcessStray ==
    /\ open /\ broken /\ Len(processed) >= Len(sent)
    /\ Len(processed') = Len(processed) + 1
    /\ SubSeq(processed', 1, Len(processed)) = processed
    /\ UNCHANGED <<sent, open, broken>>

Close ==
    /\ open /\ open' = FALSE
    /\ UNCHANGED <<sent, processed, broken>>

Next == (\E body \in Bodies : SendBody(body)) \/ Process \/ BreakProtocol
        \/ ProcessStray \/ Close

Spec == Init /\ [][Next]_vars /\ WF_vars(Process)
=============================================================================
