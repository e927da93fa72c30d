------------------------------- MODULE Framing -------------------------------
(***************************************************************************)
(* One TcpSession: the bytes of a connection are cut into messages of the  *)
(* form  length # body.  async_read_until fetches what the system has and  *)
(* so may run past the '#' into the body and the messages behind it;       *)
(* stream_buffer_ keeps that for the next read.  The client half is the    *)
(* worker of edmcoverlay.py:62-63.  A byte is a digit 0..9, the '#' or any *)
(* other (that std::stoul neither skips as a space nor takes for a sign);  *)
(* lengths are below 100.                                                  *)
(***************************************************************************)
EXTENDS Integers, Sequences, SequencesExt

CONSTANTS
    Bodies,         \* the bodies plugins send
    Noise,          \* what a plugin that breaks the protocol writes
    MaxSent         \* bound: messages sent over the connection

Hash == 10
Other == 11
Byte == 0..11

ASSUME FramingAssumption ==
    /\ Bodies \subseteq Seq(Byte) /\ Noise \subseteq Seq(Byte)
    /\ \A body \in Bodies : Len(body) < 100
    /\ MaxSent \in Nat

VARIABLES
    net,            \* bytes in flight
    buffer,         \* stream_buffer_
    reading,        \* "header", "body", or "closed" when the session is gone
    size,           \* body_size
    dropped,        \* the client closed its end
    sent, processed, broken     \* as in MessageChannel

vars == <<net, buffer, reading, size, dropped, sent, processed, broken>>

Init ==
    /\ net = <<>> /\ buffer = <<>> /\ reading = "header" /\ size = 0
    /\ dropped = FALSE /\ sent = <<>> /\ processed = <<>> /\ broken = FALSE

-----------------------------------------------------------------------------
(* The client.                                                             *)

\* The length of the body in decimal digits.
LengthDigits(n) == IF n < 10 THEN <<n>> ELSE <<n \div 10, n % 10>>
Frame(body) == LengthDigits(Len(body)) \o <<Hash>> \o body

Send(body) ==
    /\ ~dropped /\ ~broken /\ reading # "closed" /\ Len(sent) < MaxSent
    /\ net' = net \o Frame(body)
    /\ sent' = Append(sent, body)
    /\ UNCHANGED <<buffer, reading, size, dropped, processed, broken>>

SendNoise(bytes) ==
    /\ ~dropped /\ ~broken /\ reading # "closed"
    /\ net' = net \o bytes
    /\ broken' = TRUE
    /\ UNCHANGED <<buffer, reading, size, dropped, sent, processed>>

\* The connection breaks; the last bytes may never arrive.
Drop ==
    /\ ~dropped
    /\ \E n \in 0..Len(net) : net' = SubSeq(net, 1, n)
    /\ dropped' = TRUE
    /\ UNCHANGED <<buffer, reading, size, sent, processed, broken>>

-----------------------------------------------------------------------------
(* The session.                                                            *)

Rest(s, n) == SubSeq(s, n + 1, Len(s))
HashAt == SelectInSeq(buffer, LAMBDA b : b = Hash)    \* 0 when there is none

\* async_read_until has no '#' yet and takes some of what has arrived.
ReadHeaderBytes ==
    /\ reading = "header" /\ HashAt = 0
    /\ \E n \in 1..Len(net) : /\ buffer' = buffer \o SubSeq(net, 1, n)
                              /\ net' = Rest(net, n)
    /\ UNCHANGED <<reading, size, dropped, sent, processed, broken>>

\* std::stoul: the leading digits count and the rest is ignored; without a
\* leading digit it throws.
IsLength(header) == header # <<>> /\ header[1] < 10

\* The number that decimal digits stand for.
Number(digits) ==
    LET upTo[n \in 0..Len(digits)] ==
            IF n = 0 THEN 0 ELSE 10 * upTo[n - 1] + digits[n]
    IN upTo[Len(digits)]

\* Mutant: the '#' is taken for one of the counted bytes.
LengthOf_WithHash(header) == IF header[1] = 0 THEN 0 ELSE header[1] - 1

LengthOf(header) ==
    LET end == SelectInSeq(header, LAMBDA b : b >= 10)
        digits == IF end = 0 THEN header ELSE SubSeq(header, 1, end - 1)
    IN Number(digits)

\* Mutant: the buffer is emptied when a header was taken.
AfterHeader_Cleared == <<>>

AfterHeader == Rest(buffer, HashAt)

Header ==
    /\ reading = "header" /\ HashAt # 0
    /\ IsLength(SubSeq(buffer, 1, HashAt - 1))
    /\ size' = LengthOf(SubSeq(buffer, 1, HashAt - 1))
    /\ buffer' = AfterHeader
    /\ reading' = "body"
    /\ UNCHANGED <<net, dropped, sent, processed, broken>>

\* Not a length: the buffer is consumed, the socket closed, and nothing reads
\* on, so the session goes.
BadHeader ==
    /\ reading = "header" /\ HashAt # 0
    /\ ~IsLength(SubSeq(buffer, 1, HashAt - 1))
    /\ buffer' = <<>>
    /\ reading' = "closed"
    /\ UNCHANGED <<net, size, dropped, sent, processed, broken>>

\* transfer_exactly: never more than the body still lacks.
ToRead == IF size > Len(buffer) THEN size - Len(buffer) ELSE 0

ReadBodyBytes ==
    /\ reading = "body" /\ ToRead > 0
    /\ Len(net) > 0
    /\ \E n \in 1..(IF ToRead < Len(net) THEN ToRead ELSE Len(net)) :
         /\ buffer' = buffer \o SubSeq(net, 1, n)
         /\ net' = Rest(net, n)
    /\ UNCHANGED <<reading, size, dropped, sent, processed, broken>>

\* process_payload, and the next header: the connection is kept alive.
Body ==
    /\ reading = "body" /\ ToRead = 0
    /\ processed' = Append(processed, SubSeq(buffer, 1, size))
    /\ buffer' = Rest(buffer, size)
    /\ reading' = "header"
    /\ UNCHANGED <<net, size, dropped, sent, broken>>

\* The client is gone and all its bytes are read: the read fails.
ReadFails ==
    /\ dropped /\ net = <<>>
    /\ \/ reading = "header" /\ HashAt = 0
       \/ reading = "body" /\ ToRead > 0
    /\ reading' = "closed"
    /\ UNCHANGED <<net, buffer, size, dropped, sent, processed, broken>>

Session == ReadHeaderBytes \/ Header \/ BadHeader \/ ReadBodyBytes \/ Body \/ ReadFails

Next == \/ \E body \in Bodies : Send(body)
        \/ \E bytes \in Noise : SendNoise(bytes)
        \/ Drop \/ Session

\* The io_context thread runs the handlers whose bytes have arrived.
Spec == Init /\ [][Next]_vars /\ WF_vars(Session)

-----------------------------------------------------------------------------
(* Properties.                                                             *)

\* Every variable has its type.
TypeOK ==
    /\ net \in Seq(Byte) /\ buffer \in Seq(Byte)
    /\ reading \in {"header", "body", "closed"} /\ size \in Nat
    /\ dropped \in BOOLEAN /\ broken \in BOOLEAN
    /\ sent \in Seq(Bodies) /\ processed \in Seq(Seq(Byte))

\* The session keeps the promise of MessageChannel however the bytes are cut
\* into reads and whatever bytes the bodies hold: no body is lost, split,
\* repeated or taken for a header while the connection lives.
Channel == INSTANCE MessageChannel WITH open <- reading # "closed"
ImplementsChannel == Channel!Spec

\* "If plugin breaks protocol, it will be disconnected" (edmcoverlay.py:22)
\* and nobody else is: a session whose client keeps to the protocol ends only
\* when that client drops the connection.
OnlyBreakersAreClosed == reading = "closed" => broken \/ dropped
=============================================================================
