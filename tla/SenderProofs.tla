----------------------------- MODULE SenderProofs -----------------------------
(***************************************************************************)
(* Proofs about Sender, for any number of messages, deaths, timeouts and   *)
(* calls of connect(): no message is processed twice, and the order of the *)
(* queue holds until a sendall times out or the plugin connects.           *)
(***************************************************************************)
EXTENDS Sender, SequenceTheorems, TLAPS

Stages == {"away", "ensure", "loop", "create", "test", "send", "close", "done"}
Connection == [state : States, wire : Seq(Messages)]

\* A message is on its way, or has arrived.
OnWire(m) == \E c \in Conns : \E i \in 1..Len(conns[c].wire) : conns[c].wire[i] = m
HasGot(m) == \E i \in 1..Len(received) : received[i] = m

\* The worker has a message while it is in send(); the fourth failure of an
\* attempt to connect is never made.
StageInv ==
    /\ hand = 0 <=> at[Worker] \in {"away", "done"}
    /\ \A t \in Threads : at[t] = "create" => tries[t] < 3

\* The queue is in order, and the message in hand comes before it.
QueueInv ==
    /\ hand <= put
    /\ \A i \in 1..Len(queue) : queue[i] <= put /\ (queue[i] # 0 => hand < queue[i])
    /\ \A i, j \in 1..Len(queue) : i < j /\ queue[j] # 0 => queue[i] < queue[j]

\* What was sent is neither in hand nor in the queue any more.
SentInv ==
    \A m \in Messages : OnWire(m) \/ HasGot(m) =>
        m <= put /\ m # hand /\ \A i \in 1..Len(queue) : queue[i] # m

\* A message has one place on one connection or one among those received.
OnceInv ==
    /\ \A c, d \in Conns : \A i \in 1..Len(conns[c].wire), j \in 1..Len(conns[d].wire) :
         conns[c].wire[i] = conns[d].wire[j] => c = d /\ i = j
    /\ \A i, j \in 1..Len(received) : received[i] = received[j] => i = j
    /\ \A c \in Conns : \A i \in 1..Len(conns[c].wire) : ~HasGot(conns[c].wire[i])

\* No sendall timed out and the plugin has not called connect().
Calm == timeouts = 0 /\ calls = 0

\* Then there is one connection with something on the wire, and the worker
\* leaves it only when it ends.
WireInv ==
    Calm =>
        /\ at[Caller] = "away"
        /\ at[Worker] = "create" => sock = 0
        /\ at[Worker] = "close" => sock = 0 \/ conns[sock].state # "open"
        /\ \A c \in Conns : conns[c].wire # <<>> =>
             at[Worker] = "done" \/ (c = sock /\ conns[c].state = "open")
        /\ \A c, d \in Conns : conns[c].wire # <<>> /\ conns[d].wire # <<>> => c = d

\* And everything is in order from the oldest message received to the newest
\* in the queue.
OrderInv ==
    Calm =>
        /\ \A i, j \in 1..Len(received) : i < j => received[i] < received[j]
        /\ \A c \in Conns : \A i, j \in 1..Len(conns[c].wire) :
             i < j => conns[c].wire[i] < conns[c].wire[j]
        /\ \A m, n \in Messages : HasGot(m) /\ OnWire(n) => m < n
        /\ \A m \in Messages : OnWire(m) \/ HasGot(m) =>
             (hand # 0 => m < hand) /\ \A i \in 1..Len(queue) : queue[i] # 0 => m < queue[i]

Inv == TypeOK /\ StageInv /\ QueueInv /\ SentInv /\ OnceInv /\ WireInv /\ OrderInv

-----------------------------------------------------------------------------
(* What the steps do to queue and connections.                             *)

\* TypeOK, with the names used here.
LEMMA Types ==
  ASSUME TypeOK
  PROVE  /\ queue \in Seq(Messages \cup {0}) /\ Len(queue) \in Nat
         /\ conns \in Seq(Connection) /\ Len(conns) \in Nat
         /\ received \in Seq(Messages) /\ Len(received) \in Nat
         /\ at \in [Threads -> Stages] /\ tries \in [Threads -> 0..3]
         /\ put \in 0..MaxMessages /\ MaxMessages \in Nat
         /\ hand \in Messages \cup {0} /\ attempt \in 0..3 /\ sock \in Conns \cup {0}
         /\ \A c \in Conns : conns[c] \in Connection /\ Len(conns[c].wire) \in Nat
         /\ {Worker, Caller} \subseteq Threads /\ Worker # Caller
  <1>1. conns \in Seq(Connection) /\ Len(conns) \in Nat
    BY DEF TypeOK, Connection
  <1>2. ASSUME NEW c \in Conns PROVE conns[c] \in Connection /\ Len(conns[c].wire) \in Nat
    <2>1. conns[c] \in Connection
      BY <1>1, <1>2, ElementOfSeq DEF Conns
    <2>2. conns[c].wire \in Seq(Messages)
      BY <2>1 DEF Connection
    <2>3. QED
      BY <2>1, <2>2
  <1>3. queue \in Seq(Messages \cup {0}) /\ at \in [Threads -> Stages]
    BY DEF TypeOK, SHUTDOWN_SIGNAL, Stages
  <1>4. QED
    BY <1>1, <1>2, <1>3, SenderAssumption DEF TypeOK, Threads, Worker, Caller

\* Every connection keeps its wire or loses all of it; a new one is empty.
Shrunk ==
    \A c \in Conns' :
        conns'[c].wire = <<>> \/ (c \in Conns /\ conns'[c].wire = conns[c].wire)

\* One connection becomes another.
LEMMA OneChanges ==
  ASSUME TypeOK, NEW c \in Conns, NEW e \in Connection, conns' = [conns EXCEPT ![c] = e]
  PROVE  /\ conns' \in Seq(Connection) /\ Len(conns') = Len(conns) /\ Conns' = Conns
         /\ \A d \in Conns : conns'[d] = IF d = c THEN e ELSE conns[d]
  BY Types, ExceptSeq DEF Conns

\* A connection changes its state.
LEMMA NewState ==
  ASSUME TypeOK, NEW c \in Conns, NEW state \in States,
         conns' = [conns EXCEPT ![c].state = state]
  PROVE  /\ conns' \in Seq(Connection) /\ Len(conns') = Len(conns) /\ Conns' = Conns
         /\ \A d \in Conns : conns'[d].wire = conns[d].wire
         /\ \A d \in Conns : conns'[d].state = IF d = c THEN state ELSE conns[d].state
  <1> DEFINE e == [conns[c] EXCEPT !.state = state]
  <1>1. conns \in Seq(Connection) /\ conns[c] \in Connection
    BY Types
  <1>2. e \in Connection /\ e.wire = conns[c].wire /\ e.state = state
    BY <1>1 DEF Connection
  <1>3. conns' = [conns EXCEPT ![c] = e]
    OBVIOUS
  <1> HIDE DEF e
  <1>4. /\ conns' \in Seq(Connection) /\ Len(conns') = Len(conns) /\ Conns' = Conns
        /\ \A d \in Conns : conns'[d] = IF d = c THEN e ELSE conns[d]
    BY <1>2, <1>3, OneChanges, Zenon
  <1>5. QED
    BY <1>2, <1>4

\* The socket held is closed, if there is one.
LEMMA DroppedOne ==
  ASSUME TypeOK
  PROVE  /\ Dropped \in Seq(Connection) /\ Len(Dropped) = Len(conns)
         /\ \A c \in Conns : Dropped[c].wire = conns[c].wire
         /\ \A c \in Conns : c # sock => Dropped[c].state = conns[c].state
  <1>1. CASE sock = 0
    BY <1>1, Types DEF Dropped
  <1>2. CASE sock # 0
    <2> DEFINE e == [conns[sock] EXCEPT !.state = "closed"]
    <2>1. sock \in Conns /\ conns \in Seq(Connection) /\ conns[sock] \in Connection
      BY <1>2, Types
    <2>2. e \in Connection /\ e.wire = conns[sock].wire
      BY <2>1 DEF Connection, States
    <2>3. Dropped = [conns EXCEPT ![sock] = e]
      BY <1>2 DEF Dropped, Closed
    <2> HIDE DEF e
    <2>4. QED
      BY <2>1, <2>2, <2>3, ExceptSeq DEF Conns
  <1>3. QED
    BY <1>1, <1>2

\* The same as a step, which keeps all wires.
LEMMA DropStep ==
  ASSUME TypeOK, conns' = Dropped
  PROVE  /\ conns' \in Seq(Connection) /\ Len(conns') = Len(conns) /\ Conns' = Conns
         /\ \A c \in Conns : conns'[c].wire = conns[c].wire
         /\ \A c \in Conns : c # sock => conns'[c].state = conns[c].state
         /\ Shrunk
  BY DroppedOne DEF Conns, Shrunk

\* A connection is made.
LEMMA AddStep ==
  ASSUME TypeOK, conns' = Append(Dropped, [state |-> "open", wire |-> <<>>])
  PROVE  /\ conns' \in Seq(Connection) /\ Len(conns') = Len(conns) + 1
         /\ Conns' = Conns \cup {Len(conns) + 1}
         /\ \A c \in Conns : conns'[c] = Dropped[c]
         /\ conns'[Len(conns) + 1].wire = <<>>
         /\ Shrunk
  <1> DEFINE e == [state |-> "open", wire |-> <<>>]
  <1>1. e \in Connection /\ e.wire = <<>>
    BY DEF Connection, States
  <1>2. Len(conns) \in Nat /\ Dropped \in Seq(Connection) /\ Len(Dropped) = Len(conns)
    BY Types, DroppedOne
  <1>3. conns' = Append(Dropped, e)
    OBVIOUS
  <1> HIDE DEF e
  <1>4. /\ conns' \in Seq(Connection) /\ Len(conns') = Len(conns) + 1
        /\ \A c \in Conns : conns'[c] = Dropped[c]
        /\ conns'[Len(conns) + 1] = e
    BY <1>1, <1>2, <1>3, AppendProperties DEF Conns
  <1>5. Conns' = Conns \cup {Len(conns) + 1}
    BY <1>2, <1>4 DEF Conns
  <1>6. QED
    BY <1>1, <1>4, <1>5, DroppedOne DEF Shrunk

\* A message goes onto the wire of the socket.
LEMMA WireGrows ==
  ASSUME TypeOK, sock \in Conns, hand \in Messages,
         conns' = [conns EXCEPT ![sock].wire = Append(@, hand)]
  PROVE  /\ conns' \in Seq(Connection) /\ Conns' = Conns
         /\ \A c \in Conns : c # sock => conns'[c] = conns[c]
         /\ conns'[sock].state = conns[sock].state
         /\ Len(conns'[sock].wire) = Len(conns[sock].wire) + 1
         /\ \A i \in 1..Len(conns[sock].wire) : conns'[sock].wire[i] = conns[sock].wire[i]
         /\ conns'[sock].wire[Len(conns[sock].wire) + 1] = hand
  <1> DEFINE w == conns[sock].wire
             e == [conns[sock] EXCEPT !.wire = Append(w, hand)]
  <1>1. conns \in Seq(Connection) /\ conns[sock] \in Connection
    BY Types
  <1>2. w \in Seq(Messages)
    BY <1>1 DEF Connection
  <1>3. /\ Append(w, hand) \in Seq(Messages) /\ Len(Append(w, hand)) = Len(w) + 1
        /\ \A i \in 1..Len(w) : Append(w, hand)[i] = w[i]
        /\ Append(w, hand)[Len(w) + 1] = hand
    BY <1>2, AppendProperties
  <1>4. e \in Connection /\ e.wire = Append(w, hand) /\ e.state = conns[sock].state
    BY <1>1, <1>3 DEF Connection
  <1>5. conns' = [conns EXCEPT ![sock] = e]
    OBVIOUS
  <1> HIDE DEF e
  <1>6. /\ conns' \in Seq(Connection) /\ Len(conns') = Len(conns) /\ Conns' = Conns
        /\ \A c \in Conns : conns'[c] = IF c = sock THEN e ELSE conns[c]
    BY <1>4, <1>5, OneChanges, Zenon
  <1>7. QED
    BY <1>3, <1>4, <1>6

\* The oldest message leaves a wire.
LEMMA WireTail ==
  ASSUME TypeOK, NEW c \in Conns, conns[c].wire # <<>>,
         conns' = [conns EXCEPT ![c].wire = Tail(@)]
  PROVE  /\ conns' \in Seq(Connection) /\ Conns' = Conns
         /\ \A d \in Conns : conns'[d].state = conns[d].state
         /\ \A d \in Conns : d # c => conns'[d] = conns[d]
         /\ Len(conns[c].wire) \in Nat \ {0}
         /\ Len(conns'[c].wire) = Len(conns[c].wire) - 1
         /\ \A i \in 1..Len(conns'[c].wire) : conns'[c].wire[i] = conns[c].wire[i + 1]
         /\ Head(conns[c].wire) = conns[c].wire[1] /\ Head(conns[c].wire) \in Messages
  <1> DEFINE w == conns[c].wire
             e == [conns[c] EXCEPT !.wire = Tail(w)]
  <1>1. conns \in Seq(Connection) /\ conns[c] \in Connection
    BY Types
  <1>2. w \in Seq(Messages) /\ w # <<>>
    BY <1>1 DEF Connection
  <1>3. /\ Tail(w) \in Seq(Messages) /\ Len(Tail(w)) = Len(w) - 1
        /\ \A i \in 1..Len(Tail(w)) : Tail(w)[i] = w[i + 1]
        /\ Len(w) \in Nat \ {0} /\ Head(w) = w[1] /\ Head(w) \in Messages
    BY <1>2, HeadTailProperties, EmptySeq
  <1>4. e \in Connection /\ e.wire = Tail(w) /\ e.state = conns[c].state
    BY <1>1, <1>3 DEF Connection
  <1>5. conns' = [conns EXCEPT ![c] = e]
    OBVIOUS
  <1> HIDE DEF e
  <1>6. /\ conns' \in Seq(Connection) /\ Len(conns') = Len(conns) /\ Conns' = Conns
        /\ \A d \in Conns : conns'[d] = IF d = c THEN e ELSE conns[d]
    BY <1>4, <1>5, OneChanges, Zenon
  <1>7. QED
    BY <1>3, <1>4, <1>6

\* The binary ends.
LEMMA WiresDie ==
  ASSUME TypeOK, Die
  PROVE  /\ conns' \in Seq(Connection) /\ Conns' = Conns
         /\ \A c \in Conns : conns'[c].wire = <<>>
         /\ \A c \in Conns : conns'[c].state # "open"
         /\ Shrunk
  <1>1. PICK state \in {"half", "reset"} :
          conns' = [c \in Conns |->
                      [state |-> IF conns[c].state = "open" THEN state ELSE conns[c].state,
                       wire |-> <<>>]]
    BY DEF Die
  <1>2. \A c \in Conns : conns[c].state \in States
    BY Types DEF Connection
  <1>3. conns' \in [1..Len(conns) -> Connection] /\ Len(conns) \in Nat
    BY <1>1, <1>2, Types DEF Connection, States, Conns
  <1>4. conns' \in Seq(Connection)
    BY <1>3, SeqDef
  <1>5. DOMAIN conns' = 1..Len(conns)
    BY <1>3
  <1>6. Len(conns') = Len(conns)
    BY <1>3, <1>4, <1>5, LenProperties
  <1>7. Conns' = Conns
    BY <1>6 DEF Conns
  <1>8. QED
    BY <1>1, <1>4, <1>7 DEF Shrunk

-----------------------------------------------------------------------------
(* Types and stages.                                                       *)

\* The steps a proof has to look at, one by one.
LEMMA Steps ==
  ASSUME [Next]_vars
  PROVE  \/ UNCHANGED vars
         \/ Put \/ Stop \/ CallConnect \/ Take \/ TakeShutdown
         \/ \E t \in Threads : Ensure(t) \/ Loop(t) \/ Create(t) \/ CreateFails(t)
         \/ Test \/ SendAll \/ SendIntoDead \/ SendFails \/ SendRaises \/ SendTimesOut
         \/ Close \/ (\E c \in Conns : Read(c)) \/ Die \/ Restart
  BY DEF Next, SendWorker, Binary, Connecting, Threads

\* The queue gets longer.
LEMMA QueueGrows ==
  ASSUME TypeOK, Put \/ Stop
  PROVE  /\ queue' \in Seq(Messages \cup {0}) /\ put' = put + 1 /\ put' \in 0..MaxMessages
         /\ \A i \in 1..Len(queue') :
              \/ i \in 1..Len(queue) /\ queue'[i] = queue[i]
              \/ i = Len(queue) + 1 /\ queue'[i] = put + 1
              \/ i > Len(queue) + 1 /\ queue'[i] = 0
  <1>1. /\ queue \in Seq(Messages \cup {0}) /\ put \in 0..MaxMessages
        /\ MaxMessages \in Nat /\ Len(queue) \in Nat
    BY Types
  <1>2. put' = put + 1 /\ put < MaxMessages
    BY DEF Put, Stop
  <1>3. put + 1 \in Messages /\ put' \in 0..MaxMessages
    BY <1>1, <1>2 DEF Messages
  <1>4. CASE Put
    <2>1. queue' = Append(queue, put + 1)
      BY <1>4 DEF Put
    <2>2. QED
      BY <1>1, <1>2, <1>3, <2>1, AppendProperties
  <1>5. CASE Stop
    <2> DEFINE s == <<put + 1, 0>>
    <2>1. queue' = queue \o s
      BY <1>5 DEF Stop, SHUTDOWN_SIGNAL
    <2>2. s \in Seq(Messages \cup {0}) /\ Len(s) = 2 /\ s[1] = put + 1 /\ s[2] = 0
      BY <1>3
    <2> HIDE DEF s
    <2>3. /\ queue \o s \in Seq(Messages \cup {0}) /\ Len(queue \o s) = Len(queue) + Len(s)
          /\ \A i \in 1..Len(queue) + Len(s) :
               (queue \o s)[i] = IF i <= Len(queue) THEN queue[i] ELSE s[i - Len(queue)]
      BY <1>1, <2>2, ConcatProperties, Zenon
    <2>4. QED
      BY <1>1, <1>2, <1>3, <2>1, <2>2, <2>3
  <1>6. QED
    BY <1>4, <1>5

\* The queue loses its head.
LEMMA QueueShrinks ==
  ASSUME TypeOK, Take \/ TakeShutdown
  PROVE  /\ queue' \in Seq(Messages \cup {0})
         /\ 1 \in 1..Len(queue) /\ Head(queue) = queue[1]
         /\ \A i \in 1..Len(queue') : i + 1 \in 1..Len(queue) /\ queue'[i] = queue[i + 1]
  <1>1. queue \in Seq(Messages \cup {0}) /\ queue # <<>> /\ queue' = Tail(queue)
    BY Types DEF Take, TakeShutdown
  <1>2. Len(queue) \in Nat \ {0}
    BY <1>1, EmptySeq
  <1>3. /\ queue' \in Seq(Messages \cup {0}) /\ Len(queue') = Len(queue) - 1
        /\ \A i \in 1..Len(queue') : queue'[i] = queue[i + 1]
    BY <1>1, HeadTailProperties
  <1>4. Head(queue) = queue[1]
    BY <1>1, SMT
  <1>5. QED
    BY <1>2, <1>3, <1>4

\* Another attempt of send(), or its end.
LEMMA NextAttempts ==
  ASSUME TypeOK, NextAttempt
  PROVE  /\ hand' \in {hand, 0} /\ attempt' \in 0..3 /\ at' \in [Threads -> Stages]
         /\ \A t \in Threads : t # Worker => at'[t] = at[t]
         /\ \/ at'[Worker] = "ensure" /\ hand' = hand
            \/ at'[Worker] = "away" /\ hand' = 0
  <1>1. /\ at \in [Threads -> Stages] /\ Worker \in Threads /\ attempt \in 0..3
        /\ {"away", "ensure"} \subseteq Stages
    BY Types DEF Stages
  <1>2. CASE attempt < 3
    BY <1>1, <1>2 DEF NextAttempt, Again
  <1>3. CASE ~(attempt < 3)
    BY <1>1, <1>3 DEF NextAttempt, Finish
  <1>4. QED
    BY <1>2, <1>3

\* Every step keeps the types and the stages.
LEMMA NextType == TypeOK /\ StageInv /\ [Next]_vars => TypeOK' /\ StageInv'
  <1> SUFFICES ASSUME TypeOK, StageInv, [Next]_vars PROVE TypeOK' /\ StageInv'
    OBVIOUS
  <1>1. /\ queue \in Seq(Messages \cup {0}) /\ conns \in Seq(Connection)
        /\ received \in Seq(Messages) /\ Len(conns) \in Nat
        /\ at \in [Threads -> Stages] /\ tries \in [Threads -> 0..3]
        /\ put \in 0..MaxMessages
        /\ hand \in Messages \cup {0} /\ attempt \in 0..3 /\ sock \in Conns \cup {0}
        /\ Worker \in Threads /\ Caller \in Threads /\ Worker # Caller
    BY Types
  <1>2. /\ stopped \in BOOLEAN /\ up \in BOOLEAN /\ deaths \in Nat /\ timeouts \in Nat
        /\ calls \in Nat
    BY DEF TypeOK
  <1>3. Stages = {"away", "ensure", "loop", "create", "test", "send", "close", "done"}
    BY DEF Stages
  <1> DEFINE
        Lines == /\ queue' \in Seq(Messages \cup {0}) /\ put' \in 0..MaxMessages
                 /\ received' \in Seq(Messages)
        Sockets == conns' \in Seq(Connection) /\ sock' \in Conns' \cup {0}
        Places == /\ at' \in [Threads -> Stages] /\ tries' \in [Threads -> 0..3]
                  /\ hand' \in Messages \cup {0} /\ attempt' \in 0..3
                  /\ hand' = 0 <=> at'[Worker] \in {"away", "done"}
                  /\ \A t \in Threads : at'[t] = "create" => tries'[t] < 3
        Others == /\ stopped' \in BOOLEAN /\ up' \in BOOLEAN
                  /\ deaths' \in Nat /\ timeouts' \in Nat /\ calls' \in Nat
  <1>4. SUFFICES Lines /\ Sockets /\ Places /\ Others
    BY Zenon DEF TypeOK, StageInv, SHUTDOWN_SIGNAL, Stages, Connection
  <1>5. UNCHANGED <<queue, put, received>> => Lines
    BY <1>1
  <1>6. UNCHANGED <<conns, sock>> => Sockets
    BY <1>1 DEF Conns
  <1>7. UNCHANGED <<at, tries, hand, attempt>> => Places
    BY <1>1 DEF StageInv
  <1>8. UNCHANGED <<stopped, up, deaths, timeouts, calls>> => Others
    BY <1>2
  <1>9. CASE UNCHANGED vars
    BY <1>5, <1>6, <1>7, <1>8, <1>9 DEF vars, queueVars, workVars, netVars
  <1>10. CASE Put \/ Stop
    <2>1. Lines
      BY <1>1, <1>10, QueueGrows DEF Put, Stop, netVars
    <2>2. Sockets /\ Places
      BY <1>6, <1>7, <1>10 DEF Put, Stop, workVars, netVars
    <2>3. Others
      BY <1>2, <1>10 DEF Put, Stop, netVars
    <2>4. QED
      BY <2>1, <2>2, <2>3
  <1>11. CASE CallConnect
    <2>1. Places
      BY <1>1, <1>3, <1>11 DEF CallConnect, workVars, StageInv
    <2>2. Others
      BY <1>2, <1>11 DEF CallConnect, queueVars, netVars
    <2>3. QED
      BY <1>5, <1>6, <1>11, <2>1, <2>2 DEF CallConnect, queueVars, netVars
  <1>12. CASE Take
    <2>1. Lines
      BY <1>1, <1>12, QueueShrinks DEF Take, netVars
    <2>2. hand' = queue[1] /\ hand' # 0 /\ 1 \in 1..Len(queue)
      BY <1>12, QueueShrinks DEF Take, SHUTDOWN_SIGNAL
    <2>3. hand' \in Messages
      BY <1>1, <2>2, ElementOfSeq
    <2>4. Places
      BY <1>1, <1>3, <1>12, <2>2, <2>3 DEF Take, StageInv
    <2>5. QED
      BY <1>6, <1>8, <1>12, <2>1, <2>4 DEF Take, netVars
  <1>13. CASE TakeShutdown
    <2>1. Lines
      BY <1>1, <1>13, QueueShrinks DEF TakeShutdown
    <2>2. conns' = Dropped /\ sock' = 0
      BY <1>13 DEF TakeShutdown, Dropped
    <2>3. Sockets
      BY <2>2, DropStep
    <2>4. Places
      BY <1>1, <1>3, <1>13 DEF TakeShutdown, workVars, StageInv
    <2>5. QED
      BY <1>8, <1>13, <2>1, <2>3, <2>4 DEF TakeShutdown
  <1>14. ASSUME NEW t \in Threads, Ensure(t) PROVE Lines /\ Sockets /\ Places /\ Others
    <2>1. Places
      BY <1>1, <1>3, <1>14 DEF Ensure, workVars, StageInv
    <2>2. Others
      BY <1>2, <1>14 DEF Ensure, queueVars
    <2>3. QED
      BY <1>5, <1>6, <1>14, <2>1, <2>2 DEF Ensure, queueVars
  <1>15. ASSUME NEW t \in Threads, Loop(t) PROVE Lines /\ Sockets /\ Places /\ Others
    <2>1. at[t] = "loop" /\ UNCHANGED <<attempt, hand>>
      BY <1>15 DEF Loop, workVars
    <2>2. ASSUME sock = 0, tries[t] < 3 PROVE Places
      <3>1. at' = [at EXCEPT ![t] = "create"] /\ tries' = tries
        BY <1>15, <2>2 DEF Loop
      <3>2. at' \in [Threads -> Stages] /\ at'[Worker] \in {at[Worker], "create"}
        BY <1>1, <1>3, <3>1
      <3>3. hand' = 0 <=> at'[Worker] \in {"away", "done"}
        BY <1>1, <2>1, <3>1 DEF StageInv
      <3>4. \A u \in Threads : at'[u] = "create" => tries'[u] < 3
        BY <1>1, <2>2, <3>1 DEF StageInv
      <3>5. QED
        BY <1>1, <2>1, <3>1, <3>2, <3>3, <3>4
    <2>3. ASSUME ~(sock = 0 /\ tries[t] < 3) PROVE Places
      <3>1. PICK place \in {"test", "away"} :
              at' = [at EXCEPT ![t] = place] /\ (t = Worker => place = "test")
        BY <1>15, <2>3 DEF Loop, Connected
      <3>2. tries' = [tries EXCEPT ![t] = 0]
        BY <1>15, <2>3 DEF Loop, Connected
      <3>3. at' \in [Threads -> Stages] /\ tries' \in [Threads -> 0..3]
        BY <1>1, <1>3, <3>1, <3>2
      <3>4. hand' = 0 <=> at'[Worker] \in {"away", "done"}
        BY <1>1, <2>1, <3>1 DEF StageInv
      <3>5. \A u \in Threads : at'[u] = "create" => tries'[u] < 3
        BY <1>1, <3>1, <3>2 DEF StageInv
      <3>6. QED
        BY <1>1, <2>1, <3>3, <3>4, <3>5
    <2>4. Places
      BY <2>2, <2>3
    <2>5. QED
      BY <1>5, <1>6, <1>8, <1>15, <2>4 DEF Loop, queueVars, netVars
  <1>16. ASSUME NEW t \in Threads, Create(t) \/ CreateFails(t)
         PROVE  Lines /\ Sockets /\ Places /\ Others
    <2>1. Sockets
      <3>1. CASE Create(t)
        BY <1>1, <3>1, AddStep DEF Create
      <3>2. CASE CreateFails(t)
        BY <3>2, DropStep DEF CreateFails
      <3>3. QED
        BY <1>16, <3>1, <3>2
    <2>2. tries[t] < 3 /\ tries' = [tries EXCEPT ![t] = @ + 1]
          /\ at' = [at EXCEPT ![t] = "loop"] /\ at[t] = "create" /\ UNCHANGED workVars
      BY <1>16 DEF Create, CreateFails, StageInv
    <2>3. Places
      BY <1>1, <1>3, <2>2 DEF workVars, StageInv
    <2>4. QED
      BY <1>5, <1>8, <1>16, <2>1, <2>3 DEF Create, CreateFails, queueVars
  <1>17. CASE Test
    <2>1. Places
      <3>1. CASE sock # 0
        BY <1>1, <1>3, <1>17, <3>1 DEF Test, workVars, StageInv
      <3>2. CASE sock = 0
        BY <1>1, <1>17, <3>2, NextAttempts DEF Test, StageInv
      <3>3. QED
        BY <3>1, <3>2
    <2>2. QED
      BY <1>5, <1>6, <1>8, <1>17, <2>1 DEF Test, queueVars, netVars
  <1>18. CASE SendAll \/ SendIntoDead
    <2>1. sock \in Conns /\ hand \in Messages
      BY <1>1, <1>18 DEF SendAll, SendIntoDead, Sending, StageInv
    <2>2. Sockets
      <3>1. CASE SendAll
        BY <1>1, <2>1, <3>1, WireGrows DEF SendAll
      <3>2. CASE SendIntoDead
        BY <1>1, <2>1, <3>2, NewState DEF SendIntoDead, States
      <3>3. QED
        BY <1>18, <3>1, <3>2
    <2>3. Finish /\ UNCHANGED <<queueVars, tries, received, up, deaths, calls, timeouts>>
      BY <1>18 DEF SendAll, SendIntoDead, Sending
    <2>4. Places
      BY <1>1, <1>3, <2>3 DEF Finish, StageInv
    <2>5. QED
      BY <1>5, <1>8, <2>2, <2>3, <2>4 DEF queueVars
  <1>19. CASE SendFails \/ SendTimesOut
    <2>1. Places
      BY <1>1, <1>3, <1>19
         DEF SendFails, SendTimesOut, Sending, ToClose, workVars, StageInv
    <2>2. Others
      BY <1>2, <1>19 DEF SendFails, SendTimesOut, Sending, queueVars
    <2>3. QED
      BY <1>5, <1>6, <1>19, <2>1, <2>2 DEF SendFails, SendTimesOut, Sending, queueVars
  <1>20. CASE SendRaises
    <2>1. Places
      BY <1>1, <1>3, <1>20 DEF SendRaises, Finish, StageInv
    <2>2. QED
      BY <1>5, <1>6, <1>8, <1>20, <2>1 DEF SendRaises, queueVars, netVars
  <1>21. CASE Close
    <2>1. Sockets
      BY <1>21, DropStep DEF Close, AfterClose
    <2>2. Places
      BY <1>1, <1>21, NextAttempts DEF Close, StageInv
    <2>3. QED
      BY <1>5, <1>8, <1>21, <2>1, <2>2 DEF Close, queueVars
  <1>22. ASSUME NEW c \in Conns, Read(c) PROVE Lines /\ Sockets /\ Places /\ Others
    <2>1. Sockets /\ Head(conns[c].wire) \in Messages
      BY <1>1, <1>22, WireTail DEF Read
    <2>2. received' \in Seq(Messages)
      BY <1>1, <1>22, <2>1, AppendProperties DEF Read
    <2>3. Lines
      BY <1>1, <1>22, <2>2 DEF Read, queueVars
    <2>4. Places
      BY <1>7, <1>22 DEF Read, workVars
    <2>5. Others
      BY <1>2, <1>22 DEF Read, queueVars
    <2>6. QED
      BY <2>1, <2>3, <2>4, <2>5
  <1>23. CASE Die
    <2>1. Sockets
      BY <1>1, <1>23, WiresDie DEF Die
    <2>2. /\ UNCHANGED <<stopped, timeouts, calls>> /\ up' = FALSE /\ deaths' = deaths + 1
          /\ UNCHANGED <<queue, put, received, at, tries, hand, attempt>>
      BY <1>23, Zenon DEF Die, queueVars, workVars
    <2>3. deaths' \in Nat
      BY <1>2, <2>2
    <2>4. Others
      BY <1>2, <2>2, <2>3, Zenon
    <2>5. QED
      BY <1>5, <1>7, <2>1, <2>2, <2>4
  <1>24. CASE Restart
    <2>1. Others
      BY <1>2, <1>24 DEF Restart, queueVars
    <2>2. QED
      BY <1>5, <1>6, <1>7, <1>24, <2>1 DEF Restart, queueVars, workVars
  <1>25. QED
    BY <1>9, <1>10, <1>11, <1>12, <1>13, <1>14, <1>15, <1>16, <1>17, <1>18, <1>19,
       <1>20, <1>21, <1>22, <1>23, <1>24, Steps

-----------------------------------------------------------------------------
(* Where the messages are.                                                 *)

\* Nothing is put, taken, sent or read; messages may get lost.
Quiet ==
    /\ UNCHANGED <<queue, put, received>>
    /\ hand' \in {hand, 0}
    /\ Shrunk
    /\ Calm' => Calm

\* A step that leaves the connections alone leaves the wires alone.
LEMMA WiresStay == ASSUME UNCHANGED conns PROVE Shrunk /\ Conns' = Conns
  BY DEF Shrunk, Conns

\* What a step is for the messages.
LEMMA Kinds ==
  ASSUME TypeOK, [Next]_vars
  PROVE  Quiet \/ Put \/ Stop \/ Take \/ TakeShutdown \/ SendAll \/ (\E c \in Conns : Read(c))
  <1>1. deaths \in Nat /\ timeouts \in Nat /\ calls \in Nat
    BY DEF TypeOK
  <1>2. CASE UNCHANGED vars
    BY <1>2, WiresStay DEF vars, queueVars, workVars, netVars, Quiet, Calm
  <1>3. CASE CallConnect
    BY <1>1, <1>3, WiresStay DEF CallConnect, queueVars, workVars, netVars, Quiet, Calm
  <1>4. ASSUME NEW t \in Threads, Ensure(t) \/ Loop(t) PROVE Quiet
    BY <1>4, WiresStay DEF Ensure, Loop, queueVars, workVars, netVars, Quiet, Calm
  <1>5. ASSUME NEW t \in Threads, Create(t) \/ CreateFails(t) PROVE Quiet
    <2>1. Shrunk
      BY <1>5, AddStep, DropStep, Zenon DEF Create, CreateFails
    <2>2. UNCHANGED <<queue, put, received, hand, timeouts, calls>>
      BY <1>5, Zenon DEF Create, CreateFails, queueVars, workVars
    <2>3. QED
      BY <2>1, <2>2 DEF Quiet, Calm
  <1>6. CASE Test
    <2>1. hand' \in {hand, 0}
      BY <1>6, NextAttempts DEF Test, workVars
    <2>2. QED
      BY <1>6, <2>1, WiresStay DEF Test, queueVars, netVars, Quiet, Calm
  <1>7. CASE SendIntoDead
    <2>1. sock \in Conns
      BY <1>7, Types DEF SendIntoDead, Sending
    <2>2. Shrunk
      BY <1>7, <2>1, NewState DEF SendIntoDead, States, Shrunk
    <2>3. UNCHANGED <<queue, put, received, timeouts, calls>> /\ hand' = 0
      BY <1>7, Zenon DEF SendIntoDead, Sending, Finish, queueVars
    <2>4. QED
      BY <2>2, <2>3 DEF Quiet, Calm
  <1>8. CASE SendFails \/ SendRaises
    BY <1>8, WiresStay
       DEF SendFails, SendRaises, Sending, ToClose, Finish, queueVars, workVars, netVars, Quiet, Calm
  <1>9. CASE SendTimesOut
    BY <1>1, <1>9, WiresStay
       DEF SendTimesOut, Sending, ToClose, queueVars, workVars, Quiet, Calm
  <1>10. CASE Close
    <2>1. Shrunk /\ hand' \in {hand, 0}
      BY <1>10, DropStep, NextAttempts DEF Close
    <2>2. QED
      BY <1>10, <2>1 DEF Close, queueVars, Quiet, Calm
  <1>11. CASE Die
    <2>1. UNCHANGED <<queue, put, received, hand, timeouts, calls>>
      BY <1>11, Zenon DEF Die, queueVars, workVars
    <2>2. QED
      BY <1>11, <2>1, WiresDie DEF Quiet, Calm
  <1>12. CASE Restart
    BY <1>12, WiresStay DEF Restart, queueVars, workVars, Quiet, Calm
  <1>13. QED
    BY <1>2, <1>3, <1>4, <1>5, <1>6, <1>7, <1>8, <1>9, <1>10, <1>11, <1>12, Steps, Zenon

\* A message on a wire is one, and what a step that loses some leaves was there.
LEMMA WhatIsLeft ==
  ASSUME TypeOK, Shrunk
  PROVE  /\ \A c \in Conns' : \A i \in 1..Len(conns'[c].wire) :
              /\ c \in Conns /\ i \in 1..Len(conns[c].wire)
              /\ conns'[c].wire[i] = conns[c].wire[i]
         /\ \A m : OnWire(m)' => OnWire(m)
  <1>1. ASSUME NEW c \in Conns', NEW i \in 1..Len(conns'[c].wire)
        PROVE  /\ c \in Conns /\ i \in 1..Len(conns[c].wire)
               /\ conns'[c].wire[i] = conns[c].wire[i]
    <2>1. conns'[c].wire # <<>>
      BY <1>1
    <2>2. QED
      BY <1>1, <2>1 DEF Shrunk
  <1>2. QED
    BY <1>1, Zenon DEF OnWire

\* What is on a wire, or received, is a message.
LEMMA SentIsMessage ==
  ASSUME TypeOK
  PROVE  /\ \A c \in Conns : \A i \in 1..Len(conns[c].wire) : conns[c].wire[i] \in Messages
         /\ \A i \in 1..Len(received) : received[i] \in Messages
         /\ \A m : OnWire(m) \/ HasGot(m) => m \in Messages
  <1>1. ASSUME NEW c \in Conns, NEW i \in 1..Len(conns[c].wire)
        PROVE  conns[c].wire[i] \in Messages
    <2>1. conns[c].wire \in Seq(Messages)
      BY Types DEF Connection
    <2>2. QED
      BY <1>1, <2>1, ElementOfSeq
  <1>2. \A i \in 1..Len(received) : received[i] \in Messages
    BY Types, ElementOfSeq
  <1>3. QED
    BY <1>1, <1>2 DEF OnWire, HasGot

\* What SendAll does to the messages on the wire.
LEMMA SendPlaces ==
  ASSUME TypeOK, StageInv, SendAll
  PROVE  /\ hand \in Messages /\ hand' = 0 /\ sock \in Conns /\ Conns' = Conns
         /\ UNCHANGED <<queue, put, received, timeouts, calls>>
         /\ Len(conns[sock].wire) \in Nat
         /\ \A c \in Conns : c # sock => conns'[c].wire = conns[c].wire
         /\ \A i \in 1..Len(conns'[sock].wire) :
              \/ i \in 1..Len(conns[sock].wire) /\ conns'[sock].wire[i] = conns[sock].wire[i]
              \/ i = Len(conns[sock].wire) + 1 /\ conns'[sock].wire[i] = hand
         /\ \A m : OnWire(m)' => OnWire(m) \/ m = hand
  <1>1. /\ hand \in Messages /\ sock \in Conns /\ hand' = 0
        /\ conns' = [conns EXCEPT ![sock].wire = Append(@, hand)]
        /\ UNCHANGED <<queue, put, received, timeouts, calls>>
    BY Types, Zenon DEF SendAll, Sending, Finish, StageInv, queueVars
  <1>2. Len(conns[sock].wire) \in Nat
    BY <1>1, Types
  <1>3. /\ Conns' = Conns /\ \A c \in Conns : c # sock => conns'[c].wire = conns[c].wire
        /\ Len(conns'[sock].wire) = Len(conns[sock].wire) + 1
        /\ \A i \in 1..Len(conns[sock].wire) : conns'[sock].wire[i] = conns[sock].wire[i]
        /\ conns'[sock].wire[Len(conns[sock].wire) + 1] = hand
    BY <1>1, WireGrows, Zenon
  <1>4. \A i \in 1..Len(conns'[sock].wire) :
           \/ i \in 1..Len(conns[sock].wire) /\ conns'[sock].wire[i] = conns[sock].wire[i]
           \/ i = Len(conns[sock].wire) + 1 /\ conns'[sock].wire[i] = hand
    BY <1>2, <1>3
  <1>5. \A m : OnWire(m)' => OnWire(m) \/ m = hand
    BY <1>1, <1>3, <1>4 DEF OnWire
  <1>6. QED
    BY <1>1, <1>2, <1>3, <1>4, <1>5, Zenon

\* What Read does to the messages on the wire and those received.
LEMMA ReadPlaces ==
  ASSUME TypeOK, NEW c \in Conns, Read(c)
  PROVE  /\ Conns' = Conns /\ UNCHANGED <<queue, put, hand, timeouts, calls>>
         /\ \A d \in Conns : d # c => conns'[d].wire = conns[d].wire
         /\ 1 \in 1..Len(conns[c].wire) /\ Len(received) \in Nat
         /\ \A i \in 1..Len(conns'[c].wire) :
              i + 1 \in 1..Len(conns[c].wire) /\ conns'[c].wire[i] = conns[c].wire[i + 1]
         /\ \A i \in 1..Len(received') :
              \/ i \in 1..Len(received) /\ received'[i] = received[i]
              \/ i = Len(received) + 1 /\ received'[i] = conns[c].wire[1]
         /\ \A m : OnWire(m)' => OnWire(m)
         /\ \A m : HasGot(m)' => HasGot(m) \/ m = conns[c].wire[1]
         /\ OnWire(conns[c].wire[1])
  <1>1. /\ conns[c].wire # <<>> /\ received' = Append(received, Head(conns[c].wire))
        /\ conns' = [conns EXCEPT ![c].wire = Tail(@)]
        /\ UNCHANGED <<queue, put, hand, timeouts, calls>>
    BY Zenon DEF Read, queueVars, workVars
  <1>2. /\ Conns' = Conns /\ \A d \in Conns : d # c => conns'[d].wire = conns[d].wire
        /\ Len(conns[c].wire) \in Nat \ {0}
        /\ Len(conns'[c].wire) = Len(conns[c].wire) - 1
        /\ \A i \in 1..Len(conns'[c].wire) : conns'[c].wire[i] = conns[c].wire[i + 1]
        /\ Head(conns[c].wire) = conns[c].wire[1] /\ Head(conns[c].wire) \in Messages
    BY <1>1, WireTail, Zenon
  <1>3. 1 \in 1..Len(conns[c].wire)
    BY <1>2
  <1>4. \A i \in 1..Len(conns'[c].wire) :
           i + 1 \in 1..Len(conns[c].wire) /\ conns'[c].wire[i] = conns[c].wire[i + 1]
    BY <1>2
  <1>5. received \in Seq(Messages) /\ Len(received) \in Nat
    BY Types
  <1>6. \A i \in 1..Len(received') :
           \/ i \in 1..Len(received) /\ received'[i] = received[i]
           \/ i = Len(received) + 1 /\ received'[i] = conns[c].wire[1]
    <2>1. received' = Append(received, conns[c].wire[1]) /\ conns[c].wire[1] \in Messages
      BY <1>1, <1>2, Zenon
    <2>2. /\ Len(received') = Len(received) + 1
          /\ \A i \in 1..Len(received) : received'[i] = received[i]
          /\ received'[Len(received) + 1] = conns[c].wire[1]
      BY <1>5, <2>1, AppendProperties
    <2>3. QED
      BY <1>5, <2>2
  <1>7. \A m : OnWire(m)' => OnWire(m)
    BY <1>2, <1>4 DEF OnWire
  <1>8. (\A m : HasGot(m)' => HasGot(m) \/ m = conns[c].wire[1]) /\ OnWire(conns[c].wire[1])
    BY <1>3, <1>6, Zenon DEF HasGot, OnWire
  <1>9. QED
    BY <1>1, <1>2, <1>3, <1>4, <1>5, <1>6, <1>7, <1>8, Zenon

\* The queue stays in order.
LEMMA NextQueue == TypeOK /\ StageInv /\ QueueInv /\ [Next]_vars => QueueInv'
  <1> SUFFICES ASSUME TypeOK, StageInv, QueueInv, [Next]_vars PROVE QueueInv'
    OBVIOUS
  <1>1. /\ queue \in Seq(Messages \cup {0}) /\ put \in 0..MaxMessages /\ MaxMessages \in Nat
        /\ hand \in 0..MaxMessages /\ Len(queue) \in Nat
        /\ \A i \in 1..Len(queue) : queue[i] \in 0..MaxMessages
    <2>1. \A i \in 1..Len(queue) : queue[i] \in Messages \cup {0}
      BY Types, ElementOfSeq
    <2>2. QED
      BY <2>1, Types DEF Messages
  <1>2. CASE UNCHANGED <<queue, put>> /\ hand' \in {hand, 0}
    BY <1>1, <1>2 DEF QueueInv
  <1>3. CASE Put \/ Stop
    <2>1. hand' = hand
      BY <1>3 DEF Put, Stop, workVars
    <2>2. /\ put' = put + 1
          /\ \A i \in 1..Len(queue') :
               \/ i \in 1..Len(queue) /\ queue'[i] = queue[i]
               \/ i = Len(queue) + 1 /\ queue'[i] = put + 1
               \/ i > Len(queue) + 1 /\ queue'[i] = 0
      BY <1>3, QueueGrows
    <2>3. ASSUME NEW i \in 1..Len(queue')
          PROVE  queue'[i] <= put' /\ (queue'[i] # 0 => hand' < queue'[i])
      BY <1>1, <2>1, <2>2 DEF QueueInv
    <2>4. ASSUME NEW i \in 1..Len(queue'), NEW j \in 1..Len(queue'), i < j, queue'[j] # 0
          PROVE  queue'[i] < queue'[j]
      <3>1. i \in 1..Len(queue) /\ queue'[i] = queue[i]
        BY <1>1, <2>2, <2>4
      <3>2. queue[i] <= put
        BY <3>1 DEF QueueInv
      <3>3. CASE j \in 1..Len(queue) /\ queue'[j] = queue[j]
        BY <2>4, <3>1, <3>3 DEF QueueInv
      <3>4. CASE queue'[j] = put + 1
        BY <1>1, <3>1, <3>2, <3>4
      <3>5. QED
        BY <2>2, <2>4, <3>3, <3>4
    <2>5. QED
      BY <1>1, <2>1, <2>2, <2>3, <2>4 DEF QueueInv
  <1>4. ASSUME Take \/ TakeShutdown
        PROVE  /\ 1 \in 1..Len(queue)
               /\ \A i \in 1..Len(queue') :
                    i \in Int /\ i + 1 \in 1..Len(queue) /\ queue'[i] = queue[i + 1] /\ 1 < i + 1
    BY <1>1, <1>4, QueueShrinks
  <1>5. CASE Take
    <2>1. hand' = queue[1] /\ put' = put
      BY <1>5, QueueShrinks DEF Take
    <2>2. hand' # 0
      BY <1>5 DEF Take, SHUTDOWN_SIGNAL
    <2>3. QED
      BY <1>1, <1>5, <1>4, <2>1, <2>2 DEF QueueInv
  <1>6. CASE TakeShutdown
    <2>1. hand' = hand /\ put' = put
      BY <1>6 DEF TakeShutdown, workVars
    <2>2. ASSUME NEW i \in 1..Len(queue')
          PROVE  queue'[i] <= put' /\ (queue'[i] # 0 => hand' < queue'[i])
      BY <1>4, <1>6, <2>1 DEF QueueInv
    <2>3. ASSUME NEW i \in 1..Len(queue'), NEW j \in 1..Len(queue'), i < j, queue'[j] # 0
          PROVE  queue'[i] < queue'[j]
      <3>1. i + 1 < j + 1
        BY <1>4, <1>6, <2>3
      <3>2. QED
        BY <1>4, <1>6, <2>3, <3>1 DEF QueueInv
    <2>4. QED
      BY <2>1, <2>2, <2>3 DEF QueueInv
  <1>7. QED
    BY <1>2, <1>3, <1>5, <1>6, Kinds, SendPlaces, ReadPlaces DEF Quiet

\* What was sent is nowhere else.
LEMMA NextSent ==
  TypeOK /\ StageInv /\ QueueInv /\ SentInv /\ [Next]_vars => SentInv'
  <1> SUFFICES ASSUME TypeOK, StageInv, QueueInv, SentInv, [Next]_vars PROVE SentInv'
    OBVIOUS
  <1>1. /\ put \in Nat /\ \A m \in Messages : m \in Nat /\ m # 0
    BY Types DEF Messages
  <1>2. ASSUME UNCHANGED <<queue, put>>, hand' \in {hand, 0},
               \A m : OnWire(m)' \/ HasGot(m)' => OnWire(m) \/ HasGot(m)
        PROVE  SentInv'
    BY <1>1, <1>2 DEF SentInv
  <1>3. CASE Quiet
    <2>1. \A m : HasGot(m)' => HasGot(m)
      BY <1>3 DEF Quiet, HasGot
    <2>2. \A m : OnWire(m)' => OnWire(m)
      BY <1>3, WhatIsLeft DEF Quiet
    <2>3. QED
      BY <1>2, <1>3, <2>1, <2>2 DEF Quiet
  <1>4. CASE Put \/ Stop
    <2>1. UNCHANGED <<hand, conns, received>>
      BY <1>4 DEF Put, Stop, workVars, netVars
    <2>2. \A m : (OnWire(m)' => OnWire(m)) /\ (HasGot(m)' => HasGot(m))
      BY <2>1 DEF OnWire, HasGot, Conns
    <2>3. QED
      BY <1>1, <1>4, <2>1, <2>2, QueueGrows DEF SentInv
  <1>5. CASE Take
    <2>1. UNCHANGED <<put, conns, received>> /\ hand' = queue[1]
      BY <1>5, QueueShrinks DEF Take, netVars
    <2>2. \A m : (OnWire(m)' => OnWire(m)) /\ (HasGot(m)' => HasGot(m))
      BY <2>1 DEF OnWire, HasGot, Conns
    <2>3. QED
      BY <1>5, <2>1, <2>2, QueueShrinks DEF SentInv
  <1>6. CASE TakeShutdown
    <2>1. UNCHANGED <<put, hand, received>> /\ conns' = Dropped
      BY <1>6 DEF TakeShutdown, workVars, Dropped
    <2>2. \A m : (OnWire(m)' => OnWire(m)) /\ (HasGot(m)' => HasGot(m))
      BY <2>1, DropStep, WhatIsLeft DEF HasGot
    <2>3. QED
      BY <1>6, <2>1, <2>2, QueueShrinks DEF SentInv
  <1>7. CASE SendAll
    <2>1. \A m : HasGot(m)' => HasGot(m)
      BY <1>7, SendPlaces DEF HasGot
    <2>2. hand \in Nat /\ hand # 0 /\ \A i \in 1..Len(queue) : queue[i] # hand
      BY <1>1, <1>7, SendPlaces DEF QueueInv
    <2>3. QED
      BY <1>1, <1>7, <2>1, <2>2, SendPlaces DEF SentInv, QueueInv
  <1>8. ASSUME NEW c \in Conns, Read(c) PROVE SentInv'
    BY <1>2, <1>8, ReadPlaces
  <1>9. QED
    BY <1>3, <1>4, <1>5, <1>6, <1>7, <1>8, Kinds

\* Every message has one place.
LEMMA NextOnce ==
  TypeOK /\ StageInv /\ SentInv /\ OnceInv /\ [Next]_vars => OnceInv'
  <1> SUFFICES ASSUME TypeOK, StageInv, SentInv, OnceInv, [Next]_vars PROVE OnceInv'
    OBVIOUS
  <1>1. ASSUME Shrunk, UNCHANGED received PROVE OnceInv'
    <2>1. \A m : HasGot(m)' <=> HasGot(m)
      BY <1>1 DEF HasGot
    <2>2. QED
      BY <1>1, <2>1, WhatIsLeft DEF OnceInv
  <1>2. CASE Put \/ Stop \/ Take
    BY <1>1, <1>2, WiresStay DEF Put, Stop, Take, netVars
  <1>3. CASE TakeShutdown
    BY <1>1, <1>3, DropStep DEF TakeShutdown, Dropped
  <1>4. CASE SendAll
    <2>1. ~OnWire(hand) /\ ~HasGot(hand)
      BY <1>4, SendPlaces DEF SentInv
    <2>2. \A m : HasGot(m)' <=> HasGot(m)
      BY <1>4, SendPlaces DEF HasGot
    <2>3. \A c \in Conns : \A i \in 1..Len(conns'[c].wire) :
             \/ i \in 1..Len(conns[c].wire) /\ conns'[c].wire[i] = conns[c].wire[i]
             \/ /\ c = sock /\ i = Len(conns[sock].wire) + 1
                /\ conns'[c].wire[i] = hand
      BY <1>4, SendPlaces
    <2>4. \A c \in Conns : \A i \in 1..Len(conns[c].wire) : conns[c].wire[i] # hand
      BY <2>1 DEF OnWire
    <2>5. Conns' = Conns /\ received' = received
      BY <1>4, SendPlaces
    <2>6. ASSUME NEW c \in Conns, NEW d \in Conns, NEW i \in 1..Len(conns'[c].wire),
                 NEW j \in 1..Len(conns'[d].wire), conns'[c].wire[i] = conns'[d].wire[j]
          PROVE  c = d /\ i = j
      <3>1. CASE conns'[c].wire[i] = hand
        <4>1. c = sock /\ i = Len(conns[sock].wire) + 1
          BY <2>3, <2>4, <3>1
        <4>2. d = sock /\ j = Len(conns[sock].wire) + 1
          BY <2>3, <2>4, <2>6, <3>1
        <4>3. QED
          BY <4>1, <4>2
      <3>2. CASE conns'[c].wire[i] # hand
        BY <2>3, <2>6, <3>2 DEF OnceInv
      <3>3. QED
        BY <3>1, <3>2
    <2>7. ASSUME NEW c \in Conns, NEW i \in 1..Len(conns'[c].wire)
          PROVE  ~HasGot(conns'[c].wire[i])
      BY <2>1, <2>3, <2>7 DEF OnceInv
    <2>8. QED
      BY <2>2, <2>5, <2>6, <2>7, Zenon DEF OnceInv
  <1>5. ASSUME NEW c \in Conns, Read(c) PROVE OnceInv'
    <2> DEFINE m == conns[c].wire[1]
    <2>1. 1 \in 1..Len(conns[c].wire) /\ ~HasGot(m)
      BY <1>5, ReadPlaces DEF OnceInv
    <2>2. \A d \in Conns : \A i \in 1..Len(conns'[d].wire) :
             \E j \in 1..Len(conns[d].wire) :
                 /\ conns'[d].wire[i] = conns[d].wire[j]
                 /\ j = IF d = c THEN i + 1 ELSE i
      BY <1>5, ReadPlaces
    <2>3. \A d \in Conns : \A i \in 1..Len(conns'[d].wire) : conns'[d].wire[i] # m
      BY <2>1, <2>2 DEF OnceInv
    <2>4. Conns' = Conns
      BY <1>5, ReadPlaces
    <2>5. ASSUME NEW d \in Conns, NEW e \in Conns, NEW i \in 1..Len(conns'[d].wire),
                 NEW j \in 1..Len(conns'[e].wire), conns'[d].wire[i] = conns'[e].wire[j]
          PROVE  d = e /\ i = j
      <3>1. PICK k \in 1..Len(conns[d].wire) :
              conns'[d].wire[i] = conns[d].wire[k] /\ k = IF d = c THEN i + 1 ELSE i
        BY <2>2
      <3>2. PICK l \in 1..Len(conns[e].wire) :
              conns'[e].wire[j] = conns[e].wire[l] /\ l = IF e = c THEN j + 1 ELSE j
        BY <2>2
      <3>3. conns[d].wire[k] = conns[e].wire[l]
        BY <2>5, <3>1, <3>2
      <3>4. d = e /\ k = l
        BY <3>3 DEF OnceInv
      <3>5. QED
        BY <3>1, <3>2, <3>4
    <2>6. \A i, j \in 1..Len(received') : received'[i] = received'[j] => i = j
      BY <1>5, <2>1, ReadPlaces DEF OnceInv, HasGot
    <2>7. ASSUME NEW d \in Conns, NEW i \in 1..Len(conns'[d].wire),
                 NEW j \in 1..Len(received')
          PROVE  received'[j] # conns'[d].wire[i]
      <3>1. conns'[d].wire[i] # m
        BY <2>3
      <3>2. ~HasGot(conns'[d].wire[i])
        BY <2>2 DEF OnceInv
      <3>3. QED
        BY <1>5, <3>1, <3>2, ReadPlaces DEF HasGot
    <2>8. QED
      BY <2>4, <2>5, <2>6, <2>7, Zenon DEF OnceInv, HasGot
  <1>6. QED
    BY <1>1, <1>2, <1>3, <1>4, <1>5, Kinds DEF Quiet

-----------------------------------------------------------------------------
(* The order of the messages, as long as all is calm.                      *)

\* One connection at a time has something on the wire.
LEMMA NextWire == TypeOK /\ StageInv /\ WireInv /\ [Next]_vars => WireInv'
  <1> SUFFICES ASSUME TypeOK, StageInv, WireInv, [Next]_vars, Calm' PROVE WireInv'
    BY DEF WireInv
  <1>1. /\ at \in [Threads -> Stages] /\ sock \in Conns \cup {0} /\ Len(conns) \in Nat
        /\ Worker \in Threads /\ Caller \in Threads /\ Worker # Caller
        /\ deaths \in Nat /\ timeouts \in Nat /\ calls \in Nat
    BY Types DEF TypeOK
  <1>2. Calm
    <2>1. ASSUME ~UNCHANGED <<timeouts, calls>> PROVE timeouts' = timeouts + 1 \/ calls' = calls + 1
      <3>1. CASE CallConnect \/ SendTimesOut
        BY <3>1 DEF CallConnect, SendTimesOut
      <3>2. CASE ~(CallConnect \/ SendTimesOut)
        BY <2>1, <3>2, Steps, SendPlaces, ReadPlaces, Zenon
           DEF vars, netVars, Put, Stop, Take, TakeShutdown, Ensure, Loop, Create, CreateFails,
               Test, SendAll, SendIntoDead, SendFails, SendRaises, Sending, Close, Die,
               Restart, Read
      <3>3. QED
        BY <3>1, <3>2
    <2>2. QED
      BY <1>1, <2>1 DEF Calm
  <1>3. /\ at[Caller] = "away"
        /\ at[Worker] = "create" => sock = 0
        /\ at[Worker] = "close" => sock = 0 \/ conns[sock].state # "open"
        /\ \A c \in Conns : conns[c].wire # <<>> =>
             at[Worker] = "done" \/ (c = sock /\ conns[c].state = "open")
        /\ \A c, d \in Conns : conns[c].wire # <<>> /\ conns[d].wire # <<>> => c = d
    BY <1>2 DEF WireInv
  <1>4. ASSUME UNCHANGED <<conns, sock>>, at'[Caller] = "away",
               at'[Worker] = "create" => sock = 0,
               at'[Worker] = "close" => sock = 0 \/ conns[sock].state # "open",
               at[Worker] = "done" => at'[Worker] = "done"
        PROVE  WireInv'
    BY <1>3, <1>4 DEF WireInv, Conns
  <1>5. CASE UNCHANGED vars
    BY <1>3, <1>4, <1>5 DEF vars, netVars
  <1>6. CASE Put \/ Stop \/ Restart
    BY <1>3, <1>4, <1>6 DEF Put, Stop, Restart, netVars
  <1>7. CASE CallConnect
    BY <1>1, <1>7 DEF CallConnect, Calm
  <1>8. CASE Take
    BY <1>1, <1>3, <1>4, <1>8 DEF Take, netVars
  <1>9. CASE TakeShutdown
    <2>1. conns' = Dropped /\ sock' = 0 /\ at'[Worker] = "done" /\ at'[Caller] = "away"
      BY <1>1, <1>3, <1>9 DEF TakeShutdown, Dropped
    <2>2. Conns' = Conns /\ \A c \in Conns : conns'[c].wire = conns[c].wire
      BY <2>1, DropStep
    <2>3. QED
      BY <1>3, <2>1, <2>2 DEF WireInv
  <1>10. ASSUME NEW t \in Threads, Ensure(t) PROVE WireInv'
    <2>1. t = Worker
      BY <1>3, <1>10 DEF Ensure, Threads
    <2>2. QED
      BY <1>1, <1>3, <1>4, <1>10, <2>1 DEF Ensure
  <1>11. ASSUME NEW t \in Threads, Loop(t) PROVE WireInv'
    <2>1. t = Worker
      BY <1>3, <1>11 DEF Loop, Threads
    <2>2. at'[Worker] = "test" \/ (at'[Worker] = "create" /\ sock = 0)
      BY <1>1, <1>11, <2>1 DEF Loop, Connected
    <2>3. at'[Caller] = "away" /\ at[Worker] = "loop" /\ UNCHANGED <<conns, sock>>
      BY <1>1, <1>3, <1>11, <2>1 DEF Loop, Connected, netVars
    <2>4. QED
      BY <1>4, <2>2, <2>3
  <1>12. ASSUME NEW t \in Threads, Create(t) \/ CreateFails(t) PROVE WireInv'
    <2>1. t = Worker /\ at[Worker] = "create" /\ sock = 0
      BY <1>3, <1>12 DEF Create, CreateFails, Threads
    <2>2. at'[Worker] = "loop" /\ at'[Caller] = "away"
      BY <1>1, <1>3, <1>12, <2>1 DEF Create, CreateFails
    <2>3. \A c \in Conns : conns[c].wire = <<>>
      BY <1>1, <1>3, <2>1 DEF Conns
    <2>4. Shrunk
      BY <1>12, AddStep, DropStep, Zenon DEF Create, CreateFails
    <2>5. \A c \in Conns' : conns'[c].wire = <<>>
      BY <2>3, <2>4 DEF Shrunk
    <2>6. QED
      BY <2>2, <2>5 DEF WireInv
  <1>13. CASE Test
    <2>1. UNCHANGED <<conns, sock>> /\ at'[Worker] \in {"send", "ensure", "away"}
          /\ at'[Caller] = "away" /\ at[Worker] = "test"
      BY <1>1, <1>3, <1>13, NextAttempts DEF Test, netVars
    <2>2. QED
      BY <1>4, <2>1
  <1>14. CASE SendAll
    <2>1. at'[Worker] = "away" /\ at'[Caller] = "away" /\ at[Worker] = "send"
          /\ sock' = sock /\ sock \in Conns /\ conns[sock].state = "open"
      BY <1>1, <1>3, <1>14 DEF SendAll, Sending, Finish
    <2>2. /\ Conns' = Conns /\ conns'[sock].state = "open"
          /\ \A c \in Conns : c # sock => conns'[c] = conns[c]
      <3>1. conns' = [conns EXCEPT ![sock].wire = Append(@, hand)] /\ hand \in Messages
        BY <1>14, SendPlaces, Zenon DEF SendAll
      <3>2. QED
        BY <2>1, <3>1, WireGrows, Zenon
    <2>3. \A c \in Conns : c # sock => conns'[c].wire = <<>>
      BY <1>3, <2>1, <2>2
    <2>4. QED
      BY <2>1, <2>2, <2>3 DEF WireInv
  <1>15. CASE SendIntoDead
    <2>1. at'[Worker] = "away" /\ at'[Caller] = "away" /\ at[Worker] = "send"
          /\ sock' = sock /\ sock \in Conns /\ conns[sock].state = "half"
      BY <1>1, <1>3, <1>15 DEF SendIntoDead, Sending, Finish
    <2>2. \A c \in Conns : conns[c].wire = <<>>
      BY <1>3, <2>1
    <2>3. Conns' = Conns /\ \A c \in Conns : conns'[c].wire = conns[c].wire
      BY <1>15, <2>1, NewState DEF SendIntoDead, States
    <2>4. QED
      BY <2>1, <2>2, <2>3 DEF WireInv
  <1>16. CASE SendFails
    <2>1. /\ UNCHANGED <<conns, sock>> /\ at'[Worker] = "close" /\ at'[Caller] = "away"
          /\ at[Worker] = "send" /\ conns[sock].state # "open"
      BY <1>1, <1>3, <1>16 DEF SendFails, Sending, ToClose
    <2>2. QED
      BY <1>4, <2>1
  <1>17. CASE SendRaises
    BY <1>1, <1>3, <1>4, <1>17 DEF SendRaises, Finish, netVars
  <1>18. CASE SendTimesOut
    BY <1>1, <1>18 DEF SendTimesOut, Calm
  <1>19. CASE Close
    <2>1. /\ conns' = Dropped /\ sock' = 0 /\ at[Worker] = "close"
          /\ at'[Worker] \in {"ensure", "away"} /\ at'[Caller] = "away"
      BY <1>1, <1>3, <1>19, NextAttempts DEF Close, AfterClose
    <2>2. \A c \in Conns : conns[c].wire = <<>>
      BY <1>1, <1>3, <2>1 DEF Conns
    <2>3. Conns' = Conns /\ \A c \in Conns : conns'[c].wire = conns[c].wire
      BY <2>1, DropStep
    <2>4. QED
      BY <2>1, <2>2, <2>3 DEF WireInv
  <1>20. ASSUME NEW c \in Conns, Read(c) PROVE WireInv'
    <2>1. UNCHANGED <<at, sock>> /\ conns[c].wire # <<>>
          /\ conns' = [conns EXCEPT ![c].wire = Tail(@)]
      BY <1>20, Zenon DEF Read
    <2>2. /\ Conns' = Conns /\ \A d \in Conns : conns'[d].state = conns[d].state
          /\ \A d \in Conns : d # c => conns'[d].wire = conns[d].wire
      BY <2>1, WireTail, Zenon
    <2>3. \A d \in Conns : conns'[d].wire # <<>> => conns[d].wire # <<>>
      BY <2>1, <2>2, Zenon
    <2>4. UNCHANGED <<at, sock>>
      BY <2>1, Zenon
    <2>5. at'[Worker] = "close" => sock' = 0 \/ conns'[sock'].state # "open"
      BY <1>1, <1>3, <2>2, <2>4, Zenon
    <2>6. QED
      BY <1>3, <2>2, <2>3, <2>4, <2>5, Zenon DEF WireInv
  <1>21. CASE Die
    <2>1. UNCHANGED <<at, sock>>
      BY <1>21, Zenon DEF Die
    <2>2. Conns' = Conns /\ \A c \in Conns : conns'[c].wire = <<>> /\ conns'[c].state # "open"
      BY <1>21, WiresDie
    <2>3. QED
      BY <1>1, <1>3, <2>1, <2>2 DEF WireInv
  <1>22. QED
    BY <1>5, <1>6, <1>7, <1>8, <1>9, <1>10, <1>11, <1>12, <1>13, <1>14, <1>15, <1>16,
       <1>17, <1>18, <1>19, <1>20, <1>21, Steps, Zenon

\* The order is kept.
LEMMA NextOrder ==
  TypeOK /\ StageInv /\ QueueInv /\ SentInv /\ WireInv /\ OrderInv /\ [Next]_vars => OrderInv'
  <1> SUFFICES ASSUME TypeOK, StageInv, QueueInv, SentInv, WireInv, OrderInv, [Next]_vars, Calm'
               PROVE  OrderInv'
    BY DEF OrderInv
  <1>1. /\ Messages \subseteq Nat /\ 0 \notin Messages /\ put \in Nat /\ Len(queue) \in Nat
        /\ hand \in Messages \cup {0} /\ queue \in Seq(Messages \cup {0})
    BY Types DEF Messages
  <1>2. Calm
    BY Kinds, SendPlaces, ReadPlaces, Zenon
       DEF Quiet, Put, Stop, Take, TakeShutdown, netVars, Calm
  <1>3. /\ \A i, j \in 1..Len(received) : i < j => received[i] < received[j]
        /\ \A c \in Conns : \A i, j \in 1..Len(conns[c].wire) :
             i < j => conns[c].wire[i] < conns[c].wire[j]
        /\ \A m, n \in Messages : HasGot(m) /\ OnWire(n) => m < n
        /\ \A m \in Messages : OnWire(m) \/ HasGot(m) =>
             (hand # 0 => m < hand) /\ \A i \in 1..Len(queue) : queue[i] # 0 => m < queue[i]
    BY <1>2 DEF OrderInv
  <1>4. ASSUME Shrunk, UNCHANGED received
        PROVE  /\ \A i, j \in 1..Len(received') : i < j => received'[i] < received'[j]
               /\ \A c \in Conns' : \A i, j \in 1..Len(conns'[c].wire) :
                    i < j => conns'[c].wire[i] < conns'[c].wire[j]
               /\ \A m, n \in Messages : HasGot(m)' /\ OnWire(n)' => m < n
               /\ \A m : OnWire(m)' \/ HasGot(m)' => OnWire(m) \/ HasGot(m)
    <2>1. \A m : (HasGot(m)' <=> HasGot(m)) /\ (OnWire(m)' => OnWire(m))
      BY <1>4, WhatIsLeft DEF HasGot
    <2>2. ASSUME NEW c \in Conns', NEW i \in 1..Len(conns'[c].wire),
                 NEW j \in 1..Len(conns'[c].wire), i < j
          PROVE  conns'[c].wire[i] < conns'[c].wire[j]
      <3>1. /\ c \in Conns /\ {i, j} \subseteq 1..Len(conns[c].wire)
            /\ conns'[c].wire[i] = conns[c].wire[i] /\ conns'[c].wire[j] = conns[c].wire[j]
        BY <1>4, WhatIsLeft
      <3>2. QED
        BY <1>3, <2>2, <3>1
    <2>3. QED
      BY <1>3, <1>4, <2>1, <2>2
  <1>5. CASE Quiet
    BY <1>3, <1>4, <1>5 DEF Quiet, OrderInv
  <1>6. CASE Put \/ Stop
    <2>1. UNCHANGED <<hand, conns, received>> /\ Shrunk
      BY <1>6, WiresStay DEF Put, Stop, workVars, netVars
    <2>2. ASSUME NEW m \in Messages, OnWire(m) \/ HasGot(m), NEW i \in 1..Len(queue'),
                 queue'[i] # 0
          PROVE  m < queue'[i]
      <3>1. m <= put
        BY <2>2 DEF SentInv
      <3>2. (i \in 1..Len(queue) /\ queue'[i] = queue[i]) \/ queue'[i] = put + 1
        BY <1>6, <2>2, QueueGrows
      <3>3. QED
        BY <1>1, <1>3, <2>2, <3>1, <3>2
    <2>3. QED
      BY <1>3, <1>4, <2>1, <2>2 DEF OrderInv
  <1>7. CASE Take \/ TakeShutdown
    <2>1. Shrunk /\ UNCHANGED received
      BY <1>7, WiresStay, DropStep DEF Take, TakeShutdown, netVars, Dropped
    <2>2. /\ 1 \in 1..Len(queue) /\ hand' \in {hand, queue[1]}
          /\ \A i \in 1..Len(queue') : i + 1 \in 1..Len(queue) /\ queue'[i] = queue[i + 1]
      BY <1>7, QueueShrinks DEF Take, TakeShutdown, workVars
    <2>3. QED
      BY <1>3, <1>4, <2>1, <2>2 DEF OrderInv
  <1>8. CASE SendAll
    <2>1. /\ hand \in Messages /\ hand # 0 /\ hand' = 0 /\ Conns' = Conns
          /\ UNCHANGED <<queue, received>> /\ \A m : OnWire(m)' => OnWire(m) \/ m = hand
      BY <1>1, <1>8, SendPlaces
    <2>2. \A m : HasGot(m)' <=> HasGot(m)
      BY <2>1 DEF HasGot
    <2>3. ASSUME NEW c \in Conns, NEW i \in 1..Len(conns'[c].wire),
                 NEW j \in 1..Len(conns'[c].wire), i < j
          PROVE  conns'[c].wire[i] < conns'[c].wire[j]
      <3>1. CASE c # sock
        BY <1>3, <1>8, <2>3, <3>1, SendPlaces
      <3>2. CASE c = sock
        <4>1. /\ Len(conns[c].wire) \in Nat
              /\ \A k \in 1..Len(conns'[c].wire) :
                   \/ k \in 1..Len(conns[c].wire) /\ conns'[c].wire[k] = conns[c].wire[k]
                   \/ k = Len(conns[c].wire) + 1 /\ conns'[c].wire[k] = hand
          BY <1>8, <3>2, SendPlaces
        <4>2. i \in 1..Len(conns[c].wire) /\ conns'[c].wire[i] = conns[c].wire[i]
          BY <2>3, <4>1
        <4>3. OnWire(conns[c].wire[i]) /\ conns[c].wire[i] \in Messages
          BY <4>2, SentIsMessage DEF OnWire
        <4>4. conns[c].wire[i] < hand
          BY <1>3, <2>1, <4>3
        <4>5. QED
          BY <1>3, <2>3, <4>1, <4>2, <4>4
      <3>3. QED
        BY <3>1, <3>2
    <2>4. \A m, n \in Messages : HasGot(m)' /\ OnWire(n)' => m < n
      BY <1>3, <2>1, <2>2
    <2>5. \A m \in Messages : OnWire(m)' \/ HasGot(m)' =>
             \A i \in 1..Len(queue) : queue[i] # 0 => m < queue[i]
      BY <1>3, <2>1, <2>2 DEF QueueInv
    <2>6. QED
      BY <1>3, <2>1, <2>3, <2>4, <2>5 DEF OrderInv
  <1>9. ASSUME NEW c \in Conns, Read(c) PROVE OrderInv'
    <2> DEFINE m == conns[c].wire[1]
    <2>1. /\ m \in Messages /\ OnWire(m) /\ 1 \in 1..Len(conns[c].wire)
          /\ Conns' = Conns /\ UNCHANGED <<queue, hand>> /\ Len(received) \in Nat
      BY <1>9, ReadPlaces, SentIsMessage
    <2>2. ASSUME NEW i \in 1..Len(received'), NEW j \in 1..Len(received'), i < j
          PROVE  received'[i] < received'[j]
      <3>1. /\ i \in 1..Len(received) /\ received'[i] = received[i]
            /\ \/ j \in 1..Len(received) /\ received'[j] = received[j]
               \/ received'[j] = m
        BY <1>9, <2>1, <2>2, ReadPlaces
      <3>2. HasGot(received[i]) /\ received[i] \in Messages
        BY <3>1, SentIsMessage DEF HasGot
      <3>3. received[i] < m
        BY <1>3, <2>1, <3>2
      <3>4. QED
        BY <1>3, <2>2, <3>1, <3>3
    <2>3. ASSUME NEW d \in Conns, NEW i \in 1..Len(conns'[d].wire)
          PROVE  d = c /\ i + 1 \in 1..Len(conns[c].wire)
                 /\ conns'[d].wire[i] = conns[c].wire[i + 1]
      <3>1. conns'[d].wire # <<>>
        BY <2>3
      <3>2. d # c => conns[d].wire # <<>>
        BY <1>9, <3>1, ReadPlaces
      <3>3. conns[c].wire # <<>>
        BY <1>9, Zenon DEF Read
      <3>4. d = c
        BY <1>2, <3>2, <3>3 DEF WireInv
      <3>5. QED
        BY <1>9, <2>3, <3>4, ReadPlaces
    <2>4. ASSUME NEW d \in Conns, NEW i \in 1..Len(conns'[d].wire),
                 NEW j \in 1..Len(conns'[d].wire), i < j
          PROVE  conns'[d].wire[i] < conns'[d].wire[j]
      BY <1>3, <2>3, <2>4
    <2>5. ASSUME NEW n \in Messages, OnWire(n)' PROVE m < n
      <3>1. PICK d \in Conns : \E i \in 1..Len(conns'[d].wire) : conns'[d].wire[i] = n
        BY <2>1, <2>5 DEF OnWire
      <3>2. PICK i \in 1..Len(conns'[d].wire) : conns'[d].wire[i] = n
        BY <3>1
      <3>3. i + 1 \in 1..Len(conns[c].wire) /\ n = conns[c].wire[i + 1] /\ 1 < i + 1
        BY <2>3, <3>2
      <3>4. QED
        BY <1>3, <2>1, <3>3
    <2>6. \A k : (OnWire(k)' => OnWire(k)) /\ (HasGot(k)' => HasGot(k) \/ k = m)
      BY <1>9, ReadPlaces
    <2>7. \A k, n \in Messages : HasGot(k)' /\ OnWire(n)' => k < n
      BY <1>3, <2>5, <2>6
    <2>8. \A k \in Messages : OnWire(k)' \/ HasGot(k)' => OnWire(k) \/ HasGot(k)
      BY <2>1, <2>6
    <2> HIDE DEF m
    <2>9. QED
      BY <1>3, <2>1, <2>2, <2>4, <2>7, <2>8 DEF OrderInv
  <1>10. QED
    BY <1>5, <1>6, <1>7, <1>8, <1>9, Kinds

-----------------------------------------------------------------------------
(* The theorems.                                                           *)

\* The inductive invariant holds initially.
LEMMA InitInv == Init => Inv
  <1> SUFFICES ASSUME Init PROVE Inv
    OBVIOUS
  <1>1. Conns = {} /\ Len(queue) = 0 /\ Len(received) = 0
    BY DEF Init, Conns
  <1>2. TypeOK
    <2>1. put \in 0..MaxMessages /\ attempt \in 0..3 /\ {deaths, timeouts, calls} \subseteq Nat
      BY SenderAssumption DEF Init
    <2>2. tries \in [Threads -> 0..3]
      BY DEF Init
    <2>3. /\ queue \in Seq(Messages \cup {SHUTDOWN_SIGNAL}) /\ received \in Seq(Messages)
          /\ conns \in Seq([state : States, wire : Seq(Messages)])
      BY EmptySeq DEF Init
    <2>4. QED
      BY <2>1, <2>2, <2>3, Zenon DEF Init, TypeOK
  <1>3. StageInv
    BY DEF Init, StageInv, Threads, Worker
  <1>4. WireInv
    BY <1>1 DEF Init, WireInv, Threads, Worker, Caller
  <1>5. QED
    BY <1>1, <1>2, <1>3, <1>4
       DEF Init, Inv, QueueInv, SentInv, OnceInv, OrderInv, OnWire, HasGot

\* Queue, hand, wires and the messages received share no message, and are in
\* order while all is calm.
THEOREM Invariance == Spec => []Inv
  <1>1. Inv /\ [Next]_vars => Inv'
    BY NextType, NextQueue, NextSent, NextOnce, NextWire, NextOrder DEF Inv
  <1>2. QED
    BY InitInv, <1>1, PTL DEF Spec

\* Queue, sockets, connections and counters keep their types.
THEOREM TypeCorrect == Spec => []TypeOK
  BY Invariance, PTL DEF Inv

\* However often the worker tries again, the plugin connects beside it and
\* binaries come and go, a message is processed once at most
\* (persistent_socket.py:27-71).
THEOREM ReceivedOnce == Spec => []AtMostOnce
  <1>1. Inv => AtMostOnce
    <2>1. TypeOK => DOMAIN received = 1..Len(received)
      BY Types, LenProperties
    <2>2. QED
      BY <2>1 DEF Inv, OnceInv, AtMostOnce
  <1>2. QED
    BY Invariance, <1>1, PTL

\* Deaths and restarts of the binary do not change the order of messages: it
\* takes a sendall that times out or a connect() of the plugin.
THEOREM ReceivedInOrder == Spec => []InOrder
  <1>1. Inv => InOrder
    <2>1. TypeOK => DOMAIN received = 1..Len(received)
      BY Types, LenProperties
    <2>2. QED
      BY <2>1 DEF Inv, OrderInv, InOrder, Calm
  <1>2. QED
    BY Invariance, <1>1, PTL
=============================================================================
