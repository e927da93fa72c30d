-------------------------------- MODULE Sender --------------------------------
(***************************************************************************)
(* OverlayImpl and its PersistentSocket: plugins put messages into a       *)
(* queue, a worker thread sends them over a connection that it opens again *)
(* when it breaks.  Overlay.connect() lets a thread of the plugin open it  *)
(* too; nothing keeps the two threads apart.  A message is a number, in    *)
(* the order of the queue.  The binary, its TCP stack and                  *)
(* ensure_started (module Manager) are seen from outside.                  *)
(***************************************************************************)
EXTENDS Integers, Sequences

CONSTANTS
    MaxMessages,    \* bound: messages of the plugin
    MaxDeaths,      \* bound: ends of the binary
    MaxTimeouts,    \* bound: calls of sendall that time out
    MaxCalls        \* bound: calls of Overlay.connect()

ASSUME SenderAssumption ==
    {MaxMessages, MaxDeaths, MaxTimeouts, MaxCalls} \subseteq Nat

VARIABLES
    queue,          \* _queue
    put,            \* the messages put so far
    stopped,        \* _stop() was called
    at,             \* where each thread is
    tries,          \* "attempt" of connect(), of each thread
    attempt,        \* "attempt" of send()
    hand,           \* the message the worker sends, 0 for none
    sock,           \* _sock: a connection, 0 for None
    conns,          \* all connections: their state and the messages on the wire
    up,             \* a binary listens
    received,       \* the messages the binary has read, in order
    deaths, timeouts, calls

queueVars == <<queue, put, stopped>>
workVars == <<attempt, hand>>
netVars == <<conns, up, received, deaths, timeouts>>
vars == <<queueVars, at, tries, workVars, sock, netVars, calls>>

Worker == "worker"
Caller == "caller"
Threads == {Worker, Caller}
SHUTDOWN_SIGNAL == 0
Conns == 1..Len(conns)

Init ==
    /\ queue = <<>> /\ put = 0 /\ stopped = FALSE
    /\ at = [t \in Threads |-> "away"] /\ tries = [t \in Threads |-> 0]
    /\ attempt = 0 /\ hand = 0 /\ sock = 0
    /\ conns = <<>> /\ up \in BOOLEAN /\ received = <<>>
    /\ deaths = 0 /\ timeouts = 0 /\ calls = 0

-----------------------------------------------------------------------------
(* The queue.                                                              *)

\* send_message and its like.
Put ==
    /\ put < MaxMessages /\ ~stopped
    /\ put' = put + 1
    /\ queue' = Append(queue, put + 1)
    /\ UNCHANGED <<stopped, at, tries, workVars, sock, netVars, calls>>

\* _stop: an exit command, and the end of the worker behind it.
Stop ==
    /\ put < MaxMessages /\ ~stopped
    /\ stopped' = TRUE
    /\ put' = put + 1
    /\ queue' = queue \o <<put + 1, SHUTDOWN_SIGNAL>>
    /\ UNCHANGED <<at, tries, workVars, sock, netVars, calls>>

Take ==
    /\ at[Worker] = "away" /\ queue # <<>> /\ Head(queue) # SHUTDOWN_SIGNAL
    /\ hand' = Head(queue)
    /\ queue' = Tail(queue)
    /\ at' = [at EXCEPT ![Worker] = "ensure"]
    /\ UNCHANGED <<put, stopped, tries, attempt, sock, netVars, calls>>

\* The state of connection c once this end has closed it.  What is on the
\* wire stays there.
Closed(c) == [conns EXCEPT ![c].state = "closed"]

TakeShutdown ==
    /\ at[Worker] = "away" /\ queue # <<>> /\ Head(queue) = SHUTDOWN_SIGNAL
    /\ queue' = Tail(queue)
    /\ conns' = IF sock = 0 THEN conns ELSE Closed(sock)
    /\ sock' = 0
    /\ at' = [at EXCEPT ![Worker] = "done"]
    /\ UNCHANGED <<put, stopped, tries, workVars, up, received, deaths, timeouts, calls>>

-----------------------------------------------------------------------------
(* PersistentSocket.connect, by the worker or by the plugin.               *)

CallConnect ==
    /\ at[Caller] = "away" /\ calls < MaxCalls
    /\ calls' = calls + 1
    /\ at' = [at EXCEPT ![Caller] = "ensure"]
    /\ UNCHANGED <<queueVars, tries, workVars, sock, netVars>>

\* ensure_started brings the binary up or fails.
Ensure(t) ==
    /\ at[t] = "ensure"
    /\ up' \in {up, TRUE}
    /\ at' = [at EXCEPT ![t] = "loop"]
    /\ UNCHANGED <<queueVars, tries, workVars, sock, conns, received, deaths, timeouts, calls>>

\* The end of connect(): the worker goes on, the plugin returns.
Connected(t) ==
    /\ at' = [at EXCEPT ![t] = IF t = Worker THEN "test" ELSE "away"]
    /\ tries' = [tries EXCEPT ![t] = 0]

\* Another iteration, or none.
Loop(t) ==
    /\ at[t] = "loop"
    /\ IF sock = 0 /\ tries[t] < 3
       THEN at' = [at EXCEPT ![t] = "create"] /\ UNCHANGED tries
       ELSE Connected(t)
    /\ UNCHANGED <<queueVars, workVars, sock, netVars, calls>>

\* The socket that _sock held, if any, is closed with its last reference.
Dropped == IF sock = 0 THEN conns ELSE Closed(sock)

Create(t) ==
    /\ at[t] = "create" /\ up
    /\ conns' = Append(Dropped, [state |-> "open", wire |-> <<>>])
    /\ sock' = Len(conns) + 1
    /\ tries' = [tries EXCEPT ![t] = @ + 1]
    /\ at' = [at EXCEPT ![t] = "loop"]
    /\ UNCHANGED <<queueVars, workVars, up, received, deaths, timeouts, calls>>

\* Nobody listens: _sock becomes None, whatever it was.
CreateFails(t) ==
    /\ at[t] = "create" /\ ~up
    /\ conns' = Dropped
    /\ sock' = 0
    /\ tries' = [tries EXCEPT ![t] = @ + 1]
    /\ at' = [at EXCEPT ![t] = "loop"]
    /\ UNCHANGED <<queueVars, workVars, up, received, deaths, timeouts, calls>>

-----------------------------------------------------------------------------
(* PersistentSocket.send.                                                  *)

\* send() is over, and with it the message.
Finish ==
    /\ hand' = 0 /\ attempt' = 0
    /\ at' = [at EXCEPT ![Worker] = "away"]

Again ==
    /\ attempt' = attempt + 1
    /\ at' = [at EXCEPT ![Worker] = "ensure"]
    /\ UNCHANGED hand

\* Mutant: the attempts are not counted.
NextAttempt_Endless ==
    at' = [at EXCEPT ![Worker] = "ensure"] /\ UNCHANGED workVars

NextAttempt == IF attempt < 3 THEN Again ELSE Finish

\* The result of connect(), and _sock once more.
Test ==
    /\ at[Worker] = "test"
    /\ \/ sock # 0 /\ at' = [at EXCEPT ![Worker] = "send"] /\ UNCHANGED workVars
       \/ sock = 0 /\ NextAttempt
    /\ UNCHANGED <<queueVars, tries, sock, netVars, calls>>

Sending(states) ==
    /\ at[Worker] = "send" /\ sock # 0 /\ conns[sock].state \in states
    /\ UNCHANGED <<queueVars, tries, up, received, deaths, calls>>

\* Mutant: no return after sendall, the loop goes on.
SendAll_NoReturn ==
    /\ Sending({"open"})
    /\ conns' = [conns EXCEPT ![sock].wire = Append(@, hand)]
    /\ NextAttempt
    /\ UNCHANGED <<sock, timeouts>>

\* Mutant: a connection for each message.
SendAll_AndClose ==
    /\ Sending({"open"})
    /\ conns' = [conns EXCEPT ![sock] = [state |-> "closed", wire |-> Append(@.wire, hand)]]
    /\ sock' = 0
    /\ Finish
    /\ UNCHANGED timeouts

\* sendall leaves the message with the TCP stack.
SendAll ==
    /\ Sending({"open"})
    /\ conns' = [conns EXCEPT ![sock].wire = Append(@, hand)]
    /\ Finish
    /\ UNCHANGED <<sock, timeouts>>

\* The binary has closed the connection and this end has not tried it since:
\* the call succeeds, and the answer is a reset.
SendIntoDead ==
    /\ Sending({"half"})
    /\ conns' = [conns EXCEPT ![sock].state = "reset"]
    /\ Finish
    /\ UNCHANGED <<sock, timeouts>>

ToClose == at' = [at EXCEPT ![Worker] = "close"] /\ UNCHANGED workVars

SendFails == Sending({"reset", "closed"}) /\ ToClose /\ UNCHANGED <<sock, conns, timeouts>>

\* The binary has not read for so long that the buffers are full for 5 s: a
\* part of the message stays on the wire, which the binary drops.
SendTimesOut ==
    /\ timeouts < MaxTimeouts /\ timeouts' = timeouts + 1
    /\ Sending({"open"})
    /\ ToClose
    /\ UNCHANGED <<sock, conns>>

\* The plugin's thread has put None into _sock since the test: an
\* AttributeError, which ends send().
SendRaises ==
    /\ at[Worker] = "send" /\ sock = 0
    /\ Finish
    /\ UNCHANGED <<queueVars, tries, sock, netVars, calls>>

\* Mutant: the socket is closed and stays in _sock.
AfterClose_Kept == sock

AfterClose == 0

Close ==
    /\ at[Worker] = "close"
    /\ conns' = Dropped
    /\ sock' = AfterClose
    /\ NextAttempt
    /\ UNCHANGED <<queueVars, tries, up, received, deaths, timeouts, calls>>

-----------------------------------------------------------------------------
(* The binary.                                                             *)

Read(c) ==
    /\ up /\ conns[c].wire # <<>>
    /\ received' = Append(received, Head(conns[c].wire))
    /\ conns' = [conns EXCEPT ![c].wire = Tail(@)]
    /\ UNCHANGED <<queueVars, at, tries, workVars, sock, up, deaths, timeouts, calls>>

\* It ends.  What is on the wire is lost; its ends of the connections are
\* closed, or reset when there was something to read.
Die ==
    /\ up /\ deaths < MaxDeaths
    /\ up' = FALSE
    /\ deaths' = deaths + 1
    /\ \E state \in {"half", "reset"} :
         conns' = [c \in Conns |->
                     [state |-> IF conns[c].state = "open" THEN state ELSE conns[c].state,
                      wire |-> <<>>]]
    /\ UNCHANGED <<queueVars, at, tries, workVars, sock, received, timeouts, calls>>

\* A hook of EDMC or another plugin starts it.
Restart ==
    /\ ~up /\ up' = TRUE
    /\ UNCHANGED <<queueVars, at, tries, workVars, sock, conns, received, deaths, timeouts, calls>>

Connecting(t) == Ensure(t) \/ Loop(t) \/ Create(t) \/ CreateFails(t)
SendWorker ==
    Take \/ TakeShutdown \/ Connecting(Worker) \/ Test \/ SendAll \/ SendIntoDead
      \/ SendFails \/ SendRaises \/ Close
Binary == \E c \in Conns : Read(c)

Next ==
    \/ Put \/ Stop \/ CallConnect \/ Connecting(Caller)
    \/ SendWorker \/ SendTimesOut
    \/ Binary \/ Die \/ Restart

Spec == Init /\ [][Next]_vars

\* The threads run, and a binary that is up reads what arrives.  Plugins,
\* deaths, restarts by others and timeouts are not owed.
FairSpec == Spec /\ WF_vars(SendWorker) /\ WF_vars(Connecting(Caller)) /\ WF_vars(Binary)

-----------------------------------------------------------------------------
(* Properties.                                                             *)

Messages == 1..MaxMessages
States == {"open", "half", "reset", "closed"}

\* Every variable has its type.
TypeOK ==
    /\ queue \in Seq(Messages \cup {SHUTDOWN_SIGNAL}) /\ put \in 0..MaxMessages
    /\ stopped \in BOOLEAN /\ up \in BOOLEAN
    /\ at \in [Threads -> {"away", "ensure", "loop", "create", "test", "send", "close", "done"}]
    /\ tries \in [Threads -> 0..3] /\ attempt \in 0..3
    /\ hand \in Messages \cup {0} /\ sock \in Conns \cup {0}
    /\ conns \in Seq([state : States, wire : Seq(Messages)])
    /\ received \in Seq(Messages)
    /\ {deaths, timeouts, calls} \subseteq Nat

\* The retries send nothing twice: no message is processed two times, although
\* one that failed is sent again on another connection.
AtMostOnce ==
    \A i, j \in DOMAIN received : received[i] = received[j] => i = j

\* The worker comes to the end of its queue, also when no binary ever runs.
QueueIsServed == queue # <<>> ~> queue = <<>>

Taken(m) == hand = m /\ attempt = 0 /\ at[Worker] = "ensure"
Got(m) == \E i \in DOMAIN received : received[i] = m
Stale == sock # 0 /\ conns[sock].state = "half"

\* A message that the worker takes while a binary is up, and stays up, arrives,
\* unless the socket is left from a binary before or the binary stops reading.
DeliveredUnlessStale ==
    \A m \in Messages :
        (Taken(m) /\ ~Stale /\ [](up /\ timeouts = 0)) ~> Got(m)

\* Messages come out in the order of the queue, as long as no sendall timed out
\* and the plugin leaves connecting to the worker.
InOrder ==
    timeouts = 0 /\ calls = 0 =>
        \A i, j \in DOMAIN received : i < j => received[i] < received[j]
=============================================================================
