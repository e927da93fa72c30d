------------------------------ MODULE Shutdown ------------------------------
(***************************************************************************)
(* How the overlay binary starts and stops its threads: the main loop, the *)
(* runner that owns the server (utility::startNewRunner), the io_context   *)
(* thread the runner starts, and the signal handler, which runs on top of  *)
(* the main thread wherever that is (the thread Linux prefers for a signal *)
(* to the process).  serverAcceptThread is the handle of the runner: its   *)
(* reset() raises the stop flag and joins.  What is drawn is left to       *)
(* module DrawStore; here a payload matters for the mutex it takes and for *)
(* the "exit" command it may hold.                                         *)
(***************************************************************************)
EXTENDS Integers

CONSTANT MaxSessions    \* bound: connections open at a time

ASSUME SessionsAssumption == MaxSessions \in Nat \ {0}

VARIABLES
    main,         \* where the main thread is
    handler,      \* "joining" while the signal handler runs reset()
    handle,       \* serverAcceptThread is not null
    shouldStop,   \* the stop flag of the runner
    mutex,        \* the holder of OutputContext's mutex
    exitPending,  \* the map holds an "exit" command
    runner,       \* where the runner thread is
    io,           \* where the io_context thread is
    ioStopped,    \* io_context.stop() was called
    accepting,    \* an async_accept is pending
    sessions,     \* open connections
    lateMerges    \* history: merges that began after the stop flag was up

mainVars == <<main, handler, handle>>
ioVars == <<io, accepting, sessions, lateMerges>>
vars == <<mainVars, shouldStop, mutex, exitPending, runner, ioVars, ioStopped>>

Init ==
    /\ main = "startup" /\ handler = "none" /\ handle = FALSE
    /\ shouldStop = FALSE /\ mutex = "free" /\ exitPending = FALSE
    /\ runner = "none" /\ io = "none" /\ ioStopped = FALSE
    /\ accepting = FALSE /\ sessions = 0 /\ lateMerges = 0

\* shared_ptr::reset(): the pointer is null before the deleter raises the flag
\* and joins the runner.
Reset == handle /\ handle' = FALSE /\ shouldStop' = TRUE

-----------------------------------------------------------------------------
(* The main thread.  The signal handler suspends it.                       *)

MainRuns == handler = "none"

\* startNewRunner: the thread runs before the handle is assigned.
StartRunner ==
    /\ MainRuns /\ main = "startup"
    /\ runner' = "bind"
    /\ main' = "assign"
    /\ UNCHANGED <<handler, handle, shouldStop, mutex, exitPending, ioVars,
                   ioStopped>>

Assign ==
    /\ MainRuns /\ main = "assign"
    /\ handle' = TRUE
    /\ main' = "test"
    /\ UNCHANGED <<handler, shouldStop, mutex, exitPending, runner, ioVars,
                   ioStopped>>

\* while (serverAcceptThread)
TestLoop ==
    /\ MainRuns /\ main = "test"
    /\ main' = IF handle THEN "sleep" ELSE "leave"
    /\ UNCHANGED <<handler, handle, shouldStop, mutex, exitPending, runner,
                   ioVars, ioStopped>>

\* sleep_for(100ms) and the focus check, then accessContext.
Sleep ==
    /\ MainRuns /\ main = "sleep"
    /\ main' = "lock"
    /\ UNCHANGED <<handler, handle, shouldStop, mutex, exitPending, runner,
                   ioVars, ioStopped>>

LoseTransparency ==
    /\ MainRuns /\ main = "sleep"
    /\ main' = "leave"
    /\ UNCHANGED <<handler, handle, shouldStop, mutex, exitPending, runner,
                   ioVars, ioStopped>>

BeginFrame ==
    /\ MainRuns /\ main = "lock" /\ mutex = "free"
    /\ mutex' = "main"
    /\ main' = "frame"
    /\ UNCHANGED <<handler, handle, shouldStop, exitPending, runner, ioVars,
                   ioStopped>>

\* No "exit" in the map, or the handle was reset already: the rest of the frame.
EndFrame ==
    /\ MainRuns /\ main = "frame"
    /\ ~exitPending \/ ~handle
    /\ mutex' = "free"
    /\ main' = "test"
    /\ UNCHANGED <<handler, handle, shouldStop, exitPending, runner, ioVars,
                   ioStopped>>

\* The callback of "exit" resets the handle with the mutex in hand.
ExitCommand ==
    /\ MainRuns /\ main = "frame" /\ exitPending
    /\ Reset
    /\ main' = "joinInFrame"
    /\ UNCHANGED <<handler, mutex, exitPending, runner, ioVars, ioStopped>>

JoinedInFrame ==
    /\ MainRuns /\ main = "joinInFrame" /\ runner = "ended"
    /\ mutex' = "free"
    /\ main' = "test"
    /\ UNCHANGED <<handler, handle, shouldStop, exitPending, runner, ioVars,
                   ioStopped>>

\* catch (...) around the loop: the focus check or the frame threw.  The lock
\* guard of accessContext frees the mutex, what is in the map stays.
DrawingThrows ==
    /\ MainRuns /\ main \in {"sleep", "frame"}
    /\ mutex' = IF main = "frame" THEN "free" ELSE mutex
    /\ main' = "leave"
    /\ UNCHANGED <<handler, handle, shouldStop, exitPending, runner, ioVars,
                   ioStopped>>

\* The reset() after the loop.
Leave ==
    /\ MainRuns /\ main = "leave"
    /\ \/ /\ Reset
          /\ main' = "join"
       \/ /\ ~handle
          /\ main' = "final"
          /\ UNCHANGED <<handle, shouldStop>>
    /\ UNCHANGED <<handler, mutex, exitPending, runner, ioVars, ioStopped>>

Joined ==
    /\ MainRuns /\ main = "join" /\ runner = "ended"
    /\ main' = "final"
    /\ UNCHANGED <<handler, handle, shouldStop, mutex, exitPending, runner,
                   ioVars, ioStopped>>

\* The last accessContext; then main() returns and allDraws is destroyed.
Return ==
    /\ MainRuns /\ main = "final" /\ mutex = "free"
    /\ main' = "done"
    /\ UNCHANGED <<handler, handle, shouldStop, mutex, exitPending, runner,
                   ioVars, ioStopped>>

MainLoop == StartRunner \/ Assign \/ TestLoop \/ Sleep \/ BeginFrame
            \/ EndFrame \/ ExitCommand \/ JoinedInFrame \/ Leave \/ Joined \/ Return

\* SIGINT or SIGTERM, wherever the main thread is.  With a null handle reset()
\* does nothing: that signal, before the assignment or after another reset(), is
\* not a step.
Signal ==
    /\ handler = "none" /\ main # "done"
    /\ Reset
    /\ handler' = "joining"
    /\ UNCHANGED <<main, mutex, exitPending, runner, ioVars, ioStopped>>

SignalHandled ==
    /\ handler = "joining" /\ runner = "ended"
    /\ handler' = "none"
    /\ UNCHANGED <<main, handle, shouldStop, mutex, exitPending, runner, ioVars,
                   ioStopped>>

-----------------------------------------------------------------------------
(* The runner thread.                                                      *)

\* The acceptor binds the port; io_context.run() gets its own thread.
Bind ==
    /\ runner = "bind"
    /\ runner' = "poll"
    /\ io' = "idle" /\ accepting' = TRUE
    /\ UNCHANGED <<mainVars, shouldStop, mutex, exitPending, ioStopped, sessions,
                   lateMerges>>

\* The port is taken: the exception is printed, the runner ends and the main
\* loop goes on without a server.
BindFails ==
    /\ runner = "bind"
    /\ runner' = "ended"
    /\ UNCHANGED <<mainVars, shouldStop, mutex, exitPending, ioVars, ioStopped>>

\* Mutant: io_context.stop() is forgotten, the work guard keeps run() going.
StopIo_Forgotten == UNCHANGED ioStopped

StopIo == ioStopped' = TRUE

PollSeesStop ==
    /\ runner = "poll" /\ shouldStop
    /\ StopIo
    /\ runner' = "joinIo"
    /\ UNCHANGED <<mainVars, shouldStop, mutex, exitPending, ioVars>>

\* Mutant: the io_context thread is detached.
IoJoined_Detached == TRUE

IoJoined == io = "ended"

JoinIo ==
    /\ runner = "joinIo" /\ IoJoined
    /\ runner' = "ended"
    /\ UNCHANGED <<mainVars, shouldStop, mutex, exitPending, ioVars, ioStopped>>

Runner == Bind \/ PollSeesStop \/ JoinIo

-----------------------------------------------------------------------------
(* The io_context thread: one handler at a time.                           *)

\* Mutant: the flag is never looked at.
canContinue_Always == TRUE

canContinue == ~shouldStop

Accept ==
    /\ io = "idle" /\ ~ioStopped /\ accepting /\ sessions < MaxSessions
    /\ sessions' = sessions + 1
    /\ accepting' = canContinue
    /\ UNCHANGED <<mainVars, shouldStop, mutex, exitPending, runner, io,
                   ioStopped, lateMerges>>

\* A read ends with an error, or a header is not a length: the session is the
\* last owner of itself and goes.
Disconnect ==
    /\ io = "idle" /\ ~ioStopped /\ sessions > 0
    /\ sessions' = sessions - 1
    /\ UNCHANGED <<mainVars, shouldStop, mutex, exitPending, runner, io,
                   accepting, ioStopped, lateMerges>>

\* A body is complete: process_payload parses it.
Payload ==
    /\ io = "idle" /\ ~ioStopped /\ sessions > 0
    /\ io' = "parse"
    /\ UNCHANGED <<mainVars, shouldStop, mutex, exitPending, runner, accepting,
                   sessions, ioStopped, lateMerges>>

\* The check before the mutex.
CheckStop ==
    /\ io = "parse"
    /\ io' = IF canContinue THEN "lock" ELSE "idle"
    /\ UNCHANGED <<mainVars, shouldStop, mutex, exitPending, runner, accepting,
                   sessions, ioStopped, lateMerges>>

BeginMerge ==
    /\ io = "lock" /\ mutex = "free"
    /\ mutex' = "io"
    /\ io' = "merge"
    /\ lateMerges' = IF shouldStop THEN lateMerges + 1 ELSE lateMerges
    /\ UNCHANGED <<mainVars, shouldStop, exitPending, runner, accepting,
                   sessions, ioStopped>>

\* The map is replaced; the payload may have held an "exit".
EndMerge ==
    /\ io = "merge"
    /\ mutex' = "free"
    /\ exitPending' \in {exitPending, TRUE}
    /\ io' = "idle"
    /\ UNCHANGED <<mainVars, shouldStop, runner, accepting, sessions, ioStopped,
                   lateMerges>>

RunReturns ==
    /\ io = "idle" /\ ioStopped
    /\ io' = "ended"
    /\ UNCHANGED <<mainVars, shouldStop, mutex, exitPending, runner, accepting,
                   sessions, ioStopped, lateMerges>>

Io == CheckStop \/ BeginMerge \/ EndMerge \/ RunReturns

Next ==
    \/ MainLoop \/ LoseTransparency \/ DrawingThrows \/ Signal \/ SignalHandled
    \/ Runner \/ BindFails
    \/ Io \/ Accept \/ Disconnect \/ Payload

Spec == Init /\ [][Next]_vars

\* The system schedules every thread.  Connections, payloads, signals,
\* exceptions and the loss of the compositor are not owed; a mutex is owed to a thread only while
\* it stays free.
FairSpec == Spec /\ WF_vars(MainLoop) /\ WF_vars(SignalHandled)
                 /\ WF_vars(Runner) /\ WF_vars(Io)

-----------------------------------------------------------------------------
(* Properties.                                                             *)

\* Every variable has its type.
TypeOK ==
    /\ main \in {"startup", "assign", "test", "sleep", "lock", "frame",
                 "joinInFrame", "leave", "join", "final", "done"}
    /\ handler \in {"none", "joining"}
    /\ handle \in BOOLEAN /\ shouldStop \in BOOLEAN /\ exitPending \in BOOLEAN
    /\ mutex \in {"free", "main", "io"}
    /\ runner \in {"none", "bind", "poll", "joinIo", "ended"}
    /\ io \in {"none", "idle", "parse", "lock", "merge", "ended"}
    /\ ioStopped \in BOOLEAN /\ accepting \in BOOLEAN
    /\ sessions \in 0..MaxSessions
    /\ lateMerges \in Nat

\* When main() returns, and destroys allDraws and the mutex that the sessions
\* hold by reference, no thread that could use them is left: whichever of the
\* signal, the "exit" command and the end of the loop came first.
AllThreadsGone ==
    main = "done" => runner = "ended" /\ io \in {"none", "ended"}

\* "stop processing fast when program closed" (logic_context.hpp:32-33): only
\* the payload that was past its check when the flag went up is still merged.
OneLateMerge == lateMerges <= 1

\* Once the flag is up, with the mutex not in the main thread's hand, every
\* thread ends and main() returns.
StopsOutsideFrame == (shouldStop /\ mutex # "main") ~> main = "done"

\* "in case when shared_ptr is cleared it will send stop notify and join()"
\* (runners.h:13): the program ends once the flag is up.
StopFinishes == shouldStop ~> main = "done"
=============================================================================
