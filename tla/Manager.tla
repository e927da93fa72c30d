------------------------------- MODULE Manager -------------------------------
(***************************************************************************)
(* OverlayBinaryManager and those who call it: EDMC's main thread, which   *)
(* runs the hooks of load.py, and the sender thread of every plugin, which *)
(* calls ensure_started before each message (persistent_socket.py:28).     *)
(* They meet at _process_lock.  The command line of the binary is read     *)
(* from Tk variables: Tk hands the read of another thread to its main loop *)
(* and lets that thread wait, so a sender gets an answer only while the    *)
(* main thread is not in a hook, an exception before the main loop is      *)
(* entered, and nothing once EDMC is leaving (it calls plugin_stop while   *)
(* it closes its window, and does not return to the main loop).            *)
(* What post_start_callback queues and shows is left out.                  *)
(***************************************************************************)
EXTENDS Integers, Sequences

CONSTANTS
    Senders,        \* the sender threads
    Hook,           \* EDMC's main thread
    MaxCalls        \* bound: calls of ensure_started

ASSUME ManagerAssumption ==
    /\ Hook \notin Senders /\ "nobody" \notin Senders \cup {Hook}
    /\ MaxCalls \in Nat \ {0}

VARIABLES
    process,        \* _process: the number of the launched binary, 0 for None
    holder,         \* who holds _process_lock, or "nobody"
    at,             \* the call each thread is in, and how far
    plan,           \* the calls the hook still makes
    binary,         \* the states of the binaries, in the order of their launch
    foreign,        \* another program listens on the port
    edmc,           \* "loading" plugins, "running", or "leaving" (plugin_stop)
    stopFailed,     \* history: the last stop() raised TimeoutExpired
    calls

vars == <<process, holder, at, plan, binary, foreign, edmc, stopFailed, calls>>

Threads == Senders \cup {Hook}
Binaries == 1..Len(binary)

\* plugin_start3 is on its way.
Init ==
    /\ process = 0 /\ holder = "nobody"
    /\ at = [t \in Threads |-> IF t = Hook THEN "ensure" ELSE "away"]
    /\ plan = <<>>
    /\ binary = <<>>
    /\ foreign \in BOOLEAN
    /\ edmc = "loading" /\ stopFailed = FALSE /\ calls = 1

-----------------------------------------------------------------------------
(* The binary, as its manager sees it.  "mute" is one whose bind failed;   *)
(* after terminate() it is "closing" as long as it holds the port, and     *)
(* "ending" if it does not.  It may hang there (module Shutdown).          *)

Listening(n) == binary[n] \in {"serving", "closing"}
PortOpen == foreign \/ \E n \in Binaries : Listening(n)

Become(n, state) ==
    /\ binary' = [binary EXCEPT ![n] = state]
    /\ UNCHANGED <<process, holder, at, plan, foreign, edmc, stopFailed, calls>>

Bind(n) == binary[n] = "starting" /\ ~PortOpen /\ Become(n, "serving")
BindFails(n) == binary[n] = "starting" /\ PortOpen /\ Become(n, "mute")

\* It crashes, is told to exit by a command, or ends after terminate().
Die(n) == binary[n] # "dead" /\ Become(n, "dead")

\* What SIGTERM makes of it.  Between signal() and the assignment of
\* serverAcceptThread in main() the signal has no effect (main.cpp:81-92).
Terminated(state) ==
    CASE state = "serving" -> {"closing"}
      [] state = "starting" -> {"ending", "starting"}
      [] state = "mute" -> {"ending"}
      [] OTHER -> {state}

-----------------------------------------------------------------------------
(* The calls.                                                              *)

\* poll() is None
Running == process # 0 /\ binary[process] # "dead"

\* A call ends; the hook goes on with the next one.
Returns(t) ==
    IF t = Hook /\ plan # <<>>
    THEN at' = [at EXCEPT ![t] = Head(plan)] /\ plan' = Tail(plan)
    ELSE at' = [at EXCEPT ![t] = "away"] /\ UNCHANGED plan

\* A hook or a sender begins.
HookCalls(first, rest) ==
    /\ at[Hook] = "away" /\ edmc = "running"
    /\ at' = [at EXCEPT ![Hook] = first]
    /\ plan' = rest
    /\ UNCHANGED <<process, holder, binary, foreign, stopFailed>>

\* EDMC has loaded its plugins and enters Tk's main loop.
EnterMainLoop ==
    /\ edmc = "loading" /\ at[Hook] = "away"
    /\ edmc' = "running"
    /\ UNCHANGED <<process, holder, at, plan, binary, foreign, stopFailed, calls>>

\* journal_entry: the game starts.
GameStarts ==
    /\ calls < MaxCalls /\ calls' = calls + 1
    /\ HookCalls("unlessAlive", <<>>)
    /\ UNCHANGED edmc

\* journal_entry: the game ends.
GameEnds == HookCalls("stop", <<>>) /\ UNCHANGED <<edmc, calls>>

\* prefs_changed: a change that the running binary does not know.
PrefsChanged ==
    /\ calls < MaxCalls /\ calls' = calls + 1
    /\ HookCalls("ifAlive", <<"stop", "ensure">>)
    /\ UNCHANGED edmc

\* plugin_stop
PluginStop == HookCalls("stop", <<>>) /\ edmc' = "leaving" /\ UNCHANGED calls

\* PersistentSocket.connect, for a message of the queue.
SenderCalls(s) ==
    /\ at[s] = "away"
    /\ calls < MaxCalls /\ calls' = calls + 1
    /\ at' = [at EXCEPT ![s] = "ensure"]
    /\ UNCHANGED <<process, holder, plan, binary, foreign, edmc, stopFailed>>

\* is_alive, and what the hooks make of the answer.
IsAlive ==
    /\ holder = "nobody"
    /\ \/ at[Hook] = "unlessAlive" /\ Running /\ Returns(Hook)
       \/ /\ at[Hook] = "unlessAlive" /\ ~Running
          /\ at' = [at EXCEPT ![Hook] = "ensure"] /\ UNCHANGED plan
       \/ at[Hook] = "ifAlive" /\ Running /\ Returns(Hook)
       \/ /\ at[Hook] = "ifAlive" /\ ~Running
          /\ at' = [at EXCEPT ![Hook] = "away"] /\ plan' = <<>>
    /\ UNCHANGED <<process, holder, binary, foreign, edmc, stopFailed, calls>>

\* ensure_started with a running binary.
AlreadyRunning(t) ==
    /\ at[t] = "ensure" /\ holder = "nobody" /\ Running
    /\ Returns(t)
    /\ UNCHANGED <<process, holder, binary, foreign, edmc, stopFailed, calls>>

\* ensure_started without one: a dead one is forgotten and the lock is kept.
BeginStart(t) ==
    /\ at[t] = "ensure" /\ holder = "nobody" /\ ~Running
    /\ process' = 0
    /\ holder' = t
    /\ at' = [at EXCEPT ![t] = "config"]
    /\ UNCHANGED <<plan, binary, foreign, edmc, stopFailed, calls>>

\* Mutant: the command line is kept in plain Python variables.
TkAnswers_Plain(t) == TRUE

TkAnswers(t) == t = Hook \/ (at[Hook] = "away" /\ edmc = "running")

\* cmd_factory() and Popen().
Launch(t) ==
    /\ at[t] = "config" /\ TkAnswers(t)
    /\ binary' = Append(binary, "starting")
    /\ process' = Len(binary) + 1
    /\ at' = [at EXCEPT ![t] = "wait"]
    /\ UNCHANGED <<holder, plan, foreign, edmc, stopFailed, calls>>

\* Mutant: the return inside of except leaves the lock taken.
Unlock_Kept == UNCHANGED holder

Unlock == holder' = "nobody"

\* One of them raises: no binary, no command line from Tk.
LaunchFails(t) ==
    /\ at[t] = "config"
    /\ Unlock
    /\ Returns(t)
    /\ UNCHANGED <<process, binary, foreign, edmc, stopFailed, calls>>

\* _wait_for_port: it is open, the binary died, or all attempts are used up.
WaitedForPort(t) ==
    /\ at[t] = "wait"
    /\ Unlock
    /\ Returns(t)
    /\ UNCHANGED <<process, binary, foreign, edmc, stopFailed, calls>>

\* stop() with nothing to end: None, or dead already.
StopIdle ==
    /\ at[Hook] = "stop" /\ holder = "nobody" /\ ~Running
    /\ process' = 0
    /\ stopFailed' = FALSE
    /\ Returns(Hook)
    /\ UNCHANGED <<holder, binary, foreign, edmc, calls>>

Terminate ==
    /\ at[Hook] = "stop" /\ holder = "nobody" /\ Running
    /\ \E state \in Terminated(binary[process]) :
         binary' = [binary EXCEPT ![process] = state]
    /\ holder' = Hook
    /\ at' = [at EXCEPT ![Hook] = "waitEnd"]
    /\ UNCHANGED <<process, plan, foreign, edmc, stopFailed, calls>>

\* wait() returned.
StopEnds ==
    /\ at[Hook] = "waitEnd" /\ binary[process] = "dead"
    /\ process' = 0
    /\ stopFailed' = FALSE
    /\ Unlock
    /\ Returns(Hook)
    /\ UNCHANGED <<binary, foreign, edmc, calls>>

\* Mutant: the process is forgotten before the exception leaves.
AfterTimeout_Forgotten == 0

AfterTimeout == process

\* wait(timeout=5) raises, and the hook ends with the exception.
StopTimesOut ==
    /\ at[Hook] = "waitEnd" /\ binary[process] # "dead"
    /\ process' = AfterTimeout
    /\ stopFailed' = TRUE
    /\ Unlock
    /\ at' = [at EXCEPT ![Hook] = "away"]
    /\ plan' = <<>>
    /\ UNCHANGED <<binary, foreign, edmc, calls>>

\* Without a main loop Tk raises instead of waiting for ever.
TkRaises(t) == edmc = "loading" /\ LaunchFails(t)

Starts(t) ==
    AlreadyRunning(t) \/ BeginStart(t) \/ Launch(t) \/ WaitedForPort(t) \/ TkRaises(t)
HookSteps == IsAlive \/ StopIdle \/ Terminate \/ StopEnds \/ StopTimesOut \/ Starts(Hook)

Next ==
    \/ \E n \in Binaries : Bind(n) \/ BindFails(n) \/ Die(n)
    \/ EnterMainLoop \/ GameStarts \/ GameEnds \/ PrefsChanged \/ PluginStop
    \/ \E s \in Senders : SenderCalls(s) \/ Starts(s)
    \/ \E t \in Threads : LaunchFails(t)
    \/ HookSteps

Spec == Init /\ [][Next]_vars

\* Threads in a call are scheduled, and their waits are bounded by timeouts.
\* Nothing is owed by the binary, by EDMC or by the plugins.
FairSpec == Spec /\ WF_vars(HookSteps) /\ \A s \in Senders : WF_vars(Starts(s))

-----------------------------------------------------------------------------
(* Properties.                                                             *)

\* Every variable has its type.
TypeOK ==
    /\ process \in 0..Len(binary) /\ holder \in Threads \cup {"nobody"}
    /\ at \in [Threads -> {"away", "unlessAlive", "ifAlive", "ensure", "config",
                           "wait", "stop", "waitEnd"}]
    /\ plan \in {<<>>, <<"ensure">>, <<"stop", "ensure">>}
    /\ binary \in Seq({"starting", "serving", "mute", "closing", "ending", "dead"})
    /\ calls \in Nat
    /\ foreign \in BOOLEAN /\ edmc \in {"loading", "running", "leaving"} /\ stopFailed \in BOOLEAN

Alive(n) == binary[n] # "dead"

\* A binary that runs is the one the manager knows: none is forgotten, and no
\* second one is started beside it, whichever hooks and senders call at once
\* and although stop() may time out and a start may raise.
NoOrphan == \A n \in Binaries : Alive(n) => process = n

\* A restart never finds the port taken by the binary it replaces, so that the
\* open port which ensure_started waits for is the one of its own binary.
PortIsOurs == ~foreign => \A n \in Binaries : binary[n] # "mute"

\* "Reaction to EDMC stop." (load.py:166): when plugin_stop has returned no
\* binary is left and none comes after, although senders still try.
NoneLeftBehind ==
    edmc = "leaving" /\ at[Hook] = "away" /\ ~stopFailed => \A n \in Binaries : ~Alive(n)

TkIsWaitedFor == \E s \in Senders : holder = s /\ at[s] = "config"

\* A hook, in which all of EDMC's window stands still, comes to its end unless
\* a sender with the lock waits for that window's thread.
HookReturnsOrTk == at[Hook] # "away" ~> (at[Hook] = "away" \/ TkIsWaitedFor)

\* "Thread safe process stop." (overlay_manager.py:88) and the other calls:
\* every hook comes to its end.
HookReturns == at[Hook] # "away" ~> at[Hook] = "away"
=============================================================================
