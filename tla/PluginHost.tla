------------------------------ MODULE PluginHost ------------------------------
(***************************************************************************)
(* load.py around its OverlayBinaryManager: the settings, which a running  *)
(* binary knows from its command line only, and the buttons that hide and  *)
(* show the overlay.  Manager's steps go on as they are; this module adds  *)
(* what EDMC's main thread keeps beside them, and what a binary makes of   *)
(* the commands of the buttons.                                            *)
(*                                                                         *)
(* Every click sends its command through an Overlay() of its own, with a   *)
(* queue, a worker and a connection of its own: commands arrive in any     *)
(* order.  The threads behind them are among the Senders, which may start  *)
(* a binary; a connection that is new is never a left-over one (Sender).   *)
(* Only the binary launched last is looked at: others are dead (NoOrphan). *)
(***************************************************************************)
EXTENDS Manager

LOCAL INSTANCE SequencesExt

CONSTANTS
    MaxEdits,   \* bound: changes of the settings
    MaxClicks   \* bound: clicks

ASSUME HostAssumption == MaxEdits \in Nat /\ MaxClicks \in Nat

VARIABLES
    settings,   \* the geometry in the Tk variables: the number of its last change
    reload,     \* __binaryReloadRequired
    cmdline,    \* the settings the newest binary was launched with
    button,     \* __iHideButDoNotStopOverlay
    clicks,     \* the commands under way, oldest first: overlay_off is TRUE
    hidden,     \* its commandHideLayer
    announced,  \* post_start_callback has followed its start
    clicked,    \* the clicks so far
    crossed     \* history: a click was lost, overtaken, or under way at a start

configVars == <<settings, reload>>
buttonVars == <<button, clicks, clicked, crossed>>
binaryVars == <<cmdline, hidden, announced>>
hostVars == <<configVars, buttonVars, binaryVars>>

\* loadFromSettings has been called.
HostInit ==
    /\ Init
    /\ settings = 0 /\ reload = FALSE
    /\ button = FALSE /\ clicks = <<>> /\ clicked = 0 /\ crossed = FALSE
    /\ cmdline = 0 /\ hidden = FALSE /\ announced = FALSE

TkIsFree == edmc = "running" /\ at[Hook] = "away"

-----------------------------------------------------------------------------
(* Settings.                                                               *)

\* Mutant: a field that is declared without reload_needed.
Traced_Not == reload

\* __set_changed, the trace of the geometry's variables.
Traced == TRUE

\* The dialog writes into the Tk variables while the user types.
Edit ==
    /\ TkIsFree
    /\ settings < MaxEdits /\ settings' = settings + 1
    /\ reload' = Traced
    /\ UNCHANGED <<vars, buttonVars, binaryVars>>

\* prefs_changed: saveToSettings takes the flag down, whatever comes of the
\* restart.  Without the flag nothing follows.
SaveAndRestart ==
    /\ reload /\ reload' = FALSE
    /\ PrefsChanged
    /\ UNCHANGED <<settings, buttonVars, binaryVars>>

\* The command line has the settings of this moment; a new overlay shows.
LaunchWithSettings ==
    /\ \E t \in Threads : Launch(t)
    /\ cmdline' = settings
    /\ hidden' = FALSE
    /\ announced' = FALSE
    /\ UNCHANGED <<configVars, buttonVars>>

-----------------------------------------------------------------------------
(* Buttons.                                                                *)

\* __show_overlay, __hide_overlay
Click(hide) ==
    /\ TkIsFree
    /\ clicked < MaxClicks /\ clicked' = clicked + 1
    /\ button' = hide
    /\ clicks' = Append(clicks, hide)
    /\ UNCHANGED <<vars, configVars, binaryVars, crossed>>

IsServing == \E n \in Binaries : binary[n] = "serving"

\* A frame of the binary executes the command (DrawStore: of several between
\* two frames it is the one that came last).
Execute(i) ==
    /\ IsServing
    /\ hidden' = clicks[i]
    /\ clicks' = RemoveAt(clicks, i)
    /\ crossed' = (crossed \/ i > 1)
    /\ UNCHANGED <<vars, configVars, button, clicked, cmdline, announced>>

\* All attempts of send() are used up, or the binary ends before a frame.
Lose(i) ==
    /\ ~IsServing
    /\ clicks' = RemoveAt(clicks, i)
    /\ crossed' = TRUE
    /\ UNCHANGED <<vars, configVars, button, clicked, binaryVars>>

\* Mutant: the callback shows the intro and leaves the button.
ButtonAtStart_Kept == button

ButtonAtStart == FALSE

\* The hook's start ends with an open port: post_start_callback.
Announce ==
    /\ PortOpen /\ WaitedForPort(Hook)
    /\ button' = ButtonAtStart
    /\ announced' = TRUE
    /\ crossed' = (crossed \/ clicks # <<>> \/ hidden)
    /\ UNCHANGED <<configVars, clicks, clicked, cmdline, hidden>>

\* Another start ends: a sender's has no callback.
StartEnds ==
    \/ ~PortOpen /\ WaitedForPort(Hook)
    \/ \E s \in Senders : WaitedForPort(s)

-----------------------------------------------------------------------------
\* What of the manager, its callers and the binaries leaves the rest alone.
Elsewhere ==
    \/ \E n \in Binaries : Bind(n) \/ BindFails(n) \/ Die(n)
    \/ EnterMainLoop \/ GameStarts \/ GameEnds \/ PluginStop
    \/ \E s \in Senders : SenderCalls(s)
    \/ \E t \in Threads : AlreadyRunning(t) \/ BeginStart(t) \/ LaunchFails(t)
    \/ StartEnds
    \/ IsAlive \/ StopIdle \/ Terminate \/ StopEnds \/ StopTimesOut

HostNext ==
    \/ Elsewhere /\ UNCHANGED hostVars
    \/ Edit \/ SaveAndRestart \/ LaunchWithSettings \/ Announce
    \/ \E hide \in BOOLEAN : Click(hide)
    \/ \E i \in 1..Len(clicks) : Execute(i) \/ Lose(i)

HostSpec == HostInit /\ [][HostNext]_<<vars, hostVars>>

\* The fairness of Manager.
FairHostSpec == HostSpec /\ WF_vars(HookSteps) /\ \A s \in Senders : WF_vars(Starts(s))

-----------------------------------------------------------------------------
(* Properties.                                                             *)

\* "Returns True if binary must be reloaded." (_config_vars.py:109): whoever
\* started it, and whenever the user changed the settings, a running binary has
\* those of now, or the flag is up, or a hook is at work; but for a stop() that
\* timed out, after which the flag is down and the old binary goes on.
RunsWithSettings ==
    (Running /\ ~reload /\ at[Hook] = "away" /\ ~stopFailed) =>
        cmdline = settings

\* The button says what the overlay does when no command is under way, if the
\* binary was announced by the callback and no click was lost, overtaken or on
\* its way during a start.
ButtonIsRight ==
    (IsServing /\ announced /\ clicks = <<>> /\ ~crossed) => hidden = button
=============================================================================
