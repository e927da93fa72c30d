--------------------------- MODULE PluginHostProofs ---------------------------
(***************************************************************************)
(* Proofs about PluginHost, for any set of senders and any number of calls,*)
(* changes and clicks: what it adds leaves the manager's promises alone,   *)
(* a binary knows the settings, and the button says what the overlay does. *)
(***************************************************************************)
EXTENDS PluginHost, ManagerProofs

LOCAL INSTANCE SequencesExt

\* A binary with old settings that nobody is warned of.
Outdated == Running /\ ~reload /\ ~stopFailed /\ cmdline # settings

\* Such a binary is being stopped: prefs_changed is at is_alive, or in stop().
SettingsInv ==
    Outdated =>
        /\ at[Hook] \in {"ifAlive", "stop", "waitEnd"}
        /\ at[Hook] = "ifAlive" => plan = <<"stop", "ensure">>

\* Every step of the host is one of the manager, or leaves it alone.
LEMMA HostSteps == [HostNext]_<<vars, hostVars>> => [Next]_vars
  <1> SUFFICES ASSUME [HostNext]_<<vars, hostVars>> PROVE [Next]_vars
    OBVIOUS
  <1>1. Senders \subseteq Threads /\ Threads = Senders \cup {Hook}
    BY DEF Threads
  <1>2. CASE Elsewhere
    BY <1>1, <1>2, Zenon DEF Elsewhere, StartEnds, Next, HookSteps, Starts
  <1>3. CASE SaveAndRestart
    BY <1>3 DEF SaveAndRestart, Next
  <1>4. CASE LaunchWithSettings
    BY <1>1, <1>4, Zenon DEF LaunchWithSettings, Next, HookSteps, Starts
  <1>5. CASE Announce
    BY <1>5 DEF Announce, Next, HookSteps, Starts
  <1>6. CASE Edit \/ (\E hide \in BOOLEAN : Click(hide))
               \/ (\E i \in 1..Len(clicks) : Execute(i) \/ Lose(i))
    BY <1>6 DEF Edit, Click, Execute, Lose
  <1>7. CASE UNCHANGED <<vars, hostVars>>
    BY <1>7
  <1>8. QED
    BY <1>2, <1>3, <1>4, <1>5, <1>6, <1>7 DEF HostNext

\* A step that moves neither the hook nor its plan.
LEMMA HookStays ==
  ASSUME SettingsInv, Outdated' => Outdated, at'[Hook] = at[Hook], plan' = plan
  PROVE  SettingsInv'
  BY DEF SettingsInv

\* A step of the hook from a place in which no binary is outdated.
LEMMA NotOutdated ==
  ASSUME SettingsInv, Outdated' => Outdated,
         at[Hook] \notin {"ifAlive", "stop", "waitEnd"}
  PROVE  SettingsInv'
  BY DEF SettingsInv

\* Every step keeps SettingsInv.
LEMMA NextSettings ==
  TypeOK /\ SettingsInv /\ [HostNext]_<<vars, hostVars>> => SettingsInv'
  <1> SUFFICES ASSUME TypeOK, SettingsInv, [HostNext]_<<vars, hostVars>>
               PROVE  SettingsInv'
    OBVIOUS
  <1>1. /\ at \in [Threads -> Stages] /\ binary \in Seq(States)
        /\ Hook \in Threads /\ Senders \subseteq Threads /\ Hook \notin Senders
    BY ManagerAssumption DEF TypeOK, Stages, States, Threads
  <1>2. ASSUME UNCHANGED <<process, binary, stopFailed, reload, cmdline, settings>>
        PROVE  Outdated' => Outdated
    BY <1>2 DEF Outdated, Running
  <1>3. CASE Elsewhere /\ UNCHANGED hostVars
    <2>1. UNCHANGED <<reload, cmdline, settings>>
      BY <1>3 DEF hostVars, configVars, binaryVars
    <2>2. ASSUME NEW n \in Binaries, Bind(n) \/ BindFails(n) \/ Die(n)
          PROVE  SettingsInv'
      <3>1. PICK state \in States : Become(n, state) /\ binary[n] # "dead"
        BY <2>2 DEF Bind, BindFails, Die, States
      <3>2. /\ UNCHANGED <<process, at, plan, stopFailed>>
            /\ \A m \in Binaries : binary'[m] = IF m = n THEN state ELSE binary[m]
        BY <3>1, Become1 DEF Become
      <3>3. Running' => Running
        BY <3>1, <3>2, Known DEF Running
      <3>4. QED
        BY <2>1, <3>2, <3>3, HookStays DEF Outdated
    <2>3. CASE EnterMainLoop
      BY <1>2, <2>1, <2>3, HookStays DEF EnterMainLoop
    <2>4. CASE GameStarts \/ GameEnds \/ PluginStop
      BY <1>2, <2>1, <2>4, NotOutdated DEF GameStarts, GameEnds, PluginStop, HookCalls
    <2>5. ASSUME NEW s \in Senders, SenderCalls(s) PROVE SettingsInv'
      BY <1>1, <1>2, <2>1, <2>5, HookStays DEF SenderCalls
    <2>6. ASSUME NEW t \in Threads,
                 AlreadyRunning(t) \/ LaunchFails(t) \/ WaitedForPort(t)
          PROVE  SettingsInv'
      <3>1. Outdated' => Outdated
        BY <1>2, <2>1, <2>6 DEF AlreadyRunning, LaunchFails, WaitedForPort
      <3>2. CASE t = Hook
        BY <2>6, <3>1, <3>2, NotOutdated DEF AlreadyRunning, LaunchFails, WaitedForPort
      <3>3. CASE t # Hook
        <4>1. Returns(t)
          BY <2>6 DEF AlreadyRunning, LaunchFails, WaitedForPort
        <4>2. at'[Hook] = at[Hook] /\ plan' = plan
          BY <1>1, <3>3, <4>1, Return
        <4>3. QED
          BY <3>1, <4>2, HookStays
      <3>4. QED
        BY <3>2, <3>3
    <2>7. ASSUME NEW t \in Threads, BeginStart(t) PROVE SettingsInv'
      BY <2>7 DEF BeginStart, SettingsInv, Outdated, Running
    <2>8. CASE IsAlive
      <3>1. Outdated' => Outdated
        BY <1>2, <2>1, <2>8 DEF IsAlive
      <3>2. CASE at[Hook] = "ifAlive" /\ Outdated
        <4>1. plan = <<"stop", "ensure">> /\ Returns(Hook)
          BY <2>8, <3>2 DEF IsAlive, SettingsInv, Outdated
        <4>2. plan # <<>> /\ Head(plan) = "stop"
          BY <4>1, SMT
        <4>3. at'[Hook] = "stop"
          BY <1>1, <4>1, <4>2 DEF Returns
        <4>4. QED
          BY <4>3 DEF SettingsInv
      <3>3. CASE ~(at[Hook] = "ifAlive" /\ Outdated)
        BY <2>8, <3>1, <3>3 DEF IsAlive, SettingsInv
      <3>4. QED
        BY <3>2, <3>3
    <2>9. CASE StopIdle \/ StopEnds
      BY <2>9 DEF StopIdle, StopEnds, SettingsInv, Outdated, Running
    <2>10. CASE Terminate
      <3>1. at'[Hook] = "waitEnd"
        BY <1>1, <2>10 DEF Terminate
      <3>2. QED
        BY <3>1 DEF SettingsInv
    <2>11. CASE StopTimesOut
      BY <2>11 DEF StopTimesOut, SettingsInv, Outdated
    <2>12. QED
      BY <1>1, <1>3, <2>2, <2>3, <2>4, <2>5, <2>6, <2>7, <2>8, <2>9, <2>10, <2>11
         DEF Elsewhere, StartEnds
  <1>4. CASE Edit
    BY <1>4 DEF Edit, Traced, SettingsInv, Outdated
  <1>5. CASE SaveAndRestart
    <2>1. at'[Hook] = "ifAlive" /\ plan' = <<"stop", "ensure">>
      BY <1>1, <1>5 DEF SaveAndRestart, PrefsChanged, HookCalls
    <2>2. QED
      BY <2>1 DEF SettingsInv
  <1>6. CASE LaunchWithSettings
    BY <1>6 DEF LaunchWithSettings, configVars, SettingsInv, Outdated
  <1>7. CASE Announce
    BY <1>2, <1>7, NotOutdated DEF Announce, WaitedForPort, configVars
  <1>8. CASE (\E hide \in BOOLEAN : Click(hide))
               \/ (\E i \in 1..Len(clicks) : Execute(i) \/ Lose(i))
    <2>1. UNCHANGED <<vars, reload, cmdline, settings>>
      BY <1>8 DEF Click, Execute, Lose, configVars, binaryVars
    <2>2. QED
      BY <1>2, <2>1, HookStays DEF vars
  <1>9. CASE UNCHANGED <<vars, hostVars>>
    BY <1>2, <1>9, HookStays DEF vars, hostVars, configVars, binaryVars
  <1>10. QED
    BY <1>3, <1>4, <1>5, <1>6, <1>7, <1>8, <1>9 DEF HostNext

-----------------------------------------------------------------------------
(* The button.                                                             *)

ButtonTypes ==
    /\ button \in BOOLEAN /\ hidden \in BOOLEAN /\ crossed \in BOOLEAN
    /\ clicks \in Seq(BOOLEAN)

\* As long as the commands are executed in the order of the clicks the button
\* says what the overlay will do after the last of them.
ButtonInv ==
    /\ ButtonTypes
    /\ announced /\ ~crossed =>
         button = IF clicks = <<>> THEN hidden ELSE clicks[Len(clicks)]

\* One command fewer is under way; after the first of them the last is the same.
LEMMA OneClickLess ==
    ASSUME clicks \in Seq(BOOLEAN), NEW i \in 1..Len(clicks)
    PROVE  /\ clicks[i] \in BOOLEAN
           /\ RemoveAt(clicks, i) \in Seq(BOOLEAN)
           /\ i = 1 => IF Len(clicks) = 1
                       THEN RemoveAt(clicks, i) = <<>>
                       ELSE /\ RemoveAt(clicks, i) # <<>>
                            /\ RemoveAt(clicks, i)[Len(RemoveAt(clicks, i))]
                                 = clicks[Len(clicks)]
  <1>1. clicks[i] \in BOOLEAN /\ Len(clicks) \in Nat
    BY ElementOfSeq, LenProperties
  <1> DEFINE front == SubSeq(clicks, 1, i - 1)
             back == SubSeq(clicks, i + 1, Len(clicks))
  <1>2. RemoveAt(clicks, i) = front \o back
    BY DEF RemoveAt
  <1>3. /\ front \in Seq(BOOLEAN) /\ Len(front) = i - 1
        /\ back \in Seq(BOOLEAN) /\ Len(back) = Len(clicks) - i
        /\ \A j \in 1..Len(back) : back[j] = clicks[i + j]
    BY <1>1
  <1> HIDE DEF front, back
  <1>4. /\ front \o back \in Seq(BOOLEAN)
        /\ Len(front \o back) = Len(clicks) - 1
        /\ i = 1 /\ Len(clicks) # 1 =>
             (front \o back)[Len(clicks) - 1] = clicks[Len(clicks)]
    <2>1. /\ front \o back \in Seq(BOOLEAN)
          /\ Len(front \o back) = Len(front) + Len(back)
          /\ \A j \in 1..(Len(front) + Len(back)) :
               (front \o back)[j] = IF j <= Len(front) THEN front[j]
                                    ELSE back[j - Len(front)]
      BY <1>3, ConcatProperties
    <2>2. QED
      BY <1>1, <1>3, <2>1
  <1>5. QED
    BY <1>1, <1>2, <1>4, EmptySeq

\* Every step of the host keeps it.
LEMMA NextButton == ButtonInv /\ [HostNext]_<<vars, hostVars>> => ButtonInv'
  <1> SUFFICES ASSUME ButtonInv, [HostNext]_<<vars, hostVars>>
               PROVE  ButtonInv'
    OBVIOUS
  <1> USE DEF ButtonInv, ButtonTypes
  <1>1. CASE UNCHANGED <<buttonVars, hidden, announced>>
    BY <1>1 DEF buttonVars
  <1>2. CASE LaunchWithSettings
    BY <1>2 DEF LaunchWithSettings, buttonVars
  <1>3. CASE Announce
    BY <1>3 DEF Announce, ButtonAtStart
  <1>4. ASSUME NEW hide \in BOOLEAN, Click(hide)
        PROVE  ButtonInv'
    <2>1. /\ clicks' \in Seq(BOOLEAN) /\ clicks' # <<>>
          /\ clicks'[Len(clicks')] = hide
      BY <1>4, AppendProperties DEF Click
    <2>2. QED
      BY <1>4, <2>1 DEF Click, binaryVars
  <1>5. ASSUME NEW i \in 1..Len(clicks), Execute(i)
        PROVE  ButtonInv'
    <2>1. i \in Nat /\ i >= 1 /\ (crossed => crossed') /\ (i > 1 => crossed')
      <3>1. crossed' = (crossed \/ i > 1)
        BY <1>5 DEF Execute
      <3>2. (crossed => crossed') /\ (i > 1 => crossed')
        BY <3>1, Zenon
      <3>3. QED
        BY <3>2
    <2>2. CASE crossed'
      BY <1>5, <2>1, <2>2, OneClickLess DEF Execute
    <2>3. CASE ~crossed'
      <3>1. i = 1 /\ ~crossed
        BY <2>1, <2>3
      <3>2. clicks # <<>>
        BY <1>5, EmptySeq
      <3>3. CASE Len(clicks) = 1
        BY <1>5, <2>3, <3>1, <3>2, <3>3, OneClickLess DEF Execute
      <3>4. CASE Len(clicks) # 1
        BY <1>5, <2>3, <3>1, <3>2, <3>4, OneClickLess DEF Execute
      <3>5. QED
        BY <3>3, <3>4
    <2>4. QED
      BY <2>2, <2>3
  <1>6. ASSUME NEW i \in 1..Len(clicks), Lose(i)
        PROVE  ButtonInv'
    BY <1>6, OneClickLess DEF Lose, binaryVars
  <1>7. QED
    <2>1. CASE (Elsewhere /\ UNCHANGED hostVars) \/ Edit \/ SaveAndRestart
               \/ UNCHANGED <<vars, hostVars>>
      BY <1>1, <2>1 DEF Edit, SaveAndRestart, hostVars, binaryVars
    <2>2. QED
      BY <1>2, <1>3, <1>4, <1>5, <1>6, <2>1 DEF HostNext

-----------------------------------------------------------------------------
(* The theorems.                                                           *)

\* With settings and buttons beside it the manager does what it does alone.
THEOREM HostRefinesManager == HostSpec => Spec
  BY HostSteps, PTL DEF HostSpec, HostInit, Spec

\* So its promises hold here too: one binary at most, on its own port, and none
\* after EDMC (overlay_manager.py:50-105, load.py:166-169).
THEOREM HostKeepsPromises == HostSpec => [](NoOrphan /\ PortIsOurs /\ NoneLeftBehind)
  BY HostRefinesManager, OneBinary, PortIsFree, NothingStays, PTL

\* A running binary has the settings of now, or the flag is up, or a hook is at
\* work, or a stop() has timed out (_config_vars.py:108-126, load.py:172-175).
THEOREM SettingsAreKnown == HostSpec => []RunsWithSettings
  <1>1. HostInit => SettingsInv
    BY DEF HostInit, Init, SettingsInv, Outdated, Running
  <1>2. SettingsInv => RunsWithSettings
    BY DEF SettingsInv, Outdated, RunsWithSettings
  <1>3. HostSpec => []TypeOK
    BY HostRefinesManager, TypeCorrect, PTL
  <1>4. QED
    BY <1>1, <1>2, <1>3, NextSettings, PTL DEF HostSpec

\* The button agrees with the binary when no command is under way, whatever the
\* user clicks and however often the binary is started, as long as no command
\* was lost, overtaken, or under way at a start (load.py:142-144, 189-203).
THEOREM ButtonAgrees == HostSpec => []ButtonIsRight
  <1>1. HostInit => ButtonInv
    BY EmptySeq DEF HostInit, ButtonInv, ButtonTypes
  <1>2. ButtonInv => ButtonIsRight
    BY DEF ButtonInv, ButtonIsRight
  <1>3. QED
    BY <1>1, <1>2, NextButton, PTL DEF HostSpec
=============================================================================
