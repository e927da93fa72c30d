---------------------------- MODULE ManagerProofs ----------------------------
(***************************************************************************)
(* Proofs about Manager, for any set of sender threads and any number of   *)
(* calls: the safety properties its run checks hold in every reachable     *)
(* state.                                                                  *)
(***************************************************************************)
EXTENDS Manager, SequenceTheorems, TLAPS

States == {"starting", "serving", "mute", "closing", "ending", "dead"}
Stages == {"away", "unlessAlive", "ifAlive", "ensure", "config", "wait", "stop", "waitEnd"}
Plans == {<<>>, <<"ensure">>, <<"stop", "ensure">>}
LockedStages == {"config", "wait", "waitEnd"}

\* The lock is with the thread that is past taking it; it starts a binary only
\* when none is known.
LockInv ==
    /\ \A t \in Threads : holder = t <=> at[t] \in LockedStages
    /\ \A t \in Threads : at[t] = "config" => process = 0
    /\ at[Hook] = "waitEnd" => process # 0

\* Once EDMC is leaving there is one call left, stop(), and nothing after it.
LeaveInv ==
    edmc = "leaving" =>
        /\ plan = <<>> /\ at[Hook] \in {"away", "stop", "waitEnd"}
        /\ NoneLeftBehind

Inv == TypeOK /\ LockInv /\ NoOrphan /\ PortIsOurs /\ LeaveInv

-----------------------------------------------------------------------------
(* Lemmas about the operators.                                             *)

\* What is left of a plan is a plan, and it begins with a stage.
LEMMA RestOfPlan ==
  ASSUME NEW p \in Plans, p # <<>>
  PROVE  Head(p) \in {"stop", "ensure"} /\ Tail(p) \in Plans
  <1>1. CASE p = <<"ensure">>
    BY <1>1, SMT DEF Plans
  <1>2. CASE p = <<"stop", "ensure">>
    <2>1. Head(p) = "stop"
      BY <1>2, SMT
    <2>2. Tail(p) = <<"ensure">>
      BY <1>2, SMT
    <2>3. QED
      BY <2>1, <2>2 DEF Plans
  <1>3. QED
    BY <1>1, <1>2 DEF Plans

\* A return moves its thread only, to a stage in which it has no lock.
LEMMA Return ==
  ASSUME TypeOK, NEW t \in Threads, Returns(t)
  PROVE  /\ at' \in [Threads -> Stages] /\ plan' \in Plans
         /\ at'[t] \in {"away", "stop", "ensure"}
         /\ \A u \in Threads \ {t} : at'[u] = at[u]
         /\ t # Hook \/ plan = <<>> => at'[t] = "away" /\ plan' = plan
  <1>1. at \in [Threads -> Stages] /\ plan \in Plans
    BY DEF TypeOK, Stages, Plans
  <1>2. CASE t = Hook /\ plan # <<>>
    <2>1. Head(plan) \in {"stop", "ensure"} /\ Tail(plan) \in Plans
      BY <1>1, <1>2, RestOfPlan
    <2>2. at' = [at EXCEPT ![t] = Head(plan)] /\ plan' = Tail(plan)
      BY <1>2 DEF Returns
    <2>3. QED
      BY <1>1, <1>2, <2>1, <2>2 DEF Stages
  <1>3. CASE ~(t = Hook /\ plan # <<>>)
    <2>1. at' = [at EXCEPT ![t] = "away"] /\ plan' = plan
      BY <1>3 DEF Returns
    <2>2. QED
      BY <1>1, <2>1 DEF Stages
  <1>4. QED
    BY <1>2, <1>3

\* One binary changes its state.
LEMMA Become1 ==
  ASSUME TypeOK, NEW n \in Binaries, NEW state \in States,
         binary' = [binary EXCEPT ![n] = state]
  PROVE  /\ binary' \in Seq(States) /\ Len(binary') = Len(binary)
         /\ Binaries' = Binaries
         /\ \A m \in Binaries : binary'[m] = IF m = n THEN state ELSE binary[m]
  <1>1. binary \in Seq(States)
    BY DEF TypeOK, States
  <1>2. QED
    BY <1>1, ExceptSeq DEF Binaries

\* One binary is added.
LEMMA OneMore ==
  ASSUME TypeOK, binary' = Append(binary, "starting")
  PROVE  /\ binary' \in Seq(States) /\ Len(binary') = Len(binary) + 1
         /\ Binaries' = Binaries \cup {Len(binary) + 1}
         /\ Len(binary) \in Nat
         /\ \A m \in Binaries : binary'[m] = binary[m]
         /\ binary'[Len(binary) + 1] = "starting"
  <1>1. binary \in Seq(States) /\ "starting" \in States
    BY DEF TypeOK, States
  <1>2. Len(binary) \in Nat
    BY <1>1
  <1>3. Len(binary') = Len(binary) + 1
    BY <1>1, AppendProperties
  <1>4. Binaries' = Binaries \cup {Len(binary) + 1}
    BY <1>2, <1>3 DEF Binaries
  <1>5. QED
    BY <1>1, <1>2, <1>3, <1>4, AppendProperties DEF Binaries

\* The process that is known is one that was launched.
LEMMA Known == TypeOK /\ process # 0 => process \in Binaries
  <1> SUFFICES ASSUME TypeOK, process # 0 PROVE process \in Binaries
    OBVIOUS
  <1>1. Len(binary) \in Nat /\ process \in 0..Len(binary)
    BY DEF TypeOK
  <1>2. QED
    BY <1>1 DEF Binaries

\* What SIGTERM leads to is a state; no binary is dead or mute by it that was
\* not before.
LEMMA TerminatedType ==
  ASSUME NEW from \in States, NEW state \in Terminated(from)
  PROVE  state \in States /\ (state \in {"dead", "mute"} => state = from)
  BY DEF Terminated, States

-----------------------------------------------------------------------------
(* Every step keeps each part of the invariant.                            *)

\* The steps a proof has to look at, one by one.
LEMMA Steps ==
  ASSUME [Next]_vars
  PROVE  \/ UNCHANGED vars
         \/ \E n \in Binaries : Bind(n) \/ BindFails(n) \/ Die(n)
         \/ EnterMainLoop \/ GameStarts \/ GameEnds \/ PrefsChanged \/ PluginStop
         \/ \E s \in Senders : SenderCalls(s)
         \/ IsAlive \/ StopIdle \/ Terminate \/ StopEnds \/ StopTimesOut
         \/ \E t \in Threads : AlreadyRunning(t) \/ BeginStart(t) \/ Launch(t)
                                \/ WaitedForPort(t) \/ LaunchFails(t)
  <1>1. Senders \subseteq Threads /\ Hook \in Threads
    BY DEF Threads
  <1>2. ASSUME NEW t \in Threads, Starts(t)
        PROVE  AlreadyRunning(t) \/ BeginStart(t) \/ Launch(t)
                 \/ WaitedForPort(t) \/ LaunchFails(t)
    BY <1>2 DEF Starts, TkRaises
  <1>3. QED
    BY <1>1, <1>2 DEF Next, HookSteps

\* The types.
LEMMA NextType == TypeOK /\ [Next]_vars => TypeOK'
  <1> SUFFICES ASSUME TypeOK, [Next]_vars PROVE TypeOK'
    OBVIOUS
  <1>1. /\ process \in 0..Len(binary) /\ holder \in Threads \cup {"nobody"}
        /\ at \in [Threads -> Stages] /\ plan \in Plans
        /\ binary \in Seq(States) /\ calls \in Nat /\ Len(binary) \in Nat
        /\ foreign \in BOOLEAN /\ stopFailed \in BOOLEAN
        /\ edmc \in {"loading", "running", "leaving"}
    BY DEF TypeOK, Stages, Plans, States
  <1>2. Hook \in Threads /\ Senders \subseteq Threads
    BY DEF Threads
  <1>3. /\ {"away", "stop", "ensure", "unlessAlive", "ifAlive"} \cup LockedStages = Stages
        /\ <<>> \in Plans /\ <<"stop", "ensure">> \in Plans
    BY DEF LockedStages, Stages, Plans
  <1> DEFINE
        Processes == process' \in 0..Len(binary') /\ binary' \in Seq(States)
        Calls == at' \in [Threads -> Stages] /\ plan' \in Plans
        Others == /\ holder' \in Threads \cup {"nobody"} /\ calls' \in Nat
                  /\ foreign' \in BOOLEAN /\ stopFailed' \in BOOLEAN
                  /\ edmc' \in {"loading", "running", "leaving"}
  <1>4. SUFFICES Processes /\ Calls /\ Others
    BY Zenon DEF TypeOK, Stages, Plans, States, Threads
  <1>5. CASE UNCHANGED vars
    BY <1>1, <1>5 DEF vars
  <1>6. ASSUME NEW n \in Binaries, Bind(n) \/ BindFails(n) \/ Die(n)
        PROVE  Processes /\ Calls /\ Others
    <2>1. PICK state \in States : Become(n, state)
      BY <1>6 DEF Bind, BindFails, Die, States
    <2>2. QED
      BY <1>1, <2>1, Become1 DEF Become
  <1>7. CASE EnterMainLoop
    BY <1>1, <1>7 DEF EnterMainLoop
  <1>8. CASE GameStarts
    BY <1>1, <1>2, <1>3, <1>8 DEF GameStarts, HookCalls
  <1>9. CASE GameEnds
    BY <1>1, <1>2, <1>3, <1>9 DEF GameEnds, HookCalls
  <1>10. CASE PrefsChanged
    BY <1>1, <1>2, <1>3, <1>10 DEF PrefsChanged, HookCalls
  <1>11. CASE PluginStop
    BY <1>1, <1>2, <1>3, <1>11 DEF PluginStop, HookCalls
  <1>12. ASSUME NEW s \in Senders, SenderCalls(s)
         PROVE  Processes /\ Calls /\ Others
    BY <1>1, <1>2, <1>3, <1>12 DEF SenderCalls
  <1>13. CASE IsAlive
    <2>1. Processes /\ Others
      BY <1>1, <1>13 DEF IsAlive
    <2>2. CASE Returns(Hook)
      BY <1>2, <2>1, <2>2, Return
    <2>3. CASE ~Returns(Hook)
      BY <1>1, <1>2, <1>3, <1>13, <2>1, <2>3 DEF IsAlive
    <2>4. QED
      BY <2>2, <2>3
  <1>14. CASE StopIdle
    <2>1. Calls
      BY <1>2, <1>14, Return DEF StopIdle
    <2>2. Processes
      BY <1>1, <1>14 DEF StopIdle
    <2>3. Others
      BY <1>1, <1>14 DEF StopIdle
    <2>4. QED
      BY <2>1, <2>2, <2>3
  <1>15. CASE Terminate
    <2>1. PICK state \in Terminated(binary[process]) :
            binary' = [binary EXCEPT ![process] = state]
      BY <1>15 DEF Terminate
    <2>2. process \in Binaries /\ binary[process] \in States
      BY <1>1, <1>15, Known DEF Terminate, Running, Binaries
    <2>3. Processes
      BY <1>1, <1>15, <2>1, <2>2, TerminatedType, Become1 DEF Terminate
    <2>4. Calls
      BY <1>1, <1>2, <1>3, <1>15 DEF Terminate, LockedStages
    <2>5. Others
      BY <1>1, <1>2, <1>15 DEF Terminate
    <2>6. QED
      BY <2>3, <2>4, <2>5
  <1>16. CASE StopEnds
    <2>1. Calls
      BY <1>2, <1>16, Return DEF StopEnds
    <2>2. Processes
      BY <1>1, <1>16 DEF StopEnds
    <2>3. Others
      BY <1>1, <1>16 DEF StopEnds, Unlock
    <2>4. QED
      BY <2>1, <2>2, <2>3
  <1>17. CASE StopTimesOut
    BY <1>1, <1>2, <1>3, <1>17 DEF StopTimesOut, Unlock, AfterTimeout
  <1>18. ASSUME NEW t \in Threads, AlreadyRunning(t) \/ WaitedForPort(t) \/ LaunchFails(t)
         PROVE  Processes /\ Calls /\ Others
    <2>1. Returns(t)
      BY <1>18 DEF AlreadyRunning, WaitedForPort, LaunchFails
    <2>2. Calls
      BY <2>1, Return
    <2>3. Processes /\ Others
      BY <1>1, <1>18 DEF AlreadyRunning, WaitedForPort, LaunchFails, Unlock
    <2>4. QED
      BY <2>2, <2>3
  <1>19. ASSUME NEW t \in Threads, BeginStart(t)
         PROVE  Processes /\ Calls /\ Others
    BY <1>1, <1>3, <1>19 DEF BeginStart, LockedStages
  <1>20. ASSUME NEW t \in Threads, Launch(t)
         PROVE  Processes /\ Calls /\ Others
    BY <1>1, <1>3, <1>20, OneMore DEF Launch, LockedStages
  <1>21. QED
    BY <1>5, <1>6, <1>7, <1>8, <1>9, <1>10, <1>11, <1>12, <1>13, <1>14, <1>15,
       <1>16, <1>17, <1>18, <1>19, <1>20, Steps

\* Where each thread stands, and who has the lock.
LEMMA NextLock == TypeOK /\ LockInv /\ [Next]_vars => LockInv'
  <1> SUFFICES ASSUME TypeOK, LockInv, [Next]_vars PROVE LockInv'
    OBVIOUS
  <1>1. /\ at \in [Threads -> Stages] /\ Hook \in Threads /\ Senders \subseteq Threads
        /\ "nobody" \notin Threads /\ Hook \notin Senders
        /\ Len(binary) \in Nat /\ process \in 0..Len(binary)
    BY ManagerAssumption DEF TypeOK, Stages, Threads
  <1> USE <1>1 DEF LockInv, LockedStages
  <1>5. CASE UNCHANGED vars
    BY <1>5 DEF vars
  <1>6. ASSUME NEW n \in Binaries, Bind(n) \/ BindFails(n) \/ Die(n)
        PROVE  LockInv'
    BY <1>6 DEF Bind, BindFails, Die, Become
  <1>7. CASE EnterMainLoop
    BY <1>7 DEF EnterMainLoop
  <1>8. CASE GameStarts \/ GameEnds \/ PrefsChanged \/ PluginStop
    <2>1. PICK first, rest : HookCalls(first, rest) /\ first \in {"unlessAlive", "ifAlive", "stop"}
      BY <1>8 DEF GameStarts, GameEnds, PrefsChanged, PluginStop
    <2>2. QED
      BY <2>1 DEF HookCalls
  <1>12. ASSUME NEW s \in Senders, SenderCalls(s)
         PROVE  LockInv'
    BY <1>12 DEF SenderCalls
  <1>13. CASE IsAlive
    <2>1. CASE Returns(Hook)
      BY <1>13, <2>1, Return DEF IsAlive
    <2>2. CASE ~Returns(Hook)
      BY <1>13, <2>2 DEF IsAlive
    <2>3. QED
      BY <2>1, <2>2
  <1>14. CASE StopIdle
    BY <1>14, Return DEF StopIdle
  <1>15. CASE Terminate
    BY <1>15 DEF Terminate, Running
  <1>16. CASE StopEnds
    BY <1>16, Return DEF StopEnds, Unlock
  <1>17. CASE StopTimesOut
    BY <1>17 DEF StopTimesOut, Unlock, AfterTimeout
  <1>18. ASSUME NEW t \in Threads, AlreadyRunning(t)
         PROVE  LockInv'
    BY <1>18, Return DEF AlreadyRunning
  <1>19. ASSUME NEW t \in Threads, WaitedForPort(t) \/ LaunchFails(t)
         PROVE  LockInv'
    <2>1. Returns(t) /\ holder = t /\ holder' = "nobody" /\ process' = process
      BY <1>19 DEF WaitedForPort, LaunchFails, Unlock
    <2>2. QED
      BY <2>1, Return
  <1>20. ASSUME NEW t \in Threads, BeginStart(t)
         PROVE  LockInv'
    BY <1>20 DEF BeginStart
  <1>21. ASSUME NEW t \in Threads, Launch(t)
         PROVE  LockInv'
    BY <1>21, OneMore DEF Launch
  <1>22. QED
    BY <1>5, <1>6, <1>7, <1>8, <1>12, <1>13, <1>14, <1>15, <1>16, <1>17, <1>18,
       <1>19, <1>20, <1>21, Steps

\* The steps that leave the binaries and the knowledge of them alone.
LEMMA Unconcerned ==
  ASSUME NoOrphan, PortIsOurs, UNCHANGED <<process, binary, foreign>>
  PROVE  NoOrphan' /\ PortIsOurs'
  BY DEF NoOrphan, PortIsOurs, Alive, Binaries

\* The steps after which no binary runs that did not run before, and the
\* manager knows as much.
LEMMA Fewer ==
  ASSUME NoOrphan, PortIsOurs, TypeOK, UNCHANGED foreign, Binaries' = Binaries,
         \A n \in Binaries : binary'[n] = "mute" => binary[n] = "mute",
         \A n \in Binaries : Alive(n)' => Alive(n),
         \A n \in Binaries : Alive(n)' => process' = process
  PROVE  NoOrphan' /\ PortIsOurs'
  BY DEF NoOrphan, PortIsOurs, Alive

\* At most one binary runs, the one the manager knows, and it gets its port.
LEMMA NextOrphan ==
  TypeOK /\ LockInv /\ NoOrphan /\ PortIsOurs /\ [Next]_vars => NoOrphan' /\ PortIsOurs'
  <1> SUFFICES ASSUME TypeOK, LockInv, NoOrphan, PortIsOurs, [Next]_vars
               PROVE  NoOrphan' /\ PortIsOurs'
    OBVIOUS
  <1>1. Hook \in Threads /\ binary \in Seq(States)
    BY DEF TypeOK, States, Threads
  <1>2. ASSUME ~Running PROVE \A n \in Binaries : ~Alive(n)
    <2> SUFFICES ASSUME NEW n \in Binaries, Alive(n) PROVE FALSE
      OBVIOUS
    <2>1. process = n /\ n # 0
      BY DEF NoOrphan, Binaries
    <2>2. QED
      BY <1>2, <2>1 DEF Running, Alive
  <1>3. CASE UNCHANGED vars
    BY <1>3, Unconcerned DEF vars
  <1>4. ASSUME NEW n \in Binaries, Bind(n) \/ BindFails(n) \/ Die(n)
        PROVE  NoOrphan' /\ PortIsOurs'
    <2>1. CASE Bind(n)
      <3>1. \A m \in Binaries : binary'[m] = IF m = n THEN "serving" ELSE binary[m]
        BY <2>1, Become1 DEF Bind, Become, States
      <3>2. Binaries' = Binaries /\ Alive(n) /\ UNCHANGED <<process, foreign>>
        BY <2>1, Become1 DEF Bind, Become, States, Alive
      <3>3. QED
        BY <3>1, <3>2, Fewer DEF Alive
    <2>2. CASE BindFails(n)
      <3>1. \A m \in Binaries : binary'[m] = IF m = n THEN "mute" ELSE binary[m]
        BY <2>2, Become1 DEF BindFails, Become, States
      <3>2. Binaries' = Binaries /\ UNCHANGED <<process, foreign>>
        BY <2>2, Become1 DEF BindFails, Become, States
      <3>3. Alive(n)
        BY <2>2 DEF BindFails, Alive
      <3>4. foreign
        <4>1. SUFFICES ASSUME NEW m \in Binaries, Listening(m) PROVE FALSE
          BY <2>2 DEF BindFails, PortOpen
        <4>2. m # n /\ Alive(m)
          BY <2>2, <4>1 DEF BindFails, Listening, Alive
        <4>3. QED
          BY <3>3, <4>2 DEF NoOrphan
      <3>5. NoOrphan'
        BY <3>1, <3>2, <3>3 DEF NoOrphan, Alive
      <3>6. QED
        BY <3>2, <3>4, <3>5 DEF PortIsOurs
    <2>3. CASE Die(n)
      <3>1. \A m \in Binaries : binary'[m] = IF m = n THEN "dead" ELSE binary[m]
        BY <2>3, Become1 DEF Die, Become, States
      <3>2. Binaries' = Binaries /\ UNCHANGED <<process, foreign>>
        BY <2>3, Become1 DEF Die, Become, States
      <3>3. QED
        BY <3>1, <3>2, Fewer DEF Alive
    <2>4. QED
      BY <1>4, <2>1, <2>2, <2>3
  <1>5. CASE EnterMainLoop \/ GameStarts \/ GameEnds \/ PrefsChanged \/ PluginStop
    BY <1>5, Unconcerned
       DEF EnterMainLoop, GameStarts, GameEnds, PrefsChanged, PluginStop, HookCalls
  <1>6. ASSUME NEW s \in Senders, SenderCalls(s) PROVE NoOrphan' /\ PortIsOurs'
    BY <1>6, Unconcerned DEF SenderCalls
  <1>7. CASE IsAlive
    BY <1>7, Unconcerned DEF IsAlive
  <1>8. CASE StopIdle
    <2>1. UNCHANGED <<binary, foreign>> /\ Binaries' = Binaries
      BY <1>8 DEF StopIdle, Binaries
    <2>2. \A n \in Binaries : ~Alive(n)
      BY <1>2, <1>8 DEF StopIdle
    <2>3. QED
      BY <2>1, <2>2, Fewer DEF Alive
  <1>9. CASE Terminate
    <2>1. PICK state \in Terminated(binary[process]) :
            binary' = [binary EXCEPT ![process] = state]
      BY <1>9 DEF Terminate
    <2>2. process \in Binaries /\ binary[process] \in States /\ Alive(process)
      BY <1>1, <1>9, Known DEF Terminate, Running, Binaries, Alive
    <2>3. state \in States /\ (state \in {"dead", "mute"} => state = binary[process])
      BY <2>2, TerminatedType
    <2>4. /\ Binaries' = Binaries
          /\ \A m \in Binaries : binary'[m] = IF m = process THEN state ELSE binary[m]
      BY <2>1, <2>2, <2>3, Become1
    <2>5. UNCHANGED <<process, foreign>>
      BY <1>9 DEF Terminate
    <2>6. QED
      BY <2>2, <2>3, <2>4, <2>5, Fewer DEF Alive
  <1>10. CASE StopEnds
    <2>1. ~Running /\ UNCHANGED <<binary, foreign>> /\ Binaries' = Binaries
      BY <1>10 DEF StopEnds, Running, Binaries
    <2>2. \A n \in Binaries : ~Alive(n)
      BY <1>2, <2>1
    <2>3. QED
      BY <2>1, <2>2, Fewer DEF Alive
  <1>11. CASE StopTimesOut
    BY <1>11, Unconcerned DEF StopTimesOut, AfterTimeout
  <1>12. ASSUME NEW t \in Threads, AlreadyRunning(t) \/ WaitedForPort(t) \/ LaunchFails(t)
         PROVE  NoOrphan' /\ PortIsOurs'
    BY <1>12, Unconcerned DEF AlreadyRunning, WaitedForPort, LaunchFails
  <1>13. ASSUME NEW t \in Threads, BeginStart(t) PROVE NoOrphan' /\ PortIsOurs'
    <2>1. UNCHANGED <<binary, foreign>> /\ Binaries' = Binaries
      BY <1>13 DEF BeginStart, Binaries
    <2>2. \A n \in Binaries : ~Alive(n)
      BY <1>2, <1>13 DEF BeginStart
    <2>3. QED
      BY <2>1, <2>2, Fewer DEF Alive
  <1>14. ASSUME NEW t \in Threads, Launch(t) PROVE NoOrphan' /\ PortIsOurs'
    <2>1. process = 0
      BY <1>14 DEF Launch, LockInv
    <2>2. \A n \in Binaries : ~Alive(n)
      BY <1>2, <2>1 DEF Running
    <2>3. binary' = Append(binary, "starting") /\ process' = Len(binary) + 1 /\ foreign' = foreign
      BY <1>14 DEF Launch
    <2>4. /\ Binaries' = Binaries \cup {Len(binary) + 1}
          /\ \A n \in Binaries : binary'[n] = "dead"
          /\ binary'[Len(binary) + 1] = "starting"
      BY <2>2, <2>3, OneMore DEF Alive
    <2>5. QED
      BY <2>3, <2>4 DEF NoOrphan, PortIsOurs, Alive
  <1>15. QED
    BY <1>3, <1>4, <1>5, <1>6, <1>7, <1>8, <1>9, <1>10, <1>11, <1>12, <1>13, <1>14, Steps

\* Nothing starts any more once EDMC is leaving.
LEMMA NextLeave == TypeOK /\ LockInv /\ NoOrphan /\ LeaveInv /\ [Next]_vars => LeaveInv'
  <1> SUFFICES ASSUME TypeOK, LockInv, NoOrphan, LeaveInv, [Next]_vars PROVE LeaveInv'
    OBVIOUS
  <1>1. /\ at \in [Threads -> Stages] /\ Hook \in Threads /\ Senders \subseteq Threads
        /\ Hook \notin Senders
    BY ManagerAssumption DEF TypeOK, Stages, Threads
  <1>2. ASSUME ~Running PROVE \A n \in Binaries : ~Alive(n)
    <2> SUFFICES ASSUME NEW n \in Binaries, Alive(n) PROVE FALSE
      OBVIOUS
    <2>1. process = n /\ n # 0
      BY DEF NoOrphan, Binaries
    <2>2. QED
      BY <1>2, <2>1 DEF Running, Alive
  <1>3. ASSUME UNCHANGED <<edmc, plan, stopFailed>>, at'[Hook] = at[Hook], Binaries' = Binaries,
               \A n \in Binaries : Alive(n)' => Alive(n)
        PROVE  LeaveInv'
    BY <1>3 DEF LeaveInv, NoneLeftBehind
  <1>4. CASE UNCHANGED vars
    BY <1>3, <1>4 DEF vars, Binaries, Alive
  <1>5. ASSUME NEW n \in Binaries, Bind(n) \/ BindFails(n) \/ Die(n) PROVE LeaveInv'
    <2>1. PICK state \in States : Become(n, state) /\ Alive(n)
      BY <1>5 DEF Bind, BindFails, Die, States, Alive
    <2>2. Binaries' = Binaries /\ \A m \in Binaries : m # n => binary'[m] = binary[m]
      BY <2>1, Become1 DEF Become
    <2>3. QED
      BY <1>3, <2>1, <2>2 DEF Become, Alive
  <1>6. CASE EnterMainLoop
    BY <1>6 DEF EnterMainLoop, LeaveInv
  <1>7. CASE GameStarts \/ GameEnds \/ PrefsChanged
    BY <1>7 DEF GameStarts, GameEnds, PrefsChanged, HookCalls, LeaveInv
  <1>8. CASE PluginStop
    BY <1>1, <1>8 DEF PluginStop, HookCalls, LeaveInv, NoneLeftBehind
  <1>9. ASSUME NEW s \in Senders, SenderCalls(s) PROVE LeaveInv'
    BY <1>1, <1>3, <1>9 DEF SenderCalls, Binaries, Alive
  <1>10. CASE IsAlive
    BY <1>10 DEF IsAlive, LeaveInv
  <1>11. CASE StopIdle
    <2>1. \A n \in Binaries : ~Alive(n)
      BY <1>2, <1>11 DEF StopIdle
    <2>2. edmc = "leaving" => at'[Hook] = "away" /\ plan' = plan
      BY <1>1, <1>11, Return DEF StopIdle, LeaveInv
    <2>3. QED
      BY <1>11, <2>1, <2>2 DEF StopIdle, LeaveInv, NoneLeftBehind, Alive, Binaries
  <1>12. CASE Terminate
    BY <1>1, <1>12 DEF Terminate, LeaveInv, NoneLeftBehind
  <1>13. CASE StopEnds
    <2>1. \A n \in Binaries : ~Alive(n)
      BY <1>2, <1>13 DEF StopEnds, Running
    <2>2. edmc = "leaving" => at'[Hook] = "away" /\ plan' = plan
      BY <1>1, <1>13, Return DEF StopEnds, LeaveInv
    <2>3. QED
      BY <1>13, <2>1, <2>2 DEF StopEnds, LeaveInv, NoneLeftBehind, Alive, Binaries
  <1>14. CASE StopTimesOut
    BY <1>1, <1>14 DEF StopTimesOut, LeaveInv, NoneLeftBehind
  <1>15. ASSUME NEW t \in Threads, AlreadyRunning(t) \/ WaitedForPort(t) \/ LaunchFails(t)
         PROVE  LeaveInv'
    <2>1. Returns(t) /\ UNCHANGED <<binary, edmc, stopFailed>>
      BY <1>15 DEF AlreadyRunning, WaitedForPort, LaunchFails
    <2>2. CASE t = Hook
      BY <1>15, <2>1, <2>2 DEF AlreadyRunning, WaitedForPort, LaunchFails, LeaveInv
    <2>3. CASE t # Hook
      BY <1>1, <1>3, <2>1, <2>3, Return DEF Binaries, Alive
    <2>4. QED
      BY <2>2, <2>3
  <1>16. ASSUME NEW t \in Threads, BeginStart(t) PROVE LeaveInv'
    <2>1. CASE t = Hook
      BY <1>16, <2>1 DEF BeginStart, LeaveInv
    <2>2. CASE t # Hook
      BY <1>1, <1>3, <1>16, <2>2 DEF BeginStart, Binaries, Alive
    <2>3. QED
      BY <2>1, <2>2
  <1>17. ASSUME NEW t \in Threads, Launch(t) PROVE LeaveInv'
    BY <1>17 DEF Launch, TkAnswers, LeaveInv
  <1>18. QED
    BY <1>4, <1>5, <1>6, <1>7, <1>8, <1>9, <1>10, <1>11, <1>12, <1>13, <1>14, <1>15,
       <1>16, <1>17, Steps

\* The inductive invariant holds initially.
LEMMA InitInv == Init => Inv
  <1> SUFFICES ASSUME Init PROVE Inv
    OBVIOUS
  <1>1. Hook \in Threads /\ "nobody" \notin Threads /\ Binaries = {}
    BY ManagerAssumption DEF Init, Threads, Binaries
  <1>2. TypeOK
    <2>1. binary \in Seq(States) /\ process \in 0..Len(binary) /\ calls \in Nat
      BY DEF Init, States
    <2>2. QED
      BY <1>1, <2>1 DEF Init, TypeOK, States
  <1>3. LockInv
    BY <1>1 DEF Init, LockInv, LockedStages
  <1>4. QED
    BY <1>1, <1>2, <1>3 DEF Init, Inv, NoOrphan, PortIsOurs, LeaveInv

-----------------------------------------------------------------------------
(* The theorems.                                                           *)

\* The inductive invariant: types, the lock with the thread that is past
\* taking it, one binary at most, its port, and the end of EDMC.
THEOREM Invariance == Spec => []Inv
  <1>1. Inv /\ [Next]_vars => Inv'
    BY NextType, NextLock, NextOrphan, NextLeave DEF Inv
  <1>2. QED
    BY InitInv, <1>1, PTL DEF Spec

\* The process, its states and the threads' calls keep their types.
THEOREM TypeCorrect == Spec => []TypeOK
  BY Invariance, PTL DEF Inv

\* ensure_started, is_alive and stop, called by any number of threads, never
\* lose a binary and never run two (overlay_manager.py:50-105).
THEOREM OneBinary == Spec => []NoOrphan
  BY Invariance, PTL DEF Inv

\* Unless a foreign program listens, no binary finds its port taken, restarts
\* and timeouts of stop() included (overlay_manager.py:87-118).
THEOREM PortIsFree == Spec => []PortIsOurs
  BY Invariance, PTL DEF Inv

\* After a plugin_stop that did not time out nothing runs (load.py:166-169).
THEOREM NothingStays == Spec => []NoneLeftBehind
  <1>1. Inv => NoneLeftBehind
    BY DEF Inv, LeaveInv, NoneLeftBehind
  <1>2. QED
    BY Invariance, <1>1, PTL
=============================================================================
