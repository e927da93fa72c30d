--------------------------- MODULE ShutdownProofs ---------------------------
(***************************************************************************)
(* Proofs about Shutdown, for any number of sessions: the safety           *)
(* properties its run checks hold in every reachable state.                *)
(***************************************************************************)
EXTENDS Shutdown, TLAPS

\* The stages of the start and the stop, and who is waited for.
StageInv ==
    /\ runner \in {"none", "bind"} => io = "none" /\ ~ioStopped
    /\ runner = "none" <=> main = "startup"
    /\ runner \in {"poll", "joinIo"} => io # "none"
    /\ runner = "ended" => io \in {"none", "ended"}
    /\ runner = "poll" => ~ioStopped
    /\ ioStopped => shouldStop
    /\ io = "ended" => ioStopped
    /\ shouldStop <=> ~handle /\ main \notin {"startup", "assign"}
    /\ main \in {"startup", "assign", "join", "joinInFrame", "final", "done"} => ~handle
    /\ handler = "joining" => ~handle /\ main \notin {"startup", "assign", "join", "joinInFrame", "final", "done"}
    /\ main \in {"final", "done"} => runner = "ended"
    /\ shouldStop /\ main \notin {"join", "joinInFrame"} /\ handler = "none" => runner = "ended"

\* The mutex is with the thread that is in its critical section.
MutexInv ==
    /\ mutex = "main" <=> main \in {"frame", "joinInFrame"}
    /\ mutex = "io" <=> io = "merge"

\* Merges that began after the flag went up: the one past its check.
LateInv ==
    /\ ~shouldStop => lateMerges = 0
    /\ io = "lock" => lateMerges = 0
    /\ lateMerges <= 1

Inv == TypeOK /\ StageInv /\ MutexInv /\ LateInv

\* The inductive invariant holds initially.
LEMMA InitInv == Init => Inv
  <1> SUFFICES ASSUME Init PROVE Inv
    OBVIOUS
  <1>1. TypeOK
    <2>1. sessions \in 0..MaxSessions /\ lateMerges \in Nat
      BY SessionsAssumption, SMT DEF Init
    <2>2. QED
      BY <2>1, Zenon DEF Init, TypeOK
  <1>2. StageInv
    BY DEF Init, StageInv
  <1>3. MutexInv
    BY DEF Init, MutexInv
  <1>4. LateInv
    BY DEF Init, LateInv
  <1>5. QED
    BY <1>1, <1>2, <1>3, <1>4 DEF Inv

\* Every step keeps the type invariant.
LEMMA NextType == TypeOK /\ [Next]_vars => TypeOK'
  <1> SUFFICES ASSUME TypeOK, [Next]_vars PROVE TypeOK'
    OBVIOUS
  <1> USE DEF TypeOK, mainVars, ioVars
  <1>1. CASE StartRunner
    BY <1>1 DEF StartRunner
  <1>2. CASE TestLoop
    BY <1>2 DEF TestLoop
  <1>3. CASE Sleep
    BY <1>3 DEF Sleep
  <1>4. CASE BeginFrame
    BY <1>4 DEF BeginFrame
  <1>5. CASE EndFrame
    BY <1>5 DEF EndFrame
  <1>6. CASE ExitCommand
    BY <1>6 DEF ExitCommand, Reset
  <1>7. CASE JoinedInFrame
    BY <1>7 DEF JoinedInFrame
  <1>8. CASE Leave
    BY <1>8 DEF Leave, Reset
  <1>9. CASE Joined
    BY <1>9 DEF Joined
  <1>10. CASE Return
    BY <1>10 DEF Return
  <1>11. CASE LoseTransparency
    BY <1>11 DEF LoseTransparency
  <1>12. CASE Signal
    BY <1>12 DEF Signal, Reset
  <1>13. CASE SignalHandled
    BY <1>13 DEF SignalHandled
  <1>14. CASE Bind
    BY <1>14 DEF Bind
  <1>15. CASE BindFails
    BY <1>15 DEF BindFails
  <1>16. CASE PollSeesStop
    BY <1>16 DEF PollSeesStop, StopIo
  <1>17. CASE JoinIo
    BY <1>17 DEF JoinIo, IoJoined
  <1>18. CASE CheckStop
    BY <1>18 DEF CheckStop, canContinue
  <1>19. CASE BeginMerge
    BY <1>19 DEF BeginMerge
  <1>20. CASE EndMerge
    BY <1>20 DEF EndMerge
  <1>21. CASE RunReturns
    BY <1>21 DEF RunReturns
  <1>22. CASE Accept
    BY <1>22, SessionsAssumption DEF Accept, canContinue
  <1>23. CASE Disconnect
    BY <1>23, SessionsAssumption DEF Disconnect
  <1>24. CASE Payload
    BY <1>24 DEF Payload
  <1>25. CASE UNCHANGED vars
    BY <1>25 DEF vars
  <1>26. CASE Assign
    BY <1>26 DEF Assign
  <1>27. CASE DrawingThrows
    BY <1>27 DEF DrawingThrows
  <1>28. QED
    BY <1>1, <1>2, <1>3, <1>4, <1>5, <1>6, <1>7, <1>8, <1>9, <1>10, <1>11, <1>12, <1>13, <1>14, <1>15, <1>16, <1>17, <1>18, <1>19, <1>20, <1>21, <1>22, <1>23, <1>24, <1>25, <1>26, <1>27 DEF Next, MainLoop, Runner, Io

\* Every step keeps the stages.
LEMMA NextStage == TypeOK /\ StageInv /\ [Next]_vars => StageInv'
  <1> SUFFICES ASSUME TypeOK, StageInv, [Next]_vars PROVE StageInv'
    OBVIOUS
  <1> USE DEF TypeOK, StageInv, mainVars, ioVars
  <1>1. CASE StartRunner
    BY <1>1 DEF StartRunner, MainRuns
  <1>2. CASE TestLoop
    BY <1>2 DEF TestLoop, MainRuns
  <1>3. CASE Sleep
    BY <1>3 DEF Sleep, MainRuns
  <1>4. CASE BeginFrame
    BY <1>4 DEF BeginFrame, MainRuns
  <1>5. CASE EndFrame
    BY <1>5 DEF EndFrame, MainRuns
  <1>6. CASE ExitCommand
    BY <1>6 DEF ExitCommand, Reset, MainRuns
  <1>7. CASE JoinedInFrame
    BY <1>7 DEF JoinedInFrame, MainRuns
  <1>8. CASE Leave
    BY <1>8 DEF Leave, Reset, MainRuns
  <1>9. CASE Joined
    BY <1>9 DEF Joined, MainRuns
  <1>10. CASE Return
    BY <1>10 DEF Return, MainRuns
  <1>11. CASE LoseTransparency
    BY <1>11 DEF LoseTransparency, MainRuns
  <1>12. CASE Signal
    BY <1>12 DEF Signal, Reset
  <1>13. CASE SignalHandled
    BY <1>13 DEF SignalHandled
  <1>14. CASE Bind
    BY <1>14 DEF Bind
  <1>15. CASE BindFails
    BY <1>15 DEF BindFails
  <1>16. CASE PollSeesStop
    BY <1>16 DEF PollSeesStop, StopIo
  <1>17. CASE JoinIo
    BY <1>17 DEF JoinIo, IoJoined
  <1>18. CASE CheckStop
    BY <1>18 DEF CheckStop, canContinue
  <1>19. CASE BeginMerge
    BY <1>19 DEF BeginMerge
  <1>20. CASE EndMerge
    BY <1>20 DEF EndMerge
  <1>21. CASE RunReturns
    BY <1>21 DEF RunReturns
  <1>22. CASE Accept
    BY <1>22 DEF Accept, canContinue
  <1>23. CASE Disconnect
    BY <1>23 DEF Disconnect
  <1>24. CASE Payload
    BY <1>24 DEF Payload
  <1>25. CASE UNCHANGED vars
    BY <1>25 DEF vars
  <1>26. CASE Assign
    BY <1>26 DEF Assign, MainRuns
  <1>27. CASE DrawingThrows
    BY <1>27 DEF DrawingThrows, MainRuns
  <1>28. QED
    BY <1>1, <1>2, <1>3, <1>4, <1>5, <1>6, <1>7, <1>8, <1>9, <1>10, <1>11, <1>12, <1>13, <1>14, <1>15, <1>16, <1>17, <1>18, <1>19, <1>20, <1>21, <1>22, <1>23, <1>24, <1>25, <1>26, <1>27 DEF Next, MainLoop, Runner, Io

\* Every step keeps the mutex with its holder.
LEMMA NextMutex == TypeOK /\ StageInv /\ MutexInv /\ [Next]_vars => MutexInv'
  <1> SUFFICES ASSUME TypeOK, StageInv, MutexInv, [Next]_vars PROVE MutexInv'
    OBVIOUS
  <1> USE DEF TypeOK, MutexInv, mainVars, ioVars
  <1>1. CASE StartRunner
    BY <1>1 DEF StartRunner, MainRuns
  <1>2. CASE TestLoop
    BY <1>2 DEF TestLoop, MainRuns
  <1>3. CASE Sleep
    BY <1>3 DEF Sleep, MainRuns
  <1>4. CASE BeginFrame
    BY <1>4 DEF BeginFrame, MainRuns
  <1>5. CASE EndFrame
    BY <1>5 DEF EndFrame, MainRuns
  <1>6. CASE ExitCommand
    BY <1>6 DEF ExitCommand, Reset, MainRuns
  <1>7. CASE JoinedInFrame
    BY <1>7 DEF JoinedInFrame, MainRuns
  <1>8. CASE Leave
    BY <1>8 DEF Leave, Reset, MainRuns
  <1>9. CASE Joined
    BY <1>9 DEF Joined, MainRuns
  <1>10. CASE Return
    BY <1>10 DEF Return, MainRuns
  <1>11. CASE LoseTransparency
    BY <1>11 DEF LoseTransparency, MainRuns
  <1>12. CASE Signal
    BY <1>12 DEF Signal, Reset
  <1>13. CASE SignalHandled
    BY <1>13 DEF SignalHandled
  <1>14. CASE Bind
    BY <1>14 DEF Bind, StageInv
  <1>15. CASE BindFails
    BY <1>15 DEF BindFails
  <1>16. CASE PollSeesStop
    BY <1>16 DEF PollSeesStop, StopIo
  <1>17. CASE JoinIo
    BY <1>17 DEF JoinIo, IoJoined
  <1>18. CASE CheckStop
    BY <1>18 DEF CheckStop, canContinue
  <1>19. CASE BeginMerge
    BY <1>19 DEF BeginMerge
  <1>20. CASE EndMerge
    BY <1>20 DEF EndMerge
  <1>21. CASE RunReturns
    BY <1>21 DEF RunReturns
  <1>22. CASE Accept
    BY <1>22 DEF Accept, canContinue
  <1>23. CASE Disconnect
    BY <1>23 DEF Disconnect
  <1>24. CASE Payload
    BY <1>24 DEF Payload
  <1>25. CASE UNCHANGED vars
    BY <1>25 DEF vars
  <1>26. CASE Assign
    BY <1>26 DEF Assign, MainRuns
  <1>27. CASE DrawingThrows
    BY <1>27 DEF DrawingThrows, MainRuns
  <1>28. QED
    BY <1>1, <1>2, <1>3, <1>4, <1>5, <1>6, <1>7, <1>8, <1>9, <1>10, <1>11, <1>12, <1>13, <1>14, <1>15, <1>16, <1>17, <1>18, <1>19, <1>20, <1>21, <1>22, <1>23, <1>24, <1>25, <1>26, <1>27 DEF Next, MainLoop, Runner, Io

\* Every step keeps the bound on late merges.
LEMMA NextLate == TypeOK /\ LateInv /\ [Next]_vars => LateInv'
  <1> SUFFICES ASSUME TypeOK, LateInv, [Next]_vars PROVE LateInv'
    OBVIOUS
  <1> USE DEF TypeOK, LateInv, mainVars, ioVars
  <1>1. CASE StartRunner
    BY <1>1 DEF StartRunner, MainRuns
  <1>2. CASE TestLoop
    BY <1>2 DEF TestLoop, MainRuns
  <1>3. CASE Sleep
    BY <1>3 DEF Sleep, MainRuns
  <1>4. CASE BeginFrame
    BY <1>4 DEF BeginFrame, MainRuns
  <1>5. CASE EndFrame
    BY <1>5 DEF EndFrame, MainRuns
  <1>6. CASE ExitCommand
    BY <1>6 DEF ExitCommand, Reset, MainRuns
  <1>7. CASE JoinedInFrame
    BY <1>7 DEF JoinedInFrame, MainRuns
  <1>8. CASE Leave
    BY <1>8 DEF Leave, Reset, MainRuns
  <1>9. CASE Joined
    BY <1>9 DEF Joined, MainRuns
  <1>10. CASE Return
    BY <1>10 DEF Return, MainRuns
  <1>11. CASE LoseTransparency
    BY <1>11 DEF LoseTransparency, MainRuns
  <1>12. CASE Signal
    BY <1>12 DEF Signal, Reset
  <1>13. CASE SignalHandled
    BY <1>13 DEF SignalHandled
  <1>14. CASE Bind
    BY <1>14 DEF Bind
  <1>15. CASE BindFails
    BY <1>15 DEF BindFails
  <1>16. CASE PollSeesStop
    BY <1>16 DEF PollSeesStop, StopIo
  <1>17. CASE JoinIo
    BY <1>17 DEF JoinIo, IoJoined
  <1>18. CASE CheckStop
    BY <1>18 DEF CheckStop, canContinue
  <1>19. CASE BeginMerge
    BY <1>19 DEF BeginMerge
  <1>20. CASE EndMerge
    BY <1>20 DEF EndMerge
  <1>21. CASE RunReturns
    BY <1>21 DEF RunReturns
  <1>22. CASE Accept
    BY <1>22 DEF Accept, canContinue
  <1>23. CASE Disconnect
    BY <1>23 DEF Disconnect
  <1>24. CASE Payload
    BY <1>24 DEF Payload
  <1>25. CASE UNCHANGED vars
    BY <1>25 DEF vars
  <1>26. CASE Assign
    BY <1>26 DEF Assign, MainRuns
  <1>27. CASE DrawingThrows
    BY <1>27 DEF DrawingThrows, MainRuns
  <1>28. QED
    BY <1>1, <1>2, <1>3, <1>4, <1>5, <1>6, <1>7, <1>8, <1>9, <1>10, <1>11, <1>12, <1>13, <1>14, <1>15, <1>16, <1>17, <1>18, <1>19, <1>20, <1>21, <1>22, <1>23, <1>24, <1>25, <1>26, <1>27 DEF Next, MainLoop, Runner, Io

\* The inductive invariant holds in every reachable state.
THEOREM Invariance == Spec => []Inv
  <1>1. Inv /\ [Next]_vars => Inv'
    BY NextType, NextStage, NextMutex, NextLate DEF Inv
  <1>2. QED
    BY InitInv, <1>1, PTL DEF Spec

\* The variables keep their types.
THEOREM TypeCorrect == Spec => []TypeOK
  BY Invariance, PTL DEF Inv

\* main() never returns, and so never destroys allDraws and the mutex, while a
\* thread that refers to them lives, whatever signal, "exit" command or loss of
\* the compositor ended the loop.
THEOREM NoThreadLeft == Spec => []AllThreadsGone
  <1>1. Inv => AllThreadsGone
    BY DEF Inv, StageInv, AllThreadsGone
  <1>2. QED
    BY <1>1, Invariance, PTL

\* After the stop flag went up at most one payload is merged.
THEOREM StopIsFast == Spec => []OneLateMerge
  <1>1. Inv => OneLateMerge
    BY DEF Inv, LateInv, OneLateMerge
  <1>2. QED
    BY <1>1, Invariance, PTL
=============================================================================
