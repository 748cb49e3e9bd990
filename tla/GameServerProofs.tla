------------------------- MODULE GameServerProofs --------------------------
(***************************************************************************)
(* Proofs about GameServer, for any clients, robots, teams, flags, rules   *)
(* and times.  What is proved of ServerLoop and of FlagCapture is proved   *)
(* of their composition as soon as its steps are shown to be theirs.       *)
(***************************************************************************)
EXTENDS GameServer, TLAPS

\* How long peers wait is no part of the composition.
LoopProofs == INSTANCE ServerLoopProofs
  WITH commandWait <- 0, requestWait <- 0, followed <- 0, messageWait <- 0
PlayProofs == INSTANCE FlagCaptureProofs

USE DEF loopVars, playVars

----------------------------------------------------------------------------
(* The loop *)

\* The operators of the two instances of one module are the same.
LEMMA SameLoop ==
  /\ Loop!Init <=> LoopProofs!Init
  /\ Loop!TypeOK <=> LoopProofs!TypeOK
  /\ Loop!World <=> LoopProofs!World
  /\ Loop!Loop <=> LoopProofs!Loop
<1>1. Loop!Init <=> LoopProofs!Init
  BY DEF Loop!Init, LoopProofs!Init, Loop!Channel, LoopProofs!Channel
<1>2. Loop!TypeOK <=> LoopProofs!TypeOK
  BY DEF Loop!TypeOK, LoopProofs!TypeOK, Loop!Channel, LoopProofs!Channel
<1>3. Loop!World <=> LoopProofs!World
  BY DEF Loop!World, LoopProofs!World, Loop!SendMessage, LoopProofs!SendMessage,
         Loop!SendCommand, LoopProofs!SendCommand, Loop!SendRequest,
         LoopProofs!SendRequest, Loop!socketVars, LoopProofs!socketVars
<1>4. Loop!Enter <=> LoopProofs!Enter
  BY DEF Loop!Enter, LoopProofs!Enter, Loop!FeedAgentProxy, LoopProofs!FeedAgentProxy,
         Loop!socketVars, LoopProofs!socketVars
<1>5. Loop!Tick <=> LoopProofs!Tick
  BY DEF Loop!Tick, LoopProofs!Tick, Loop!FeedAgentProxy, LoopProofs!FeedAgentProxy,
         Loop!socketVars, LoopProofs!socketVars
<1>6. \A text : Loop!Type(text) = LoopProofs!Type(text)
  BY DEF Loop!Type, LoopProofs!Type, Loop!HasType, LoopProofs!HasType, Loop!HasDest,
         LoopProofs!HasDest, Loop!EndOfType, LoopProofs!EndOfType, Loop!EndOfDest,
         LoopProofs!EndOfDest, Loop!FirstSpace, LoopProofs!FirstSpace, Loop!Spaces,
         LoopProofs!Spaces
<1>7. \A c, text : Loop!Reply(c, text) <=> LoopProofs!Reply(c, text)
  BY <1>6 DEF Loop!Reply, LoopProofs!Reply
<1>8. /\ Loop!Polls <=> LoopProofs!Polls
      /\ Loop!NextPermutation <=> LoopProofs!NextPermutation
      /\ Loop!Handled <=> LoopProofs!Handled
  BY DEF Loop!Polls, LoopProofs!Polls, Loop!NextPermutation, LoopProofs!NextPermutation,
         Loop!Handled, LoopProofs!Handled, Loop!Channel, LoopProofs!Channel
<1>9. \A c : Loop!CanReceive(c) <=> LoopProofs!CanReceive(c)
  BY DEF Loop!CanReceive, LoopProofs!CanReceive
<1>10. \A c : /\ Loop!Chosen(c) <=> LoopProofs!Chosen(c)
              /\ Loop!Overtake(c) <=> LoopProofs!Overtake(c)
  BY DEF Loop!Chosen, LoopProofs!Chosen, Loop!Overtake, LoopProofs!Overtake,
         Loop!CanReceive, LoopProofs!CanReceive, Loop!Channel, LoopProofs!Channel
<1>11. Loop!ReceiveMessage <=> LoopProofs!ReceiveMessage
  BY <1>8, <1>10 DEF Loop!ReceiveMessage, LoopProofs!ReceiveMessage
<1>12. Loop!ReceiveRequest <=> LoopProofs!ReceiveRequest
  BY <1>7, <1>8, <1>10 DEF Loop!ReceiveRequest, LoopProofs!ReceiveRequest
<1>13. Loop!Sleep <=> LoopProofs!Sleep
  BY <1>8, <1>9 DEF Loop!Sleep, LoopProofs!Sleep, Loop!Channel, LoopProofs!Channel,
     Loop!socketVars, LoopProofs!socketVars
<1>14. Loop!Loop <=> LoopProofs!Loop
  BY <1>4, <1>5, <1>11, <1>12, <1>13
     DEF Loop!Loop, LoopProofs!Loop, Loop!Poll, LoopProofs!Poll
<1>. QED  BY <1>1, <1>2, <1>3, <1>14

LEMMA LoopSteps == [Next]_vars => [LoopProofs!Next]_(LoopProofs!vars)
<1> SUFFICES ASSUME [Next]_vars PROVE [LoopProofs!Next]_(LoopProofs!vars)
  OBVIOUS
<1>1. CASE Step \/ EndStep \/ Read \/ UNCHANGED vars
  BY <1>1 DEF Step, EndStep, Read, vars, LoopProofs!vars, LoopProofs!socketVars
<1>2. CASE World
  BY <1>2, SameLoop DEF World, LoopProofs!Next
<1>3. CASE Enter \/ ReceiveMessage \/ ReceiveRequest \/ Sleep \/ Tick
  BY <1>3, SameLoop DEF Enter, ReceiveMessage, ReceiveRequest, Sleep, Tick,
     LoopProofs!Next, Loop!Loop, Loop!Poll
<1>. QED  BY <1>1, <1>2, <1>3 DEF Next, Thread

\* What the loop does of itself it also does when it plays.
LEMMA LoopAssumed ==
  LoopProofs!ClientAssumption /\ LoopProofs!TimeAssumption /\ LoopProofs!PullAssumption
BY LoopAssumption
   DEF LoopProofs!ClientAssumption, LoopProofs!TimeAssumption, LoopProofs!PullAssumption

LEMMA LoopedSpec == Spec => LoopProofs!Spec
<1>1. Init => LoopProofs!Init
  BY SameLoop DEF Init
<1>. QED  BY <1>1, LoopSteps, PTL DEF Spec, LoopProofs!Spec

LEMMA LoopInvariant == Spec => [](Loop!TypeOK /\ LoopProofs!TimeInv)
<1>1. LoopProofs!Spec => []LoopProofs!TypeOK
  BY LoopAssumed, LoopProofs!TypeCorrect
<1>2. LoopProofs!Spec => []LoopProofs!TimeInv
  BY LoopAssumed, PaceAssumption, LoopProofs!TimeInvariant
<1>. QED  BY <1>1, <1>2, LoopedSpec, SameLoop, PTL

\* Playing the game does not disturb the loop: the two kinds of messages still
\* take turns, and a tick still comes within a tic, a message and a command
\* (Server.cpp:88-143).
THEOREM LoopKept == Spec => [](Loop!OvertakenOnce /\ Loop!TickOnTime)
<1>1. /\ Loop!OvertakenOnce <=> LoopProofs!OvertakenOnce
      /\ Loop!TickOnTime <=> LoopProofs!TickOnTime
  BY DEF Loop!OvertakenOnce, LoopProofs!OvertakenOnce, Loop!Channel, LoopProofs!Channel,
         Loop!TickOnTime, LoopProofs!TickOnTime
<1>2. LoopProofs!Spec => [](LoopProofs!OvertakenOnce)
  BY LoopAssumed, LoopProofs!TurnsCorrect
<1>3. LoopProofs!Spec => [](LoopProofs!TickOnTime)
  BY LoopAssumed, PaceAssumption, LoopProofs!TicksOnTime
<1>. QED  BY <1>1, <1>2, <1>3, LoopedSpec, PTL

----------------------------------------------------------------------------
(* The clock and the turns *)

\* What the steps of FlagCapture need to know of the clock and the thread.
ClockInv ==
  /\ clock \in 0 .. MaxTime
  /\ time \in Nat /\ time <= clock /\ clock <= time + MaxAdvance
  /\ pc = "enter" => turn = "read" /\ clock <= time + MaxHandler
  /\ turn = "act" => clock = time
  /\ turn # "step" => phase = "loop"
  /\ turn \in {"read", "act", "step"}

LEMMA PassesBy ==
  ASSUME clock \in 0 .. MaxTime, NEW d \in Nat, Passes(d)
  PROVE  /\ clock' \in 0 .. MaxTime
         /\ clock <= clock' /\ clock' <= clock + d
<1>. QED  BY PlayAssumption DEF Passes

\* A command of the agent, or what a handler does, is a step of the game or
\* none, and leaves the time in bounds.
LEMMA StartSteps ==
  ASSUME clock \in 0 .. MaxTime, time \in Nat, time <= clock, phase = "loop",
         clock' \in 0 .. MaxTime, StartsGame
  PROVE  /\ Play!Next
         /\ time' \in clock .. clock' /\ phase' = "loop"
<1>1. PICK now \in clock .. clock' : Play!Start(now)
  BY DEF StartsGame
<1>2. now \in 0 .. MaxTime
  BY <1>1, PlayAssumption
<1>3. Play!Next
  BY <1>1, <1>2 DEF Play!Next, Play!Agent
<1>4. time' = now /\ phase' = "loop"
  BY <1>1 DEF Play!Start
<1>. QED  BY <1>1, <1>3, <1>4

LEMMA CommandSteps ==
  ASSUME clock \in 0 .. MaxTime, time \in Nat, time <= clock, phase = "loop",
         clock' \in 0 .. MaxTime, Command
  PROVE  /\ [Play!Next]_playVars
         /\ time' = time \/ time' \in clock .. clock'
         /\ phase' = "loop"
<1>1. CASE StartsGame
  BY <1>1, StartSteps
<1>2. CASE Play!Stop
  BY <1>2 DEF Play!Stop, Play!Next, Play!Agent, Play!clockVars
<1>3. ASSUME NEW d \in Durations, Play!SetDuration(d)
      PROVE  [Play!Next]_playVars /\ time' = time /\ phase' = "loop"
  BY <1>3 DEF Play!SetDuration, Play!Next, Play!Agent
<1>4. ASSUME NEW t \in Team, NEW s \in AgentScores, Play!SetScore(t, s)
      PROVE  [Play!Next]_playVars /\ time' = time /\ phase' = "loop"
  BY <1>4 DEF Play!SetScore, Play!Next, Play!Agent, Play!clockVars
<1>5. CASE UNCHANGED playVars
  BY <1>5
<1>. QED  BY <1>1, <1>2, <1>3, <1>4, <1>5 DEF Command

LEMMA EffectSteps ==
  ASSUME clock \in 0 .. MaxTime, time \in Nat, time <= clock, phase = "loop",
         clock' \in 0 .. MaxTime, NEW type, Effect(type)
  PROVE  /\ [Play!Next]_playVars
         /\ time' = time \/ time' \in clock .. clock'
         /\ phase' = "loop"
<1>1. CASE StartsGame
  BY <1>1, StartSteps
<1>2. CASE Play!RobotState
  BY <1>2 DEF Play!RobotState, Play!TouchItem, Play!DropContact, Play!Next, Play!clockVars
<1>3. CASE UNCHANGED playVars
  BY <1>3
<1>. QED  BY <1>1, <1>2, <1>3 DEF Effect

\* How long each step of the loop takes.
LEMMA LoopTimes ==
  ASSUME Loop!TypeOK
  PROVE  /\ Loop!Enter => /\ pc = "enter" /\ pc' = "check"
                          /\ elapsed' - elapsed \in 0 .. MaxHandler
         /\ Loop!ReceiveMessage \/ Loop!ReceiveRequest =>
              /\ pc = "check" /\ pc' = "enter" /\ elapsed < TicDuration
              /\ elapsed' - elapsed \in 1 .. MaxHandler
         /\ Loop!Sleep => /\ pc = "check" /\ pc' = pc
                          /\ elapsed' = elapsed + 1 /\ elapsed < TicDuration
         /\ Loop!Tick => /\ pc = "check" /\ pc' = pc /\ elapsed' \in 1 .. MaxTick
         /\ elapsed \in Nat /\ pc \in {"enter", "check"}
<1>1. elapsed \in Nat /\ pc \in {"enter", "check"}
  BY DEF Loop!TypeOK
<1>2. ASSUME Loop!Enter
      PROVE  pc = "enter" /\ pc' = "check" /\ elapsed' - elapsed \in 0 .. MaxHandler
  BY <1>1, <1>2, LoopAssumption DEF Loop!Enter
<1>3. ASSUME Loop!ReceiveMessage \/ Loop!ReceiveRequest
      PROVE  /\ pc = "check" /\ pc' = "enter" /\ elapsed < TicDuration
             /\ elapsed' - elapsed \in 1 .. MaxHandler
  <2>1. Loop!Polls /\ Loop!Handled
    BY <1>3 DEF Loop!ReceiveMessage, Loop!ReceiveRequest
  <2>. QED  BY <1>1, <2>1, LoopAssumption DEF Loop!Polls, Loop!Handled
<1>4. ASSUME Loop!Sleep
      PROVE  pc = "check" /\ pc' = pc /\ elapsed' = elapsed + 1 /\ elapsed < TicDuration
  BY <1>4 DEF Loop!Sleep, Loop!Polls
<1>5. ASSUME Loop!Tick PROVE pc = "check" /\ pc' = pc /\ elapsed' \in 1 .. MaxTick
  BY <1>5 DEF Loop!Tick
<1>. QED  BY <1>1, <1>2, <1>3, <1>4, <1>5

LEMMA WorldKeeps == Loop!World => UNCHANGED <<pc, elapsed>>
  BY DEF Loop!World, Loop!SendMessage, Loop!SendCommand, Loop!SendRequest

\* Every step of the server is a step of the game or leaves the game alone.
LEMMA PlaySteps ==
  ASSUME Loop!TypeOK, ClockInv, [Next]_vars
  PROVE  [Play!Next]_playVars /\ ClockInv'
<1> USE DEF ClockInv
<1> USE LoopAssumption, PlayAssumption, AdvanceAssumption
<1>1. CASE World
  BY <1>1, WorldKeeps DEF World
<1>2. CASE Enter
  <2>1. /\ pc = "enter" /\ pc' = "check" /\ turn' = "read" /\ turn = "read"
        /\ elapsed' - elapsed \in 0 .. MaxHandler
    BY <1>2, LoopTimes DEF Enter
  <2>2. clock' \in 0 .. MaxTime /\ clock <= clock' /\ clock' <= clock + MaxHandler
    BY <1>2, <2>1, PassesBy DEF Enter
  <2>3. [Play!Next]_playVars /\ (time' = time \/ time' \in clock .. clock') /\ phase' = "loop"
    BY <1>2, <2>1, <2>2, CommandSteps DEF Enter, FeedAgent
  <2>. QED  BY <2>1, <2>2, <2>3
<1>3. CASE Read
  <2>1. /\ pc' = pc /\ pc = "check" /\ clock' = clock /\ turn' = "act" /\ phase = "loop"
    BY <1>3 DEF Read
  <2>2. CASE clock > time
    <3>1. Play!SetTime(clock) /\ clock \in 1 .. MaxTime
      BY <1>3, <2>2 DEF Read
    <3>2. Play!Next /\ time' = clock /\ phase' = phase
      BY <3>1 DEF Play!Next, Play!Clock, Play!SetTime
    <3>. QED  BY <2>1, <3>2
  <2>3. CASE ~(clock > time)
    BY <1>3, <2>1, <2>3 DEF Read
  <2>. QED  BY <2>2, <2>3
<1>4. CASE ReceiveMessage \/ ReceiveRequest
  <2>1. /\ pc = "check" /\ pc' = "enter" /\ turn' = "read" /\ turn = "act"
        /\ elapsed' - elapsed \in 1 .. MaxHandler
    BY <1>4, LoopTimes DEF ReceiveMessage, ReceiveRequest
  <2>2. clock' \in 0 .. MaxTime /\ clock <= clock' /\ clock' <= clock + MaxHandler
    BY <1>4, <2>1, PassesBy DEF ReceiveMessage, ReceiveRequest
  <2>3. [Play!Next]_playVars /\ (time' = time \/ time' \in clock .. clock') /\ phase' = "loop"
    BY <1>4, <2>1, <2>2, EffectSteps DEF ReceiveMessage, ReceiveRequest
  <2>. QED  BY <2>1, <2>2, <2>3
<1>5. CASE Sleep
  <2>1. pc = "check" /\ pc' = pc /\ turn' = "read" /\ turn = "act" /\ UNCHANGED playVars
    BY <1>5, LoopTimes DEF Sleep
  <2>2. clock' \in 0 .. MaxTime /\ clock <= clock' /\ clock' <= clock + 1
    BY <1>5, PassesBy DEF Sleep
  <2>. QED  BY <2>1, <2>2
<1>6. CASE Tick
  <2>1. /\ pc = "check" /\ pc' = pc /\ turn' \in {"read", "step"} /\ turn = "act"
        /\ elapsed' \in 1 .. MaxTick
    BY <1>6, LoopTimes DEF Tick
  <2>2. clock' \in 0 .. MaxTime /\ clock <= clock' /\ clock' <= clock + MaxTick
    BY <1>6, <2>1, PassesBy DEF Tick
  <2>3. [Play!Next]_playVars /\ (time' = time \/ time' \in clock .. clock') /\ phase' = "loop"
    BY <1>6, <2>1, <2>2, CommandSteps DEF Tick, FeedAgent
  <2>. QED  BY <2>1, <2>2, <2>3
<1>7. CASE Step
  <2>1. /\ Play!Tick /\ time' = time
        /\ UNCHANGED <<pc, clock, turn>> /\ turn = "step"
    BY <1>7 DEF Step, Play!Tick, Play!BeginStep, Play!StepContact, Play!clockVars
  <2>. QED  BY <2>1 DEF Play!Next
<1>8. CASE EndStep
  <2>1. /\ Play!Tick /\ time' = time /\ phase' = "loop"
        /\ UNCHANGED <<pc, clock>> /\ turn' = "read" /\ turn = "step"
    BY <1>8 DEF EndStep, Play!Tick, Play!StopIfGameIsFinished, Play!clockVars
  <2>. QED  BY <2>1 DEF Play!Next
<1>9. CASE UNCHANGED vars
  BY <1>9 DEF vars
<1>. QED  BY <1>1, <1>2, <1>3, <1>4, <1>5, <1>6, <1>7, <1>8, <1>9 DEF Next, Thread

LEMMA ClockInvariant == Spec => [](Loop!TypeOK /\ LoopProofs!TimeInv /\ ClockInv)
<1>1. Init => ClockInv
  BY PlayAssumption, LoopAssumption DEF Init, ClockInv, Loop!Init, Play!Init
<1>2. Loop!TypeOK /\ ClockInv /\ [Next]_vars => ClockInv'
  BY PlaySteps
<1>. QED  BY <1>1, <1>2, LoopInvariant, PTL DEF Spec

\* The loop plays the game of FlagCapture, step by step: what it adds is when
\* each of them happens (Server.cpp:103-143, ProcessDecider.cpp:59-105).
THEOREM PlaysFlagCapture == Spec => Play!Spec
<1>1. Init => Play!Init
  BY DEF Init
<1>2. UNCHANGED playVars => UNCHANGED Play!vars
  BY DEF Play!vars, Play!clockVars, Play!gameVars, Play!contactVars, Play!itemVars
<1>3. Loop!TypeOK /\ ClockInv /\ [Next]_vars => [Play!Next]_(Play!vars)
  BY PlaySteps, <1>2
<1>. QED  BY <1>1, <1>3, ClockInvariant, PTL DEF Spec, Play!Spec

----------------------------------------------------------------------------
(* Types *)

LEMMA SameGame ==
  /\ Play!Init <=> PlayProofs!Init
  /\ Play!TypeOK <=> PlayProofs!TypeOK
  /\ [Play!Next]_(Play!vars) <=> [PlayProofs!Next]_(PlayProofs!vars)
<1> USE DEF Play!clockVars, PlayProofs!clockVars, Play!gameVars, PlayProofs!gameVars,
        Play!contactVars, PlayProofs!contactVars, Play!itemVars, PlayProofs!itemVars
<1>1. Play!Init <=> PlayProofs!Init
  BY DEF Play!Init, PlayProofs!Init
<1>2. Play!TypeOK <=> PlayProofs!TypeOK
  BY DEF Play!TypeOK, PlayProofs!TypeOK, Play!CaptureState, PlayProofs!CaptureState
<1>3. /\ Play!ResetAllItems <=> PlayProofs!ResetAllItems
      /\ Play!StopItems <=> PlayProofs!StopItems
  BY DEF Play!StopItems, PlayProofs!StopItems, Play!ResetAllItems, PlayProofs!ResetAllItems
<1>4. Play!Agent <=> PlayProofs!Agent
  BY <1>3 DEF Play!Agent, PlayProofs!Agent, Play!Start, PlayProofs!Start, Play!Stop,
     PlayProofs!Stop, Play!SetDuration, PlayProofs!SetDuration, Play!SetScore,
     PlayProofs!SetScore
<1>5. Play!RobotState <=> PlayProofs!RobotState
  BY DEF Play!RobotState, PlayProofs!RobotState, Play!TouchItem, PlayProofs!TouchItem,
     Play!DropContact, PlayProofs!DropContact, Play!StartsCapture,
     PlayProofs!StartsCapture, Play!EraseContact, PlayProofs!EraseContact
<1>6. \A t, i : Play!CaptureItem(t, i) <=> PlayProofs!CaptureItem(t, i)
  BY DEF Play!CaptureItem, PlayProofs!CaptureItem, Play!ScoreAfterCapture,
     PlayProofs!ScoreAfterCapture, Play!Increment, PlayProofs!Increment
<1>7. \A r : Play!StepContact(r) <=> PlayProofs!StepContact(r)
  BY <1>6 DEF Play!StepContact, PlayProofs!StepContact, Play!ComesFirst,
     PlayProofs!ComesFirst, Play!EraseContact, PlayProofs!EraseContact
<1>8. /\ Play!SecondsLeft = PlayProofs!SecondsLeft
      /\ Play!WinningTeams = PlayProofs!WinningTeams
  BY DEF Play!SecondsLeft, PlayProofs!SecondsLeft, Play!ElapsedSeconds,
     PlayProofs!ElapsedSeconds, Play!WinningTeams, PlayProofs!WinningTeams
<1>9. Play!Tick <=> PlayProofs!Tick
  BY <1>3, <1>7, <1>8 DEF Play!Tick, PlayProofs!Tick, Play!BeginStep,
     PlayProofs!BeginStep, Play!StopIfGameIsFinished, PlayProofs!StopIfGameIsFinished
<1>10. Play!Clock <=> PlayProofs!Clock
  BY DEF Play!Clock, PlayProofs!Clock, Play!SetTime, PlayProofs!SetTime
<1>11. UNCHANGED Play!vars <=> UNCHANGED PlayProofs!vars
  BY DEF Play!vars, PlayProofs!vars
<1>12. Play!Next <=> PlayProofs!Next
  BY <1>4, <1>5, <1>9, <1>10 DEF Play!Next, PlayProofs!Next
<1>. QED  BY <1>1, <1>2, <1>11, <1>12

LEMMA PlayAssumed ==
  /\ PlayProofs!RobotAssumption /\ PlayProofs!TeamAssumption
  /\ PlayProofs!ItemAssumption /\ PlayProofs!RulesetAssumption
  /\ PlayProofs!TimeAssumption /\ PlayProofs!InputAssumption
  /\ PlayProofs!WidthAssumption
BY PlayAssumption
   DEF PlayProofs!RobotAssumption, PlayProofs!TeamAssumption,
       PlayProofs!ItemAssumption, PlayProofs!RulesetAssumption,
       PlayProofs!TimeAssumption, PlayProofs!InputAssumption,
       PlayProofs!WidthAssumption, IsFiniteSet, PlayProofs!IsFiniteSet

LEMMA PlayedSpec == Spec => PlayProofs!Spec
<1>1. Play!Spec => PlayProofs!Spec
  BY SameGame, PTL DEF Play!Spec, PlayProofs!Spec
<1>. QED  BY <1>1, PlaysFlagCapture, PTL

LEMMA PlayTypes == Spec => []Play!TypeOK
<1>1. PlayProofs!Spec => []PlayProofs!TypeOK
  BY PlayAssumed, PlayProofs!TypeCorrect
<1>. QED  BY <1>1, PlayedSpec, SameGame, PTL

\* What FlagCapture promises of captures it promises of the games the loop plays:
\* a capture under way has the contact that started it, and between two games
\* nobody owns anything (Game.cpp:150-209, 497-521).
THEOREM CapturesPlayed ==
  Spec => []( /\ Play!ItemCoherent /\ Play!CaptureUnderWay /\ Play!OwnedOnlyInGame )
<1>1. /\ Play!ItemCoherent <=> PlayProofs!ItemCoherent
      /\ Play!CaptureUnderWay <=> PlayProofs!CaptureUnderWay
      /\ Play!OwnedOnlyInGame <=> PlayProofs!OwnedOnlyInGame
  BY DEF Play!ItemCoherent, PlayProofs!ItemCoherent, Play!CaptureUnderWay,
         PlayProofs!CaptureUnderWay, Play!OwnedOnlyInGame, PlayProofs!OwnedOnlyInGame
<1>2. PlayProofs!Spec => [](PlayProofs!ItemCoherent)
  BY PlayAssumed, PlayProofs!ItemsCoherent
<1>3. PlayProofs!Spec => [](PlayProofs!CaptureUnderWay)
  BY PlayAssumed, PlayProofs!CapturesBacked
<1>4. PlayProofs!Spec => [](PlayProofs!OwnedOnlyInGame)
  BY PlayAssumed, PlayProofs!NeutralBetweenGames
<1>. QED  BY <1>1, <1>2, <1>3, <1>4, PlayedSpec, PTL

\* What the loop shows the clients is a score board: a flag changes hands only
\* in a game and always with its points, and a winner is declared only together
\* with the end of the game (Server.cpp:103-143, Game.cpp:150-209, 407-495).
THEOREM PlaysBoard ==
  ASSUME AgentScores = {}, ScoreToWin > 0, PlayProofs!ScoresFit
  PROVE  Spec => PlayProofs!BoardSpec
<1>1. PlayProofs!Spec => PlayProofs!BoardSpec
  BY PlayAssumed, PlayProofs!ImplementsBoard
<1>. QED  BY <1>1, PlayedSpec, PTL

\* What is shown has its type, and a tick goes on only in a game.
ShownInv ==
  /\ shown \in GameState
  /\ turn = "step" => isRunning

LEMMA SecondsLeftType ==
  Play!TypeOK => /\ Play!SecondsLeft \in 0 .. Uint64 - 1
                 /\ Play!ElapsedSeconds \in Nat /\ duration \in Nat
<1> SUFFICES ASSUME Play!TypeOK
             PROVE  /\ Play!SecondsLeft \in 0 .. Uint64 - 1
                    /\ Play!ElapsedSeconds \in Nat /\ duration \in Nat
  OBVIOUS
<1>1. duration \in Nat /\ time - startTime \in Nat /\ UnitsPerSecond \in Nat \ {0}
  BY PlayAssumption DEF Play!TypeOK
<1>2. Play!ElapsedSeconds \in Nat
  BY <1>1 DEF Play!ElapsedSeconds
<1>. QED  BY <1>1, <1>2, PlayAssumption DEF Play!SecondsLeft

LEMMA ShownStep ==
  ASSUME Play!TypeOK, Play!TypeOK', ShownInv, ClockInv, [Next]_vars
  PROVE  ShownInv'
<1> USE DEF ShownInv
<1>1. CASE World \/ Enter \/ Read \/ ReceiveMessage \/ ReceiveRequest \/ Sleep \/ Tick
  BY <1>1 DEF World, Enter, Read, ReceiveMessage, ReceiveRequest, Sleep, Tick
<1>2. CASE Step
  BY <1>2 DEF Step, Play!BeginStep, Play!StepContact, Play!gameVars
<1>3. CASE EndStep
  <2>1. (Play!SecondsLeft \in 0 .. Uint64 - 1)'
    BY SecondsLeftType, PTL
  <2>2. isRunning' \in BOOLEAN /\ winner' \in Team \cup {NoTeam}
    BY DEF Play!TypeOK
  <2>3. /\ shown' = [playing |-> isRunning', left |-> Play!SecondsLeft', winner |-> winner']
        /\ turn' = "read"
    BY <1>3 DEF EndStep, Execute
  <2>. QED  BY <2>1, <2>2, <2>3 DEF GameState
<1>4. CASE UNCHANGED vars
  BY <1>4 DEF vars
<1>. QED  BY <1>1, <1>2, <1>3, <1>4 DEF Next, Thread

\* The loop, the game and the clock keep their types, and their program counters
\* agree (Server.cpp:103-143).
THEOREM TypeCorrect == Spec => []TypeOK
<1>1. Init => ShownInv
  BY PlayAssumption DEF Init, ShownInv, GameState
<1>2. ShownInv /\ ClockInv /\ Loop!TypeOK /\ Play!TypeOK => TypeOK
  BY DEF ShownInv, ClockInv, TypeOK, Play!TypeOK
<1>. QED  BY <1>1, <1>2, ShownStep, ClockInvariant, PlayTypes, PTL DEF Spec

----------------------------------------------------------------------------
(* Division *)

LEMMA QuotientRest ==
  ASSUME NEW u \in Nat \ {0}, NEW a \in Nat
  PROVE  a \div u \in Nat /\ a % u \in 0 .. u - 1 /\ a = u * (a \div u) + (a % u)
  OBVIOUS

LEMMA NextMultiple ==
  ASSUME NEW u \in Nat \ {0}, NEW m \in Nat, NEW n \in Nat, m < n
  PROVE  u * m \in Nat /\ u * m + u <= u * n
  OBVIOUS

LEMMA DivGrows ==
  ASSUME NEW u \in Nat \ {0}, NEW a \in Nat, NEW b \in Nat, a <= b
  PROVE  a \div u <= b \div u
<1> DEFINE m == a \div u  n == b \div u  r == a % u  s == b % u
<1>1. /\ m \in Nat /\ r \in 0 .. u - 1 /\ a = u * m + r
      /\ n \in Nat /\ s \in 0 .. u - 1 /\ b = u * n + s
  BY QuotientRest
<1> HIDE DEF m, n, r, s
<1>2. ASSUME n < m PROVE FALSE
  <2>1. u * n + u <= u * m
    BY <1>1, <1>2, NextMultiple
  <2>2. u * n \in Nat /\ u * m \in Nat
    BY <1>1
  <2>. QED  BY <1>1, <2>1, <2>2
<1>3. m <= n
  BY <1>1, <1>2
<1>. QED  BY <1>3 DEF m, n

\* Less than one unit later the quotient has grown by one at most.
LEMMA DivNext ==
  ASSUME NEW u \in Nat \ {0}, NEW a \in Nat, NEW b \in Nat, NEW d \in Nat,
         b < a + u, a \div u < d
  PROVE  b \div u <= d
<1> DEFINE m == a \div u  n == b \div u  r == a % u  s == b % u
<1>1. /\ m \in Nat /\ r \in 0 .. u - 1 /\ a = u * m + r /\ m < d
      /\ n \in Nat /\ s \in 0 .. u - 1 /\ b = u * n + s
  BY QuotientRest
<1> HIDE DEF m, n, r, s
<1>2. ASSUME m + 1 < n PROVE FALSE
  <2>1. u * (m + 1) + u <= u * n
    BY <1>1, <1>2, NextMultiple
  <2>2. u * n \in Nat /\ u * m \in Nat /\ u * (m + 1) = u * m + u
    BY <1>1
  <2>. QED  BY <1>1, <2>1, <2>2
<1>3. n <= d
  BY <1>1, <1>2
<1>. QED  BY <1>3 DEF n

LEMMA Subtract ==
  ASSUME NEW a \in Int, NEW b \in Int, NEW s \in Int, s < a, a <= b
  PROVE  a - s \in Nat /\ b - s \in Nat /\ a - s <= b - s
  OBVIOUS

LEMMA Earlier ==
  ASSUME NEW c \in Int, NEW e \in Int, NEW c1 \in 0 .. MaxTime, NEW e1 \in Int,
         c1 <= c + (e1 - e)
  PROVE  c1 - e1 \in Int /\ c1 - e1 <= c - e
  BY PlayAssumption

----------------------------------------------------------------------------
(* Pace *)

\* The last tick was handled at this time, or later when the clock stands at
\* its bound.
Previous == clock - elapsed

Pace == TicDuration + 2 * MaxHandler

\* What NeverPastDuration rests on: the last tick saw the game go on, or came
\* before it.
DurationInv ==
  isRunning /\ ~AgentShortens =>
    /\ turn # "step" => \/ Previous <= startTime
                        \/ (Previous - startTime) \div UnitsPerSecond < duration
    /\ turn = "step" => Play!ElapsedSeconds <= duration

\* What CaptureOnTime rests on: the last tick found each contact still short of
\* its stop time, or came before the game or the contact.
CaptureInv ==
  isRunning =>
    /\ turn = "step" => Previous <= time
    /\ \A r \in Robot : contact[r] # NoItem =>
         /\ turn # "step" => Previous <= Later(stopTime[r], startTime)
         /\ turn = "step" /\ (phase = "loop" \/ r \in todo) =>
              time < Later(stopTime[r], startTime) + Pace
         /\ phase = "step" /\ r \notin todo => time <= stopTime[r]

\* What a command or a message may do to what the invariants speak of.
Kept ==
  /\ isRunning' =>
       \/ startTime' \in clock .. clock' /\ time' = startTime' /\ duration' = duration
       \/ /\ isRunning /\ startTime' = startTime /\ time' = time
          /\ duration' \in Nat /\ (AgentShortens \/ duration <= duration')
  /\ \A r \in Robot : contact'[r] # NoItem =>
       \/ contact[r] # NoItem /\ stopTime'[r] = stopTime[r]
       \/ turn = "act" /\ time <= stopTime'[r]

LEMMA StartKeeps ==
  ASSUME Play!TypeOK, StartsGame PROVE Kept
<1>1. PICK now \in clock .. clock' : Play!Start(now)
  BY DEF StartsGame
<1>2. /\ startTime' = now /\ time' = now /\ duration' = duration
      /\ contact' = contact /\ stopTime' = stopTime
  BY <1>1 DEF Play!Start, Play!contactVars
<1>. QED  BY <1>1, <1>2 DEF Kept

LEMMA StillKeeps ==
  ASSUME Play!TypeOK, UNCHANGED playVars PROVE Kept
  BY PlayAssumption DEF Kept, Play!TypeOK

LEMMA CommandKeeps ==
  ASSUME Play!TypeOK, Command PROVE Kept
<1> USE DEF Play!clockVars, Play!contactVars
<1>1. CASE Play!Stop
  BY <1>1 DEF Play!Stop, Kept
<1>2. ASSUME NEW d \in Durations, AgentShortens \/ ~isRunning \/ d >= duration,
             Play!SetDuration(d)
      PROVE  Kept
  <2>1. duration \in Nat /\ d \in Nat
    BY PlayAssumption DEF Play!TypeOK
  <2>. QED  BY <1>2, <2>1 DEF Play!SetDuration, Play!gameVars, Kept
<1>3. ASSUME NEW t \in Team, NEW s \in AgentScores, Play!SetScore(t, s) PROVE Kept
  BY <1>3, PlayAssumption DEF Play!SetScore, Kept, Play!TypeOK
<1>. QED  BY <1>1, <1>2, <1>3, StartKeeps, StillKeeps DEF Command

LEMMA EffectKeeps ==
  ASSUME Play!TypeOK, turn = "act", NEW type, Effect(type) PROVE Kept
<1> USE DEF Play!clockVars, Play!gameVars
<1>0. duration \in Nat /\ time \in Nat /\ TimeToCapture \in Nat
  BY PlayAssumption DEF Play!TypeOK
<1>1. ASSUME NEW r \in Robot, NEW i \in Item, Play!TouchItem(r, i) PROVE Kept
  <2>1. /\ contact' = [contact EXCEPT ![r] = i]
        /\ stopTime' = [stopTime EXCEPT ![r] = time + TimeToCapture]
        /\ UNCHANGED <<isRunning, startTime, time, duration>>
    BY <1>1 DEF Play!TouchItem
  <2>2. \A q \in Robot : IF q = r THEN stopTime'[q] = time + TimeToCapture
                         ELSE contact'[q] = contact[q] /\ stopTime'[q] = stopTime[q]
    BY <2>1 DEF Play!TypeOK
  <2>. QED  BY <1>0, <2>1, <2>2 DEF Kept
<1>2. ASSUME NEW r \in Robot, Play!DropContact(r) PROVE Kept
  <2>1. /\ contact' = [contact EXCEPT ![r] = NoItem]
        /\ stopTime' = [stopTime EXCEPT ![r] = 0]
        /\ UNCHANGED <<isRunning, startTime, time, duration>>
    BY <1>2 DEF Play!DropContact, Play!EraseContact
  <2>2. \A q \in Robot : IF q = r THEN contact'[q] = NoItem
                         ELSE contact'[q] = contact[q] /\ stopTime'[q] = stopTime[q]
    BY <2>1 DEF Play!TypeOK
  <2>. QED  BY <1>0, <2>1, <2>2 DEF Kept
<1>. QED  BY <1>1, <1>2, StartKeeps, StillKeeps DEF Effect, Play!RobotState

\* The numbers the proofs compare.
LEMMA Numbers ==
  ASSUME Loop!TypeOK, Play!TypeOK, ClockInv
  PROVE  /\ elapsed \in Nat /\ clock \in Nat /\ time \in Nat /\ startTime \in Nat
         /\ startTime <= time /\ duration \in Nat /\ Previous \in Int /\ Previous <= clock
         /\ clock = Previous + elapsed /\ stopTime \in [Robot -> Nat]
         /\ Pace \in Nat /\ Pace <= UnitsPerSecond /\ UnitsPerSecond \in Nat \ {0}
<1>1. /\ elapsed \in Nat /\ clock \in Nat /\ time \in Nat /\ startTime \in Nat
      /\ startTime <= time /\ duration \in Nat /\ stopTime \in [Robot -> Nat]
  BY PlayAssumption DEF Loop!TypeOK, Play!TypeOK, ClockInv
<1>. QED  BY <1>1, LoopAssumption, PlayAssumption, PaceAssumption DEF Previous, Pace

\* A message or a command moves neither the game nor its contacts before the
\* last tick.
LEMMA HandlerPace ==
  ASSUME Loop!TypeOK, Play!TypeOK, Play!TypeOK', ClockInv, DurationInv, CaptureInv,
         Kept, turn # "step", turn' # "step", phase' = "loop",
         Previous' \in Int, Previous' <= Previous
  PROVE  DurationInv' /\ CaptureInv'
<1>1. /\ Previous \in Int /\ Previous <= clock /\ clock \in Nat /\ startTime \in Nat
      /\ time \in Nat /\ stopTime \in [Robot -> Nat] /\ UnitsPerSecond \in Nat \ {0}
      /\ duration \in Nat
  BY Numbers
<1>2. turn = "act" => Previous <= time
  BY <1>1 DEF ClockInv
<1>5. stopTime' \in [Robot -> Nat] /\ duration' \in Nat /\ startTime' \in Nat
  BY PlayAssumption DEF Play!TypeOK
<1> SUFFICES ASSUME isRunning' PROVE DurationInv' /\ CaptureInv'
  BY DEF DurationInv, CaptureInv
<1>3. CASE startTime' \in clock .. clock'
  <2>1. Previous' <= startTime' /\ startTime' \in Int
    BY <1>1, <1>3
  <2>2. ASSUME NEW r \in Robot PROVE Previous' <= Later(stopTime[r], startTime)'
    BY <1>5, <2>1 DEF Later
  <2>. QED  BY <2>1, <2>2 DEF DurationInv, CaptureInv
<1>4. CASE /\ isRunning /\ startTime' = startTime
           /\ duration' \in Nat /\ (AgentShortens \/ duration <= duration')
  <2>1. DurationInv'
    <3> SUFFICES ASSUME ~AgentShortens PROVE DurationInv'
      BY DEF DurationInv
    <3>1. CASE Previous' <= startTime
      BY <1>4, <3>1 DEF DurationInv
    <3>2. CASE ~(Previous' <= startTime)
      <4>1. (Previous - startTime) \div UnitsPerSecond < duration
        BY <1>1, <1>4, <3>2 DEF DurationInv
      <4>2. /\ Previous - startTime \in Nat /\ Previous' - startTime \in Nat
            /\ Previous' - startTime <= Previous - startTime
        <5>1. /\ Previous' \in Int /\ Previous \in Int /\ startTime \in Int
              /\ Previous' <= Previous /\ startTime < Previous'
          BY <1>1, <3>2
        <5>. QED  BY <5>1, Subtract
      <4>3. (Previous' - startTime) \div UnitsPerSecond
              <= (Previous - startTime) \div UnitsPerSecond
        BY <1>1, <4>2, DivGrows
      <4>4. /\ (Previous - startTime) \div UnitsPerSecond \in Nat
            /\ (Previous' - startTime) \div UnitsPerSecond \in Nat
        BY <1>1, <4>2, QuotientRest
      <4> HIDE DEF Previous
      <4>5. (Previous' - startTime) \div UnitsPerSecond < duration'
        <5> DEFINE m == (Previous' - startTime) \div UnitsPerSecond
                   n == (Previous - startTime) \div UnitsPerSecond
        <5>1. m \in Nat /\ n \in Nat /\ m <= n /\ n < duration
          BY <4>1, <4>3, <4>4
        <5> HIDE DEF m, n
        <5>2. m < duration'
          BY <1>1, <1>4, <1>5, <5>1
        <5>. QED  BY <5>2 DEF m
      <4>. QED  BY <1>4, <4>5 DEF DurationInv
    <3>. QED  BY <3>1, <3>2
  <2>2. ASSUME NEW r \in Robot, contact'[r] # NoItem
        PROVE  Previous' <= Later(stopTime[r], startTime)'
    <3>1. CASE contact[r] # NoItem /\ stopTime'[r] = stopTime[r]
      <4>1. Previous <= Later(stopTime[r], startTime)
        BY <1>4, <3>1 DEF CaptureInv
      <4>. QED  BY <1>1, <1>4, <3>1, <4>1 DEF Later
    <3>2. CASE turn = "act" /\ time <= stopTime'[r]
      <4>1. Previous' <= time
        BY <1>1, <1>2, <3>2
      <4>. QED  BY <1>1, <1>4, <1>5, <3>2, <4>1 DEF Later
    <3>. QED  BY <2>2, <3>1, <3>2 DEF Kept
  <2>. QED  BY <2>1, <2>2 DEF CaptureInv
<1>. QED  BY <1>3, <1>4 DEF Kept

\* At a tick less than a second has passed since the last one: a game that was
\* not over then is over by no full second now.
LEMMA TickSeconds ==
  ASSUME Loop!TypeOK, Play!TypeOK, ClockInv, DurationInv, isRunning, ~AgentShortens,
         turn # "step", elapsed < Pace
  PROVE  Play!ElapsedSeconds <= duration
<1>1. /\ elapsed \in Nat /\ clock \in Nat /\ startTime \in Nat /\ time \in Nat
      /\ startTime <= time /\ time <= clock /\ duration \in Nat /\ Previous \in Int
      /\ clock = Previous + elapsed /\ Pace \in Nat /\ Pace <= UnitsPerSecond
      /\ UnitsPerSecond \in Nat \ {0}
  BY Numbers DEF ClockInv
<1>2. time - startTime \in Nat
  BY <1>1
<1>3. CASE Previous <= startTime
  <2>1. time - startTime < UnitsPerSecond
    BY <1>1, <1>3
  <2>2. (time - startTime) \div UnitsPerSecond = 0
    BY <1>1, <1>2, <2>1
  <2>. QED  BY <1>1, <2>2 DEF Play!ElapsedSeconds
<1>4. CASE ~(Previous <= startTime)
  <2>1. Previous - startTime \in Nat
    BY <1>1, <1>4
  <2>2. time - startTime < (Previous - startTime) + UnitsPerSecond
    BY <1>1
  <2>3. (Previous - startTime) \div UnitsPerSecond < duration
    BY <1>4 DEF DurationInv
  <2>4. (time - startTime) \div UnitsPerSecond <= duration
    BY <1>1, <1>2, <2>1, <2>2, <2>3, DivNext
  <2>. QED  BY <2>4 DEF Play!ElapsedSeconds
<1>. QED  BY <1>3, <1>4

\* So the contacts are short of a capture by less than that as well.
LEMMA TickContacts ==
  ASSUME Loop!TypeOK, Play!TypeOK, ClockInv, CaptureInv, isRunning,
         turn # "step", elapsed < Pace, NEW r \in Robot, contact[r] # NoItem
  PROVE  time < Later(stopTime[r], startTime) + Pace
<1>1. /\ elapsed \in Nat /\ clock \in Nat /\ startTime \in Nat /\ time \in Nat
      /\ time <= clock /\ Previous \in Int /\ clock = Previous + elapsed
      /\ Pace \in Nat /\ stopTime \in [Robot -> Nat]
  BY Numbers DEF ClockInv
<1>2. Previous <= Later(stopTime[r], startTime)
  BY DEF CaptureInv
<1>3. Later(stopTime[r], startTime) \in Nat
  BY <1>1 DEF Later
<1>. QED  BY <1>1, <1>2, <1>3

LEMMA TickPace ==
  ASSUME Loop!TypeOK, Play!TypeOK, Play!TypeOK', ClockInv, ClockInv',
         DurationInv, CaptureInv, LoopProofs!TimeInv, Tick
  PROVE  DurationInv' /\ CaptureInv'
<1>1. /\ elapsed \in Nat /\ clock \in Nat /\ startTime \in Nat /\ time \in Nat
      /\ startTime <= time /\ duration \in Nat /\ stopTime \in [Robot -> Nat]
      /\ Pace \in Nat /\ UnitsPerSecond \in Nat \ {0}
  BY Numbers
<1>2. /\ turn = "act" /\ time = clock /\ phase = "loop" /\ elapsed' \in 1 .. MaxTick
  BY LoopTimes DEF Tick, ClockInv
<1>3. elapsed < Pace
  BY LoopTimes DEF Tick, LoopProofs!TimeInv, Pace
<1>4. clock' \in Nat /\ clock' <= clock + elapsed' /\ phase' = "loop"
  <2>1. elapsed' \in Nat
    BY <1>2
  <2>2. clock' \in 0 .. MaxTime /\ clock <= clock' /\ clock' <= clock + elapsed'
    BY <2>1, PassesBy DEF Tick, ClockInv
  <2>3. phase' = "loop"
    BY <1>2, <2>2, CommandSteps DEF Tick, FeedAgent, ClockInv
  <2>. QED  BY <2>2, <2>3
<1>5. Kept
  BY CommandKeeps, StillKeeps DEF Tick, FeedAgent
<1>6. Previous' <= clock /\ Previous' \in Int
  <2> DEFINE c == clock'  e == elapsed'
  <2>1. c \in Nat /\ c <= clock + e
    BY <1>4
  <2>3. e \in 1 .. MaxTick
    BY <1>2
  <2> HIDE DEF c, e
  <2>2. c - e <= clock /\ c - e \in Int
    BY <1>1, <2>1, <2>3, LoopAssumption
  <2>. QED  BY <2>2 DEF c, e, Previous
<1>7. /\ stopTime' \in [Robot -> Nat] /\ duration' \in Nat /\ startTime' \in Nat
      /\ time' \in Nat
  BY PlayAssumption DEF Play!TypeOK
<1> SUFFICES ASSUME isRunning' PROVE DurationInv' /\ CaptureInv'
  BY DEF DurationInv, CaptureInv
<1>8. turn' = "step"
  BY DEF Tick
<1>9. CASE startTime' \in clock .. clock' /\ time' = startTime' /\ duration' = duration
  <2>1. Previous' <= time'
    BY <1>1, <1>4, <1>6, <1>7, <1>9
  <2>2. Play!ElapsedSeconds' <= duration'
    <3> DEFINE s == startTime'
    <3>0. s \in Nat /\ time' = s
      BY <1>7, <1>9
    <3> HIDE DEF s
    <3>1. time' - s = 0
      BY <3>0
    <3>2. (time' - startTime') \div UnitsPerSecond = 0
      BY <1>1, <3>1 DEF s
    <3>. QED  BY <1>7, <3>2 DEF Play!ElapsedSeconds
  <2>3. ASSUME NEW r \in Robot PROVE time' < Later(stopTime[r], startTime)' + Pace
    <3>1. Pace > 0
      BY LoopAssumption DEF Pace
    <3> DEFINE s == startTime'  p == stopTime'[r]
    <3>2. s \in Nat /\ time' = s /\ p \in Nat
      BY <1>7, <1>9
    <3> HIDE DEF s, p
    <3>3. s < Later(p, s) + Pace
      BY <1>1, <3>1, <3>2 DEF Later
    <3>. QED  BY <3>2, <3>3 DEF Later, s, p
  <2>4. phase' # "step"
    BY <1>4
  <2>. QED  BY <1>8, <2>1, <2>2, <2>3, <2>4 DEF DurationInv, CaptureInv, Pace
<1>10. CASE /\ isRunning /\ startTime' = startTime /\ time' = time
            /\ duration' \in Nat /\ (AgentShortens \/ duration <= duration')
  <2>1. Previous' <= time'
    BY <1>1, <1>2, <1>6, <1>10
  <2>2. ASSUME ~AgentShortens PROVE Play!ElapsedSeconds' <= duration'
    <3>1. Play!ElapsedSeconds <= duration
      BY <1>2, <1>3, <1>10, <2>2, TickSeconds
    <3>2. Play!ElapsedSeconds \in Nat
      BY SecondsLeftType
    <3>3. Play!ElapsedSeconds' = Play!ElapsedSeconds
      BY <1>10 DEF Play!ElapsedSeconds
    <3>. QED  BY <1>1, <1>10, <2>2, <3>1, <3>2, <3>3
  <2>3. ASSUME NEW r \in Robot, contact'[r] # NoItem
        PROVE  time' < Later(stopTime[r], startTime)' + Pace
    <3>1. CASE contact[r] # NoItem /\ stopTime'[r] = stopTime[r]
      <4>1. time < Later(stopTime[r], startTime) + Pace
        BY <1>2, <1>3, <1>10, <3>1, TickContacts
      <4>. QED  BY <1>10, <3>1, <4>1 DEF Later
    <3>2. CASE time <= stopTime'[r]
      <4>1. Pace > 0
        BY LoopAssumption DEF Pace
      <4>. QED  BY <1>1, <1>7, <1>10, <3>2, <4>1 DEF Later
    <3>. QED  BY <1>5, <2>3, <3>1, <3>2 DEF Kept
  <2>4. phase' # "step"
    BY <1>4
  <2>. QED  BY <1>8, <2>1, <2>2, <2>3, <2>4 DEF DurationInv, CaptureInv, Pace
<1>. QED  BY <1>5, <1>9, <1>10 DEF Kept

LEMMA StepPace ==
  ASSUME Play!TypeOK, ClockInv, DurationInv, CaptureInv, Step
  PROVE  DurationInv' /\ CaptureInv'
<1> USE DEF Play!clockVars, Play!gameVars, Play!contactVars
<1>1. /\ turn = "step" /\ turn' = "step" /\ UNCHANGED <<clock, elapsed>>
      /\ UNCHANGED <<isRunning, time, startTime, duration>>
  BY DEF Step, Play!BeginStep, Play!StepContact
<1>2. DurationInv'
  BY <1>1 DEF DurationInv, Previous, Play!ElapsedSeconds
<1>3. isRunning' => Previous' <= time'
  <2>1. Previous' = Previous
    BY <1>1 DEF Previous
  <2>. QED  BY <1>1, <2>1 DEF CaptureInv
<1>4. CASE Play!BeginStep
  <2>1. /\ phase = "loop" /\ UNCHANGED <<contact, stopTime>>
        /\ todo' = {r \in Robot : contact[r] # NoItem}
    BY <1>4 DEF Play!BeginStep
  <2>. QED  BY <1>1, <1>2, <1>3, <2>1 DEF CaptureInv, Later
<1>5. ASSUME NEW q \in Robot, Play!StepContact(q)
      PROVE  CaptureInv'
  <2>1. /\ phase = "step" /\ phase' = "step" /\ q \in todo /\ todo' = todo \ {q}
    BY <1>5 DEF Play!StepContact, Play!ComesFirst
  <2>2. CASE time > stopTime[q]
    <3>1. /\ contact' = [contact EXCEPT ![q] = NoItem]
          /\ stopTime' = [stopTime EXCEPT ![q] = 0]
      BY <1>5, <2>2 DEF Play!StepContact, Play!EraseContact
    <3>2. \A r \in Robot : IF r = q THEN contact'[r] = NoItem
                           ELSE contact'[r] = contact[r] /\ stopTime'[r] = stopTime[r]
      BY <3>1 DEF Play!TypeOK
    <3>. QED  BY <1>1, <1>3, <2>1, <3>2 DEF CaptureInv, Later
  <2>3. CASE ~(time > stopTime[q])
    <3>1. UNCHANGED <<contact, stopTime>>
      BY <1>5, <2>3 DEF Play!StepContact
    <3>2. time \in Nat /\ stopTime[q] \in Nat
      BY DEF Play!TypeOK
    <3>3. time <= stopTime[q]
      BY <2>3, <3>2
    <3>. QED  BY <1>1, <1>3, <2>1, <3>1, <3>3 DEF CaptureInv, Later
  <2>. QED  BY <2>2, <2>3
<1>. QED  BY <1>2, <1>4, <1>5 DEF Step

\* A game that goes on after its step has not reached its duration.
LEMMA EndPace ==
  ASSUME Loop!TypeOK, Play!TypeOK, ClockInv, ShownInv, DurationInv, CaptureInv, EndStep
  PROVE  /\ DurationInv' /\ CaptureInv'
         /\ isRunning' /\ ~AgentShortens => Play!ElapsedSeconds < duration
<1>1. /\ turn = "step" /\ turn' = "read" /\ phase = "step" /\ phase' = "loop" /\ todo = {}
      /\ isRunning
      /\ UNCHANGED <<clock, elapsed, time, startTime, duration, contact, stopTime>>
  BY DEF EndStep, Play!StopIfGameIsFinished, Play!clockVars, Play!contactVars, ShownInv
<1>2. /\ Previous \in Int /\ time \in Nat /\ startTime \in Nat /\ startTime <= time
      /\ duration \in Nat /\ UnitsPerSecond \in Nat \ {0} /\ stopTime \in [Robot -> Nat]
  BY Numbers
<1>3. Previous <= time
  BY <1>1 DEF CaptureInv
<1>4. Play!ElapsedSeconds \in Nat
  BY SecondsLeftType
<1> SUFFICES ASSUME isRunning'
             PROVE  /\ DurationInv' /\ CaptureInv'
                    /\ ~AgentShortens => Play!ElapsedSeconds < duration
  BY <1>1 DEF DurationInv, CaptureInv
<1>5. ASSUME ~AgentShortens PROVE Play!ElapsedSeconds < duration
  <2>0. Play!ElapsedSeconds <= duration
    BY <1>1, <1>5 DEF DurationInv
  <2>1. Play!SecondsLeft > 0
    <3>1. ~(Play!SecondsLeft <= 0)
      BY DEF EndStep, Play!StopIfGameIsFinished
    <3>2. Play!SecondsLeft \in 0 .. Uint64 - 1
      BY SecondsLeftType
    <3>. QED  BY <3>1, <3>2, PlayAssumption
  <2>2. Play!SecondsLeft = (duration - Play!ElapsedSeconds) % Uint64
    BY <1>1 DEF Play!SecondsLeft
  <2>3. 0 % Uint64 = 0
    BY PlayAssumption
  <2>4. duration # Play!ElapsedSeconds
    BY <1>2, <2>1, <2>2, <2>3
  <2>. QED  BY <1>2, <1>4, <2>0, <2>4
<1>6. DurationInv'
  <2> SUFFICES ASSUME ~AgentShortens PROVE DurationInv'
    BY DEF DurationInv
  <2>1. Previous' = Previous
    BY <1>1 DEF Previous
  <2>2. CASE ~(Previous <= startTime)
    <3>1. Previous - startTime \in Nat /\ time - startTime \in Nat
          /\ Previous - startTime <= time - startTime
      BY <1>2, <1>3, <2>2
    <3>2. (Previous - startTime) \div UnitsPerSecond <= (time - startTime) \div UnitsPerSecond
      BY <1>2, <3>1, DivGrows
    <3>3. (Previous - startTime) \div UnitsPerSecond < duration
      <4> DEFINE m == (Previous - startTime) \div UnitsPerSecond
                 n == (time - startTime) \div UnitsPerSecond
      <4>1. m \in Nat /\ n \in Nat
        BY <1>2, <3>1, QuotientRest
      <4>2. m <= n /\ n < duration
        BY <1>5, <3>2 DEF Play!ElapsedSeconds
      <4> HIDE DEF m, n
      <4>3. m < duration
        BY <1>2, <4>1, <4>2
      <4>. QED  BY <4>3 DEF m
    <3>. QED  BY <1>1, <2>1, <3>3 DEF DurationInv
  <2>. QED  BY <1>1, <2>1, <2>2 DEF DurationInv
<1>7. CaptureInv'
  <2>1. Previous' = Previous
    BY <1>1 DEF Previous
  <2>2. ASSUME NEW r \in Robot, contact[r] # NoItem
        PROVE  Previous <= Later(stopTime[r], startTime)
    <3>1. time <= stopTime[r]
      BY <1>1, <2>2 DEF CaptureInv
    <3>. QED  BY <1>2, <1>3, <3>1 DEF Later
  <2>. QED  BY <1>1, <2>1, <2>2 DEF CaptureInv, Later
<1>. QED  BY <1>5, <1>6, <1>7

LEMMA PaceStep ==
  ASSUME Loop!TypeOK, Play!TypeOK, Play!TypeOK', ClockInv, ClockInv',
         LoopProofs!TimeInv, ShownInv, DurationInv, CaptureInv, [Next]_vars
  PROVE  DurationInv' /\ CaptureInv'
<1>1. CASE World \/ UNCHANGED vars
  <2>1. UNCHANGED <<clock, turn, elapsed>> /\ UNCHANGED playVars
    BY <1>1, WorldKeeps DEF World, vars
  <2>. QED  BY <2>1 DEF DurationInv, CaptureInv, Previous, Later, Play!ElapsedSeconds
<1>2. CASE Read
  <2>1. /\ UNCHANGED <<clock, elapsed>> /\ turn # "step" /\ turn' # "step" /\ phase = "loop"
    BY <1>2 DEF Read, ClockInv
  <2>2. UNCHANGED <<isRunning, startTime, duration, contact, stopTime, phase>>
    BY <1>2 DEF Read, Play!SetTime, Play!gameVars, Play!contactVars
  <2>. QED  BY <2>1, <2>2 DEF DurationInv, CaptureInv, Previous, Later
<1>3. CASE Enter
  <2>1. /\ turn = "read" /\ turn' = "read" /\ elapsed' - elapsed \in 0 .. MaxHandler
        /\ elapsed' \in Int
    <3>1. Loop!Enter /\ elapsed \in Nat
      BY <1>3, LoopTimes DEF Enter
    <3>2. elapsed' \in Int
      BY <3>1, LoopAssumption DEF Loop!Enter
    <3>. QED  BY <1>3, <3>2, LoopTimes DEF Enter
  <2>2. Kept
    BY <1>3, CommandKeeps, StillKeeps DEF Enter, FeedAgent
  <2>3. clock' \in 0 .. MaxTime /\ clock' <= clock + (elapsed' - elapsed)
    <3>1. elapsed' - elapsed \in Nat
      BY <2>1
    <3>. QED  BY <1>3, <3>1, PassesBy DEF Enter, ClockInv
  <2>4. Previous' \in Int /\ Previous' <= Previous
    BY <2>1, <2>3, Numbers, Earlier DEF Previous
  <2>5. phase' = "loop"
    BY <2>1 DEF ClockInv
  <2>. QED  BY <2>1, <2>2, <2>4, <2>5, HandlerPace
<1>4. CASE ReceiveMessage \/ ReceiveRequest
  <2>1. /\ turn = "act" /\ turn' = "read" /\ elapsed' - elapsed \in 1 .. MaxHandler
        /\ elapsed' \in Int
    <3>1. Loop!Handled /\ elapsed \in Nat
      BY <1>4, LoopTimes
         DEF ReceiveMessage, ReceiveRequest, Loop!ReceiveMessage, Loop!ReceiveRequest
    <3>2. elapsed' \in Int
      BY <3>1, LoopAssumption DEF Loop!Handled
    <3>. QED  BY <1>4, <3>2, LoopTimes DEF ReceiveMessage, ReceiveRequest
  <2>2. Kept
    BY <1>4, <2>1, EffectKeeps DEF ReceiveMessage, ReceiveRequest
  <2>3. clock' \in 0 .. MaxTime /\ clock' <= clock + (elapsed' - elapsed)
    <3>1. elapsed' - elapsed \in Nat
      BY <2>1
    <3>. QED  BY <1>4, <3>1, PassesBy DEF ReceiveMessage, ReceiveRequest, ClockInv
  <2>4. Previous' \in Int /\ Previous' <= Previous
    BY <2>1, <2>3, Numbers, Earlier DEF Previous
  <2>5. phase' = "loop"
    BY <2>1 DEF ClockInv
  <2>. QED  BY <2>1, <2>2, <2>4, <2>5, HandlerPace
<1>5. CASE Sleep
  <2>1. turn = "act" /\ turn' = "read" /\ elapsed' = elapsed + 1 /\ elapsed \in Nat
    BY <1>5, LoopTimes DEF Sleep
  <2>2. Kept
    BY <1>5, StillKeeps DEF Sleep
  <2>3. clock' \in 0 .. MaxTime /\ clock' <= clock + 1
    BY <1>5, PassesBy DEF Sleep, ClockInv
  <2>4. elapsed' \in Int /\ clock' <= clock + (elapsed' - elapsed)
    BY <2>1, <2>3
  <2>5. Previous' \in Int /\ Previous' <= Previous
    BY <2>3, <2>4, Numbers, Earlier DEF Previous
  <2>6. phase' = "loop"
    BY <2>1 DEF ClockInv
  <2>. QED  BY <2>1, <2>2, <2>5, <2>6, HandlerPace
<1>. QED  BY <1>1, <1>2, <1>3, <1>4, <1>5, TickPace, StepPace, EndPace DEF Next, Thread

LEMMA PaceInvariant ==
  Spec => []( /\ Loop!TypeOK /\ Play!TypeOK /\ LoopProofs!TimeInv /\ ClockInv
              /\ ShownInv /\ DurationInv /\ CaptureInv )
<1>1. Init => DurationInv /\ CaptureInv
  BY DEF Init, Play!Init, DurationInv, CaptureInv
<1>2. Init => ShownInv
  BY PlayAssumption DEF Init, ShownInv, GameState
<1>. QED  BY <1>1, <1>2, PaceStep, ShownStep, ClockInvariant, PlayTypes, PTL DEF Spec

\* While a game runs its time is not past its duration by a second, when no
\* agent shortens it: a tick comes at least once a second (Server.cpp:103-143,
\* Game.cpp:127-138).
THEOREM DurationKept ==
  ASSUME ~AgentShortens
  PROVE  Spec => []NeverPastDuration
<1>1. /\ ~AgentShortens
      /\ Loop!TypeOK /\ Play!TypeOK /\ LoopProofs!TimeInv /\ ClockInv /\ DurationInv
      => NeverPastDuration
  BY TickSeconds DEF DurationInv, NeverPastDuration, LoopProofs!TimeInv, Pace
<1>. QED  BY <1>1, PaceInvariant, PTL

\* A capture is late by less than a tic, a message and a command
\* (Server.cpp:103-143, Contact.cpp:39-57).
THEOREM CapturesOnTime == Spec => []CaptureOnTime
<1>1. ASSUME Loop!TypeOK, Play!TypeOK, LoopProofs!TimeInv, ClockInv, CaptureInv
      PROVE  CaptureOnTime
  <2> SUFFICES ASSUME NEW r \in Robot, isRunning, contact[r] # NoItem
               PROVE  time < Later(stopTime[r], startTime) + Pace
    BY LoopAssumption, <1>1, Numbers DEF CaptureOnTime, Pace, Later
  <2>1. elapsed < Pace
    BY <1>1 DEF LoopProofs!TimeInv, Pace
  <2>2. CASE turn # "step"
    BY <1>1, <2>1, <2>2, TickContacts
  <2>3. CASE turn = "step" /\ (phase = "loop" \/ r \in todo)
    BY <1>1, <2>3 DEF CaptureInv
  <2>4. CASE phase = "step" /\ r \notin todo
    <3>1. time <= stopTime[r] /\ stopTime[r] \in Nat /\ startTime \in Nat /\ time \in Nat
      BY <1>1, <2>4, Numbers DEF CaptureInv
    <3>2. Pace \in Nat /\ Pace > 0
      BY LoopAssumption DEF Pace
    <3>. QED  BY <3>1, <3>2 DEF Later
  <2>. QED  BY <1>1, <2>2, <2>3, <2>4 DEF Play!TypeOK
<1>. QED  BY <1>1, PaceInvariant, PTL

LEMMA Rest ==
  ASSUME NEW a \in Nat, NEW u \in Nat \ {0}
  PROVE  a % u \in Nat /\ a % u <= a
<1> DEFINE m == a \div u  r == a % u
<1>1. m \in Nat /\ r \in 0 .. u - 1 /\ a = u * m + r
  BY QuotientRest
<1> HIDE DEF m, r
<1>2. u * m \in Nat
  BY <1>1
<1>3. r \in Nat /\ r <= a
  BY <1>1, <1>2
<1>. QED  BY <1>3 DEF r

\* The clients are never shown more seconds than a game has, when no agent
\* shortens it (ProcessTimer.cpp:35-36, Game.cpp:127-138).
THEOREM SecondsShown ==
  ASSUME ~AgentShortens
  PROVE  Spec => []LeftShown
<1>1. Init => LeftShown
  <2> SUFFICES ASSUME Init PROVE LeftShown
    OBVIOUS
  <2>1. duration \in Durations /\ shown.left = 0 /\ duration \in Nat
    BY PlayAssumption DEF Init, Play!Init
  <2>. QED  BY <2>1 DEF LeftShown
<1>2. ASSUME Loop!TypeOK, Play!TypeOK, Play!TypeOK', ClockInv, ShownInv, DurationInv,
             CaptureInv, LeftShown, [Next]_vars
      PROVE  LeftShown'
  <2>1. CASE UNCHANGED shown
    BY <1>2, <2>1 DEF LeftShown
  <2>2. CASE EndStep
    <3>1. /\ duration \in Durations /\ duration \in Nat
          /\ Play!ElapsedSeconds \in Nat /\ UNCHANGED <<duration, time, startTime>>
      BY <1>2, <2>2, SecondsLeftType
         DEF EndStep, Play!StopIfGameIsFinished, Play!clockVars, Play!TypeOK
    <3>2. shown'.left = Play!SecondsLeft'
      BY <2>2 DEF EndStep, Execute
    <3>3. CASE isRunning'
      <4>1. Play!ElapsedSeconds < duration
        BY <1>2, <2>2, <3>3, EndPace
      <4>2. Play!SecondsLeft' = (duration - Play!ElapsedSeconds) % Uint64
        BY <3>1, <3>3 DEF Play!SecondsLeft, Play!ElapsedSeconds
      <4>3. duration - Play!ElapsedSeconds \in Nat
        BY <3>1, <4>1
      <4>4. /\ Play!SecondsLeft' \in Nat
            /\ Play!SecondsLeft' <= duration - Play!ElapsedSeconds
        BY <4>2, <4>3, Rest, PlayAssumption
      <4>. QED  BY <3>1, <3>2, <4>4 DEF LeftShown
    <3>4. CASE ~isRunning'
      <4>1. Play!SecondsLeft' = duration % Uint64
        BY <3>1, <3>4 DEF Play!SecondsLeft
      <4>2. Play!SecondsLeft' <= duration
        BY <3>1, <4>1, Rest, PlayAssumption
      <4>. QED  BY <3>1, <3>2, <4>2 DEF LeftShown
    <3>. QED  BY <3>3, <3>4
  <2>. QED  BY <1>2, <2>1, <2>2
       DEF Next, Thread, World, Enter, Read, ReceiveMessage, ReceiveRequest, Sleep, Tick,
           Step, vars
<1>. QED  BY <1>1, <1>2, PaceInvariant, PTL DEF Spec

\* What WinnerShown rests on: a game that runs has no winner.
WinnerInv ==
  /\ isRunning => winner = NoTeam
  /\ WinnerShown

LEMMA WinnerStep ==
  ASSUME ShownInv, ShownInv', WinnerInv, [Next]_vars
  PROVE  WinnerInv'
<1> USE DEF WinnerInv, WinnerShown
<1>1. ASSUME UNCHANGED shown, turn # "step",
             \/ winner' = NoTeam
             \/ winner' = winner /\ (isRunning' => isRunning)
      PROVE  WinnerInv'
  BY <1>1
<1>2. StartsGame => winner' = NoTeam
  BY DEF StartsGame, Play!Start
<1>3. Command => \/ winner' = NoTeam
                 \/ winner' = winner /\ (isRunning' => isRunning)
  BY <1>2 DEF Command, Play!Stop, Play!SetDuration, Play!SetScore, Play!gameVars
<1>4. \A type : Effect(type) => \/ winner' = NoTeam
                                \/ winner' = winner /\ (isRunning' => isRunning)
  BY <1>2 DEF Effect, Play!RobotState, Play!TouchItem, Play!DropContact, Play!gameVars
<1>5. CASE World \/ UNCHANGED vars
  BY <1>5 DEF World, vars
<1>6. CASE Enter
  BY <1>1, <1>3, <1>6 DEF Enter, FeedAgent
<1>7. CASE Read
  BY <1>1, <1>7 DEF Read, Play!SetTime, Play!gameVars
<1>8. CASE ReceiveMessage \/ ReceiveRequest
  BY <1>1, <1>4, <1>8 DEF ReceiveMessage, ReceiveRequest
<1>9. CASE Sleep
  BY <1>9 DEF Sleep
<1>10. CASE Tick
  BY <1>1, <1>3, <1>10 DEF Tick, FeedAgent
<1>11. CASE Step
  BY <1>11 DEF Step, Play!BeginStep, Play!StepContact, Play!gameVars
<1>12. CASE EndStep
  <2>1. turn = "step" /\ isRunning /\ winner = NoTeam
    BY <1>12 DEF EndStep, ShownInv
  <2>2. /\ shown'.playing = isRunning' /\ shown'.winner = winner'
    BY <1>12 DEF EndStep, Execute
  <2>3. winner' # NoTeam => ~isRunning'
    BY <1>12, <2>1 DEF EndStep, Play!StopIfGameIsFinished
  <2>. QED  BY <2>2, <2>3
<1>. QED  BY <1>5, <1>6, <1>7, <1>8, <1>9, <1>10, <1>11, <1>12 DEF Next, Thread

\* The clients are told who won, and not told anything else before the next
\* game (Server.cpp:134-139, ProcessTimer.cpp).
THEOREM WinnersShown == Spec => []WinnerShown
<1>1. Init => WinnerInv
  BY DEF Init, Play!Init, WinnerInv, WinnerShown
<1>2. WinnerInv => WinnerShown
  BY DEF WinnerInv
<1>. QED  BY <1>1, <1>2, WinnerStep, PaceInvariant, PTL DEF Spec

=============================================================================
