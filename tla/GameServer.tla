----------------------------- MODULE GameServer ----------------------------
(***************************************************************************)
(* The main loop playing the game: ServerLoop says when a message, a       *)
(* command or a tick is handled and how long that takes, FlagCapture what  *)
(* it does to the game.  Here the two take their steps together, on one    *)
(* clock, so what FlagCapture leaves open (how far the clock has gone when *)
(* it is read, whether a tick comes in time) is what the loop does.        *)
(***************************************************************************)
EXTENDS Integers, Sequences, FiniteSets

CONSTANTS
  Space, Client, Text, Answered, NoClient,             \* see Wire, ServerLoop
  TicDuration, MaxHandler, MaxTick, MaxPulled,
  Robot, Team, Item, TeamOf, NoTeam, NoItem,           \* see FlagCapture
  TimeToCapture, PointsOnCapture, ScoreToWin, Durations, AgentScores,
  UnitsPerSecond, MaxTime, MaxAdvance, Uint16, Uint32, Uint64,
  HelloType,      \* the type of the messages that may start a game
  StateType,      \* the type of the messages robots send of their sensors
  AgentShortens   \* may an agent shorten a game while it runs?

VARIABLES
  pc, elapsed, first, pulled, requests, waiting, owed, agent, overtaken,
  isRunning, time, startTime, duration, winner, score, contact, stopTime,
  owningTeam, capturingTeam, captureState, todo, phase,
  clock,   \* what local_time would return
  turn,    \* where the thread is when pc is "check": before the clock is read,
           \* between that and what is done at that time, inside the tick
  shown    \* the last GameState the clients got

Loop == INSTANCE ServerLoop
Play == INSTANCE FlagCapture

loopVars == <<pc, elapsed, first, pulled, requests, waiting, owed, agent, overtaken>>
playVars == <<isRunning, time, startTime, duration, winner, score, contact, stopTime,
              owningTeam, capturingTeam, captureState, todo, phase>>
vars == <<loopVars, playVars, clock, turn, shown>>

ASSUME LoopAssumption ==
  /\ NoClient \notin Client /\ MaxPulled \in Nat
  /\ TicDuration \in Nat /\ MaxHandler \in Nat \ {0} /\ MaxTick \in Nat \ {0}
ASSUME PlayAssumption ==
  /\ Robot \subseteq Nat /\ IsFiniteSet(Robot)
  /\ NoTeam \notin Team /\ TeamOf \in [Robot -> Team]
  /\ NoItem \notin Item /\ IsFiniteSet(Item)
  /\ TimeToCapture \in Nat /\ PointsOnCapture \in Nat /\ ScoreToWin \in Nat
  /\ UnitsPerSecond \in Nat \ {0} /\ MaxTime \in Nat /\ MaxAdvance \in Nat
  /\ Durations \subseteq Nat /\ AgentScores \subseteq 0 .. Uint32 - 1
  /\ Uint16 \in Nat \ {0} /\ Uint32 \in Nat \ {0} /\ Uint64 \in Nat \ {0}
\* What makes the ticks come often enough: a tick is handled within a tic, and
\* a tic, a message and a command take no longer than a second.
ASSUME PaceAssumption ==
  MaxTick < TicDuration /\ TicDuration + 2 * MaxHandler <= UnitsPerSecond
\* FlagCapture's bound on how far the clock goes between two readings.
ASSUME AdvanceAssumption == 2 * MaxHandler <= MaxAdvance /\ MaxTick <= MaxAdvance
ASSUME AgentAssumption == AgentShortens \in BOOLEAN

GameState == [playing : BOOLEAN, left : 0 .. Uint64 - 1, winner : Team \cup {NoTeam}]

TypeOK ==
  /\ Loop!TypeOK /\ Play!TypeOK
  /\ clock \in 0 .. MaxTime /\ time <= clock
  /\ turn \in {"read", "act", "step"}
  /\ pc = "enter" => turn = "read"
  /\ phase = "step" => turn = "step"
  /\ turn = "step" => isRunning
  /\ shown \in GameState

Init ==
  /\ Loop!Init /\ Play!Init
  /\ clock = 0 /\ turn = "read"
  /\ shown = [playing |-> FALSE, left |-> 0, winner |-> NoTeam]

----------------------------------------------------------------------------
\* While the thread is busy or sleeps, the clock goes on.
Passes(d) == clock' = IF clock + d > MaxTime THEN MaxTime ELSE clock + d

\* Game::start reads the clock itself while the handler runs.
StartsGame == \E now \in clock .. clock' : Play!Start(now)

\* An agent's command that matters here.  A shorter duration may already be over.
Command ==
  \/ StartsGame
  \/ Play!Stop
  \/ \E d \in Durations :
       (AgentShortens \/ ~isRunning \/ d >= duration) /\ Play!SetDuration(d)
  \/ \E t \in Team, s \in AgentScores : Play!SetScore(t, s)
  \/ UNCHANGED playVars

FeedAgent == IF agent THEN Command ELSE UNCHANGED playVars

\* What the handler of a type may do to the game: Hello starts it when all
\* robots have players, a robot's state makes and drops contacts.
Effect(type) ==
  \/ type = HelloType /\ StartsGame
  \/ type = StateType /\ Play!RobotState
  \/ UNCHANGED playVars

----------------------------------------------------------------------------
World == Loop!World /\ UNCHANGED <<playVars, clock, turn, shown>>

Enter ==
  /\ turn = "read" /\ Loop!Enter
  /\ Passes(elapsed' - elapsed) /\ FeedAgent
  /\ UNCHANGED <<turn, shown>>

\* Mutant: the game is not told the time.
ReadNever ==
  /\ turn = "read" /\ pc = "check" /\ turn' = "act"
  /\ UNCHANGED <<loopVars, playVars, clock, shown>>

\* The top of the while loop: aCurrentTic, and Game::setTime.
Read ==
  /\ turn = "read" /\ pc = "check" /\ turn' = "act"
  /\ IF clock > time THEN Play!SetTime(clock) ELSE UNCHANGED playVars
  /\ UNCHANGED <<loopVars, clock, shown>>

\* The puller's messages are of any type.
ReceiveMessage ==
  /\ turn = "act" /\ Loop!ReceiveMessage /\ turn' = "read"
  /\ Passes(elapsed' - elapsed) /\ \E type \in {HelloType, StateType} : Effect(type)
  /\ UNCHANGED shown

ReceiveRequest ==
  /\ turn = "act" /\ Loop!ReceiveRequest /\ turn' = "read"
  /\ Passes(elapsed' - elapsed) /\ Effect(Loop!Type(requests[1][2]))
  /\ UNCHANGED shown

Sleep ==
  /\ turn = "act" /\ Loop!Sleep /\ turn' = "read"
  /\ Passes(1)
  /\ UNCHANGED <<playVars, shown>>

\* The time to tick has come: the agent is fed, and a game that runs is stepped.
Tick ==
  /\ turn = "act" /\ Loop!Tick
  /\ Passes(elapsed') /\ FeedAgent
  /\ turn' = IF isRunning' THEN "step" ELSE "read"
  /\ UNCHANGED shown

\* Game::step, up to its last part.
Step ==
  /\ turn = "step"
  /\ Play!BeginStep \/ \E r \in Robot : Play!StepContact(r)
  /\ UNCHANGED <<loopVars, clock, turn, shown>>

\* Mutant: ProcessTimer is executed only if the game goes on.
ExecuteIfRunning ==
  shown' = IF isRunning' THEN [playing |-> TRUE, left |-> Play!SecondsLeft', winner |-> winner']
           ELSE shown

\* ProcessTimer::execute, which looks at the game after its step.
Execute ==
  shown' = [playing |-> isRunning', left |-> Play!SecondsLeft', winner |-> winner']

EndStep ==
  /\ turn = "step" /\ Play!StopIfGameIsFinished /\ turn' = "read"
  /\ Execute
  /\ UNCHANGED <<loopVars, clock>>

Thread ==
  Enter \/ Read \/ ReceiveMessage \/ ReceiveRequest \/ Sleep \/ Tick \/ Step \/ EndStep

Next == World \/ Thread

Spec == Init /\ [][Next]_vars

\* The thread runs; of clients, robots and agents nothing is assumed.
FairSpec == Spec /\ WF_vars(Thread)

----------------------------------------------------------------------------
(* Properties *)

\* While a game runs, the time it was told is not past its duration by a
\* second: SecondsLeft goes down to 0 and does not wrap, so the game does stop.
\* (Messages and commands of any length of queue come between two ticks,
\* Server.cpp:103-143, Game.cpp:127-138.)
NeverPastDuration == isRunning => Play!ElapsedSeconds <= duration

\* So the clients are never shown more seconds than a game has.
LeftShown == \E d \in Durations : shown.left <= d

\* A capture is late by less than a tic, a message and a command, whatever else
\* the robots and agents send (Server.cpp:103-143, Contact.cpp).
Later(a, b) == IF a > b THEN a ELSE b
CaptureOnTime ==
  \A r \in Robot : isRunning /\ contact[r] # NoItem =>
    time < Later(stopTime[r], startTime) + TicDuration + 2 * MaxHandler

\* The clients are told who won: the GameState that names the winner is sent
\* although no game runs any more, and it is not overtaken by one that does not
\* (Server.cpp:134-139).
WinnerShown ==
  turn # "step" /\ winner # NoTeam => ~shown.playing /\ shown.winner = winner

\* Played by the loop, a game stops after its duration, which FlagCapture alone
\* cannot promise: there the clock may skip the last second.
GameStops == Play!StopsAfterDuration

\* The loop plays FlagCapture, and plays it fairly.
PlaySpec == Play!FairSpec

=============================================================================
