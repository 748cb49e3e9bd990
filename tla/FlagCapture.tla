---------------------------- MODULE FlagCapture ----------------------------
(***************************************************************************)
(* The game of the Orwell server: robots come into contact with flags,     *)
(* contacts held long enough capture them, captures score, and every tick  *)
(* decides whether the game is over.                                       *)
(*                                                                         *)
(* One variable per field of Game, Contact, Item and Team that takes part. *)
(* The server is one thread, so every handler is one step; the tick is cut *)
(* in one step per contact, in the order the contact map is walked.        *)
(* A robot is named by its id, a number that stands for its rank in the    *)
(* std::map m_contacts is.  The rosters are fixed here.                    *)
(***************************************************************************)
EXTENDS Integers, FiniteSets

CONSTANTS
  Robot,          \* the ids of the robots, ordered as the keys of m_contacts
  Team,           \* the names of the teams
  Item,           \* the flags
  TeamOf,         \* the team of each robot
  NoTeam,         \* the empty string: no owner, no capturing team, no winner
  NoItem,         \* no contact
  TimeToCapture,  \* Ruleset::m_timeToCapture, in units of time
  PointsOnCapture,\* Ruleset::m_pointsOnCapture
  ScoreToWin,     \* Ruleset::m_scoreToWin
  Durations,      \* durations of a game the configuration or an agent sets
  AgentScores,    \* scores an agent sets; {} when no agent meddles
  UnitsPerSecond, \* units of time in a second
  MaxTime,        \* bound: the clock stops there
  MaxAdvance,     \* bound: the longest time between two readings of the clock
  Uint16, Uint32, Uint64  \* how many values each of these types has

ASSUME RobotAssumption == Robot \subseteq Nat /\ IsFiniteSet(Robot)
ASSUME TeamAssumption == NoTeam \notin Team /\ TeamOf \in [Robot -> Team]
ASSUME ItemAssumption == NoItem \notin Item /\ IsFiniteSet(Item)
ASSUME RulesetAssumption ==
  /\ TimeToCapture \in Nat /\ PointsOnCapture \in Nat /\ ScoreToWin \in Nat
ASSUME TimeAssumption ==
  /\ UnitsPerSecond \in Nat \ {0} /\ MaxTime \in Nat /\ MaxAdvance \in Nat
ASSUME InputAssumption == 
  /\ Durations \subseteq Nat /\ AgentScores \subseteq 0 .. Uint32 - 1
ASSUME WidthAssumption ==
  /\ Uint16 \in Nat \ {0} /\ Uint32 \in Nat \ {0} /\ Uint64 \in Nat \ {0}

VARIABLES
  isRunning,      \* Game::m_isRunning
  time,           \* Game::m_time
  startTime,      \* Game::m_startTime
  duration,       \* Game::m_gameDuration, in seconds
  winner,         \* Game::m_winner
  score,          \* Team::m_score of each team
  contact,        \* the item of each robot's entry in Game::m_contacts
  stopTime,       \* Contact::m_stopTime of that entry
  owningTeam, capturingTeam, captureState, \* the fields of each Item
  todo,           \* the contacts this tick has not visited yet
  phase           \* "loop" between two handlers, "step" inside Game::step

clockVars == <<time, startTime, duration>>
itemVars == <<owningTeam, capturingTeam, captureState>>
contactVars == <<contact, stopTime>>
gameVars == <<isRunning, winner, score>>
vars == <<clockVars, gameVars, contactVars, itemVars, todo, phase>>

CaptureState == {"PENDING", "STARTED", "FAILED", "SUCCEEDED"}

TypeOK ==
  /\ isRunning \in BOOLEAN
  /\ time \in Nat /\ startTime \in Nat /\ startTime <= time
  /\ duration \in Durations
  /\ winner \in Team \cup {NoTeam}
  /\ score \in [Team -> 0 .. Uint32 - 1]
  /\ contact \in [Robot -> Item \cup {NoItem}]
  /\ stopTime \in [Robot -> Nat]
  /\ owningTeam \in [Item -> Team \cup {NoTeam}]
  /\ capturingTeam \in [Item -> Team \cup {NoTeam}]
  /\ captureState \in [Item -> CaptureState]
  /\ phase \in {"loop", "step"}
  /\ todo \subseteq {r \in Robot : contact[r] # NoItem}
  /\ phase = "loop" => todo = {}

Init ==
  /\ isRunning = FALSE /\ winner = NoTeam /\ score = [t \in Team |-> 0]
  /\ time = 0 /\ startTime = 0 /\ duration \in Durations
  /\ contact = [r \in Robot |-> NoItem] /\ stopTime = [r \in Robot |-> 0]
  /\ owningTeam = [i \in Item |-> NoTeam]
  /\ capturingTeam = [i \in Item |-> NoTeam]
  /\ captureState = [i \in Item |-> "PENDING"]
  /\ todo = {} /\ phase = "loop"

----------------------------------------------------------------------------
(* The clock *)

\* The main loop reads the clock before anything else; late when the handler
\* before it was slow.
SetTime(now) ==
  /\ phase = "loop"
  /\ now \in time + 1 .. time + MaxAdvance
  /\ time' = now
  /\ UNCHANGED <<startTime, duration, gameVars, contactVars, itemVars, todo, phase>>

SetDuration(d) ==
  /\ phase = "loop"
  /\ duration' = d
  /\ UNCHANGED <<time, startTime, gameVars, contactVars, itemVars, todo, phase>>

ElapsedSeconds == (time - startTime) \div UnitsPerSecond

\* The difference is computed on signed integers and returned as a uint64_t.
SecondsLeft == IF isRunning THEN (duration - ElapsedSeconds) % Uint64
                            ELSE duration % Uint64

----------------------------------------------------------------------------
(* Starting and stopping *)

\* Item::reset of every item.
ResetAllItems ==
  /\ owningTeam' = [i \in Item |-> NoTeam]
  /\ capturingTeam' = [i \in Item |-> NoTeam]
  /\ captureState' = [i \in Item |-> "PENDING"]

\* Mutant: the game stops and the flags stay with their owners.
KeepItems == UNCHANGED itemVars

\* What Game::stop does to the items: nothing when no game runs.  Neither the
\* contacts nor the scores nor the winner are cleared.
StopItems == IF isRunning THEN ResetAllItems ELSE UNCHANGED itemVars

\* Mutant: the new game keeps the winner of the previous one.
StartKeepsWinner(now) ==
  /\ phase = "loop" /\ now \in time .. time + MaxAdvance
  /\ score' = [t \in Team |-> 0]
  /\ StopItems
  /\ isRunning' = TRUE /\ startTime' = now /\ time' = now
  /\ UNCHANGED <<duration, winner, contactVars, todo, phase>>

\* Mutant: the new game keeps the scores of the previous one.
StartKeepsScores(now) ==
  /\ phase = "loop" /\ now \in time .. time + MaxAdvance
  /\ winner' = NoTeam
  /\ StopItems
  /\ isRunning' = TRUE /\ startTime' = now /\ time' = now
  /\ UNCHANGED <<duration, score, contactVars, todo, phase>>

\* Mutant: the scores are reset but the game that runs is not stopped first.
StartKeepsItems(now) ==
  /\ phase = "loop" /\ now \in time .. time + MaxAdvance
  /\ winner' = NoTeam /\ score' = [t \in Team |-> 0]
  /\ isRunning' = TRUE /\ startTime' = now /\ time' = now
  /\ UNCHANGED <<duration, contactVars, itemVars, todo, phase>>

\* Game::start as all its callers call it, with iForceStop: a game that runs
\* is stopped, then started again, at the time it reads on the clock.
Start(now) ==
  /\ phase = "loop" /\ now \in time .. time + MaxAdvance
  /\ winner' = NoTeam /\ score' = [t \in Team |-> 0]
  /\ StopItems
  /\ isRunning' = TRUE /\ startTime' = now /\ time' = now
  /\ UNCHANGED <<duration, contactVars, todo, phase>>

\* Game::stop, called by an agent.
Stop ==
  /\ phase = "loop"
  /\ StopItems /\ isRunning' = FALSE
  /\ UNCHANGED <<clockVars, winner, score, contactVars, todo, phase>>

SetScore(t, s) ==
  /\ phase = "loop"
  /\ score' = [score EXCEPT ![t] = s]
  /\ UNCHANGED <<clockVars, isRunning, winner, contactVars, itemVars, todo, phase>>

----------------------------------------------------------------------------
(* Contacts *)

\* The test of Item::startCapture: a robot of the owner starts nothing.
StartsCapture(r, i) == owningTeam[i] # TeamOf[r]

\* Game::robotIsInContactWith: the new Contact is made, and starts a capture,
\* before the one it replaces is destroyed, and aborts its own; so a second
\* contact with the same item leaves that item FAILED.
TouchItem(r, i) ==
  /\ phase = "loop"
  /\ contact' = [contact EXCEPT ![r] = i]
  /\ stopTime' = [stopTime EXCEPT ![r] = time + TimeToCapture]
  /\ capturingTeam' = IF StartsCapture(r, i)
                      THEN [capturingTeam EXCEPT ![i] = TeamOf[r]]
                      ELSE capturingTeam
  /\ captureState' = [j \in Item |->
       IF j = contact[r] THEN "FAILED"
       ELSE IF j = i /\ StartsCapture(r, i) THEN "STARTED"
       ELSE captureState[j]]
  /\ UNCHANGED <<clockVars, gameVars, owningTeam, todo, phase>>

\* The entry of a robot disappears from m_contacts.
EraseContact(r) ==
  /\ contact' = [contact EXCEPT ![r] = NoItem]
  /\ stopTime' = [stopTime EXCEPT ![r] = 0]

\* Mutant: the destructor of Contact forgets to abort.
DropSilently(r) ==
  /\ phase = "loop" /\ contact[r] # NoItem
  /\ EraseContact(r)
  /\ UNCHANGED <<clockVars, gameVars, itemVars, todo, phase>>

\* Game::robotDropsContactWith, whatever item it is told; without an entry
\* for the robot nothing happens.
DropContact(r) ==
  /\ phase = "loop" /\ contact[r] # NoItem
  /\ EraseContact(r)
  /\ captureState' = [captureState EXCEPT ![contact[r]] = "FAILED"]
  /\ UNCHANGED <<clockVars, gameVars, owningTeam, capturingTeam, todo, phase>>

----------------------------------------------------------------------------
(* The tick: Game::step, which the main loop calls while a game runs *)

\* Mutant: the tick starts with no contact to visit.
BeginStepBlind ==
  /\ phase = "loop" /\ isRunning
  /\ phase' = "step" /\ todo' = {}
  /\ UNCHANGED <<clockVars, gameVars, contactVars, itemVars>>

BeginStep ==
  /\ phase = "loop" /\ isRunning
  /\ phase' = "step"
  /\ todo' = {r \in Robot : contact[r] # NoItem}
  /\ UNCHANGED <<clockVars, gameVars, contactVars, itemVars>>

ComesFirst(r) == r \in todo /\ \A q \in todo : r <= q

\* The parameter of Team::increaseScore is 16 bits wide, m_score is 32.
Increment == PointsOnCapture % Uint16

ScoreAfterCapture(t) == (score[t] + Increment) % Uint32

\* Mutant: an owner captures its own item again.
ScoresAgain(t, i) ==
  /\ owningTeam' = [owningTeam EXCEPT ![i] = t]
  /\ captureState' = [captureState EXCEPT ![i] = "SUCCEEDED"]
  /\ score' = [score EXCEPT ![t] = ScoreAfterCapture(t)]

\* Team::captureItem, Item::capture and Flag::innerCapture.
CaptureItem(t, i) ==
  IF owningTeam[i] # t
  THEN /\ owningTeam' = [owningTeam EXCEPT ![i] = t]
       /\ captureState' = [captureState EXCEPT ![i] = "SUCCEEDED"]
       /\ score' = [score EXCEPT ![t] = ScoreAfterCapture(t)]
  ELSE UNCHANGED <<owningTeam, captureState, score>>

\* Contact::step: the contact lasts until its stop time has passed, then the
\* item is captured and the entry erased.
StepContact(r) ==
  /\ phase = "step" /\ ComesFirst(r)
  /\ todo' = todo \ {r}
  /\ IF time > stopTime[r]
     THEN CaptureItem(TeamOf[r], contact[r]) /\ EraseContact(r)
     ELSE UNCHANGED <<owningTeam, captureState, score, contactVars>>
  /\ UNCHANGED <<clockVars, isRunning, winner, capturingTeam, phase>>

\* Mutant: a team must exceed the score to win.
WinningTeamsAbove == {t \in Team : score[t] > ScoreToWin}

WinningTeams == {t \in Team : score[t] >= ScoreToWin}

\* Mutant: the game stops only when less than no time is left.
StopBelowZero ==
  /\ phase = "step" /\ todo = {} /\ phase' = "loop"
  /\ winner' = IF \E t \in Team : WinningTeams = {t}
               THEN CHOOSE t \in Team : WinningTeams = {t} ELSE winner
  /\ IF SecondsLeft < 0 \/ WinningTeams # {}
     THEN StopItems /\ isRunning' = FALSE
     ELSE UNCHANGED <<itemVars, isRunning>>
  /\ UNCHANGED <<clockVars, score, contactVars, todo>>

\* Game::stopIfGameIsFinished: out of time, or one winner, or a stalemate.
StopIfGameIsFinished ==
  /\ phase = "step" /\ todo = {} /\ phase' = "loop"
  /\ winner' = IF SecondsLeft > 0 /\ \E t \in Team : WinningTeams = {t}
               THEN CHOOSE t \in Team : WinningTeams = {t} ELSE winner
  /\ IF SecondsLeft <= 0 \/ WinningTeams # {}
     THEN StopItems /\ isRunning' = FALSE
     ELSE UNCHANGED <<itemVars, isRunning>>
  /\ UNCHANGED <<clockVars, score, contactVars, todo>>

----------------------------------------------------------------------------
Agent == \/ \E now \in 0 .. MaxTime : Start(now)
         \/ Stop
         \/ \E d \in Durations : SetDuration(d)
         \/ \E t \in Team, s \in AgentScores : SetScore(t, s)

RobotState == \E r \in Robot : DropContact(r) \/ \E i \in Item : TouchItem(r, i)

Tick == BeginStep \/ (\E r \in Robot : StepContact(r)) \/ StopIfGameIsFinished

Clock == \E now \in 1 .. MaxTime : SetTime(now)

Next == Agent \/ RobotState \/ Tick \/ Clock

Spec == Init /\ [][Next]_vars

\* The main loop ticks at a fixed interval however many messages wait, and a
\* tick runs to its end: Tick is fair.  The clock advances whatever the program
\* does, also when each reading is followed by a tick: SetTime is strongly fair.
\* Nothing is assumed of agents and robots.
FairSpec == Spec /\ WF_vars(Tick) /\ SF_vars(Clock)

----------------------------------------------------------------------------
(* Properties *)

\* What the players are shown of a capture is backed by a contact: an item is
\* STARTED only while a robot of the capturing team, not the owner's, holds a
\* live contact with it.  (Contacts are replaced, dropped and finished in any
\* order by several robots on one item: Contact.cpp, Game.cpp:497-512.)
CaptureUnderWay ==
  \A i \in Item : captureState[i] = "STARTED" =>
    /\ capturingTeam[i] # owningTeam[i]
    /\ \E r \in Robot : contact[r] = i /\ TeamOf[r] = capturingTeam[i]

\* The fields of an item agree across captures, aborts and resets: SUCCEEDED
\* items have an owner, PENDING ones neither an owner nor a capturing team.
ItemCoherent ==
  \A i \in Item :
    /\ captureState[i] = "SUCCEEDED" => owningTeam[i] # NoTeam
    /\ captureState[i] = "PENDING" =>
         owningTeam[i] = NoTeam /\ capturingTeam[i] = NoTeam

\* Nobody owns an item between two games, however the last one ended
\* (Game.cpp:195-209), so a new game starts from neutral items although
\* Start resets none itself when no game runs.
OwnedOnlyInGame == ~isRunning => \A i \in Item : owningTeam[i] = NoTeam

\* Without an agent that sets scores, the tick in which a team reaches the
\* score to win is the last one of the game (Game.cpp:407-442).
GameEndsAtScoreToWin ==
  isRunning /\ phase = "loop" => \A t \in Team : score[t] < ScoreToWin

\* Without an agent that sets scores, a winner is the only team at the score to
\* win and its game is over; a stalemate and a time out name nobody.
WinnerIsAlone == winner # NoTeam => ~isRunning /\ WinningTeams = {winner}

\* Without an agent that sets scores, a team has scored for every item it
\* owns: no start, stop or capture changes owners and scores apart.
ScoreCoversItems ==
  \A t \in Team :
    score[t] >= Increment * Cardinality({i \in Item : owningTeam[i] = t})

\* Without an agent that sets scores, no team goes further past the score to
\* win than one capture for each of its robots: the tick that passes it is the
\* last.  This is why a 32-bit score does not wrap in the middle of a game.
RobotsOf(t) == {r \in Robot : TeamOf[r] = t}
ScoreBounded ==
  \A t \in Team : score[t] < ScoreToWin + Increment * Cardinality(RobotsOf(t))

\* A contact does not stay pending forever in a game: it captures, is dropped
\* or replaced, or the game ends.  (Contacts past the bound of the clock are
\* not considered.)
ContactResolves ==
  \A r \in Robot, s \in 0 .. MaxTime - 1 :
    isRunning /\ contact[r] # NoItem /\ stopTime[r] = s
      ~> ~isRunning \/ contact[r] = NoItem \/ stopTime[r] # s

\* What test_stop_after_game_duration.cpp:145 expects of a game whose duration
\* has elapsed: it stops (unless it is restarted or given more time).
StopsAfterDuration ==
  isRunning /\ ElapsedSeconds >= duration
    ~> ~isRunning \/ ElapsedSeconds < duration

----------------------------------------------------------------------------
(* What the clients are promised: the score board of GameState messages *)

Board == INSTANCE Scoreboard WITH
  playing <- isRunning, owner <- owningTeam, points <- Increment

\* The detailed game implements the score board: a flag changes hands only
\* in a game and always with its points, and a winner is declared only
\* together with the end of the game.
BoardSpec == Board!Spec

=============================================================================
