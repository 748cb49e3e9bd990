------------------------------- MODULE Roster ------------------------------
(***************************************************************************)
(* Who plays with which robot: the maps of Game that name robots, players  *)
(* and registrations, and the handlers that fill them.                     *)
(*                                                                         *)
(* A robot of the game is an object: a slot the configuration or an agent  *)
(* adds under a name, that a real robot takes by Register and a player     *)
(* drives after Hello.  Objects are numbered in the order they are made,   *)
(* 0 is no object.  Once made an object is never destroyed, since its team *)
(* keeps a pointer to it; a removed player is, since only m_players owns   *)
(* it.  Names and ids are numbers that stand for their order as map keys,  *)
(* id k for "robot_k".                                                     *)
(***************************************************************************)
EXTENDS Integers, Sequences, FiniteSets

CONSTANTS
  Name,          \* the names robots may have
  Player,        \* the names players may have
  TempId,        \* the ids real robots make up to register with
  NoPlayer,      \* the robot has no player
  NoName,        \* the temporary id is not registered
  ConfigRobots,  \* the robots of the configuration: names and ids, by id
  MaxObjects     \* bound: how many robots are ever made

ASSUME NameAssumption == Name \subseteq Nat /\ NoName \notin Name
ASSUME PlayerAssumption == NoPlayer \notin Player
ASSUME BoundAssumption == MaxObjects \in Nat
ASSUME ConfigAssumption ==
  /\ ConfigRobots \in Seq([name : Name, id : 0 .. MaxObjects])
  /\ Len(ConfigRobots) <= MaxObjects
  /\ \A i, j \in 1 .. Len(ConfigRobots) : i # j =>
       /\ ConfigRobots[i].name # ConfigRobots[j].name
       /\ ConfigRobots[i].id # ConfigRobots[j].id

Object == 1 .. MaxObjects
Id == 0 .. MaxObjects

VARIABLES
  made,        \* how many objects were made
  idOf,        \* Robot::m_robotId of each object
  hasReal,     \* Robot::m_hasRealRobot of each object
  playerOf,    \* Robot::m_player of each object, a weak pointer
  robots,      \* Game::m_robots, by name
  robotsById,  \* Game::m_robotsById
  players,     \* the names in Game::m_players
  robotOf,     \* Player::m_robot of each player
  registered,  \* Game::m_registeredRobots, the name for each temporary id
  told,        \* the robot ids Registered messages gave to each temporary id
  removed,     \* history: the names whose robot an agent removed
  freed,       \* history: the names whose robot an agent unregistered
  isRunning,   \* Game::m_isRunning
  crashed      \* an exception left Application::run

robotVars == <<made, idOf, robots, robotsById, removed>>
linkVars == <<playerOf, players, robotOf>>
registerVars == <<hasReal, registered, told, freed>>
vars == <<robotVars, linkVars, registerVars, isRunning, crashed>>

TypeOK ==
  /\ made \in 0 .. MaxObjects
  /\ idOf \in [Object -> Id]
  /\ hasReal \in [Object -> BOOLEAN]
  /\ playerOf \in [Object -> Player \cup {NoPlayer}]
  /\ robots \in [Name -> 0 .. made]
  /\ robotsById \in [Id -> 0 .. made]
  /\ players \subseteq Player
  /\ robotOf \in [Player -> 0 .. made]
  /\ \A p \in Player \ players : robotOf[p] = 0
  /\ registered \in [TempId -> Name \cup {NoName}]
  /\ told \in [TempId -> SUBSET Id]
  /\ removed \subseteq Name /\ freed \subseteq Name
  /\ isRunning \in BOOLEAN /\ crashed \in BOOLEAN
  /\ \A o \in Object : o > made => ~hasReal[o] /\ playerOf[o] = NoPlayer
  /\ \A m, n \in Name : robots[m] = robots[n] /\ robots[m] # 0 => m = n

\* Application::initServer adds the robots of the configuration with their ids.
Configured(i) == i \in 1 .. Len(ConfigRobots)

Init ==
  /\ made = Len(ConfigRobots)
  /\ idOf = [o \in Object |-> IF Configured(o) THEN ConfigRobots[o].id ELSE 0]
  /\ hasReal = [o \in Object |-> FALSE]
  /\ playerOf = [o \in Object |-> NoPlayer]
  /\ robots \in [Name -> 0 .. made]
  /\ \A n \in Name, o \in Object :
       robots[n] = o <=> Configured(o) /\ ConfigRobots[o].name = n
  /\ robotsById \in [Id -> 0 .. made]
  /\ \A k \in Id, o \in Object :
       robotsById[k] = o <=> Configured(o) /\ ConfigRobots[o].id = k
  /\ players = {} /\ robotOf = [p \in Player |-> 0]
  /\ registered = [t \in TempId |-> NoName] /\ told = [t \in TempId |-> {}]
  /\ removed = {} /\ freed = {}
  /\ isRunning = FALSE /\ crashed = FALSE

\* The objects in m_robots.
Live == {robots[n] : n \in Name} \ {0}

First(S) == CHOOSE n \in S : \A m \in S : n <= m
Last(S) == CHOOSE n \in S : \A m \in S : m <= n

----------------------------------------------------------------------------
(* Robots and players come and go: the agent's commands *)

\* Mutant: the new id is the one after the robots there are.
NextId == Cardinality(Live)

\* Game::getNewRobotId: the first id no robot of m_robots has.
NewRobotId == First({k \in Id : \A o \in Live : idOf[o] # k})

\* Game::addRobot without an id.  A name in use is refused; an id in
\* m_robotsById is not overwritten.
AddRobot(n) ==
  /\ robots[n] = 0 /\ made < MaxObjects
  /\ made' = made + 1
  /\ idOf' = [idOf EXCEPT ![made + 1] = NewRobotId]
  /\ robots' = [robots EXCEPT ![n] = made + 1]
  /\ robotsById' = IF robotsById[NewRobotId] = 0
                   THEN [robotsById EXCEPT ![NewRobotId] = made + 1]
                   ELSE robotsById
  /\ UNCHANGED <<removed, linkVars, registerVars, isRunning>>

\* Game::removeRobot: m_robotsById and m_registeredRobots keep the robot.
RemoveRobot(n) ==
  /\ robots[n] # 0
  /\ robots' = [robots EXCEPT ![n] = 0]
  /\ removed' = removed \cup {n}
  /\ UNCHANGED <<made, idOf, robotsById, linkVars, registerVars, isRunning>>

\* Game::addPlayer, by an agent.
AddPlayer(p) ==
  /\ players' = players \cup {p}
  /\ UNCHANGED <<robotVars, playerOf, robotOf, registerVars, isRunning>>

\* Game::removePlayer destroys the player: the weak pointers to it expire.
RemovePlayer(p) ==
  /\ p \in players
  /\ players' = players \ {p}
  /\ robotOf' = [robotOf EXCEPT ![p] = 0]
  /\ playerOf' = [o \in Object |-> IF playerOf[o] = p THEN NoPlayer ELSE playerOf[o]]
  /\ UNCHANGED <<robotVars, registerVars, isRunning>>

\* AgentProxy::registerRobot and unregisterRobot.
RegisterRobot(n, real) ==
  /\ robots[n] # 0
  /\ hasReal' = [hasReal EXCEPT ![robots[n]] = real]
  /\ freed' = IF real THEN freed ELSE freed \cup {n}
  /\ UNCHANGED <<robotVars, linkVars, registered, told, isRunning>>

----------------------------------------------------------------------------
(* Messages *)

\* Mutant: a slot is free whether a real robot has it or not.
AnyRobot == {n \in Name : robots[n] # 0}

\* Game::getRobotWithoutRealRobot for a new temporary id.
WithoutReal == {n \in Name : robots[n] # 0 /\ ~hasReal[robots[n]]}

\* Mutant: a robot that registers again takes another slot.
ForgetsRegistration(t) == NoName

\* The lookup in m_registeredRobots.
Registration(t) == registered[t]

\* ProcessRegister: a temporary id seen before gets the robot of that name,
\* whose absence throws; a new one takes the first slot that is free, if any.
Register(t) ==
  LET name == IF Registration(t) # NoName THEN Registration(t) ELSE First(WithoutReal)
  IN  \/ /\ Registration(t) # NoName /\ robots[Registration(t)] = 0
         /\ crashed' = TRUE
         /\ UNCHANGED <<robotVars, linkVars, registerVars, isRunning>>
      \/ /\ Registration(t) = NoName /\ WithoutReal = {}
         /\ UNCHANGED vars
      \/ /\ IF Registration(t) # NoName THEN robots[Registration(t)] # 0
                                        ELSE WithoutReal # {}
         /\ registered' = [registered EXCEPT ![t] = name]
         /\ hasReal' = [hasReal EXCEPT ![robots[name]] = TRUE]
         /\ told' = [told EXCEPT ![t] = @ \cup {idOf[robots[name]]}]
         /\ UNCHANGED <<robotVars, linkVars, freed, isRunning, crashed>>

\* Game::getAvailableRobot looks for a real robot without a player.
Available == {n \in Name : /\ robots[n] # 0 /\ hasReal[robots[n]]
                           /\ playerOf[robots[n]] = NoPlayer}
DrivenBy(p) == {n \in Name : robots[n] # 0 /\ playerOf[robots[n]] = p}

\* Mutant: a player that says Hello again gets another robot.
FirstAvailable(p) == IF Available # {} THEN robots[First(Available)] ELSE 0

\* Game::getRobotForPlayer: the robot the player already drives, else the
\* first one available.
RobotForPlayer(p) ==
  IF DrivenBy(p) # {} THEN robots[Last(DrivenBy(p))]
  ELSE IF Available # {} THEN robots[First(Available)] ELSE 0

\* Mutant: whoever is ready starts the game.
NobodyWaits(robot) == TRUE

\* The test of ProcessHello before it starts the game, after the links.
NobodyWaitsFor(robot) == \A n \in Available : robots[n] = robot

\* ProcessHello: the player is added, gets a robot or Goodbye, and when it is
\* ready and no real robot waits for a player the game starts.
Hello(p, ready) ==
  LET robot == RobotForPlayer(p)
  IN  /\ players' = players \cup {p}
      /\ IF robot # 0
         THEN /\ robotOf' = [robotOf EXCEPT ![p] = robot]
              /\ playerOf' = [playerOf EXCEPT ![robot] = p]
              /\ isRunning' = (isRunning \/ (ready /\ NobodyWaitsFor(robot)))
         ELSE UNCHANGED <<robotOf, playerOf, isRunning>>
      /\ UNCHANGED <<robotVars, registerVars>>

\* AgentProxy::startGame asks for nothing.
StartGame ==
  /\ isRunning' = TRUE
  /\ UNCHANGED <<robotVars, linkVars, registerVars>>

\* The game ends or is stopped: FlagCapture says when.
StopGame ==
  /\ isRunning /\ isRunning' = FALSE
  /\ UNCHANGED <<robotVars, linkVars, registerVars>>

----------------------------------------------------------------------------
Agent ==
  \/ \E n \in Name : AddRobot(n) \/ RemoveRobot(n)
  \/ \E n \in Name, real \in BOOLEAN : RegisterRobot(n, real)
  \/ \E p \in Player : AddPlayer(p) \/ RemovePlayer(p)

Next ==
  /\ ~crashed
  /\ \/ (Agent \/ StartGame \/ StopGame \/ \E p \in Player, ready \in BOOLEAN : Hello(p, ready))
        /\ UNCHANGED crashed
     \/ \E t \in TempId : Register(t)

Spec == Init /\ [][Next]_vars

----------------------------------------------------------------------------
(* Properties *)

\* Whatever agents add and remove, a player and the robot it drives know each
\* other: the robot of a player has that player, and a robot of the game that
\* has a player is the only one that player drives.  (The two weak pointers
\* are set by ProcessHello.cpp:58-59 and expire on their own, Player.hpp:31,
\* Robot.hpp:88.)
LinkSymmetric ==
  /\ \A p \in players : robotOf[p] # 0 => playerOf[robotOf[p]] = p
  /\ \A o \in Live : playerOf[o] # NoPlayer =>
       playerOf[o] \in players /\ robotOf[playerOf[o]] = o

\* Two robots of the game never have the same id, with ids from the
\* configuration and ids the game makes mixed in any order (Game.cpp:444-465).
IdsDistinct == \A a, b \in Live : idOf[a] = idOf[b] => a = b

\* Of "same as #m_robots except that the key is the ID instead of the name"
\* (Game.hpp:196) the code keeps this, whatever agents do: a message with the id
\* of a robot of the game reaches that robot, unless it reaches one that was
\* removed and had that id before (Game.cpp:259-311).
Gone == (1 .. made) \ Live
ByIdUnlessReused ==
  \A o \in Live : LET b == robotsById[idOf[o]] IN
    b # o => b \in Gone /\ idOf[b] = idOf[o]

\* "In case they send the same value again to send back the same information
\* the following times" (Game.hpp:202-204): however often a temporary id is
\* registered, and whatever agents do to other robots or to its registration
\* in between, it is told one robot id, until its own robot is removed.
SameInformation ==
  \A t \in TempId : registered[t] \notin removed => \A j, k \in told[t] : j = k

\* The same promise: the following Register is answered at all, unless its
\* robot was removed.
RegisterAnswered == crashed => \E t \in TempId : registered[t] \in removed

\* Two real robots never share a slot of the game: different temporary ids
\* are given different robots, unless an agent took that robot back.
SlotsNotShared ==
  \A t, u \in TempId :
    /\ registered[t] \notin removed \cup freed \cup {NoName}
    /\ registered[t] = registered[u]
    => t = u

\* When Hello starts the game, every real robot of the game is driven by a
\* player of its own, whoever came, left, registered or was removed before
\* (ProcessHello.cpp:89-99).
HelloStarts ==
  /\ ~isRunning /\ isRunning'
  /\ \E p \in Player, ready \in BOOLEAN : Hello(p, ready)
GameStartsDriven ==
  [][HelloStarts =>
       \A o \in Live' : hasReal'[o] => \E p \in players' : robotOf'[p] = o]_vars

----------------------------------------------------------------------------
(* What real robots and players are promised *)

Taken == {o \in Live : hasReal[o]}

\* The robot a temporary id may call its own: no agent took it back.
Owned == [t \in TempId |-> IF registered[t] \in removed \cup freed \cup {NoName}
                           THEN 0 ELSE robots[registered[t]]]

\* The robot of the game that a player drives.
Driven == [p \in Player |-> IF robotOf[p] \in Live THEN robotOf[p] ELSE 0]

Registrar == INSTANCE Registry WITH
  Robot <- Object, Nothing <- 0,
  inGame <- Live, taken <- Taken, owned <- Owned, driven <- Driven

\* The maps of the game implement the register: no Register or Hello, repeated
\* or late, moves a real robot or a player from one robot to another or gives
\* it one that somebody has, and only an agent takes one away
\* (ProcessRegister.cpp:44-58, ProcessHello.cpp:55-89, Game.cpp:259-390).
RegistrySpec == Registrar!Spec

=============================================================================
