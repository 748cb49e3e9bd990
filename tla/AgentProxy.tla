----------------------------- MODULE AgentProxy ----------------------------
(***************************************************************************)
(* The text interface of the agents: AgentProxy::step and what it calls,   *)
(* the views List, View and Get, and the operations of Game on teams,      *)
(* robots and players by name.                                             *)
(*                                                                         *)
(* A command is the sequence of its words, read from a stream that is at   *)
(* its end after the last of them.  Words with a quote at their front or   *)
(* back are in Opening and Closing; a name is the sequence of words it is  *)
(* written with.  The text of a reply is only told apart by its kind.      *)
(* Teams and robots are objects, numbered in the order they are made: a    *)
(* robot refers to the object of its team, and a team owns its robots.     *)
(* Ports are in Configuration.  Between commands the game goes on: of what *)
(* FlagCapture has of it, this module keeps what a command may reset.      *)
(***************************************************************************)
EXTENDS Integers, Sequences, FiniteSets

CONSTANTS
  Sessions,         \* sets of commands; agents keep to one of them
  Opening, Closing, \* words that begin, that end with a quote
  Number,           \* the value of the words that are numbers
  Garbage,          \* what an uninitialized uint32_t may hold
  Careful,          \* agents heed the warning of Game.hpp:99
  InitialDuration,
  MaxTeams, MaxRobots, \* bounds: how many are ever made
  MaxScore             \* bound: up to which score teams go on to capture

ASSUME CommandsAssumption == 
  \A c \in UNION Sessions : c \in Seq(STRING) /\ c # <<>>
ASSUME NumberAssumption == Number \in [DOMAIN Number -> Nat] /\ Garbage \subseteq Nat
ASSUME DurationAssumption == InitialDuration \in Nat
ASSUME BoundAssumption == MaxTeams \in Nat /\ MaxRobots \in Nat /\ MaxScore \in Nat

VARIABLES
  session,     \* the commands agents use
  teams,       \* Game::m_teams: the object of each name
  score,       \* Team::m_score of each object
  members,     \* Team::m_robots of each object
  robots,      \* Game::m_robots: the object of each name
  teamOf,      \* Robot::m_team of each object, a reference
  nameOf,      \* Robot::m_name
  registered,  \* the robots with m_hasRealRobot
  urls,        \* the robots with an m_videoUrl
  players,     \* Game::m_players: whether each has an address
  isRunning,   \* Game::m_isRunning
  winner,      \* Game::m_winner: its name, if there is one
  captured,    \* an item is not as it was made
  elapsed,     \* Game::m_time is past m_startTime
  duration,    \* Game::m_gameDuration
  stopped,     \* Application::stop was called
  reply,       \* what step returned for the last command, and the text; NoReply
               \* when the game has gone on since
  last,        \* history: the last command that was dispatched
  moved,       \* history: the game has gone on since that command
  failure      \* what ended the program: "" while it runs

teamVars == <<teams, score, members>>
robotVars == <<robots, teamOf, nameOf, registered, urls>>
playVars == <<isRunning, winner, captured, elapsed>>
gameVars == <<teamVars, robotVars, players, playVars, duration, stopped>>
vars == <<session, gameVars, reply, last, moved, failure>>

NoReply == [ok |-> TRUE, text |-> ""]

TeamObject == 1 .. Len(score)
RobotObject == 1 .. Len(teamOf)

TypeOK ==
  /\ session \in Sessions
  /\ \A n \in DOMAIN teams : n \in Seq(STRING) /\ teams[n] \in TeamObject
  /\ score \in Seq(Nat) /\ Len(score) <= MaxTeams
  /\ members \in [TeamObject -> SUBSET RobotObject]
  /\ \A n \in DOMAIN robots : n \in Seq(STRING) /\ robots[n] \in RobotObject
  /\ teamOf \in Seq(TeamObject) /\ Len(teamOf) <= MaxRobots
  /\ nameOf \in [RobotObject -> Seq(STRING)]
  /\ registered \subseteq RobotObject /\ urls \subseteq RobotObject
  /\ \A n \in DOMAIN players : n \in Seq(STRING) /\ players[n] \in BOOLEAN
  /\ isRunning \in BOOLEAN /\ winner \subseteq Seq(STRING)
  /\ captured \in BOOLEAN /\ elapsed \in BOOLEAN
  /\ duration \in Nat /\ stopped \in BOOLEAN /\ moved \in BOOLEAN
  /\ reply \in [ok : BOOLEAN, text : {"", "OK", "KO", "pong", "null", "error", "view"}]
  /\ last \in session \cup {<<>>}
  /\ failure \in {"", "exception", "dangling"}

Init ==
  /\ session \in Sessions
  /\ teams = <<>> /\ score = <<>> /\ members = <<>>
  /\ robots = <<>> /\ teamOf = <<>> /\ nameOf = <<>>
  /\ registered = {} /\ urls = {}
  /\ players = <<>>
  /\ isRunning = FALSE /\ winner = {} /\ captured = FALSE /\ elapsed = FALSE
  /\ duration = InitialDuration /\ stopped = FALSE
  /\ reply = NoReply /\ last = <<>> /\ moved = FALSE /\ failure = ""

----------------------------------------------------------------------------
(* Words and names *)

\* The next word and what is left; nothing is read at the end.
Word(words) == IF words = <<>> THEN "" ELSE Head(words)
Rest(words) == IF words = <<>> THEN <<>> ELSE Tail(words)

\* ReadName: one word, or from a word that opens a quote on to the next that
\* closes it, however many there are.  A word that does both is not closed by
\* itself.
NameLength(words) ==
  LET closed == {k \in 2 .. Len(words) : words[k] \in Closing}
  IN  IF words = <<>> THEN 0
      ELSE IF Head(words) \notin Opening THEN 1
      ELSE IF closed = {} THEN Len(words)
      ELSE CHOOSE k \in closed : \A j \in closed : k <= j
ReadName(words) == SubSeq(words, 1, NameLength(words))
AfterName(words) == SubSeq(words, NameLength(words) + 1, Len(words))

Put(f, k, v) == [x \in DOMAIN f \cup {k} |-> IF x = k THEN v ELSE f[x]]
Drop(f, k) == [x \in DOMAIN f \ {k} |-> f[x]]

----------------------------------------------------------------------------
(* Operations on the game; they answer OK whether they did something or not *)

\* The teams that were not destroyed.
Standing == {teams[n] : n \in DOMAIN teams}

AddTeam(n) ==
  /\ IF n \in DOMAIN teams THEN UNCHANGED teamVars
     ELSE /\ Len(score) < MaxTeams
          /\ teams' = Put(teams, n, Len(score) + 1)
          /\ score' = Append(score, 0) /\ members' = Append(members, {})
  /\ UNCHANGED <<robotVars, players, playVars, duration, stopped>>

\* "WARNING: we do not check if robots are still in the team" (Game.hpp:99).
RobotsStillIn(n) ==
  n \in DOMAIN teams /\ \E r \in DOMAIN robots : teamOf[robots[r]] = teams[n]

RemoveTeam(n) ==
  /\ Careful => ~RobotsStillIn(n)
  /\ teams' = Drop(teams, n)
  /\ UNCHANGED <<score, members, robotVars, players, playVars, duration, stopped>>

\* The neutral team, and any team with its empty name, has no score to set; a
\* value that is no number throws, which is caught.
SetTeam(n, property, value) ==
  /\ IF n \in DOMAIN teams /\ n # <<>> /\ property = "score" /\ value \in DOMAIN Number
     THEN score' = [score EXCEPT ![teams[n]] = Number[value]]
     ELSE UNCHANGED score
  /\ UNCHANGED <<teams, members, robotVars, players, playVars, duration, stopped>>

\* Mutant: a robot of that name is replaced.
IsNewOrOld(n, team) == team \in DOMAIN teams

IsNewRobot(n, team) == n \notin DOMAIN robots /\ team \in DOMAIN teams

\* Mutant: the team does not get to know the robot.
ForgetMember(team, robot) == members

\* Robot::MakeRobot.
WithMember(team, robot) == [members EXCEPT ![team] = @ \cup {robot}]

AddRobot(n, team) ==
  /\ IF IsNewRobot(n, team)
     THEN /\ Len(teamOf) < MaxRobots
          /\ robots' = Put(robots, n, Len(teamOf) + 1)
          /\ teamOf' = Append(teamOf, teams[team])
          /\ nameOf' = Append(nameOf, n)
          /\ members' = WithMember(teams[team], Len(teamOf) + 1)
     ELSE UNCHANGED <<robots, teamOf, nameOf, members>>
  /\ UNCHANGED <<teams, score, registered, urls, players, playVars, duration, stopped>>

\* The robot's team keeps it.
RemoveRobot(n) ==
  /\ robots' = Drop(robots, n)
  /\ UNCHANGED <<teamVars, teamOf, nameOf, registered, urls,
                 players, playVars, duration, stopped>>

\* Robots that are not there throw, which is caught.
With(set, n, there) ==
  IF n \notin DOMAIN robots THEN set
  ELSE IF there THEN set \cup {robots[n]} ELSE set \ {robots[n]}

RegisterRobot(n, real) ==
  /\ registered' = With(registered, n, real)
  /\ UNCHANGED <<teamVars, robots, teamOf, nameOf, urls,
                 players, playVars, duration, stopped>>

SetRobot(n, property, value) ==
  /\ urls' = IF property = "video_url" THEN With(urls, n, value # "") ELSE urls
  /\ UNCHANGED <<teamVars, robots, teamOf, nameOf, registered,
                 players, playVars, duration, stopped>>

AddPlayer(n) ==
  /\ players' = IF n \in DOMAIN players THEN players ELSE Put(players, n, FALSE)
  /\ UNCHANGED <<teamVars, robotVars, playVars, duration, stopped>>

RemovePlayer(n) ==
  /\ players' = Drop(players, n)
  /\ UNCHANGED <<teamVars, robotVars, playVars, duration, stopped>>

SetPlayer(n, property, value) ==
  /\ players' = IF n \in DOMAIN players /\ property = "address"
                THEN Put(players, n, value # "") ELSE players
  /\ UNCHANGED <<teamVars, robotVars, playVars, duration, stopped>>

\* Game::start(true).  A game that runs is stopped, which resets its items, and
\* begins anew: without a winner, with all scores at zero and all of its time.
StartGame ==
  /\ isRunning' = TRUE /\ winner' = {} /\ elapsed' = FALSE
  /\ captured' = (captured /\ ~isRunning)
  /\ score' = [t \in TeamObject |-> IF t \in Standing THEN 0 ELSE score[t]]
  /\ UNCHANGED <<teams, members, robotVars, players, duration, stopped>>

\* Game::stop resets the items of a game that runs; scores, winner and time stay.
StopGame ==
  /\ isRunning' = FALSE /\ captured' = (captured /\ ~isRunning)
  /\ UNCHANGED <<teamVars, robotVars, players, winner, elapsed, duration, stopped>>

\* A value that is not there leaves the variable it is read to uninitialized.
SetGame(property, value) ==
  /\ IF property # "duration" THEN UNCHANGED duration
     ELSE IF value = "" THEN duration' \in Garbage
     ELSE duration' = Number[value]
  /\ UNCHANGED <<teamVars, robotVars, players, playVars, stopped>>

\* Application::stop: the first one stops the game too.
StopApplication ==
  /\ stopped' = TRUE
  /\ IF stopped THEN UNCHANGED playVars
     ELSE /\ isRunning' = FALSE /\ captured' = (captured /\ ~isRunning)
          /\ UNCHANGED <<winner, elapsed>>
  /\ UNCHANGED <<teamVars, robotVars, players, duration>>

----------------------------------------------------------------------------
(* Between commands *)

\* A tick or a message of a game that runs: its time passes, a team captures, or
\* the game ends, maybe with a winner.  A Hello that is given a robot may start it,
\* again if it runs.  What messages change of players and robots is in Roster.
Play ==
  /\ \/ /\ isRunning /\ elapsed' = TRUE
        /\ UNCHANGED <<teamVars, isRunning, winner, captured>>
     \/ /\ isRunning /\ captured' = TRUE
        /\ \E t \in Standing : score[t] < MaxScore /\ score' = [score EXCEPT ![t] = @ + 1]
        /\ UNCHANGED <<teams, members, isRunning, winner, elapsed>>
     \/ /\ isRunning /\ isRunning' = FALSE /\ captured' = FALSE
        /\ winner' \in {winner} \cup {{n} : n \in DOMAIN teams}
        /\ UNCHANGED <<teamVars, elapsed>>
     \/ DOMAIN robots # {} /\ StartGame
  /\ moved' = TRUE /\ reply' = NoReply
  /\ UNCHANGED <<session, robotVars, players, duration, stopped, last, failure>>

----------------------------------------------------------------------------
(* Parsing: a command in text mode, its first two words and what follows *)

Named(verb) == IF verb \in {"register", "unregister"} THEN {"robot"}
               ELSE {"team", "robot", "player"}
TakesName(verb, object) ==
  /\ verb \in {"add", "remove", "register", "unregister"} /\ object \in Named(verb)
  /\ ~(verb = "add" /\ object = "robot")

\* Dispatch: the stream must be at its end.
AtEnd(rest) == rest = <<>>

\* The commands whose operation step calls; a number that is none leaves the
\* stream before its end.
Dispatched(verb, object, args) ==
  \/ verb = "start" /\ object = "game" /\ AtEnd(args)
  \/ verb = "stop" /\ object \in {"game", "application"} /\ AtEnd(args)
  \/ TakesName(verb, object) /\ AtEnd(AfterName(args))
  \/ verb = "add" /\ object = "robot" /\ AtEnd(AfterName(AfterName(args)))
  \/ /\ verb = "set" /\ object = "game" /\ AtEnd(Rest(Rest(args)))
     /\ Word(Rest(args)) \in DOMAIN Number \cup {""}
  \/ /\ verb = "set" /\ object \in {"team", "robot", "player"}
     /\ AtEnd(Rest(Rest(AfterName(args))))

\* Mutant: start looks at what follows only after it called the operation.
PerformsEarly(verb, object, args) ==
  Dispatched(verb, object, args) \/ (verb = "start" /\ object = "game")

\* Dispatch and DispatchArgument call the operation after the test.
Performs(verb, object, args) == Dispatched(verb, object, args)

Perform(verb, object, args) ==
  LET name == ReadName(args)
      property == Word(IF object = "game" THEN args ELSE AfterName(args))
      value == Word(Rest(IF object = "game" THEN args ELSE AfterName(args)))
  IN  \/ verb = "start" /\ StartGame
      \/ verb = "stop" /\ object = "game" /\ StopGame
      \/ verb = "stop" /\ object = "application" /\ StopApplication
      \/ verb = "add" /\ object = "team" /\ AddTeam(name)
      \/ verb = "add" /\ object = "robot" /\ AddRobot(name, ReadName(AfterName(args)))
      \/ verb = "add" /\ object = "player" /\ AddPlayer(name)
      \/ verb = "remove" /\ object = "team" /\ RemoveTeam(name)
      \/ verb = "remove" /\ object = "robot" /\ RemoveRobot(name)
      \/ verb = "remove" /\ object = "player" /\ RemovePlayer(name)
      \/ verb \in {"register", "unregister"} /\ RegisterRobot(name, verb = "register")
      \/ verb = "set" /\ object = "team" /\ SetTeam(name, property, value)
      \/ verb = "set" /\ object = "robot" /\ SetRobot(name, property, value)
      \/ verb = "set" /\ object = "player" /\ SetPlayer(name, property, value)
      \/ verb = "set" /\ object = "game" /\ SetGame(property, value)

----------------------------------------------------------------------------
(* Views: each gives what step returns and the kind of the text *)

Success == [ok |-> TRUE, text |-> "view"]
Failure(text) == [ok |-> FALSE, text |-> text]
\* A reply that failed before JSON is laid out into it stays failed.
Unknown(mode) == Failure(IF mode = "json" THEN "null" ELSE "KO")

\* What each of them lists is there, be it empty.
Listed == {"player", "robot", "team", "flag"}

List(words) ==
  IF Rest(words) = <<>> /\ Word(words) \in Listed THEN Success ELSE Failure("error")

\* The neutral team is laid out as null in JSON.
ViewTeam(mode, name) ==
  IF mode = "json" \/ name \in DOMAIN teams THEN Success ELSE Failure("error")

View(mode, words) ==
  IF Word(words) = "team" /\ AfterName(Rest(words)) = <<>>
  THEN ViewTeam(mode, ReadName(Rest(words))) ELSE Failure("error")

\* A property is the words from it on; what follows it is not looked at.
Asks(property, known) == Word(property) \in known

GetRobot(mode, name, property) ==
  IF name \notin DOMAIN robots THEN Failure("")
  ELSE IF \/ property = <<>> \/ Asks(property, {"id"})
          \/ mode = "text" /\ Asks(property, {"video_url", "video_port", "video_command_port"})
  THEN Success ELSE Unknown(mode)

\* A team has to be asked for a property.
GetTeam(mode, name, property) ==
  IF name \notin DOMAIN teams \/ name = <<>> THEN Failure("")
  ELSE IF Asks(property, {"score"}) THEN Success ELSE Unknown(mode)

GetPlayer(mode, name, property) ==
  IF name \notin DOMAIN players THEN Failure("")
  ELSE IF property = <<>> \/ Asks(property, {"address"}) THEN Success ELSE Unknown(mode)

GetGame(mode, property) ==
  IF mode = "json" \/ property = <<>> \/ Asks(property, {"time", "running", "duration"})
  THEN Success ELSE Unknown(mode)

Get(mode, words) ==
  LET name == ReadName(Rest(words))
      property == AfterName(Rest(words))
  IN CASE Word(words) = "game"   -> GetGame(mode, Rest(words))
       [] Word(words) = "robot"  -> GetRobot(mode, name, property)
       [] Word(words) = "team"   -> GetTeam(mode, name, property)
       [] Word(words) = "player" -> GetPlayer(mode, name, property)
       [] OTHER -> Failure(IF mode = "json" THEN "" ELSE "error")

\* The robots whose JSON is laid out, with the name of their team.
TeamsRead(mode, words) ==
  IF mode = "text" THEN {}
  ELSE IF words = <<"list", "robot">> THEN {teamOf[robots[r]] : r \in DOMAIN robots}
  ELSE IF /\ Word(words) = "get" /\ Word(Rest(words)) = "robot"
          /\ ReadName(Rest(Rest(words))) \in DOMAIN robots
          /\ AfterName(Rest(Rest(words))) = <<>>
       THEN {teamOf[robots[ReadName(Rest(Rest(words)))]]}
  ELSE {}

ViewCommand(mode, words) ==
  /\ \/ /\ UNCHANGED failure
        /\ reply' = CASE Head(words) = "list" -> List(Tail(words))
                      [] Head(words) = "view" -> View(mode, Tail(words))
                      [] Head(words) = "get" -> Get(mode, Tail(words))
     \/ /\ ~(TeamsRead(mode, words) \subseteq Standing)
        /\ failure' = "dangling" /\ UNCHANGED reply
  /\ UNCHANGED <<gameVars, last, moved>>

----------------------------------------------------------------------------
(* AgentProxy::step *)

StepIn(mode, words) ==
  IF Head(words) \in {"list", "view", "get"} THEN ViewCommand(mode, words)
  ELSE IF mode = "json" \/ Head(words) = "ping"
       THEN /\ reply' = IF mode = "json" THEN Unknown(mode)
                        ELSE [ok |-> TRUE, text |-> "pong"]
            /\ UNCHANGED <<gameVars, failure, last, moved>>
  ELSE LET object == Word(Tail(words))
           args == Rest(Tail(words))
       IN  /\ IF Performs(Head(words), object, args)
              THEN Perform(Head(words), object, args) /\ last' = words /\ moved' = FALSE
              ELSE UNCHANGED <<gameVars, last, moved>>
           /\ reply' = IF Dispatched(Head(words), object, args)
                       THEN [ok |-> TRUE, text |-> "OK"] ELSE Unknown(mode)
           /\ UNCHANGED failure

\* The sentinel of the output mode is set back when the inner step returns:
\* the mode is no state between commands.  "json" alone makes substr throw.
Step(c) ==
  IF Head(c) # "json" THEN StepIn("text", c)
  ELSE IF Tail(c) # <<>> THEN StepIn("json", Tail(c))
  ELSE failure' = "exception" /\ UNCHANGED <<gameVars, reply, last, moved>>

\* The program has ended.
Ended == failure # "" /\ UNCHANGED vars

Next ==
  \/ failure = "" /\ (\E c \in session : Step(c)) /\ UNCHANGED session
  \/ failure = "" /\ Play
  \/ Ended

Spec == Init /\ [][Next]_vars

----------------------------------------------------------------------------
(* Properties *)

\* A command that is refused, whatever word of it is wrong or too many,
\* changes nothing, and neither does a view or what is asked for in JSON: no
\* operation is called before the whole command was read (AgentProxy.cpp:81).
RefusedChangesNothing ==
  [][reply' # NoReply /\ reply'.text # "OK" => UNCHANGED gameVars]_vars

\* An agent whose answer was lost may say the same again.  The second time makes
\* no team or robot and takes none away, even when the game has gone on since; when
\* it has not, players and what robots are told are left alone too, and so are the
\* scores, the items, the winner and the time, except by "start game", which starts
\* a running game anew, at the clock's new time (Game.cpp:155-193).  Left out are
\* the duration, which may lack its value, and the ports of Configuration.
RetryChangesNothing ==
  [][ last # <<>> /\ last' = last /\ ~moved' =>
        /\ UNCHANGED <<teams, members, robots, teamOf, nameOf, stopped>>
        /\ ~moved => UNCHANGED <<registered, urls, players>>
        /\ ~moved /\ Head(last) # "start" => UNCHANGED <<score, playVars>> ]_vars

\* If agents heed the warning about teams, every robot they can name belongs to
\* a team of the game that lists it, through any adding, removing and adding
\* again under the same names; so no view reads a team that was destroyed.
TeamsListRobots ==
  /\ \A n \in DOMAIN robots :
       /\ teamOf[robots[n]] \in Standing
       /\ robots[n] \in members[teamOf[robots[n]]]
       /\ nameOf[robots[n]] = n
  /\ failure # "dangling"

=============================================================================
