# A verification project for the Orwell game server

The repository is a C++ server for a game between robots. Players drive robots
through it, robots report the flags they stand on, agents (a text console)
change teams, robots and the game, and the server decides who captures what and
who wins. This directory holds TLA+ modules translated from its source, the TLC
configurations that check them on small instances, and proofs checked by TLAPS
for every value of the constants. `PROJECT.json` maps every definition to the
lines it stands for and every hazard of the code to the properties about it.

    tlc -workers 2 -config FlagCapture_items.cfg FlagCaptureMC.tla
    tlapm FlagCaptureProofs.tla

Paths below are relative to the repository: `Game.cpp` is
`src/orwell/game/Game.cpp`, `Application.cpp` is `src/orwell/Application.cpp`.

## 1. Inventory

The program forks: the father runs the main loop of `Server`, the child the
discovery loop of `BroadcastServer`. Within the father there is one thread. All
concurrency is therefore between (a) the two processes, (b) a signal handler
and the code it interrupts, and (c) the orders in which messages of robots,
players and agents arrive between two ticks.

| Component | State it keeps | Operations | Talks to |
| --- | --- | --- | --- |
| Game: capture and score (`Game`, `Contact`, `Item`, `Flag`, `Team`, `Ruleset`) | running, time, start, duration, winner; contacts by robot; owner, capturing team and state of each item; scores | start, stop, setTime, setDuration, step, robotIsInContactWith, robotDropsContactWith, setScore | told by ProcessRobotState, AgentProxy and the tick |
| Game: robots, players, registrations | m_robots by name, m_robotsById, m_players, m_registeredRobots, two weak links between player and robot | addRobot, removeRobot, addPlayer, removePlayer, Register, Hello | ProcessRegister, ProcessHello, AgentProxy, the configuration |
| FlagDetector and sensors | state, last item; the robot's contact | setColour, lookForRfid | Game's contacts |
| Server: the main loop | the time of the last tic, the permutation of its channels, the sockets | loop, loopUntilOneMessageIsProcessed, feedAgentProxy | handlers, Game::step, AgentProxy |
| Application: life | state, server, child's pid; in the child the broadcast server | run, stop, clean, the signal handler | both loops |
| Application: parameters and ports | parameters from four sources; available and taken ports | ReadParameters, initServer, popPort | Game, Item registry |
| Item registry | items by colour and by tag | CreateItem | the configuration, the detector |
| AgentProxy: commands | output mode | step and one operation per command | Game, Application |
| AgentProxy: views | none | list, view, get | Game, read only |
| BroadcastServer: discovery | the socket, a flag, the buffer of datagrams | runBroadcastReceiver, stop | the child's Application |
| Messages forwarded (Input, Ping, Pong, Timer) | none | execute | the sockets |
| Sockets and urls | a ZeroMQ socket | send, receive | ZeroMQ |
| Clock and TimeBound | a countdown nobody else uses | tic | none |
| Robot video, values, logging | processes, immutable values, a log | | the operating system |

What makes each of them correct, and what makes it hard:

* **Capture and score.** Several robots touch, leave and hold the same items
  while ticks walk and erase the map of contacts, agents start, stop and score,
  and the clock jumps. What players are shown of a capture must be backed by a
  contact; owners, scores, winner and the end of the game must agree; a contact
  must not be forgotten. Points are cut to 16 bits and the seconds left are an
  unsigned difference.
* **Robots and players.** Four maps and two weak pointers are kept apart by
  code that updates some of them. Links must be symmetric, ids distinct, a
  repeated Register must give the same answer, two real robots must not share a
  slot, and the game must start with the Hello of the last player.
* **Detector.** Colour readings are noisy. The detector must know where the
  robot is, begin one contact a visit and end it with the visit.
* **Main loop.** One thread, three sockets, a tick: nothing may starve, a
  message must reach the handler of its type, and the ticks must come often
  enough for the game's clock.
* **Discovery.** One buffer holds one datagram after another: each must be
  answered by what it says itself.
* **Life.** Signals come at any instruction of either process: nobody may hang,
  be left behind, or call a deleted server. Either process may fail on its way.
* **Parameters.** Four sources with four ideas of a number: the strongest must
  win, and what is accepted must be consistent.
* **Commands.** Words may be missing, wrong or too many: what is refused must
  have done nothing, and a repetition must do nothing more, except that a
  "start game" starts anew.

## 2. Modules, and how they correspond to the code

| Module | Models | Its abstraction |
| --- | --- | --- |
| `FlagCapture` | the game during play | one variable per field; a handler is one step, a tick is one step per contact in the order of the map; 16-, 32- and 64-bit arithmetic with the widths as constants |
| `Scoreboard` | abstract: what GameState messages promise of owners, scores and winner | implemented by `FlagCapture` (`BoardSpec`) |
| `Roster` | robots, players, temporary ids, Register and Hello, the agents' commands about them | robots are objects, as the shared pointers are; ids are numbers; `told`, `removed` and `freed` are histories of answers and commands |
| `Registry` | abstract: who has which robot, what Register and Hello promise real robots and players | implemented by `Roster` (`RegistrySpec`) |
| `FlagDetector` | the detector's state machine, the walk of the robot, RFID tags | one robot; places are colours |
| `Visits` | abstract: one contact a visit | implemented by `FlagDetector` (`VisitSpec`) |
| `Wire` | joining a message's fields and splitting it (`Socket`) | pure operators on sequences of characters |
| `ServerLoop` | the loop, its two channels, ticks and the agent's socket | handlers are a duration, and answer or not by the type their text splits to (`Wire`); ZeroMQ's queues are external |
| `ServerWaits` | `ServerLoop` with histories of how long a command, a client and one message of the puller have waited | a wait begins at the step of the loop after which the peer is there, and ends when its handler is called |
| `GameServer` | the loop playing the game: `ServerLoop` and `FlagCapture` in one state, on one clock, and the GameState the tick sends | a step of the loop is taken together with what its handler does to the game; which robot and which message is left open |
| `Discovery` | the datagram, what `atoi` finds in the buffer, the answer | bytes are numbers; pure operators |
| `Lifecycle` | father and child, signals, stop, clean; the child's buffer and answers (`Discovery`) | one step per statement that a signal can separate; a bind that fails, an item that is none and an exception end the father at once, wherever in making its server or in an iteration |
| `Configuration` | ReadParameters, the consistency check, initServer, popPort, CreateItem | files are what their parsers make of them; `MaxPort` stands for 65535 |
| `AgentProxy` | step, the parsing of commands and names, every command, which views answer | words are strings, names sequences of words; replies are kinds; between commands the game goes on as far as a command may reset it: scores, winner, items, time |

Modules ending in `MC` give instances for TLC, those ending in `Proofs` hold
the theorems. The modules meet where the code does. `GameServer` composes
`ServerLoop` and `FlagCapture` by instances whose variables are its own: the
tick of one is the tick of the other, the time a handler takes is the time the
game's clock goes on, and the ticks `ServerLoop` guarantees (`TickOnTime`) are
what makes `Tick` of `FlagCapture` fair and the last second of a game seen. The
end of a contact in `FlagDetector` is `DropContact` of `FlagCapture`; the robots of
`Configuration` are the `ConfigRobots` of `Roster`; what a command of
`AgentProxy` does to contacts and items is `Start`, `Stop` and `SetScore` of
`FlagCapture`, what it does to ids is in `Roster`, and "stop application" is
`StopByAgent` of `Lifecycle`.

Points at which the model follows the code against a first reading of it:

* a contact that replaces another on the same item starts its capture before
  the old one is destroyed and aborts it (`TouchItem`);
* contacts survive the end of a game, so the first tick of the next may capture;
* `popPort` is called, and the port gone, before `addRobot` refuses the robot;
  the two calls are arguments of one call and may be evaluated in either order;
* a robot stays in its team's list, in `m_robotsById` and `m_registeredRobots`
  when it is removed;
* a ZMQ_REP socket that owes an answer refuses to receive, and
  `Socket::receiveString` turns that into "no message";
* `Server::loop` raises its flag after the state became RUNNING;
* `exit` in the child runs `~Application` and with it `clean`, also when the
  child could not join the multicast group and is still RUNNING;
* `Game::start(true)` stops a running game first, so that its items are reset
  with the scores, the winner and the start time; `Application::stop` stops the
  game too, once;
* the tick sends GameState after the step that may have stopped the game, and
  not again before the next game: that one message names the winner;
* `Game::start` reads the clock itself, later than the loop's `setTime`.

## 3. Runs

Every run checks deadlock, except `rs_links` where a crash ends the program.
The type invariant of every module is proved for all instances (section 4), so
the runs spend their properties on the rest.

| Run | Asks | Bounds, and why they are enough |
| --- | --- | --- |
| `fc_items` | is a capture shown backed by a contact, does nobody own an item between games, is every contact resolved | three robots of two teams and one flag: two of a team and an opponent is the smallest crowd in which replacing, dropping and aborting meet; a clock of three half seconds |
| `fc_scores` | do the score, the winner and the owners agree, does the game end in the tick that reaches the score, is the score board implemented | two robots, two flags, two durations, points truncated by a 2-bit `Uint16` |
| `fc_duration` (violation) | does a game stop after its duration, as `test_stop_after_game_duration.cpp:145` expects | no: a last second no tick falls into wraps around and the game never ends |
| `gs_play` | does the game stop in time when ticks come at least once a second, are captures on time, are clients shown the winner and the seconds that are left, does the loop play `FlagCapture` and play it fairly | one client, one robot and one flag, an agent; a second is four units of time, a tic two, a message or a command one; durations of 0 and 1 second and 7 units of clock, so that a game that starts late still passes its end. 400 020 states |
| `rs_links` | do players and robots know each other, are ids distinct, does an id reach its robot, are registrations stable, who starts the game, whatever agents do; does the roster implement the registry: a real robot gets a free one and keeps it until an agent takes it back, a player drives a real one alone | three robots, two players, two temporary ids, a configuration whose id collides with the game's next choice; agents add, remove, register, unregister and start. 1 052 272 states |
| `sl_turns` | are ticks on time, does no channel starve, is a command read within a tic and a message, and a request or a message handled within two turns for each client or each place of the queue | two clients, one of whose texts has a space in its payload and all of whose texts are answered, two pulled messages, a tic of three units: both channels can be full when a peer comes last. 487 103 states |
| `sl_silent` (violation) | "Loop eternaly to process all incoming messages" | no: a Ping on the reply socket blocks it for everybody |
| `lc_stops` | is the child left by no father but one that fails, the deleted server never called, each datagram answered by its own bytes, do signals end what runs, and is a stop final | two signals in each of the three modes; a father that fails when it makes its server or in an iteration, and a child that fails to join; a buffer of three bytes, and datagrams that are empty, shorter, as long and longer, with text after the digits, and negative |
| `lc_accepted` (violation) | "Correctly stop the server" | no: a stop between RUNNING and the loop is overwritten |
| `fd_walk` | does the detector track the robot and implement `Visits` | five flags, two kinds of noise, one RFID tag |
| `cf_start` | does the strongest source win, are accepted ports distinct, are robots' ports, are items told apart | 13 command lines, 61 rc files, 9 game files with collisions, zeros, ports past 15 (`MaxPort`), repeated names and tags; three robots for agents |
| `ag_commands` | do refused commands change nothing, and repetitions nothing that the game did not, do teams list their robots | two teams and two robots are ever made, teams capture once (`MaxScore`); four `Sessions`: the commands on teams and on which robots there are, those on what one robot is told, those that start and stop a game a Hello may start again, and those on players, scores, the game and the application; they share no state but the team, the robot and the game that goes on; with a quoted name, and words missing, wrong and too many. 300 616 states |

Bounds are constants and named as such in the modules (`MaxTime`,
`MaxAdvance`, `MaxObjects`, `MaxSignals`, `MaxPulled`, `MaxHandler`, `MaxTick`,
`MaxTeams`, `MaxRobots`, `MaxScore`). The sizes of the code are constants too (`Uint8`,
`Uint16`, `Uint32`, `Uint64`, `MaxPort`, `Limit`), small enough to be passed.

### What the violations mean

* `fc_duration`: `getSecondsLeft` is a `uint64_t` difference compared with
  `<= 0` (Game.cpp:127-138, 409). Only a tick in the exact second where it is 0
  ends the game. `FlagCapture` leaves open how far the clock goes between two
  ticks; `gs_play` shows the other side: when a tic, a message and a command
  together take no longer than a second (`PaceAssumption`), the second is never
  missed and the game stops. A handler that takes longer, such as a start that
  launches the robots' video processes, is what the violation needs.
* `sl_silent`: the reply socket is left owing an answer (Server.cpp:200).
* `lc_accepted`: `m_mainLoopRunning = true` comes after the state RUNNING
  (Server.cpp:147, BroadcastServer.cpp:84).

### Fairness

* `FlagCapture`: ticks are weakly fair, by `TickOnTime` and since the loop runs;
  the clock is strongly fair, since time passes even if each reading of it is
  followed by a tick. Robots and agents are not assumed to do anything.
* `ServerLoop`, `GameServer`: the loop's thread runs. Of clients, robots and
  agents nothing is assumed. That this is enough for the fairness of
  `FlagCapture` is part of `PlaySpec`, checked by `gs_play`.
* `Lifecycle`: each process takes its steps and handles its signals; an
  iteration of the child ends by its time-out, one of the father, unless it
  throws, once `m_forcedStop` is set. Nobody has to fail, or to send a message, a
  signal or a command.

## 4. Proofs

| Theorem | Says, for every value of the constants | Under |
| --- | --- | --- |
| `FlagCaptureProofs`: `TypeCorrect`, `ItemsCoherent`, `CapturesBacked`, `NeutralBetweenGames` | types, `ItemCoherent`, `CaptureUnderWay`, `OwnedOnlyInGame` | nothing |
| `GamesEnd`, `WinnersAlone`, `ScoresBounded` | `GameEndsAtScoreToWin`, `WinnerIsAlone`, `ScoreBounded` | agents set no scores, the score to win is positive |
| `ScoresCoverItems`, `ImplementsBoard` | `ScoreCoversItems`, `BoardSpec` | the same, and the scores fit in 32 bits (`ScoresFit`) |
| `GameServerProofs`: `PlaysFlagCapture`, `TypeCorrect` | the composition implements `FlagCapture`'s `Spec`; types | nothing |
| `LoopKept`, `CapturesPlayed` | `OvertakenOnce` and `TickOnTime` of the loop, `ItemCoherent`, `CaptureUnderWay` and `OwnedOnlyInGame` of the game, of their composition | nothing |
| `PlaysBoard` | the composition implements the score board | as `ImplementsBoard` |
| `CapturesOnTime`, `WinnersShown` | `CaptureOnTime`, `WinnerShown` | nothing |
| `DurationKept`, `SecondsShown` | `NeverPastDuration`, `LeftShown` | no agent shortens a running game |
| `RosterProofs`: `TypeCorrect`, `LinksCorrect`, `IdsCorrect`, `IdsLead` | types, `LinkSymmetric`, `IdsDistinct`, `ByIdUnlessReused` | nothing |
| `RegistrationsSame`, `RegistersAnswered`, `SlotsCorrect`, `StartsCorrect` | `SameInformation`, `RegisterAnswered`, `SlotsNotShared`, `GameStartsDriven` | nothing |
| `ImplementsRegistry` | `RegistrySpec` | nothing |
| `ServerLoopProofs`: `TypeCorrect`, `TurnsCorrect` | types, `OvertakenOnce` | nothing |
| `TicksOnTime` | `TickOnTime` | a tick is handled within a tic |
| `CommandsInTime` | `CommandWithin` | nothing |
| `MessagesInTime` | `MessageWithin` | a tick is handled within a tic |
| `RequestsInTime` | `RequestWithin` | the same, finitely many clients, and every text is answered |
| `RepliesCorrect` | `ReplierReady` | every text is of a type that is answered |
| `SplitJoin` | what `Socket::send` joins, `Socket::receive` splits into the same fields | destination and type hold no space |
| `LifecycleProofs`: `TypeCorrect`, `ChildNotLeft`, `DeletedNotReached`, `AnswersOwn` | types, `NoOrphan`, `HandlerSparesDeleted`, `OwnAnswer` | nothing |
| `StopIsFinal` | `OnlyOut` | nothing |
| `AddressesRead` | who follows the tags and sizes of an answer finds the addresses of its version, in order, and then the end | addresses shorter than a byte can say |
| `FlagDetectorProofs`: `TypeCorrect`, `DetectorTracks`, `ContactsEnd`, `ImplementsVisits` | types, `Tracks`, `ContactInVisit`, `VisitSpec` | flags, frontier and noise are different colours |
| `ConfigurationProofs`: `TypeCorrect`, `PrecedenceKept`, `PortsAccepted`, `ItemsFound`, `PortsApart` | types, `Precedence`, `AcceptedPortsDistinct`, `ItemsToldApart`, `RobotPortsDistinct` | nothing |
| `AgentProxyProofs`: `TypeCorrect`, `RefusalsChangeNothing`, `RetriesChangeNothing` | types, `RefusedChangesNothing`, `RetryChangesNothing` | nothing |
| `RobotsListed` | `TeamsListRobots` | agents heed the warning about teams (`Careful`) |

"Nothing" is nothing besides the named ASSUMEs of the modules; of those only
the pace of `GameServer` (`PaceAssumption`) is about more than the types and the
distinctness of constants.

The constants' assumptions are the named ASSUMEs of the modules; TLC evaluates
them on every run. Where a theorem has an assumption of its own, the run that
checks the property chooses constants that satisfy it, and dropping it makes
TLC find a counterexample (section 5).

Why the invariants had to be strengthened:

* items: that a capture shown is backed by a contact is only kept if owner,
  capturing team and state agree (`ItemCoherent`), for an abort reads one and
  writes another;
* winners: a team may be over the score to win inside a tick; the invariant
  says so of `phase = "step"` only, and of the teams that captured in it;
* scores: the bound counts, inside a tick, the contacts the tick has yet to
  visit, hence a lemma on the cardinality of a team's robots;
* roster: links are kept because robots are never freed and used again, ids
  because the game's next choice skips those of live robots;
* registrations: what was told is the id of the object registered under the
  temporary id, for as long as the history says no agent removed it; who was
  removed is what remains of the assumption that nobody removes robots;
* ids: an id that leads to another robot leads to an object that was made,
  is no longer in the game and has that id, since ids are never given again
  while their robot is there, and no object is made twice;
* slots: a real robot's slot is marked taken from its first Register until the
  history says an agent took it back;
* turns: a channel that was overtaken once and has a message that can be
  received is the first of the permutation;
* registry: the robots a Register may give are those nobody has only because a
  robot that is registered and was neither removed nor freed is marked real
  (`SlotsTaken`), and a player's robot is the robot's player only by the links'
  symmetry;
* waits: how long a peer may have waited is counted in messages that are still
  handled before it (`Before`, two for each place in its own channel, one less
  when that channel is first) and in what is left of the loop's current turn
  (`LeftOfTurn`); the queue holds one request of each client that waits, so its
  length is their number. For a command it is enough to know where the loop
  stands: it came after the last tick;
* ticks: the time since the last tick is bounded by where the loop stands;
* the composition: `GameServerProofs` instantiates the proofs of `ServerLoop`
  and of `FlagCapture` and adds what ties them: the game's time is the clock's
  minus at most what the loop has spent since it read it, so the loop's bound on
  the time since the last tick is a bound on the game's time since its last
  step; at that step the game had a second left or was stopped. For captures, the
  last tick found each contact short of its stop time, or came before the game
  or the contact;
* winners shown: a game that runs has no winner yet, so that only its last step
  names one, and what follows that step shows it;
* commands: what was last done is still so (`LastDone`): the name is in the map,
  or is not (`Done`, which lasts however the game goes on), or the score or the
  flag has its value (`DoneNow`, as long as it does not); every command
  re-establishes this for itself, and one that is done again finds it;
* a stop: nothing has to be added to the invariant but that there is no child
  before the fork, for the fork is the only step that starts a process;
* discovery: every byte of the buffer is zero whenever a datagram comes, except
  while it is read, so two fillings of it agree;
* life: for each place of each process, what the state and the flags are, for the
  processes that did not fail; and a father that failed is at its last place,
  exited;
* detector: what the state, the last item and the contact are for each place
  the robot may be at;
* parameters: at each stage, which of the four sources a setting has been asked
  of, so that what is set came from the first of them that gives it;
* five ports: of five names in an order of their values, two with one value are
  neighbours, found from the least port onwards;
* ports of robots: a port is available once, is of the range and belongs to
  nobody, the range is walked upwards, and until every robot of the
  configuration has its two, there are two for each that is left;
* items: the sections gone through come before those left, and each tag of one
  gone through has an owner that is not after it.

Left to TLC: liveness (`ContactResolves`, `GameStops`, the fairness of
`PlaySpec`, `LoopStops`, `ShutdownCompletes`), since the prover does not handle
ENABLED under fairness, and facts that need induction over data. For most of it
the part that is safety is proved: a contact is not resolved late and a game
does not run past its duration (`CapturesOnTime`, `DurationKept`), and after a
stop every step is one towards the exit, of which there are six
(`StopIsFinal`). What remains is that the thread, or the process, does take its
next step. That everyone is answered is no liveness property of a passing run:
`CommandWithin`, `RequestWithin` and `MessageWithin` promise it within a time,
and are proved. `RequestsAnswered`, in `sl_silent`, only promises it at last,
and fails when a text is not answered.

Two properties no run checks are proved as well, for other theorems are read
more easily with them: `ScoreCoversItems` follows from the steps `BoardSpec`
allows, and `SlotsNotShared` from those `RegistrySpec` allows.
`RegisterAnswered` and `ReplierReady` are proved only too.

## 5. Limits of the code that the models show

These contradict no document, so no run claims a violation; changing the
constant named reproduces each.

* A robot that was removed and added again gets another id for the same temporary
  id, messages by id may reach the removed robot (`ByIdUnlessReused` says no
  third), and a Register after the removal throws out of the main loop
  (`RegisterAnswered`); an agent that starts the game asks for no drivers. The
  properties of `Roster` name these cases by their histories `removed`, `freed`.
* `AgentShortens = TRUE` in `gs_play`: a duration set below the time the game
  has run makes the seconds left wrap, clients are shown a huge number, and the
  game does not stop (`NeverPastDuration`, `LeftShown`, `GameStops`).
* A game that an agent stops is not shown to the clients: ProcessTimer is
  executed in the tick of a running game only (Server.cpp:134).
* A datagram that fills the buffer with digits makes `atoi` read past it
  (`Versions` leaves the outcome open).
* `TicDuration = 0`, or a tick as long as a tic, in `sl_turns`: messages are
  never read (`MessageWithin`).
* `Careful = FALSE` in `ag_commands`: a team removed under its robots is read
  after it was destroyed (the warning of Game.hpp:99).
* A signal before RUNNING is ignored (`Stop` of `Lifecycle`).
* A father that fails after the fork leaves its child behind: nothing catches
  what the constructor of `Server` throws when a socket is in use, what an
  iteration throws (a Register after the removal of the robot, a bare "json", a
  url without a port), or the crash on an item that is none, and kill and waitpid
  come after. `NoOrphan` without `"server" \notin failed` is violated. The child
  goes on answering until it is signalled itself (`LoopStops`).
* A child that cannot join the multicast group, like a dry run, cleans up while
  RUNNING: a signal between the deletion and the nullptr calls stop on the
  deleted server. `HandlerSparesDeleted` without its exceptions is violated.
* A repeated "start game", or Hello, restarts the running game and loses its
  captures; a repeated "stop game" or "set team" after the game went on acts on
  it again. `RetryChangesNothing` without `~moved` in its last line is violated.
  It says nothing there of "start game" even before the game goes on, since the
  start time then is another reading of the clock, which the model has not.
* A range of video ports that ends at 65535 never ends (`RcAssumption` leaves
  it out), video ports are not compared with the server's, and an item of
  another type than flag, or of a colour in use, crashes the start.
* A ruleset without `score_to_win` gets 0, and the first tick ends the game.
* "json" alone ends the program (`failure = "exception"`), "set game duration"
  without a value stores what the variable held (`Garbage`).
* Agents that set scores (`AgentScores`) put a team at the score to win without
  ending the game until the next tick.

## 6. Not modelled, and why

* The text of replies, urls and logs; encoding of protobuf messages: wording.
  Of GameState, `GameServer` keeps whether the game is played, the seconds left
  and the winner.
* Coming and going of teams during a game: `FlagCapture` has a fixed roster,
  `AgentProxy` has the operations.
* Robot video (`Robot::fillRobotStateMessage`, the external processes) and the
  system proxy: pure input and output.
* `Clock`, `TimeBound`, `Coordinates`, `RGBColour`, `Landmark`: values, or used
  by nothing else.
* The data race of a signal handler that runs `Application::stop` inside a tick
  on the maps the tick walks: the handlers of `Lifecycle` are whole steps.
* `local_time` going backwards.

## 7. Plan

Done, in this order, the most important behaviour first: capture and score with
the score board; roster; main loop; life; detector with its visits; parameters;
commands; the loop playing the game; the wire; discovery; agents' removals in
the roster; the proofs of each; the registry the roster implements; how long
peers wait.

Next:

1. `Roster` in `GameServer` too: messages by robot id, a robot removed between
   its message and its handling, a Hello that starts the game during a tick.
2. Teams that come and go during a game (`removeTeam` under `FlagCapture`).
3. The map limits of the configuration, and `Clock` against a countdown.
