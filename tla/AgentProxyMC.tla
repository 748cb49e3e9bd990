---------------------------- MODULE AgentProxyMC ---------------------------
EXTENDS AgentProxy, TLC

Quoted == <<"\"R", "two\"">>
MCOpening == {"\"R", "\"T\""}
MCClosing == {"two\"", "\"T\""}
MCNumber == ("0" :> 0 @@ "7" :> 7)

\* Teams and robots, also with words missing, wrong, too many or quoted alone.
Teams ==
  {<<"add", "team", "T">>, <<"add", "team", "T", "T">>, <<"remove", "team", "T">>,
   <<"remove", "team", "\"T\"", "T">>, <<"set", "team", "T", "score", "none">>}
Robots ==
  UNION {{<<"add", "robot">> \o n \o <<"T">>, <<"remove", "robot">> \o n} :
           n \in {<<"R">>, Quoted}}
  \cup {<<"add", "robot", "R">>, <<"add", "robot", "R", "T", "T">>}

\* What is set of one robot.
Fields ==
  {<<"add", "team", "T">>, <<"add", "robot", "R", "T">>, <<"remove", "robot", "R">>,
   <<"register", "robot", "R">>, <<"unregister", "robot", "R">>,
   <<"register", "team", "T">>, <<"set", "robot", "R", "video_url", "here">>,
   <<"set", "robot", "R", "video_url">>, <<"set", "robot", "R", "id", "7">>}
RobotViews ==
  {<<"list", "robot">>, <<"list", "robot", "R">>, <<"list">>, <<"view", "team", "T">>,
   <<"view", "robot", "R">>, <<"get", "robot", "R">>, <<"get", "robot">> \o Quoted,
   <<"get", "robot", "R", "video_url">>, <<"get", "team", "T", "score", "more">>,
   <<"get", "team", "T">>}

\* Players, the game with a team to play it, and the application.
Others ==
  {<<"add", "team", "T">>, <<"set", "team", "T", "score", "7">>,
   <<"add", "player", "P">>, <<"add", "player">>, <<"remove", "player", "P">>,
   <<"remove", "player", "P", "P">>, <<"set", "player", "P", "address", "here">>,
   <<"set", "player", "P", "address">>, <<"set", "game", "duration", "7">>,
   <<"set", "game", "duration">>, <<"set", "game", "duration", "long">>,
   <<"set", "game", "time", "7">>, <<"start", "game">>, <<"start", "game", "now">>,
   <<"start">>, <<"stop", "game">>, <<"stop", "robot">>, <<"stop", "application">>,
   <<"ping">>, <<"quit">>, <<"json">>}
OtherViews ==
  {<<"list", "flag">>, <<"get", "game", "time">>, <<"get", "game", "score">>,
   <<"get", "flag">>, <<"get", "player", "P">>, <<"get", "player", "P", "name">>}

\* A game that a Hello can start again, since it has a robot to drive.
Starts ==
  {<<"add", "team", "T">>, <<"add", "robot", "R", "T">>, <<"set", "team", "T", "score", "7">>,
   <<"start", "game">>, <<"stop", "game">>, <<"get", "team", "T">>}

InJson(commands) == {<<"json">> \o c : c \in commands}

MCSessions ==
  {Teams \cup Robots \cup RobotViews
     \cup InJson(RobotViews \cup {<<"remove", "robot", "R">>}),
   Fields, Starts,
   Others \cup OtherViews
     \cup InJson(OtherViews \cup {<<"stop", "game">>, <<"json", "ping">>})}

=============================================================================
