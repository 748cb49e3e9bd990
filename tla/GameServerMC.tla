---------------------------- MODULE GameServerMC ---------------------------
(* A small instance of GameServer. *)
EXTENDS GameServer, TLC

CONSTANTS red, blue, flag, ann

TypeOfHello == <<"Hello">>
TypeOfState == <<"ServerRobotState">>

\* A request and, from a robot that talks to the wrong socket, no request.
Hellos == {<<"ann", " ", "Hello", " ", "ready">>}
Replying == {TypeOfHello}

\* One robot, which scores for its team, and a team without any.
Robots == {1}
Teams == (1 :> red)
=============================================================================
