-------------------------- MODULE AgentProxyProofs -------------------------
(***************************************************************************)
(* Proofs about AgentProxy, for any sessions, words and bounds.            *)
(***************************************************************************)
EXTENDS AgentProxy, WellFoundedInduction, TLAPS

----------------------------------------------------------------------------
(* Words and names *)

Words == Seq(STRING)

\* A set of natural numbers has a least one.
LEMMA Least ==
  ASSUME NEW S, S \subseteq Nat, S # {}
  PROVE  \E k \in S : \A j \in S : k <= j
<1>1. PICK k \in S : \A j \in S : <<j, k>> \notin OpToRel(<, Nat)
  BY NatLessThanWellFounded, WFMin
<1>2. \A j \in S : ~(j < k)
  BY <1>1 DEF OpToRel
<1>. QED  BY <1>2

LEMMA RestType == ASSUME NEW words \in Words PROVE Rest(words) \in Words
<1>1. words # <<>> => Tail(words) \in Words
  BY DEF Words
<1>. QED  BY <1>1 DEF Rest

\* A name ends where its words do, or before.
LEMMA NameLengthType ==
  ASSUME NEW words \in Words
  PROVE  NameLength(words) \in 0 .. Len(words)
<1> DEFINE closed == {k \in 2 .. Len(words) : words[k] \in Closing}
<1>1. Len(words) \in Nat
  BY DEF Words
<1>2. CASE words = <<>> \/ Head(words) \notin Opening \/ closed = {}
  <2>1. NameLength(words) \in {0, 1, Len(words)}
    BY <1>2 DEF NameLength
  <2>2. words = <<>> => NameLength(words) = 0
    BY DEF NameLength
  <2>3. words # <<>> => Len(words) >= 1
    BY DEF Words
  <2>. QED  BY <1>1, <2>1, <2>2, <2>3
<1>3. CASE ~(words = <<>> \/ Head(words) \notin Opening \/ closed = {})
  <2>1. closed # {} /\ closed \in SUBSET Nat
    BY <1>1, <1>3
  <2>2. \E k \in closed : \A j \in closed : k <= j
    BY <2>1, Least
  <2>3. NameLength(words) = CHOOSE k \in closed : \A j \in closed : k <= j
    BY <1>3 DEF NameLength
  <2>4. NameLength(words) \in closed
    BY <2>2, <2>3
  <2>. QED  BY <1>1, <2>4
<1>. QED  BY <1>2, <1>3

LEMMA NameType ==
  ASSUME NEW words \in Words
  PROVE  ReadName(words) \in Words /\ AfterName(words) \in Words
<1>1. NameLength(words) \in Nat /\ NameLength(words) <= Len(words) /\ Len(words) \in Nat
  BY NameLengthType DEF Words
<1> DEFINE n == NameLength(words)
<1> HIDE DEF n
<1>2. n \in Nat /\ n <= Len(words) /\ Len(words) \in Nat
  BY <1>1 DEF n
<1>3. SubSeq(words, 1, n) \in Words /\ SubSeq(words, n + 1, Len(words)) \in Words
  BY <1>2 DEF Words
<1>. QED  BY <1>3 DEF ReadName, AfterName, n
----------------------------------------------------------------------------
(* The types of the game *)

\* A function on the first numbers is a sequence, and one changed at a place
\* it has still is.
LEMMA IsSequence ==
  ASSUME NEW S, NEW n \in Nat, NEW f \in [1 .. n -> S] PROVE f \in Seq(S) /\ Len(f) = n
<1>1. f \in Seq(S)
  OBVIOUS
<1>2. DOMAIN f = 1 .. Len(f) /\ DOMAIN f = 1 .. n
  BY <1>1
<1>. QED  BY <1>1, <1>2

LEMMA ExceptSequence ==
  ASSUME NEW S, NEW s \in Seq(S), NEW i \in 1 .. Len(s), NEW v \in S,
         NEW t, t = [s EXCEPT ![i] = v]
  PROVE  t \in Seq(S) /\ Len(t) = Len(s)
<1>1. t \in [1 .. Len(s) -> S]
  OBVIOUS
<1>. QED  BY <1>1, Len(score) \in Nat, IsSequence

\* Teams and robots are made one after the other, each with its fields.
TeamType ==
  /\ teams \in [DOMAIN teams -> TeamObject] /\ DOMAIN teams \subseteq Words
  /\ score \in Seq(Nat) /\ Len(score) <= MaxTeams
  /\ members \in Seq(SUBSET RobotObject) /\ Len(members) = Len(score)

RobotType ==
  /\ robots \in [DOMAIN robots -> RobotObject] /\ DOMAIN robots \subseteq Words
  /\ teamOf \in Seq(TeamObject) /\ Len(teamOf) <= MaxRobots
  /\ nameOf \in Seq(Words) /\ Len(nameOf) = Len(teamOf)
  /\ registered \subseteq RobotObject /\ urls \subseteq RobotObject

OtherType ==
  /\ players \in [DOMAIN players -> BOOLEAN] /\ DOMAIN players \subseteq Words
  /\ isRunning \in BOOLEAN /\ winner \subseteq Words
  /\ captured \in BOOLEAN /\ elapsed \in BOOLEAN
  /\ duration \in Nat /\ stopped \in BOOLEAN

GameType == TeamType /\ RobotType /\ OtherType

USE DEF teamVars, robotVars, playVars, TeamObject, RobotObject

LEMMA AddTeamType ==
  ASSUME GameType, NEW n \in Words, AddTeam(n) PROVE GameType'
<1> USE DEF GameType, TeamType, RobotType, OtherType
<1>1. CASE n \in DOMAIN teams
  BY <1>1 DEF AddTeam
<1>2. CASE n \notin DOMAIN teams
  <2>1. /\ teams' = Put(teams, n, Len(score) + 1) /\ Len(score) < MaxTeams
        /\ score' = Append(score, 0) /\ members' = Append(members, {})
        /\ UNCHANGED <<robotVars, players, playVars, duration, stopped>>
    BY <1>2 DEF AddTeam
  <2>2. /\ score' \in Seq(Nat) /\ Len(score') = Len(score) + 1 /\ Len(score') <= MaxTeams
        /\ Len(score) \in Nat
    BY <2>1, BoundAssumption
  <2>3. members' \in Seq(SUBSET RobotObject) /\ Len(members') = Len(members) + 1
    BY <2>1
  <2>4. teams \in [DOMAIN teams -> TeamObject'] /\ Len(score) + 1 \in TeamObject'
    BY <2>1, <2>2
  <2>5. teams' \in [DOMAIN teams' -> TeamObject'] /\ DOMAIN teams' \subseteq Words
    <3>1. DOMAIN teams' = DOMAIN teams \cup {n} /\ teams' \in [DOMAIN teams' -> TeamObject']
      BY <2>1, <2>4 DEF Put
    <3>. QED  BY <3>1
  <2>6. teamOf \in Seq(TeamObject')
    BY <2>2
  <2>. QED  BY <2>1, <2>2, <2>3, <2>5, <2>6
<1>. QED  BY <1>1, <1>2

LEMMA RemoveTeamType ==
  ASSUME GameType, NEW n \in Words, RemoveTeam(n) PROVE GameType'
<1> USE DEF GameType, TeamType, RobotType, OtherType
<1>1. teams' \in [DOMAIN teams' -> TeamObject] /\ DOMAIN teams' \subseteq Words
  <2>1. DOMAIN teams' = DOMAIN teams \ {n} /\ teams' \in [DOMAIN teams' -> TeamObject]
    BY DEF Drop, RemoveTeam
  <2>. QED  BY <2>1
<1>. QED  BY <1>1 DEF RemoveTeam

LEMMA SetTeamType ==
  ASSUME GameType, NEW n, NEW property, NEW value, SetTeam(n, property, value)
  PROVE  GameType'
<1> USE DEF GameType, TeamType, RobotType, OtherType
<1>1. score' \in Seq(Nat) /\ Len(score') = Len(score)
  <2>1. CASE score' = score
    BY <2>1
  <2>2. ASSUME n \in DOMAIN teams, Number[value] \in Nat,
               score' = [score EXCEPT ![teams[n]] = Number[value]]
        PROVE  score' \in Seq(Nat) /\ Len(score') = Len(score)
    <3>1. teams[n] \in 1 .. Len(score)
      BY <2>2
    <3>. QED  BY <2>2, <3>1, ExceptSequence
  <2>. QED  BY <2>1, <2>2, NumberAssumption DEF SetTeam
<1>. QED  BY <1>1 DEF SetTeam

LEMMA AddRobotType ==
  ASSUME GameType, NEW n \in Words, NEW team, AddRobot(n, team) PROVE GameType'
<1> USE DEF GameType, TeamType, RobotType, OtherType
<1>1. CASE IsNewRobot(n, team)
  <2> DEFINE r == Len(teamOf) + 1
             t == teams[team]
  <2>1. /\ r <= MaxRobots /\ robots' = Put(robots, n, r)
        /\ teamOf' = Append(teamOf, t) /\ nameOf' = Append(nameOf, n)
        /\ members' = [members EXCEPT ![t] = @ \cup {r}]
        /\ UNCHANGED <<teams, score, registered, urls, players, playVars, duration, stopped>>
    BY <1>1, BoundAssumption DEF AddRobot, WithMember
  <2>2. t \in TeamObject
    BY <1>1 DEF IsNewRobot
  <2>3. /\ teamOf' \in Seq(TeamObject) /\ nameOf' \in Seq(Words)
        /\ Len(teamOf') = Len(teamOf) + 1 /\ Len(nameOf') = Len(nameOf) + 1
        /\ Len(teamOf) \in Nat
    BY <2>1, <2>2
  <2>4. RobotObject \subseteq RobotObject' /\ r \in RobotObject'
    BY <2>3
  <2>5. robots' \in [DOMAIN robots' -> RobotObject'] /\ DOMAIN robots' \subseteq Words
    <3>1. robots \in [DOMAIN robots -> RobotObject']
      BY <2>4
    <3>2. DOMAIN robots' = DOMAIN robots \cup {n} /\ robots' \in [DOMAIN robots' -> RobotObject']
      BY <2>1, <2>4, <3>1 DEF Put
    <3>. QED  BY <3>2
  <2>6. members' \in Seq(SUBSET RobotObject') /\ Len(members') = Len(members)
    <3>1. members \in Seq(SUBSET RobotObject') /\ members[t] \in SUBSET RobotObject
      BY <2>2, <2>4
    <3>2. members[t] \cup {r} \in SUBSET RobotObject'
      BY <2>4, <3>1
    <3>. QED  BY <2>1, <2>2, <3>1, <3>2, ExceptSequence
  <2>7. registered' \subseteq RobotObject' /\ urls' \subseteq RobotObject'
    BY <2>1, <2>4
  <2>8. Len(teamOf') <= MaxRobots
    BY <2>1, <2>3
  <2>. QED  BY <2>1, <2>3, <2>5, <2>6, <2>7, <2>8
<1>2. CASE ~IsNewRobot(n, team)
  BY <1>2 DEF AddRobot
<1>. QED  BY <1>1, <1>2

LEMMA RemoveRobotType ==
  ASSUME GameType, NEW n \in Words, RemoveRobot(n) PROVE GameType'
<1> USE DEF GameType, TeamType, RobotType, OtherType
<1>1. robots' \in [DOMAIN robots' -> RobotObject] /\ DOMAIN robots' \subseteq Words
  <2>1. DOMAIN robots' = DOMAIN robots \ {n} /\ robots' \in [DOMAIN robots' -> RobotObject]
    BY DEF Drop, RemoveRobot
  <2>. QED  BY <2>1
<1>. QED  BY <1>1 DEF RemoveRobot

LEMMA WithType ==
  ASSUME GameType, NEW set \in SUBSET RobotObject, NEW n, NEW there
  PROVE  With(set, n, there) \in SUBSET RobotObject
BY DEF With, GameType, RobotType

LEMMA FieldType ==
  ASSUME GameType, NEW n, NEW a, NEW b, RegisterRobot(n, a) \/ SetRobot(n, a, b)
  PROVE  GameType'
<1> USE DEF GameType, TeamType, RobotType, OtherType
<1>1. registered' \subseteq RobotObject /\ urls' \subseteq RobotObject
  BY WithType DEF RegisterRobot, SetRobot
<1>. QED  BY <1>1 DEF RegisterRobot, SetRobot

LEMMA PlayerType ==
  ASSUME GameType, NEW n \in Words, NEW a, NEW b,
         AddPlayer(n) \/ RemovePlayer(n) \/ SetPlayer(n, a, b)
  PROVE  GameType'
<1> USE DEF GameType, TeamType, RobotType, OtherType
<1>1. CASE players' = players
  BY <1>1 DEF AddPlayer, RemovePlayer, SetPlayer
<1>2. ASSUME NEW v \in BOOLEAN, players' = Put(players, n, v) PROVE GameType'
  <2>1. players' \in [DOMAIN players' -> BOOLEAN] /\ DOMAIN players' \subseteq Words
    <3>1. DOMAIN players' = DOMAIN players \cup {n} /\ players' \in [DOMAIN players' -> BOOLEAN]
      BY <1>2 DEF Put
    <3>. QED  BY <3>1
  <2>. QED  BY <2>1 DEF AddPlayer, RemovePlayer, SetPlayer
<1>3. CASE players' = Drop(players, n)
  <2>1. players' \in [DOMAIN players' -> BOOLEAN] /\ DOMAIN players' \subseteq Words
    <3>1. DOMAIN players' = DOMAIN players \ {n} /\ players' \in [DOMAIN players' -> BOOLEAN]
      BY <1>3 DEF Drop
    <3>. QED  BY <3>1
  <2>. QED  BY <2>1 DEF AddPlayer, RemovePlayer, SetPlayer
<1>4. (b # "") \in BOOLEAN
  OBVIOUS
<1>. QED  BY <1>1, <1>2, <1>3, <1>4 DEF AddPlayer, RemovePlayer, SetPlayer

LEMMA StartType ==
  ASSUME GameType, StartGame PROVE GameType'
<1> USE DEF GameType, TeamType, RobotType, OtherType
<1>1. score' \in [1 .. Len(score) -> Nat]
  BY DEF StartGame
<1>2. score' \in Seq(Nat) /\ Len(score') = Len(score)
  BY <1>1, IsSequence, Len(score) \in Nat, Zenon
<1>. QED  BY <1>2 DEF StartGame

LEMMA RestOfGameType ==
  ASSUME GameType,
         StopGame \/ StopApplication
           \/ \E property, value : SetGame(property, value) /\ value \in DOMAIN Number \cup {""}
  PROVE  GameType'
<1> USE DEF GameType, TeamType, RobotType, OtherType
<1>. QED  BY NumberAssumption DEF StopGame, StopApplication, SetGame
LEMMA PlayType ==
  ASSUME GameType, Play PROVE GameType'
<1> USE DEF GameType, TeamType, RobotType, OtherType
<1>1. CASE StartGame
  BY <1>1, StartType
<1>2. CASE isRunning /\ elapsed' = TRUE /\ UNCHANGED <<teamVars, isRunning, winner, captured>>
  BY <1>2 DEF Play
<1>3. CASE /\ isRunning /\ captured' = TRUE
           /\ \E t \in Standing : score[t] < MaxScore /\ score' = [score EXCEPT ![t] = @ + 1]
           /\ UNCHANGED <<teams, members, isRunning, winner, elapsed>>
  <2>1. PICK t \in Standing : score' = [score EXCEPT ![t] = @ + 1]
    BY <1>3
  <2>2. t \in 1 .. Len(score)
    BY DEF Standing
  <2>3. score[t] + 1 \in Nat
    BY <2>2
  <2>4. score' \in Seq(Nat) /\ Len(score') = Len(score)
    BY <2>1, <2>2, <2>3, ExceptSequence
  <2>. QED  BY <1>3, <2>4 DEF Play
<1>4. CASE /\ isRunning /\ isRunning' = FALSE /\ captured' = FALSE
           /\ winner' \in {winner} \cup {{n} : n \in DOMAIN teams}
           /\ UNCHANGED <<teamVars, elapsed>>
  BY <1>4 DEF Play
<1>. QED  BY <1>1, <1>2, <1>3, <1>4 DEF Play

\* The operation a command names gets names of words, and keeps the types.
LEMMA PerformType ==
  ASSUME GameType, NEW verb, NEW object, NEW args \in Words,
         Performs(verb, object, args), Perform(verb, object, args)
  PROVE  GameType'
<1> DEFINE name == ReadName(args)
           rest == IF object = "game" THEN args ELSE AfterName(args)
           property == Word(rest)
           value == Word(Rest(rest))
           team == ReadName(AfterName(args))
<1>1. name \in Words
  BY NameType
<1>2. verb = "set" /\ object = "game" => value \in DOMAIN Number \cup {""}
  BY DEF Performs, Dispatched, TakesName
<1>3. \/ StartGame \/ StopGame \/ StopApplication
      \/ AddTeam(name) \/ AddRobot(name, team) \/ AddPlayer(name)
      \/ RemoveTeam(name) \/ RemoveRobot(name) \/ RemovePlayer(name)
      \/ RegisterRobot(name, verb = "register")
      \/ SetTeam(name, property, value) \/ SetRobot(name, property, value)
      \/ SetPlayer(name, property, value)
      \/ verb = "set" /\ object = "game" /\ SetGame(property, value)
  BY DEF Perform
<1> HIDE DEF name, property, value, team
<1>. QED
  BY <1>1, <1>2, <1>3, StartType, RestOfGameType, AddTeamType, AddRobotType, PlayerType,
     RemoveTeamType, RemoveRobotType, FieldType, SetTeamType

----------------------------------------------------------------------------
(* What a step of the interface is *)

\* The commands in text mode that are dispatched, as words, object and the rest.
Object(words) == Word(Tail(words))
Args(words) == Rest(Tail(words))

\* A command that is performed.
Performed(words) ==
  /\ words \in session /\ words \in Words /\ words # <<>>
  /\ Performs(Head(words), Object(words), Args(words))
  /\ Perform(Head(words), Object(words), Args(words))
  /\ last' = words /\ moved' = FALSE
  /\ reply' = [ok |-> TRUE, text |-> "OK"] /\ failure' = failure

ReplyText == {"", "OK", "KO", "pong", "null", "error", "view"}
Reply == [ok : BOOLEAN, text : ReplyText \ {"OK"}]

\* No view answers what a command answers.
LEMMA ListReply == ASSUME NEW words PROVE List(words) \in Reply
BY DEF List, Reply, ReplyText, Success, Failure

LEMMA ViewReply == ASSUME NEW mode, NEW words PROVE View(mode, words) \in Reply
BY DEF View, ViewTeam, Reply, ReplyText, Success, Failure

LEMMA GetReply == ASSUME NEW mode, NEW words PROVE Get(mode, words) \in Reply
<1> USE DEF Reply, ReplyText, Success, Failure, Unknown
<1>1. \A name, property :
        /\ GetRobot(mode, name, property) \in Reply /\ GetTeam(mode, name, property) \in Reply
        /\ GetPlayer(mode, name, property) \in Reply /\ GetGame(mode, property) \in Reply
  BY DEF GetRobot, GetTeam, GetPlayer, GetGame
<1>2. Failure(IF mode = "json" THEN "" ELSE "error") \in Reply
  OBVIOUS
<1> HIDE DEF Reply, Failure
<1>. QED  BY <1>1, <1>2 DEF Get

\* A view, a refused command or an exception changes nothing of the game.
Refused ==
  /\ UNCHANGED <<gameVars, last, moved>>
  /\ \/ reply' \in Reply /\ failure' = failure
     \/ reply' = reply /\ failure' = "exception"
     \/ /\ reply' = reply /\ failure' = "dangling"
        /\ \E mode, words : ~(TeamsRead(mode, words) \subseteq Standing)

LEMMA ViewRefused ==
  ASSUME NEW mode, NEW words, Head(words) \in {"list", "view", "get"}, ViewCommand(mode, words)
  PROVE  Refused
<1>1. UNCHANGED <<gameVars, last, moved>>
  BY DEF ViewCommand
<1>2. CASE ~(TeamsRead(mode, words) \subseteq Standing) /\ failure' = "dangling" /\ UNCHANGED reply
  BY <1>1, <1>2 DEF Refused
<1>3. CASE /\ UNCHANGED failure
           /\ reply' = CASE Head(words) = "list" -> List(Tail(words))
                         [] Head(words) = "view" -> View(mode, Tail(words))
                         [] Head(words) = "get" -> Get(mode, Tail(words))
  <2>1. reply' \in {List(Tail(words)), View(mode, Tail(words)), Get(mode, Tail(words))}
    BY <1>3
  <2>2. reply' \in Reply
    BY <2>1, ListReply, ViewReply, GetReply
  <2>. QED  BY <1>1, <1>3, <2>2 DEF Refused
<1>. QED  BY <1>2, <1>3 DEF ViewCommand

\* A step refuses, or performs its command.
LEMMA StepFacts ==
  ASSUME session \in Sessions, NEW c \in session, Step(c)
  PROVE  Refused \/ Performed(c)
<1>1. c \in Words /\ c # <<>>
  BY CommandsAssumption DEF Words
<1>2. ASSUME NEW mode, Unknown(mode) \notin Reply PROVE FALSE
  BY <1>2 DEF Unknown, Failure, Reply, ReplyText
<1>3. [ok |-> TRUE, text |-> "pong"] \in Reply
  BY DEF Reply, ReplyText
<1>4. ASSUME NEW mode, NEW words, StepIn(mode, words),
             \/ Head(words) \in {"list", "view", "get"}
             \/ mode = "json" \/ Head(words) = "ping"
      PROVE  Refused
  <2>1. CASE Head(words) \in {"list", "view", "get"}
    BY <1>4, <2>1, ViewRefused DEF StepIn
  <2>2. CASE Head(words) \notin {"list", "view", "get"}
    <3>1. reply' \in Reply /\ UNCHANGED <<gameVars, failure, last, moved>>
      BY <1>2, <1>3, <1>4, <2>2 DEF StepIn
    <3>. QED  BY <3>1 DEF Refused
  <2>. QED  BY <2>1, <2>2
<1>5. CASE Head(c) # "json"
  <2>1. StepIn("text", c)
    BY <1>5 DEF Step
  <2>2. CASE Head(c) \in {"list", "view", "get", "ping"}
    BY <1>4, <2>1, <2>2
  <2>3. CASE Head(c) \notin {"list", "view", "get", "ping"}
    <3>1. CASE Dispatched(Head(c), Object(c), Args(c))
      BY <1>1, <2>1, <2>3, <3>1 DEF StepIn, Performs, Performed, Object, Args
    <3>2. CASE ~Dispatched(Head(c), Object(c), Args(c))
      <4>1. reply' = Unknown("text") /\ UNCHANGED <<gameVars, last, moved, failure>>
        BY <2>1, <2>3, <3>2 DEF StepIn, Performs, Object, Args
      <4>. QED  BY <1>2, <4>1 DEF Refused
    <3>. QED  BY <3>1, <3>2
  <2>. QED  BY <2>2, <2>3
<1>6. CASE Head(c) = "json" /\ Tail(c) # <<>>
  BY <1>4, <1>6 DEF Step
<1>7. CASE Head(c) = "json" /\ Tail(c) = <<>>
  BY <1>7 DEF Step, Refused
<1>. QED  BY <1>5, <1>6, <1>7

LEMMA NextFacts ==
  ASSUME session \in Sessions, [Next]_vars
  PROVE  \/ UNCHANGED vars \/ Play
         \/ UNCHANGED session /\ (Refused \/ \E c \in session : Performed(c))
BY StepFacts DEF Next, Ended

----------------------------------------------------------------------------
(* Type correctness *)

ReplyType ==
  /\ session \in Sessions
  /\ reply \in [ok : BOOLEAN, text : ReplyText]
  /\ last \in session \cup {<<>>} /\ moved \in BOOLEAN
  /\ failure \in {"", "exception", "dangling"}

LEMMA InitType == Init => GameType /\ ReplyType
<1> SUFFICES ASSUME Init PROVE GameType /\ ReplyType
  OBVIOUS
<1>0. \A S : /\ <<>> \in [DOMAIN <<>> -> S] /\ DOMAIN <<>> \subseteq S
              /\ <<>> \in Seq(S) /\ Len(<<>>) = 0
  OBVIOUS
<1>1. TeamType
  <2>1. teams = <<>> /\ score = <<>> /\ members = <<>>
    BY Zenon DEF Init
  <2>2. 0 <= MaxTeams
    BY BoundAssumption
  <2>. QED  BY <1>0, <2>1, <2>2, Zenon DEF TeamType
<1>2. RobotType
  <2>1. /\ robots = <<>> /\ teamOf = <<>> /\ nameOf = <<>>
        /\ registered \subseteq RobotObject /\ urls \subseteq RobotObject
    BY Zenon DEF Init
  <2>2. 0 <= MaxRobots
    BY BoundAssumption
  <2>. QED  BY <1>0, <2>1, <2>2, Zenon DEF RobotType
<1>3. OtherType
  BY <1>0, DurationAssumption, Zenon DEF Init, OtherType
<1>4. ReplyType
  BY DEF Init, ReplyType, ReplyText, NoReply
<1>. QED  BY <1>1, <1>2, <1>3, <1>4 DEF GameType

LEMMA NextType == GameType /\ ReplyType /\ [Next]_vars => (GameType /\ ReplyType)'
<1> SUFFICES ASSUME GameType, ReplyType, [Next]_vars PROVE GameType' /\ ReplyType'
  OBVIOUS
<1>1. session \in Sessions
  BY DEF ReplyType
<1>2. ASSUME UNCHANGED gameVars PROVE GameType'
  <2>1. TeamType' /\ RobotType' /\ OtherType'
    BY <1>2, Zenon DEF gameVars, GameType, TeamType, RobotType, OtherType
  <2>. QED  BY <2>1, Zenon DEF GameType
<1>3. CASE UNCHANGED vars
  BY <1>2, <1>3 DEF vars, gameVars, ReplyType
<1>4. CASE UNCHANGED session /\ Refused
  BY <1>2, <1>4 DEF Refused, Reply, ReplyType, ReplyText
<1>5. ASSUME NEW c \in session, Performed(c), UNCHANGED session PROVE GameType' /\ ReplyType'
  <2>1. Args(c) \in Words
    <3>1. Tail(c) \in Words
      BY <1>5 DEF Performed, Words
    <3>. QED  BY <3>1, RestType DEF Args
  <2>2. GameType'
    BY <1>5, <2>1, PerformType DEF Performed
  <2>3. ReplyType'
    BY <1>5 DEF Performed, ReplyType, ReplyText
  <2>. QED  BY <2>2, <2>3
<1>6. CASE Play
  <2>1. ReplyType'
    BY <1>6 DEF Play, ReplyType, ReplyText, NoReply
  <2>. QED  BY <1>6, <2>1, PlayType
<1>. QED  BY <1>1, <1>3, <1>4, <1>5, <1>6, NextFacts

LEMMA TypeInvariant == Spec => [](GameType /\ ReplyType)
BY InitType, NextType, PTL DEF Spec

\* Whatever words agents send, in whatever order, the game keeps its types:
\* every name a map has leads to an object that was made.
THEOREM TypeCorrect == Spec => []TypeOK
<1>1. GameType /\ ReplyType => TypeOK
  <2> SUFFICES ASSUME GameType, ReplyType PROVE TypeOK
    OBVIOUS
  <2> USE DEF GameType, TeamType, RobotType, OtherType, Words
  <2>1. members \in [TeamObject -> SUBSET RobotObject]
    OBVIOUS
  <2>2. nameOf \in [RobotObject -> Seq(STRING)]
    OBVIOUS
  <2>. QED  BY <2>1, <2>2 DEF ReplyType, ReplyText, TypeOK
<1>. QED  BY <1>1, TypeInvariant, PTL

----------------------------------------------------------------------------
(* What refused commands and views leave *)

\* A command that is refused, a view and what is asked for in JSON change
\* nothing (AgentProxy.cpp:79-108, 314-350).
THEOREM RefusalsChangeNothing == Spec => RefusedChangesNothing
<1>1. GameType /\ ReplyType /\ [Next]_vars =>
        [reply' # NoReply /\ reply'.text # "OK" => UNCHANGED gameVars]_vars
  <2> SUFFICES ASSUME ReplyType, [Next]_vars, reply' # NoReply, reply'.text # "OK"
               PROVE  UNCHANGED gameVars \/ UNCHANGED vars
    OBVIOUS
  <2>1. session \in Sessions
    BY DEF ReplyType
  <2>2. \A c \in session : ~Performed(c)
    BY DEF Performed
  <2>3. ~Play
    BY DEF Play
  <2>. QED  BY <2>1, <2>2, <2>3, NextFacts DEF Refused
<1>. QED  BY <1>1, TypeInvariant, PTL DEF Spec, RefusedChangesNothing
----------------------------------------------------------------------------
(* Robots and their teams *)

\* Every robot of the game has a team of the game that lists it.
Listing ==
  \A n \in DOMAIN robots :
    /\ teamOf[robots[n]] \in Standing
    /\ robots[n] \in members[teamOf[robots[n]]]
    /\ nameOf[robots[n]] = n

LEMMA AddTeamLists ==
  ASSUME GameType, Listing, NEW n \in Words, AddTeam(n) PROVE Listing'
<1> USE DEF GameType, TeamType, RobotType
<1>1. CASE n \in DOMAIN teams
  BY <1>1 DEF AddTeam, Listing, Standing
<1>2. CASE n \notin DOMAIN teams
  <2>1. /\ teams' = Put(teams, n, Len(score) + 1) /\ members' = Append(members, {})
        /\ UNCHANGED <<robots, teamOf, nameOf>>
    BY <1>2 DEF AddTeam
  <2>2. \A m \in DOMAIN teams : m \in DOMAIN teams' /\ teams'[m] = teams[m]
    BY <1>2, <2>1 DEF Put
  <2>3. Standing \subseteq Standing'
    BY <2>2 DEF Standing
  <2>4. \A t \in TeamObject : members'[t] = members[t]
    BY <2>1
  <2>5. \A m \in DOMAIN robots : teamOf[robots[m]] \in TeamObject
    OBVIOUS
  <2>. QED  BY <2>1, <2>3, <2>4, <2>5 DEF Listing
<1>. QED  BY <1>1, <1>2

\* Only a team that no robot is in is removed, if agents heed the warning.
LEMMA RemoveTeamLists ==
  ASSUME Careful, GameType, Listing, NEW n \in Words, RemoveTeam(n) PROVE Listing'
<1>1. /\ ~RobotsStillIn(n) /\ teams' = Drop(teams, n)
      /\ UNCHANGED <<members, robots, teamOf, nameOf>>
  BY DEF RemoveTeam
<1>2. \A m \in DOMAIN teams : m # n => m \in DOMAIN teams' /\ teams'[m] = teams[m]
  BY <1>1 DEF Drop
<1>3. ASSUME NEW r \in DOMAIN robots PROVE teamOf[robots[r]] \in Standing'
  <2>1. PICK m \in DOMAIN teams : teamOf[robots[r]] = teams[m]
    BY DEF Listing, Standing
  <2>2. m # n
    BY <1>1, <2>1 DEF RobotsStillIn
  <2>. QED  BY <1>2, <2>1, <2>2 DEF Standing
<1>. QED  BY <1>1, <1>3 DEF Listing

LEMMA AddRobotLists ==
  ASSUME GameType, Listing, NEW n \in Words, NEW team, AddRobot(n, team) PROVE Listing'
<1> USE DEF GameType, TeamType, RobotType
<1>1. CASE ~IsNewRobot(n, team)
  BY <1>1 DEF AddRobot, Listing, Standing
<1>2. CASE IsNewRobot(n, team)
  <2> DEFINE r == Len(teamOf) + 1
             t == teams[team]
  <2>1. /\ robots' = Put(robots, n, r)
        /\ teamOf' = Append(teamOf, t) /\ nameOf' = Append(nameOf, n)
        /\ members' = [members EXCEPT ![t] = @ \cup {r}] /\ teams' = teams
    BY <1>2 DEF AddRobot, WithMember
  <2>2. t \in TeamObject /\ t \in Standing /\ Standing' = Standing
    BY <1>2, <2>1 DEF IsNewRobot, Standing
  <2>3. /\ DOMAIN robots' = DOMAIN robots \cup {n} /\ robots'[n] = r
        /\ \A m \in DOMAIN robots : m # n => robots'[m] = robots[m]
    BY <2>1 DEF Put
  <2>4. /\ teamOf'[r] = t /\ nameOf'[r] = n
        /\ \A o \in RobotObject : teamOf'[o] = teamOf[o] /\ nameOf'[o] = nameOf[o]
    BY <2>1
  <2>5. r \in members'[t] /\ \A u \in TeamObject : members[u] \subseteq members'[u]
    <3>1. t \in DOMAIN members /\ TeamObject = DOMAIN members
      BY <2>2
    <3>. QED  BY <2>1, <3>1
  <2>6. \A m \in DOMAIN robots : robots[m] \in RobotObject /\ teamOf[robots[m]] \in TeamObject
    OBVIOUS
  <2> HIDE DEF r, t
  <2>. QED  BY <2>2, <2>3, <2>4, <2>5, <2>6 DEF Listing
<1>. QED  BY <1>1, <1>2

LEMMA RemoveRobotLists ==
  ASSUME GameType, Listing, NEW n \in Words, RemoveRobot(n) PROVE Listing'
<1>1. /\ robots' = Drop(robots, n) /\ UNCHANGED <<teams, members, teamOf, nameOf>>
  BY DEF RemoveRobot
<1>2. \A m \in DOMAIN robots' : m \in DOMAIN robots /\ robots'[m] = robots[m]
  BY <1>1 DEF Drop
<1>. QED  BY <1>1, <1>2 DEF Listing, Standing

LEMMA PerformLists ==
  ASSUME Careful, GameType, Listing, NEW verb, NEW object, NEW args \in Words,
         Perform(verb, object, args)
  PROVE  Listing'
<1> DEFINE name == ReadName(args)
           team == ReadName(AfterName(args))
<1>1. name \in Words
  BY NameType
<1>2. \/ AddTeam(name) \/ AddRobot(name, team) \/ RemoveTeam(name) \/ RemoveRobot(name)
      \/ UNCHANGED <<teams, members, robots, teamOf, nameOf>>
  BY DEF Perform, StartGame, StopGame, StopApplication, AddPlayer, RemovePlayer, RegisterRobot,
         SetTeam, SetRobot, SetPlayer, SetGame
<1>3. CASE UNCHANGED <<teams, members, robots, teamOf, nameOf>>
  BY <1>3 DEF Listing, Standing
<1> HIDE DEF name, team
<1>. QED  BY <1>1, <1>2, <1>3, AddTeamLists, AddRobotLists, RemoveTeamLists, RemoveRobotLists

\* No view reads the team of a robot that has none.
LEMMA ViewsStand ==
  ASSUME Listing, NEW mode, NEW words PROVE TeamsRead(mode, words) \subseteq Standing
BY DEF Listing, TeamsRead

LEMMA ListStep ==
  ASSUME Careful, GameType, ReplyType, TeamsListRobots, [Next]_vars PROVE TeamsListRobots'
<1>1. session \in Sessions /\ Listing /\ failure # "dangling"
  BY DEF ReplyType, TeamsListRobots, Listing
<1>2. TeamsListRobots' <=> Listing' /\ failure' # "dangling"
  BY DEF TeamsListRobots, Listing
<1>4. UNCHANGED gameVars => Listing'
  BY <1>1 DEF gameVars, Listing, Standing
<1>5. CASE UNCHANGED vars
  BY <1>1, <1>2, <1>4, <1>5 DEF vars
<1>6. CASE Refused
  BY <1>1, <1>2, <1>4, <1>6, ViewsStand DEF Refused
<1>7. ASSUME NEW c \in session, Performed(c) PROVE TeamsListRobots'
  <2>1. Args(c) \in Words
    <3>1. Tail(c) \in Words
      BY <1>7 DEF Performed, Words
    <3>. QED  BY <3>1, RestType DEF Args
  <2>. QED  BY <1>1, <1>2, <1>7, <2>1, PerformLists DEF Performed
<1>8. CASE Play
  <2>1. UNCHANGED <<teams, members, robots, teamOf, nameOf, failure>>
    BY <1>8 DEF Play, StartGame
  <2>2. Listing'
    BY <1>1, <2>1 DEF Listing, Standing
  <2>. QED  BY <1>1, <1>2, <2>1, <2>2
<1>. QED  BY <1>1, <1>5, <1>6, <1>7, <1>8, NextFacts

\* If agents heed the warning about teams, every robot of the game belongs to a
\* team of the game that lists it, and no view reads one that was destroyed
\* (Game.cpp:211-311, AgentProxy.cpp:360-447).
THEOREM RobotsListed == ASSUME Careful PROVE Spec => []TeamsListRobots
<1>1. Init => TeamsListRobots
  <2>1. Init => robots = <<>> /\ failure = ""
    BY Zenon DEF Init
  <2>2. DOMAIN <<>> = {}
    OBVIOUS
  <2>3. Init => DOMAIN robots = {} /\ failure # "dangling"
    BY <2>1, <2>2
  <2>. QED  BY <2>3, Zenon DEF TeamsListRobots
<1>2. GameType /\ ReplyType /\ TeamsListRobots /\ [Next]_vars => TeamsListRobots'
  BY ListStep
<1>. QED  BY <1>1, <1>2, TypeInvariant, PTL DEF Spec

----------------------------------------------------------------------------
(* Saying the same again *)

\* What a command leaves behind when it was performed, of which its operation
\* makes nothing more: what lasts however the game goes on, ...
GameDone(verb, object) == verb = "stop" /\ object = "application" => stopped

TeamDone(verb, object, name) ==
  object = "team" =>
    /\ verb = "add" => name \in DOMAIN teams
    /\ verb = "remove" => name \notin DOMAIN teams

RobotDone(verb, object, name, team, property, value) ==
  /\ verb = "add" /\ object = "robot" => ~IsNewRobot(name, team)
  /\ verb = "remove" /\ object = "robot" => name \notin DOMAIN robots
  /\ verb \in {"register", "unregister"} =>
       With(registered, name, verb = "register") = registered
  /\ verb = "set" /\ object = "robot" /\ property = "video_url" =>
       With(urls, name, value # "") = urls

PlayerDone(verb, object, name, property, value) ==
  object = "player" =>
    /\ verb = "add" => name \in DOMAIN players
    /\ verb = "remove" => name \notin DOMAIN players
    /\ verb = "set" /\ property = "address" /\ name \in DOMAIN players
         => players[name] = (value # "")

Done(verb, object, args) ==
  LET name == ReadName(args)
      team == ReadName(AfterName(args))
      property == Word(AfterName(args))
      value == Word(Rest(AfterName(args)))
  IN  /\ GameDone(verb, object) /\ TeamDone(verb, object, name)
      /\ RobotDone(verb, object, name, team, property, value)
      /\ PlayerDone(verb, object, name, property, value)

\* ... and what does until it does.
ScoreDone(verb, object, name, property, value) ==
  verb = "set" /\ object = "team" /\ name \in DOMAIN teams /\ name # <<>>
    /\ property = "score" /\ value \in DOMAIN Number
    => score[teams[name]] = Number[value]

DoneNow(verb, object, args) ==
  /\ verb = "stop" /\ object = "game" => ~isRunning
  /\ ScoreDone(verb, object, ReadName(args), Word(AfterName(args)),
               Word(Rest(AfterName(args))))

lastingVars == <<teams, members, robotVars, players, stopped>>

\* A command that was performed is done.
LEMMA PerformDone ==
  ASSUME GameType, NEW verb, NEW object, NEW args,
         Performs(verb, object, args), Perform(verb, object, args)
  PROVE  (Done(verb, object, args) /\ DoneNow(verb, object, args))'
<1> DEFINE name == ReadName(args)
           property == Word(AfterName(args))
           value == Word(Rest(AfterName(args)))
           team == ReadName(AfterName(args))
<1> USE DEF GameType, TeamType, RobotType, OtherType
<1>1. CASE verb = "start"
  BY <1>1 DEF Done, GameDone, TeamDone, RobotDone, PlayerDone, DoneNow, ScoreDone
<1>2. CASE verb = "stop"
  BY <1>2 DEF Perform, StopGame, StopApplication, Done, GameDone, TeamDone, RobotDone,
              PlayerDone, DoneNow, ScoreDone
<1>3. CASE verb = "add" /\ object = "team"
  <2>1. AddTeam(name)
    BY <1>3 DEF Perform
  <2>2. name \in DOMAIN teams'
    BY <2>1 DEF AddTeam, Put
  <2>. QED  BY <1>3, <2>2 DEF Done, GameDone, TeamDone, RobotDone, PlayerDone, DoneNow, ScoreDone
<1>4. CASE verb = "add" /\ object = "robot"
  <2>1. AddRobot(name, team)
    BY <1>4 DEF Perform
  <2>2. ~IsNewRobot(name, team)'
    BY <2>1 DEF AddRobot, IsNewRobot, Put
  <2>. QED  BY <1>4, <2>2 DEF Done, GameDone, TeamDone, RobotDone, PlayerDone, DoneNow, ScoreDone
<1>5. CASE verb = "add" /\ object = "player"
  <2>1. AddPlayer(name)
    BY <1>5 DEF Perform
  <2>2. name \in DOMAIN players'
    BY <2>1 DEF AddPlayer, Put
  <2>. QED  BY <1>5, <2>2 DEF Done, GameDone, TeamDone, RobotDone, PlayerDone, DoneNow, ScoreDone
<1>6. CASE verb = "remove"
  <2>1. \/ object = "team" /\ RemoveTeam(name)
        \/ object = "robot" /\ RemoveRobot(name)
        \/ object = "player" /\ RemovePlayer(name)
    BY <1>6 DEF Perform
  <2>. QED  BY <1>6, <2>1 DEF RemoveTeam, RemoveRobot, RemovePlayer, Drop, Done, GameDone,
                            TeamDone, RobotDone, PlayerDone, DoneNow, ScoreDone
<1>7. CASE verb \in {"register", "unregister"}
  <2>1. RegisterRobot(name, verb = "register")
    BY <1>7 DEF Perform
  <2>2. With(registered, name, verb = "register")' = registered'
    BY <2>1 DEF RegisterRobot, With
  <2>. QED  BY <1>7, <2>2 DEF Done, GameDone, TeamDone, RobotDone, PlayerDone, DoneNow, ScoreDone
<1>8. CASE verb = "set" /\ object = "team"
  <2>1. SetTeam(name, property, value)
    BY <1>8 DEF Perform
  <2>2. ASSUME name \in DOMAIN teams, name # <<>>, property = "score", value \in DOMAIN Number
        PROVE  score'[teams[name]] = Number[value]
    BY <2>1, <2>2 DEF SetTeam
  <2>3. teams' = teams
    BY <2>1 DEF SetTeam
  <2>. QED  BY <1>8, <2>2, <2>3 DEF Done, GameDone, TeamDone, RobotDone, PlayerDone, DoneNow, ScoreDone
<1>9. CASE verb = "set" /\ object = "robot"
  <2>1. SetRobot(name, property, value)
    BY <1>9 DEF Perform
  <2>2. property = "video_url" => With(urls, name, value # "")' = urls'
    BY <2>1 DEF SetRobot, With
  <2>. QED  BY <1>9, <2>2 DEF Done, GameDone, TeamDone, RobotDone, PlayerDone, DoneNow, ScoreDone
<1>10. CASE verb = "set" /\ object = "player"
  <2>1. SetPlayer(name, property, value)
    BY <1>10 DEF Perform
  <2>2. property = "address" /\ name \in DOMAIN players' => players'[name] = (value # "")
    BY <2>1 DEF SetPlayer, Put
  <2>. QED  BY <1>10, <2>2 DEF Done, GameDone, TeamDone, RobotDone, PlayerDone, DoneNow, ScoreDone
<1>11. CASE verb = "set" /\ object = "game"
  BY <1>11 DEF Done, GameDone, TeamDone, RobotDone, PlayerDone, DoneNow, ScoreDone
<1>. QED
  BY <1>1, <1>2, <1>3, <1>4, <1>5, <1>6, <1>7, <1>8, <1>9, <1>10, <1>11 DEF Perform

\* The operation of a command that is done makes nothing more of it.
LEMMA DoneKeeps ==
  ASSUME GameType, NEW verb, NEW object, NEW args,
         Done(verb, object, args), Perform(verb, object, args)
  PROVE  UNCHANGED lastingVars
<1> DEFINE name == ReadName(args)
           property == Word(AfterName(args))
           value == Word(Rest(AfterName(args)))
           team == ReadName(AfterName(args))
<1> USE DEF GameType, TeamType, RobotType, OtherType, lastingVars
<1>1. CASE verb = "start"
  BY <1>1 DEF Perform, StartGame
<1>2. CASE verb = "stop"
  BY <1>2 DEF Perform, StopGame, StopApplication, Done, GameDone, TeamDone, RobotDone,
              PlayerDone
<1>3. CASE verb = "add"
  <2>1. \/ AddTeam(name) /\ name \in DOMAIN teams
        \/ AddRobot(name, team) /\ ~IsNewRobot(name, team)
        \/ AddPlayer(name) /\ name \in DOMAIN players
    BY <1>3 DEF Perform, Done, GameDone, TeamDone, RobotDone, PlayerDone
  <2>. QED  BY <2>1 DEF AddTeam, AddRobot, AddPlayer
<1>4. CASE verb = "remove"
  <2>1. \/ RemoveTeam(name) /\ name \notin DOMAIN teams
        \/ RemoveRobot(name) /\ name \notin DOMAIN robots
        \/ RemovePlayer(name) /\ name \notin DOMAIN players
    BY <1>4 DEF Perform, Done, GameDone, TeamDone, RobotDone, PlayerDone
  <2>2. /\ name \notin DOMAIN teams => Drop(teams, name) = teams
        /\ name \notin DOMAIN robots => Drop(robots, name) = robots
        /\ name \notin DOMAIN players => Drop(players, name) = players
    BY DEF Drop
  <2>. QED  BY <2>1, <2>2 DEF RemoveTeam, RemoveRobot, RemovePlayer
<1>5. CASE verb \in {"register", "unregister"}
  <2>1. /\ RegisterRobot(name, verb = "register")
        /\ With(registered, name, verb = "register") = registered
    BY <1>5 DEF Perform, Done, GameDone, TeamDone, RobotDone, PlayerDone
  <2>. QED  BY <2>1 DEF RegisterRobot
<1>6. CASE verb = "set" /\ object = "team"
  BY <1>6 DEF Perform, SetTeam
<1>7. CASE verb = "set" /\ object = "robot"
  <2>1. /\ SetRobot(name, property, value)
        /\ property = "video_url" => With(urls, name, value # "") = urls
    BY <1>7 DEF Perform, Done, GameDone, TeamDone, RobotDone, PlayerDone
  <2>. QED  BY <2>1 DEF SetRobot
<1>8. CASE verb = "set" /\ object = "player"
  <2>1. /\ SetPlayer(name, property, value)
        /\ property = "address" /\ name \in DOMAIN players => players[name] = (value # "")
    BY <1>8 DEF Perform, Done, GameDone, TeamDone, RobotDone, PlayerDone
  <2>2. property = "address" /\ name \in DOMAIN players
          => Put(players, name, value # "") = players
    BY <2>1 DEF Put
  <2>. QED  BY <2>1, <2>2 DEF SetPlayer
<1>9. CASE verb = "set" /\ object = "game"
  BY <1>9 DEF Perform, SetGame
<1>. QED
  BY <1>1, <1>2, <1>3, <1>4, <1>5, <1>6, <1>7, <1>8, <1>9 DEF Perform

\* A command but "start game" that is done and after which the game has not gone on
\* makes nothing more of the game either.
LEMMA DoneNowKeeps ==
  ASSUME GameType, NEW verb, NEW object, NEW args, verb # "start",
         Done(verb, object, args), DoneNow(verb, object, args), Perform(verb, object, args)
  PROVE  UNCHANGED <<score, playVars>>
<1> DEFINE name == ReadName(args)
           property == Word(AfterName(args))
           value == Word(Rest(AfterName(args)))
           team == ReadName(AfterName(args))
<1> USE DEF GameType, TeamType, RobotType, OtherType
<1>1. CASE verb = "stop"
  <2>1. \/ object = "game" /\ StopGame /\ ~isRunning
        \/ object = "application" /\ StopApplication /\ stopped
    BY <1>1 DEF Perform, Done, DoneNow, GameDone
  <2>. QED  BY <2>1 DEF StopGame, StopApplication
<1>2. CASE verb = "add" /\ object = "team"
  <2>1. AddTeam(name) /\ name \in DOMAIN teams
    BY <1>2 DEF Perform, Done, TeamDone
  <2>. QED  BY <2>1 DEF AddTeam
<1>3. CASE verb = "set" /\ object = "team"
  <2>1. SetTeam(name, property, value) /\ ScoreDone(verb, object, name, property, value)
    BY <1>3 DEF Perform, DoneNow
  <2>2. ASSUME name \in DOMAIN teams, name # <<>>, property = "score", value \in DOMAIN Number
        PROVE  [score EXCEPT ![teams[name]] = Number[value]] = score
    <3>1. score[teams[name]] = Number[value]
      BY <1>3, <2>1, <2>2 DEF ScoreDone
    <3>. QED  BY <3>1, <2>2
  <2>. QED  BY <2>1, <2>2 DEF SetTeam
<1>4. CASE ~(verb = "stop" \/ (verb \in {"add", "set"} /\ object = "team"))
  BY <1>4 DEF Perform, AddRobot, AddPlayer, RemoveTeam, RemoveRobot, RemovePlayer,
              RegisterRobot, SetRobot, SetPlayer, SetGame
<1>. QED  BY <1>1, <1>2, <1>3, <1>4

\* The last command that was performed is done, whatever was asked or refused
\* since.
LastDone ==
  last # <<>> =>
    /\ Done(Head(last), Object(last), Args(last))
    /\ ~moved => DoneNow(Head(last), Object(last), Args(last))

\* What a step leaves when it leaves the last command and is none of the game.
Again ==
  last # <<>> /\ last' = last /\ ~moved' =>
    /\ UNCHANGED lastingVars
    /\ ~moved /\ Head(last) # "start" => UNCHANGED <<score, playVars>>

\* What is done stays done as long as what it is about stays.
LEMMA DoneStays ==
  ASSUME UNCHANGED lastingVars, NEW verb, NEW object, NEW args
  PROVE  /\ Done(verb, object, args) => Done(verb, object, args)'
         /\ UNCHANGED <<score, isRunning>> /\ DoneNow(verb, object, args)
              => DoneNow(verb, object, args)'
<1>0. /\ UNCHANGED <<teams, members, robots, registered, urls, players>>
      /\ UNCHANGED <<teamOf, nameOf, stopped>>
  BY DEF lastingVars
<1>1. /\ GameDone(verb, object) <=> GameDone(verb, object)'
      /\ \A n : TeamDone(verb, object, n) <=> TeamDone(verb, object, n)'
      /\ \A n, q, v : PlayerDone(verb, object, n, q, v) <=> PlayerDone(verb, object, n, q, v)'
  BY <1>0 DEF GameDone, TeamDone, PlayerDone
<1>2. ASSUME NEW n, NEW t, NEW q, NEW v, RobotDone(verb, object, n, t, q, v)
      PROVE  RobotDone(verb, object, n, t, q, v)'
  <2>1. /\ With(registered, n, verb = "register")' = With(registered, n, verb = "register")
        /\ With(urls, n, v # "")' = With(urls, n, v # "")
    BY <1>0 DEF With
  <2>2. IsNewRobot(n, t)' <=> IsNewRobot(n, t)
    BY <1>0 DEF IsNewRobot
  <2>. QED  BY <1>0, <1>2, <2>1, <2>2, Zenon DEF RobotDone
<1>3. Done(verb, object, args) => Done(verb, object, args)'
  BY <1>1, <1>2 DEF Done
<1>4. ASSUME UNCHANGED <<score, isRunning>>, DoneNow(verb, object, args)
      PROVE  DoneNow(verb, object, args)'
  BY <1>0, <1>4 DEF DoneNow, ScoreDone
<1>. QED  BY <1>3, <1>4

LEMMA LastStep ==
  ASSUME GameType, ReplyType, LastDone, [Next]_vars
  PROVE  LastDone' /\ Again
<1>1. session \in Sessions
  BY DEF ReplyType
<1>2. ASSUME UNCHANGED <<gameVars, last, moved>> PROVE LastDone' /\ Again
  <2>1. UNCHANGED lastingVars /\ UNCHANGED <<score, playVars>>
    BY <1>2 DEF gameVars, lastingVars
  <2>2. LastDone'
    BY <1>2, <2>1, DoneStays DEF LastDone, Object, Args, Word, Rest
  <2>. QED  BY <2>1, <2>2 DEF Again
<1>3. ASSUME NEW c \in session, Performed(c) PROVE LastDone' /\ Again
  <2>1. (Done(Head(c), Object(c), Args(c)) /\ DoneNow(Head(c), Object(c), Args(c)))'
    BY <1>3, PerformDone DEF Performed
  <2>2. LastDone'
    BY <1>3, <2>1 DEF Performed, LastDone, Done, GameDone, TeamDone, RobotDone,
                        PlayerDone, IsNewRobot, With, DoneNow, ScoreDone
  <2>3. ASSUME last # <<>>, last' = last PROVE UNCHANGED lastingVars
    <3>1. Done(Head(c), Object(c), Args(c))
      BY <1>3, <2>3 DEF Performed, LastDone
    <3>. QED  BY <1>3, <3>1, DoneKeeps DEF Performed
  <2>4. ASSUME last # <<>>, last' = last, ~moved, Head(last) # "start"
        PROVE  UNCHANGED <<score, playVars>>
    <3>1. Done(Head(c), Object(c), Args(c)) /\ DoneNow(Head(c), Object(c), Args(c))
      BY <1>3, <2>4 DEF Performed, LastDone
    <3>2. Head(c) # "start" /\ Perform(Head(c), Object(c), Args(c))
      BY <1>3, <2>4 DEF Performed
    <3>. QED  BY <3>1, <3>2, DoneNowKeeps
  <2>. QED  BY <2>2, <2>3, <2>4 DEF Again
<1>4. CASE Play
  <2>1. UNCHANGED lastingVars /\ UNCHANGED last /\ moved'
    BY <1>4 DEF Play, StartGame, lastingVars
  <2>2. LastDone'
    BY <2>1, DoneStays DEF LastDone, Object, Args, Word, Rest
  <2>. QED  BY <2>1, <2>2 DEF Again
<1>5. UNCHANGED vars => UNCHANGED <<gameVars, last, moved>>
  BY DEF vars
<1>. QED  BY <1>1, <1>2, <1>3, <1>4, <1>5, NextFacts DEF Refused

\* An agent that repeats its last command makes and removes no team or robot by it;
\* when the game has not gone on since it changes no player, robot, score or item
\* and neither winner nor time, unless it starts the game, again (Game.cpp:90-311,
\* AgentProxy.cpp:360-546).
THEOREM RetriesChangeNothing == Spec => RetryChangesNothing
<1>1. Init => LastDone
  <2>1. Init => last = <<>>
    BY Zenon DEF Init
  <2>. QED  BY <2>1 DEF LastDone
<1>2. GameType /\ ReplyType /\ LastDone /\ [Next]_vars => LastDone' /\ [Again]_vars
  BY LastStep
<1>3. [Again]_vars =>
        [ last # <<>> /\ last' = last /\ ~moved' =>
            /\ UNCHANGED <<teams, members, robots, teamOf, nameOf, stopped>>
            /\ ~moved => UNCHANGED <<registered, urls, players>>
            /\ ~moved /\ Head(last) # "start" => UNCHANGED <<score, playVars>> ]_vars
  BY DEF Again, lastingVars
<1>. QED  BY <1>1, <1>2, <1>3, TypeInvariant, PTL DEF Spec, RetryChangesNothing

=============================================================================
