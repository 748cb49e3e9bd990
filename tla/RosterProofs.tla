---------------------------- MODULE RosterProofs ---------------------------
(***************************************************************************)
(* Proofs about Roster, for every set of names, players and temporary ids, *)
(* every configuration and any number of robots.                           *)
(***************************************************************************)
EXTENDS Roster, FiniteSetTheorems, WellFoundedInduction, TLAPS

USE DEF robotVars, linkVars, registerVars, Object, Id

----------------------------------------------------------------------------
(* The operators that choose *)

\* A nonempty set of map keys has a first one: the loops over m_robots find it.
LEMMA HasFirst ==
  ASSUME NEW S \in SUBSET Nat, S # {}
  PROVE  First(S) \in S
<1>1. PICK n \in S : \A m \in S : <<m, n>> \notin OpToRel(<, Nat)
  BY NatLessThanWellFounded, WFMin, Zenon
<1>2. \A m \in S : n <= m
  <2> SUFFICES ASSUME NEW m \in S, m < n PROVE FALSE
    OBVIOUS
  <2>1. <<m, n>> \in Nat \X Nat /\ <<m, n>>[1] < <<m, n>>[2]
    OBVIOUS
  <2>2. <<m, n>> \in OpToRel(<, Nat)
    BY <2>1 DEF OpToRel
  <2>. QED  BY <1>1, <2>2
<1>. QED  BY <1>2 DEF First

\* The set of one key has a last one.
LEMMA LastOfOne ==
  ASSUME NEW n \in Nat
  PROVE  Last({n}) = n
BY DEF Last

\* The robots of the game are objects that were made, each under a name.
LEMMA LiveObjects ==
  ASSUME TypeOK
  PROVE  /\ \A o \in Live : o \in Object /\ o <= made
         /\ Live = {o \in Object : \E n \in Name : robots[n] = o}
<1>1. ASSUME NEW n \in Name, robots[n] # 0
      PROVE  robots[n] \in Object /\ robots[n] <= made
  BY <1>1, BoundAssumption DEF TypeOK
<1>2. \A o : o \in Live <=> o # 0 /\ \E n \in Name : robots[n] = o
  BY DEF Live
<1>3. \A o \in Object : o # 0
  BY BoundAssumption
<1>. QED  BY <1>1, <1>2, <1>3

\* While there is room for one more robot, getNewRobotId finds an id that no
\* robot of the game has: the loop ends.
LEMMA NewIdIsNew ==
  ASSUME TypeOK, made < MaxObjects
  PROVE  NewRobotId \in Id /\ \A o \in Live : idOf[o] # NewRobotId
<1> DEFINE Unused == {k \in Id : \A o \in Live : idOf[o] # k}
<1>1. Live \subseteq 1 .. made
  BY DEF TypeOK, Live
<1>2. Unused # {}
  <2> SUFFICES ASSUME \A k \in Id : \E o \in Live : idOf[o] = k PROVE FALSE
    OBVIOUS
  <2> DEFINE f == [k \in Id |-> CHOOSE o \in Live : idOf[o] = k]
  <2>1. \A k \in Id : f[k] \in Live /\ idOf[f[k]] = k
    OBVIOUS
  <2>2. f \in [Id -> 1 .. made]
    BY <1>1, <2>1
  <2> DEFINE Ids == 0 .. MaxObjects  Made == 1 .. made
  <2>3. /\ IsFiniteSet(Ids) /\ Cardinality(Ids) = MaxObjects + 1
        /\ IsFiniteSet(Made) /\ Cardinality(Made) = made
    BY FS_Interval, BoundAssumption DEF TypeOK
  <2>4. Cardinality(Made) < Cardinality(Ids)
    BY <2>3, BoundAssumption DEF TypeOK
  <2>5. f \in [Ids -> Made]
    BY <2>2
  <2> HIDE DEF f, Ids, Made
  <2>6. \E x, y \in Ids : x # y /\ f[x] = f[y]
    BY <2>3, <2>4, <2>5, FS_PigeonHole
  <2>. QED  BY <2>1, <2>6 DEF Ids
<1>3. Unused \in SUBSET Nat
  BY BoundAssumption
<1>4. NewRobotId = First(Unused)
  BY DEF NewRobotId
<1>5. NewRobotId \in Unused
  BY <1>2, <1>3, <1>4, HasFirst, Zenon
<1>. QED  BY <1>5

\* The robot Hello finds is one of the game.
LEMMA FoundRobot ==
  ASSUME TypeOK, LinkSymmetric, NEW p \in Player, RobotForPlayer(p) # 0
  PROVE  /\ RobotForPlayer(p) \in Live
         /\ \/ playerOf[RobotForPlayer(p)] = p
            \/ /\ hasReal[RobotForPlayer(p)]
               /\ playerOf[RobotForPlayer(p)] = NoPlayer
               /\ \A o \in Live : playerOf[o] # p
<1>1. CASE DrivenBy(p) # {}
  <2>1. PICK n \in DrivenBy(p) : TRUE
    BY <1>1
  <2>2. DrivenBy(p) = {n}
    <3> SUFFICES ASSUME NEW m \in DrivenBy(p) PROVE m = n
      BY <2>1
    <3>1. /\ m \in Name /\ n \in Name /\ robots[m] # 0 /\ robots[n] # 0
          /\ playerOf[robots[m]] = p /\ playerOf[robots[n]] = p
      BY <2>1 DEF DrivenBy
    <3>2. robots[m] \in Object /\ robots[n] \in Object
      <4>1. made \in 0 .. MaxObjects /\ robots \in [Name -> 0 .. made]
        BY DEF TypeOK
      <4>. QED  BY <3>1, <4>1, BoundAssumption
    <3>3. robots[m] \in Live /\ robots[n] \in Live
      BY <3>1, <3>2 DEF Live
    <3>4. robotOf[p] = robots[m] /\ robotOf[p] = robots[n]
      BY <3>1, <3>3, PlayerAssumption DEF LinkSymmetric
    <3>. QED  BY <3>1, <3>4 DEF TypeOK
  <2>3. Last(DrivenBy(p)) = n
    BY <2>1, <2>2, LastOfOne, NameAssumption DEF DrivenBy
  <2>4. RobotForPlayer(p) = robots[n]
    BY <1>1, <2>3 DEF RobotForPlayer
  <2>5. robots[n] # 0 /\ playerOf[robots[n]] = p /\ n \in Name
    BY <2>1 DEF DrivenBy
  <2>6. robots[n] \in Object
    BY <2>5, BoundAssumption DEF TypeOK
  <2>. QED  BY <2>4, <2>5, <2>6 DEF Live
<1>2. CASE DrivenBy(p) = {}
  <2>1. Available # {} /\ RobotForPlayer(p) = robots[First(Available)]
    BY <1>2 DEF RobotForPlayer
  <2>2. Available \in SUBSET Nat
    BY NameAssumption DEF Available
  <2>3. First(Available) \in Available
    BY <2>1, <2>2, HasFirst, Zenon
  <2>4. \A o \in Live : playerOf[o] # p
    BY <1>2 DEF DrivenBy, Live
  <2>5. First(Available) \in Name /\ RobotForPlayer(p) \in Object
    <3>1. First(Available) \in Name /\ robots[First(Available)] # 0
      BY <2>3 DEF Available
    <3>2. robots[First(Available)] \in 0 .. made /\ made \in 0 .. MaxObjects
      BY <3>1 DEF TypeOK
    <3>. QED  BY <2>1, <3>1, <3>2, BoundAssumption
  <2>6. RobotForPlayer(p) \in Live
    BY <2>1, <2>5 DEF Live
  <2>7. hasReal[RobotForPlayer(p)] /\ playerOf[RobotForPlayer(p)] = NoPlayer
    BY <2>1, <2>3 DEF Available
  <2>. QED  BY <2>4, <2>6, <2>7
<1>. QED  BY <1>1, <1>2

----------------------------------------------------------------------------
(* Types, links and ids *)

IInv == TypeOK /\ LinkSymmetric /\ IdsDistinct

\* The configuration gives names and ids of the right types, each of them once.
LEMMA ConfigType ==
  /\ Len(ConfigRobots) \in 0 .. MaxObjects
  /\ \A i : Configured(i) =>
       /\ i \in 1 .. Len(ConfigRobots)
       /\ ConfigRobots[i].name \in Name /\ ConfigRobots[i].id \in Id
  /\ \A i, j : Configured(i) /\ Configured(j) /\ i # j =>
       /\ ConfigRobots[i].name # ConfigRobots[j].name
       /\ ConfigRobots[i].id # ConfigRobots[j].id
<1> DEFINE n == Len(ConfigRobots)
<1>1. n \in Nat /\ n <= MaxObjects
  BY ConfigAssumption
<1>2. \A i \in 1 .. n : ConfigRobots[i] \in [name : Name, id : 0 .. MaxObjects]
  <2> DEFINE Config == [name : Name, id : 0 .. MaxObjects]
  <2>1. ConfigRobots \in Seq(Config)
    BY ConfigAssumption
  <2> HIDE DEF Config
  <2>2. \A i \in 1 .. n : ConfigRobots[i] \in Config
    BY <2>1
  <2>. QED  BY <2>2 DEF Config
<1>3. \A i \in 1 .. n : ConfigRobots[i].name \in Name /\ ConfigRobots[i].id \in Id
  BY <1>2
<1>4. \A i, j \in 1 .. n : i # j =>
        /\ ConfigRobots[i].name # ConfigRobots[j].name
        /\ ConfigRobots[i].id # ConfigRobots[j].id
  BY ConfigAssumption
<1>. QED  BY <1>1, <1>3, <1>4, BoundAssumption DEF Configured

LEMMA InitIInv == Init => IInv
<1> SUFFICES ASSUME Init PROVE IInv
  OBVIOUS
<1>1. made = Len(ConfigRobots) /\ made \in 0 .. MaxObjects
  BY ConfigType DEF Init
<1>2. robots \in [Name -> 0 .. made] /\ robotsById \in [Id -> 0 .. made]
  BY DEF Init
<1>3. idOf \in [Object -> Id]
  <2>1. 0 \in Id
    BY BoundAssumption
  <2>. QED  BY <2>1, ConfigType DEF Init
<1>4. \A n \in Name : robots[n] # 0 =>
        Configured(robots[n]) /\ ConfigRobots[robots[n]].name = n
  <2> SUFFICES ASSUME NEW n \in Name, robots[n] # 0
               PROVE  Configured(robots[n]) /\ ConfigRobots[robots[n]].name = n
    OBVIOUS
  <2>1. robots[n] \in Object
    BY <1>1, <1>2, BoundAssumption
  <2>. QED  BY <2>1 DEF Init
<1>5. /\ hasReal \in [Object -> BOOLEAN]
      /\ playerOf \in [Object -> Player \cup {NoPlayer}]
      /\ \A o \in Object : o > made => ~hasReal[o] /\ playerOf[o] = NoPlayer
  BY DEF Init
<1>6. /\ players \subseteq Player /\ robotOf \in [Player -> 0 .. made]
      /\ registered \in [TempId -> Name \cup {NoName}]
      /\ told \in [TempId -> SUBSET Id]
      /\ removed \subseteq Name /\ freed \subseteq Name
      /\ isRunning \in BOOLEAN /\ crashed \in BOOLEAN
      /\ \A p \in Player \ players : robotOf[p] = 0
  <2>1. players = {} /\ robotOf = [p \in Player |-> 0]
    BY DEF Init
  <2>2. registered \in [TempId -> Name \cup {NoName}]
    BY DEF Init
  <2>3. told \in [TempId -> SUBSET Id]
    BY DEF Init
  <2>4. /\ isRunning \in BOOLEAN /\ crashed \in BOOLEAN
        /\ removed \subseteq Name /\ freed \subseteq Name
    BY DEF Init
  <2>. QED  BY <1>1, <2>1, <2>2, <2>3, <2>4
<1>7. \A m, n \in Name : robots[m] = robots[n] /\ robots[m] # 0 => m = n
  BY <1>4
<1>8. TypeOK
  BY <1>1, <1>2, <1>3, <1>5, <1>6, <1>7 DEF TypeOK
<1>9. LinkSymmetric
  BY <1>8, LiveObjects DEF Init, LinkSymmetric
<1>10. IdsDistinct
  <2> SUFFICES ASSUME NEW a \in Live, NEW b \in Live, idOf[a] = idOf[b]
               PROVE  a = b
    BY DEF IdsDistinct
  <2>1. a \in Object /\ b \in Object /\ Configured(a) /\ Configured(b)
    BY <1>1, <1>4, <1>8, LiveObjects
  <2>2. idOf[a] = ConfigRobots[a].id /\ idOf[b] = ConfigRobots[b].id
    BY <2>1 DEF Init
  <2>. QED  BY <2>1, <2>2, ConfigType
<1>. QED  BY <1>8, <1>9, <1>10 DEF IInv

LEMMA AddRobotIInv ==
  ASSUME IInv, NEW n \in Name, AddRobot(n), crashed' = crashed
  PROVE  IInv'
<1> DEFINE o == made + 1
<1>1. /\ made \in 0 .. MaxObjects /\ made < MaxObjects /\ made' = o
      /\ robots \in [Name -> 0 .. made] /\ robots[n] = 0
      /\ robots' = [robots EXCEPT ![n] = o]
  BY DEF AddRobot, IInv, TypeOK
<1>2. NewRobotId \in Id /\ \A x \in Live : idOf[x] # NewRobotId
  BY <1>1, NewIdIsNew DEF IInv
<1>3. idOf \in [Object -> Id] /\ idOf' = [idOf EXCEPT ![o] = NewRobotId]
  BY DEF AddRobot, IInv, TypeOK
<1>4. o \in Object /\ o \notin Live
  BY <1>1, BoundAssumption DEF Live
<1>5. Live' = Live \cup {o}
  BY <1>1, <1>4 DEF Live
<1>6. /\ hasReal' = hasReal /\ playerOf' = playerOf /\ players' = players
      /\ robotOf' = robotOf /\ registered' = registered /\ told' = told
      /\ isRunning' = isRunning /\ removed' = removed /\ freed' = freed
  BY DEF AddRobot
<1>7. ~hasReal[o] /\ playerOf[o] = NoPlayer
  BY <1>1, <1>4 DEF IInv, TypeOK
<1>8. TypeOK'
  <2>1. robotsById' \in [Id -> 0 .. o]
    BY <1>1, <1>2 DEF AddRobot, IInv, TypeOK
  <2>2. robots' \in [Name -> 0 .. o] /\ robotOf' \in [Player -> 0 .. o]
    BY <1>1, <1>6 DEF IInv, TypeOK
  <2>3. \A m, k \in Name : robots'[m] = robots'[k] /\ robots'[m] # 0 => m = k
    BY <1>1 DEF IInv, TypeOK
  <2>4. \A x \in Object : x > o => ~hasReal[x] /\ playerOf[x] = NoPlayer
    BY <1>1 DEF IInv, TypeOK
  <2>5. idOf' \in [Object -> Id] /\ o \in 0 .. MaxObjects
    BY <1>1, <1>2, <1>3, <1>4
  <2>. QED  BY <1>1, <1>6, <2>1, <2>2, <2>3, <2>4, <2>5 DEF IInv, TypeOK
<1>9. LinkSymmetric'
  BY <1>5, <1>6, <1>7 DEF IInv, LinkSymmetric
<1>10. IdsDistinct'
  <2>1. \A x \in Live : x \in Object /\ x # o
    BY <1>4, LiveObjects DEF IInv
  <2>. QED  BY <1>2, <1>3, <1>4, <1>5, <2>1 DEF IInv, IdsDistinct
<1>. QED  BY <1>8, <1>9, <1>10 DEF IInv

LEMMA HelloIInv ==
  ASSUME IInv, NEW p \in Player, NEW ready \in BOOLEAN, Hello(p, ready),
         crashed' = crashed
  PROVE  IInv'
<1> DEFINE r == RobotForPlayer(p)
<1>1. /\ made' = made /\ idOf' = idOf /\ robots' = robots
      /\ robotsById' = robotsById /\ players' = players \cup {p}
      /\ hasReal' = hasReal /\ registered' = registered /\ told' = told
      /\ removed' = removed /\ freed' = freed
  BY DEF Hello
<1>2. Live' = Live /\ IdsDistinct'
  BY <1>1 DEF Live, IInv, IdsDistinct
<1>3. CASE r = 0
  <2>1. robotOf' = robotOf /\ playerOf' = playerOf /\ isRunning' = isRunning
    BY <1>3 DEF Hello
  <2>2. p \notin players => robotOf[p] = 0
    BY DEF IInv, TypeOK
  <2>3. TypeOK'
    BY <1>1, <2>1 DEF IInv, TypeOK
  <2>4. LinkSymmetric'
    BY <1>1, <1>2, <2>1, <2>2 DEF IInv, LinkSymmetric
  <2>. QED  BY <1>2, <2>3, <2>4 DEF IInv
<1>4. CASE r # 0
  <2>1. /\ r \in Live
        /\ \/ playerOf[r] = p
           \/ playerOf[r] = NoPlayer /\ \A o \in Live : playerOf[o] # p
    BY <1>4, FoundRobot DEF IInv
  <2>2. r \in Object /\ r \in 0 .. made
    BY <2>1, LiveObjects DEF IInv, TypeOK
  <2>3. /\ robotOf' = [robotOf EXCEPT ![p] = r]
        /\ playerOf' = [playerOf EXCEPT ![r] = p]
    BY <1>4 DEF Hello
  <2>4. isRunning' \in BOOLEAN
    BY <1>4 DEF Hello, IInv, TypeOK
  <2> HIDE DEF r
  <2>5. /\ robotOf \in [Player -> 0 .. made]
        /\ playerOf \in [Object -> Player \cup {NoPlayer}]
        /\ players \subseteq Player
        /\ \A q \in Player \ players : robotOf[q] = 0
    BY DEF IInv, TypeOK
  <2>6. TypeOK'
    <3>1. \A o \in Object : o > made => o # r
      BY <2>2 DEF IInv, TypeOK
    <3>2. \A o \in Object : o > made => ~hasReal'[o] /\ playerOf'[o] = NoPlayer
      BY <1>1, <2>2, <2>3, <2>5, <3>1 DEF IInv, TypeOK
    <3>3. /\ robotOf' \in [Player -> 0 .. made]
          /\ playerOf' \in [Object -> Player \cup {NoPlayer}]
          /\ players' \subseteq Player
          /\ \A q \in Player \ players' : robotOf'[q] = 0
      BY <1>1, <2>2, <2>3, <2>5
    <3>. QED  BY <1>1, <2>4, <3>2, <3>3 DEF IInv, TypeOK
  <2>7. LinkSymmetric'
    <3>1. ASSUME NEW q \in players', robotOf'[q] # 0
          PROVE  playerOf'[robotOf'[q]] = q
      <4>1. CASE q = p
        BY <2>2, <2>3, <2>5, <4>1
      <4>2. CASE q # p
        <5>1. q \in players /\ robotOf'[q] = robotOf[q] /\ q \in Player
          BY <1>1, <2>3, <2>5, <4>2
        <5>2. playerOf[robotOf[q]] = q
          BY <3>1, <5>1 DEF IInv, LinkSymmetric
        <5>3. robotOf[q] # r
          BY <2>1, <4>2, <5>1, <5>2, PlayerAssumption
        <5>. QED  BY <2>2, <2>3, <2>5, <5>1, <5>2, <5>3
      <4>. QED  BY <4>1, <4>2
    <3>2. ASSUME NEW o \in Live, playerOf'[o] # NoPlayer
          PROVE  playerOf'[o] \in players' /\ robotOf'[playerOf'[o]] = o
      <4>1. o \in Object
        BY LiveObjects DEF IInv
      <4>2. CASE o = r
        BY <1>1, <2>2, <2>3, <2>5, <4>2
      <4>3. CASE o # r
        <5>1. playerOf'[o] = playerOf[o]
          BY <2>3, <2>5, <4>1, <4>3
        <5>2. playerOf[o] \in players /\ robotOf[playerOf[o]] = o
          BY <3>2, <5>1 DEF IInv, LinkSymmetric
        <5>3. playerOf[o] # p
          <6>1. playerOf[r] = p => robotOf[p] = r
            BY <2>1, PlayerAssumption DEF IInv, LinkSymmetric
          <6>. QED  BY <2>1, <4>3, <5>2, <6>1
        <5>. QED  BY <1>1, <2>3, <2>5, <5>1, <5>2, <5>3
      <4>. QED  BY <4>2, <4>3
    <3>. QED  BY <1>2, <3>1, <3>2 DEF LinkSymmetric
  <2>. QED  BY <1>2, <2>6, <2>7 DEF IInv
<1>. QED  BY <1>3, <1>4

LEMMA RegisterIInv ==
  ASSUME IInv, NEW t \in TempId, Register(t)
  PROVE  IInv'
<1> DEFINE name == IF Registration(t) # NoName THEN Registration(t)
                                               ELSE First(WithoutReal)
<1>1. /\ made' = made /\ idOf' = idOf /\ robots' = robots
      /\ robotsById' = robotsById /\ players' = players
      /\ playerOf' = playerOf /\ robotOf' = robotOf /\ isRunning' = isRunning
      /\ removed' = removed /\ freed' = freed
  BY DEF Register, vars
<1>2. Live' = Live /\ IdsDistinct' /\ LinkSymmetric'
  BY <1>1 DEF Live, IInv, IdsDistinct, LinkSymmetric
<1>3. \/ /\ hasReal' = hasReal /\ registered' = registered /\ told' = told
         /\ crashed' \in {crashed, TRUE}
      \/ /\ name \in Name /\ robots[name] # 0 /\ crashed' = crashed
         /\ registered' = [registered EXCEPT ![t] = name]
         /\ hasReal' = [hasReal EXCEPT ![robots[name]] = TRUE]
         /\ told' = [told EXCEPT ![t] = @ \cup {idOf[robots[name]]}]
  <2>1. Registration(t) \in Name \cup {NoName}
    BY DEF Registration, IInv, TypeOK
  <2>2. WithoutReal # {} => First(WithoutReal) \in WithoutReal
    <3>1. WithoutReal \in SUBSET Nat
      BY NameAssumption DEF WithoutReal
    <3>. QED  BY <3>1, HasFirst, Zenon
  <2>3. \A n \in WithoutReal : n \in Name /\ robots[n] # 0
    BY DEF WithoutReal
  <2>. QED  BY <2>1, <2>2, <2>3 DEF Register, vars
<1>4. TypeOK'
  <2>1. CASE /\ hasReal' = hasReal /\ registered' = registered /\ told' = told
             /\ crashed' \in {crashed, TRUE}
    BY <1>1, <2>1 DEF IInv, TypeOK
  <2>2. CASE /\ name \in Name /\ robots[name] # 0 /\ crashed' = crashed
             /\ registered' = [registered EXCEPT ![t] = name]
             /\ hasReal' = [hasReal EXCEPT ![robots[name]] = TRUE]
             /\ told' = [told EXCEPT ![t] = @ \cup {idOf[robots[name]]}]
    <3> HIDE DEF name
    <3>1. robots[name] \in 1 .. made /\ robots[name] \in Object
      <4>1. made \in 0 .. MaxObjects /\ robots \in [Name -> 0 .. made]
        BY DEF IInv, TypeOK
      <4>. QED  BY <2>2, <4>1, BoundAssumption
    <3>2. hasReal' \in [Object -> BOOLEAN]
      BY <2>2 DEF IInv, TypeOK
    <3>3. registered' \in [TempId -> Name \cup {NoName}]
      BY <2>2 DEF IInv, TypeOK
    <3>4. told' \in [TempId -> SUBSET Id]
      BY <2>2, <3>1 DEF IInv, TypeOK
    <3>5. \A o \in Object : o > made => ~hasReal'[o]
      BY <2>2, <3>1 DEF IInv, TypeOK
    <3>. QED  BY <1>1, <2>2, <3>2, <3>3, <3>4, <3>5 DEF IInv, TypeOK
  <2>. QED  BY <1>3, <2>1, <2>2
<1>. QED  BY <1>2, <1>4 DEF IInv

LEMMA RemovePlayerIInv ==
  ASSUME IInv, NEW p \in Player, RemovePlayer(p), crashed' = crashed
  PROVE  IInv'
<1>1. /\ made' = made /\ idOf' = idOf /\ robots' = robots
      /\ robotsById' = robotsById /\ players' = players \ {p}
      /\ hasReal' = hasReal /\ registered' = registered /\ told' = told
      /\ removed' = removed /\ freed' = freed
      /\ isRunning' = isRunning /\ robotOf' = [robotOf EXCEPT ![p] = 0]
      /\ playerOf' = [o \in Object |-> IF playerOf[o] = p THEN NoPlayer ELSE playerOf[o]]
  BY DEF RemovePlayer
<1>2. Live' = Live /\ IdsDistinct'
  BY <1>1 DEF Live, IInv, IdsDistinct
<1>3. /\ robotOf \in [Player -> 0 .. made] /\ made \in 0 .. MaxObjects
      /\ playerOf \in [Object -> Player \cup {NoPlayer}]
      /\ players \subseteq Player
      /\ \A q \in Player \ players : robotOf[q] = 0
  BY DEF IInv, TypeOK
<1>4. TypeOK'
  <2>1. \A o \in Object : o > made => playerOf'[o] = NoPlayer
    BY <1>1 DEF IInv, TypeOK
  <2>2. playerOf' \in [Object -> Player \cup {NoPlayer}]
    BY <1>1, <1>3
  <2>3. robotOf' \in [Player -> 0 .. made]
    BY <1>1, <1>3
  <2>4. \A q \in Player \ players' : robotOf'[q] = 0
    BY <1>1, <1>3
  <2>. QED  BY <1>1, <1>3, <2>1, <2>2, <2>3, <2>4 DEF IInv, TypeOK
<1>5. LinkSymmetric'
  <2>1. ASSUME NEW q \in players', robotOf'[q] # 0
        PROVE  playerOf'[robotOf'[q]] = q
    <3>1. q # p /\ q \in players /\ q \in Player /\ robotOf'[q] = robotOf[q]
      BY <1>1, <1>3
    <3>2. playerOf[robotOf[q]] = q
      BY <2>1, <3>1 DEF IInv, LinkSymmetric
    <3>3. robotOf[q] \in Object
      BY <1>3, <2>1, <3>1, BoundAssumption
    <3>. QED  BY <1>1, <3>1, <3>2, <3>3
  <2>2. ASSUME NEW o \in Live, playerOf'[o] # NoPlayer
        PROVE  playerOf'[o] \in players' /\ robotOf'[playerOf'[o]] = o
    <3>1. o \in Object
      BY LiveObjects DEF IInv
    <3>2. playerOf'[o] = playerOf[o] /\ playerOf[o] # p
      BY <1>1, <2>2, <3>1
    <3>3. playerOf[o] \in players /\ robotOf[playerOf[o]] = o
      BY <2>2, <3>2 DEF IInv, LinkSymmetric
    <3>. QED  BY <1>1, <1>3, <3>2, <3>3
  <2>. QED  BY <1>2, <2>1, <2>2 DEF LinkSymmetric
<1>. QED  BY <1>2, <1>4, <1>5 DEF IInv

LEMMA RemoveRobotIInv ==
  ASSUME IInv, NEW n \in Name, RemoveRobot(n), crashed' = crashed
  PROVE  IInv'
<1>1. /\ made' = made /\ idOf' = idOf /\ robots' = [robots EXCEPT ![n] = 0]
      /\ robotsById' = robotsById /\ players' = players
      /\ hasReal' = hasReal /\ registered' = registered /\ told' = told
      /\ isRunning' = isRunning /\ robotOf' = robotOf /\ playerOf' = playerOf
      /\ removed' = removed \cup {n} /\ freed' = freed
  BY DEF RemoveRobot
<1>2. robots \in [Name -> 0 .. made] /\ made \in 0 .. MaxObjects
  BY DEF IInv, TypeOK
<1>3. Live' \subseteq Live
  BY <1>1, <1>2 DEF Live
<1>4. TypeOK'
  <2>1. robots' \in [Name -> 0 .. made]
    BY <1>1, <1>2
  <2>2. \A m, k \in Name : robots'[m] = robots'[k] /\ robots'[m] # 0 => m = k
    BY <1>1, <1>2 DEF IInv, TypeOK
  <2>. QED  BY <1>1, <2>1, <2>2 DEF IInv, TypeOK
<1>5. LinkSymmetric' /\ IdsDistinct'
  BY <1>1, <1>3 DEF IInv, LinkSymmetric, IdsDistinct
<1>. QED  BY <1>4, <1>5 DEF IInv

\* The other steps change neither links nor ids.
LEMMA OtherIInv ==
  ASSUME IInv, crashed' = crashed,
         \/ \E n \in Name, real \in BOOLEAN : RegisterRobot(n, real)
         \/ \E p \in Player : AddPlayer(p)
         \/ StartGame \/ StopGame
  PROVE  IInv'
<1>1. /\ made' = made /\ idOf' = idOf /\ robots' = robots
      /\ robotsById' = robotsById /\ registered' = registered /\ told' = told
      /\ robotOf' = robotOf /\ playerOf' = playerOf /\ removed' = removed
  BY DEF RegisterRobot, AddPlayer, StartGame, StopGame
<1>2. /\ isRunning' \in BOOLEAN /\ players' \subseteq Player
      /\ players \subseteq players'
      /\ \A p \in players' \ players : robotOf[p] = 0
  BY DEF RegisterRobot, AddPlayer, StartGame, StopGame, IInv, TypeOK
<1>3. /\ hasReal' \in [Object -> BOOLEAN]
      /\ \A o \in Object : o > made => ~hasReal'[o]
  <2>1. CASE hasReal' = hasReal
    BY <2>1 DEF IInv, TypeOK
  <2>2. ASSUME NEW n \in Name, NEW real \in BOOLEAN, RegisterRobot(n, real)
        PROVE  /\ hasReal' \in [Object -> BOOLEAN]
               /\ \A o \in Object : o > made => ~hasReal'[o]
    <3>1. robots[n] \in 0 .. made /\ made \in 0 .. MaxObjects
      BY DEF IInv, TypeOK
    <3>2. hasReal' = [hasReal EXCEPT ![robots[n]] = real]
      BY <2>2 DEF RegisterRobot
    <3>3. hasReal' \in [Object -> BOOLEAN]
      BY <3>2 DEF IInv, TypeOK
    <3>4. \A o \in Object : o > made => hasReal'[o] = hasReal[o]
      BY <3>1, <3>2 DEF IInv, TypeOK
    <3>. QED  BY <3>3, <3>4 DEF IInv, TypeOK
  <2>. QED  BY <2>1, <2>2 DEF AddPlayer, StartGame, StopGame
<1>4. TypeOK'
  <2>1. freed' \subseteq Name
    BY DEF RegisterRobot, AddPlayer, StartGame, StopGame, IInv, TypeOK
  <2>. QED  BY <1>1, <1>2, <1>3, <2>1 DEF IInv, TypeOK
<1>5. Live' = Live
  BY <1>1 DEF Live
<1>6. LinkSymmetric' /\ IdsDistinct'
  BY <1>1, <1>2, <1>5 DEF IInv, LinkSymmetric, IdsDistinct
<1>. QED  BY <1>4, <1>6 DEF IInv

LEMMA NextIInv == IInv /\ [Next]_vars => IInv'
<1> SUFFICES ASSUME IInv, [Next]_vars PROVE IInv'
  OBVIOUS
<1>1. ASSUME NEW t \in TempId, Register(t) PROVE IInv'
  BY <1>1, RegisterIInv
<1>2. ASSUME crashed' = crashed, Agent PROVE IInv'
  BY <1>2, AddRobotIInv, RemoveRobotIInv, RemovePlayerIInv, OtherIInv DEF Agent
<1>3. ASSUME crashed' = crashed, StartGame \/ StopGame PROVE IInv'
  BY <1>3, OtherIInv
<1>4. ASSUME NEW p \in Player, NEW ready \in BOOLEAN, Hello(p, ready),
             crashed' = crashed
      PROVE  IInv'
  BY <1>4, HelloIInv
<1>5. CASE UNCHANGED vars
  BY <1>5 DEF vars, IInv, TypeOK, LinkSymmetric, IdsDistinct, Live
<1>. QED  BY <1>1, <1>2, <1>3, <1>4, <1>5 DEF Next

LEMMA AlwaysIInv == Spec => []IInv
BY InitIInv, NextIInv, PTL DEF Spec

\* Types hold in every reachable state, whatever the agents do: a new object
\* has no player yet, and names lead to objects of their own.
THEOREM TypeCorrect == Spec => []TypeOK
<1>1. IInv => TypeOK
  BY DEF IInv
<1>. QED  BY AlwaysIInv, <1>1, PTL

\* Players and robots know each other, whatever the agents do.
THEOREM LinksCorrect == Spec => []LinkSymmetric
<1>1. IInv => LinkSymmetric
  BY DEF IInv
<1>. QED  BY AlwaysIInv, <1>1, PTL

\* No two robots of the game have one id, whatever the agents do: the id the
\* game chooses is new (NewIdIsNew).
THEOREM IdsCorrect == Spec => []IdsDistinct
<1>1. IInv => IdsDistinct
  BY DEF IInv
<1>. QED  BY AlwaysIInv, <1>1, PTL

----------------------------------------------------------------------------
(* Ids and registrations *)

\* What ByIdUnlessReused rests on: m_robotsById knows every id that was ever
\* given, and leads to a robot that was made with it.
ByIdKnown ==
  /\ \A k \in Id : robotsById[k] # 0 => idOf[robotsById[k]] = k
  /\ \A o \in Object : o <= made => robotsById[idOf[o]] # 0

\* What SameInformation rests on: until it is removed, the robot a registration
\* names is of the game, and only its id was ever told.
RegistrationsHold ==
  \A t \in TempId :
    /\ registered[t] = NoName => told[t] = {}
    /\ registered[t] \notin removed \cup {NoName} =>
         /\ robots[registered[t]] # 0
         /\ told[t] \subseteq {idOf[robots[registered[t]]]}

NInv == IInv /\ ByIdKnown /\ RegistrationsHold /\ RegisterAnswered

LEMMA InitNInv == Init => NInv
<1> SUFFICES ASSUME Init PROVE NInv
  OBVIOUS
<1>1. IInv
  BY InitIInv
<1>2. made = Len(ConfigRobots) /\ made \in 0 .. MaxObjects
  BY ConfigType DEF Init
<1>3. \A o \in Object : o <= made => Configured(o)
  BY <1>2 DEF Configured
<1>4. ByIdKnown
  <2>1. ASSUME NEW k \in Id, robotsById[k] # 0 PROVE idOf[robotsById[k]] = k
    <3>1. robotsById[k] \in Object
      <4>1. robotsById[k] \in 0 .. made
        BY DEF Init
      <4>. QED  BY <1>2, <2>1, <4>1, BoundAssumption
    <3>2. Configured(robotsById[k]) /\ ConfigRobots[robotsById[k]].id = k
      BY <3>1 DEF Init
    <3>. QED  BY <3>1, <3>2 DEF Init
  <2>2. ASSUME NEW o \in Object, o <= made PROVE robotsById[idOf[o]] # 0
    <3>1. Configured(o) /\ idOf[o] = ConfigRobots[o].id
      BY <1>3, <2>2 DEF Init
    <3>2. idOf[o] \in Id
      BY <3>1, ConfigType
    <3>3. robotsById[idOf[o]] = o
      BY <3>1, <3>2 DEF Init
    <3>. QED  BY <3>3
  <2>. QED  BY <2>1, <2>2 DEF ByIdKnown
<1>5. RegistrationsHold /\ RegisterAnswered
  BY DEF Init, RegistrationsHold, RegisterAnswered
<1>. QED  BY <1>1, <1>4, <1>5 DEF NInv

LEMMA AddRobotNInv ==
  ASSUME NInv, NEW n \in Name, AddRobot(n), crashed' = crashed
  PROVE  NInv'
<1> DEFINE o == made + 1  k == NewRobotId
<1>0. made \in 0 .. MaxObjects
  BY DEF NInv, IInv, TypeOK
<1>1. /\ made \in 0 .. MaxObjects /\ made < MaxObjects /\ made' = o
      /\ robots \in [Name -> 0 .. made] /\ robots[n] = 0
      /\ robots' = [robots EXCEPT ![n] = o]
      /\ robotsById \in [Id -> 0 .. made]
      /\ idOf \in [Object -> Id] /\ idOf' = [idOf EXCEPT ![o] = k]
      /\ robotsById' = IF robotsById[k] = 0 THEN [robotsById EXCEPT ![k] = o]
                                            ELSE robotsById
      /\ registered' = registered /\ told' = told /\ removed' = removed
  BY DEF AddRobot, NInv, IInv, TypeOK
<1>2. k \in Id
  BY <1>1, NewIdIsNew DEF NInv, IInv
<1>3. o \in Object
  BY <1>1, BoundAssumption
<1>4. IInv'
  BY AddRobotIInv DEF NInv
<1> HIDE DEF k
<1>5. \A x \in Object : x <= made => idOf'[x] = idOf[x] /\ idOf[x] \in Id
  BY <1>1
<1>6. ByIdKnown'
  <2>1. ASSUME NEW j \in Id, robotsById'[j] # 0 PROVE idOf'[robotsById'[j]] = j
    <3>1. CASE robotsById'[j] = robotsById[j]
      <4>1. robotsById[j] \in 0 .. made /\ robotsById[j] # 0
        BY <1>1, <2>1, <3>1
      <4>2. robotsById[j] \in Object /\ robotsById[j] <= made
        BY <1>0, <4>1, BoundAssumption
      <4>. QED  BY <1>5, <2>1, <3>1, <4>1, <4>2 DEF NInv, ByIdKnown
    <3>2. CASE robotsById'[j] # robotsById[j]
      <4>1. j = k /\ robotsById'[j] = o
        BY <1>1, <1>2, <3>2
      <4>. QED  BY <1>1, <1>3, <4>1
    <3>. QED  BY <3>1, <3>2
  <2>2. ASSUME NEW x \in Object, x <= made' PROVE robotsById'[idOf'[x]] # 0
    <3>1. \A j \in Id : robotsById[j] # 0 => robotsById'[j] # 0
      BY <1>1, <1>2
    <3>2. robotsById'[k] # 0
      BY <1>1, <1>2
    <3>3. CASE x = o
      BY <1>1, <1>3, <3>2, <3>3
    <3>4. CASE x # o
      <4>1. x <= made
        BY <1>1, <2>2, <3>4
      <4>. QED  BY <1>5, <3>1, <4>1 DEF NInv, ByIdKnown
    <3>. QED  BY <3>3, <3>4
  <2>. QED  BY <2>1, <2>2 DEF ByIdKnown
<1>7. RegistrationsHold'
  <2> SUFFICES ASSUME NEW t \in TempId, registered[t] \notin removed \cup {NoName}
               PROVE  /\ robots'[registered[t]] # 0
                      /\ told[t] \subseteq {idOf'[robots'[registered[t]]]}
    BY <1>1 DEF NInv, RegistrationsHold
  <2>1. /\ robots[registered[t]] # 0
        /\ told[t] \subseteq {idOf[robots[registered[t]]]}
    BY DEF NInv, RegistrationsHold
  <2>2. registered[t] \in Name
    BY DEF NInv, IInv, TypeOK
  <2>3. robots'[registered[t]] = robots[registered[t]]
    BY <1>1, <2>1, <2>2
  <2>4. robots[registered[t]] \in Object /\ robots[registered[t]] <= made
    <3>1. robots[registered[t]] \in 0 .. made
      BY <1>1, <2>2
    <3>2. robots[registered[t]] # 0
      BY <2>1
    <3>. QED  BY <1>0, <3>1, <3>2, BoundAssumption
  <2>. QED  BY <1>5, <2>1, <2>3, <2>4
<1>8. RegisterAnswered'
  BY <1>1 DEF NInv, RegisterAnswered
<1>. QED  BY <1>4, <1>6, <1>7, <1>8 DEF NInv

LEMMA RemoveRobotNInv ==
  ASSUME NInv, NEW n \in Name, RemoveRobot(n), crashed' = crashed
  PROVE  NInv'
<1>1. /\ made' = made /\ idOf' = idOf /\ robots' = [robots EXCEPT ![n] = 0]
      /\ robotsById' = robotsById /\ registered' = registered /\ told' = told
      /\ removed' = removed \cup {n} /\ robots \in [Name -> 0 .. made]
  BY DEF RemoveRobot, NInv, IInv, TypeOK
<1>2. IInv'
  BY RemoveRobotIInv DEF NInv
<1>3. ByIdKnown' /\ RegisterAnswered'
  BY <1>1 DEF NInv, ByIdKnown, RegisterAnswered
<1>4. RegistrationsHold'
  <2> SUFFICES ASSUME NEW t \in TempId,
                      registered[t] \notin removed \cup {n} \cup {NoName}
               PROVE  /\ robots'[registered[t]] # 0
                      /\ told[t] \subseteq {idOf[robots'[registered[t]]]}
    BY <1>1 DEF NInv, RegistrationsHold
  <2>1. robots'[registered[t]] = robots[registered[t]]
    BY <1>1
  <2>. QED  BY <2>1 DEF NInv, RegistrationsHold
<1>. QED  BY <1>2, <1>3, <1>4 DEF NInv

LEMMA RegisterNInv ==
  ASSUME NInv, NEW t \in TempId, Register(t), ~crashed
  PROVE  NInv'
<1> DEFINE name == IF Registration(t) # NoName THEN Registration(t)
                                               ELSE First(WithoutReal)
<1>1. /\ made' = made /\ idOf' = idOf /\ robots' = robots
      /\ robotsById' = robotsById /\ removed' = removed
  BY DEF Register, vars
<1>2. IInv' /\ ByIdKnown'
  BY <1>1, RegisterIInv DEF NInv, ByIdKnown
<1>3. RegisterAnswered'
  <2>1. CASE crashed' = crashed
    BY <2>1 DEF RegisterAnswered
  <2>2. CASE Registration(t) # NoName /\ robots[Registration(t)] = 0
             /\ registered' = registered
    <3>1. registered[t] \in removed
      BY <2>2 DEF NInv, RegistrationsHold, Registration
    <3>. QED  BY <1>1, <2>2, <3>1 DEF RegisterAnswered
  <2>. QED  BY <2>1, <2>2 DEF Register, vars
<1>4. RegistrationsHold'
  <2>1. CASE registered' = registered /\ told' = told
    BY <1>1, <2>1 DEF NInv, RegistrationsHold
  <2>2. CASE /\ registered' = [registered EXCEPT ![t] = name]
             /\ told' = [told EXCEPT ![t] = @ \cup {idOf[robots[name]]}]
             /\ Registration(t) = NoName => WithoutReal # {}
             /\ Registration(t) # NoName => robots[Registration(t)] # 0
    <3> SUFFICES ASSUME NEW u \in TempId
                 PROVE  /\ registered'[u] = NoName => told'[u] = {}
                        /\ registered'[u] \notin removed \cup {NoName} =>
                             /\ robots[registered'[u]] # 0
                             /\ told'[u] \subseteq {idOf[robots[registered'[u]]]}
      BY <1>1 DEF RegistrationsHold
    <3>1. /\ registered \in [TempId -> Name \cup {NoName}]
          /\ told \in [TempId -> SUBSET Id]
      BY DEF NInv, IInv, TypeOK
    <3>2. name \notin removed => told[t] \subseteq {idOf[robots[name]]}
      <4>1. CASE Registration(t) = NoName
        BY <4>1 DEF NInv, RegistrationsHold, Registration
      <4>2. CASE Registration(t) # NoName
        BY <4>2 DEF NInv, RegistrationsHold, Registration
      <4>. QED  BY <4>1, <4>2
    <3>3. name \in Name /\ robots[name] # 0
      <4>1. CASE Registration(t) = NoName
        <5>1. WithoutReal \in SUBSET Nat
          BY NameAssumption DEF WithoutReal
        <5>2. name \in WithoutReal
          BY <2>2, <4>1, <5>1, HasFirst, Zenon
        <5>. QED  BY <5>2 DEF WithoutReal
      <4>2. CASE Registration(t) # NoName
        BY <2>2, <3>1, <4>2 DEF Registration
      <4>. QED  BY <4>1, <4>2
    <3> HIDE DEF name
    <3>4. CASE u = t
      BY <2>2, <3>1, <3>2, <3>3, <3>4, NameAssumption
    <3>5. CASE u # t
      BY <2>2, <3>1, <3>5 DEF NInv, RegistrationsHold
    <3>. QED  BY <3>4, <3>5
  <2>. QED  BY <2>1, <2>2 DEF Register, vars
<1>. QED  BY <1>2, <1>3, <1>4 DEF NInv

LEMMA NextNInv == NInv /\ [Next]_vars => NInv'
<1> SUFFICES ASSUME NInv, [Next]_vars PROVE NInv'
  OBVIOUS
<1>1. IInv'
  BY NextIInv DEF NInv
<1>2. ASSUME made' = made, idOf' = idOf, robots' = robots, robotsById' = robotsById,
             registered' = registered, told' = told, removed' = removed,
             crashed' = crashed
      PROVE  NInv'
  BY <1>1, <1>2 DEF NInv, ByIdKnown, RegistrationsHold, RegisterAnswered
<1>3. ASSUME NEW n \in Name, AddRobot(n), crashed' = crashed PROVE NInv'
  BY <1>3, AddRobotNInv
<1>4. ASSUME NEW n \in Name, RemoveRobot(n), crashed' = crashed PROVE NInv'
  BY <1>4, RemoveRobotNInv
<1>5. ASSUME NEW n \in Name, NEW real \in BOOLEAN, RegisterRobot(n, real),
             crashed' = crashed
      PROVE  NInv'
  BY <1>2, <1>5 DEF RegisterRobot
<1>6. ASSUME NEW p \in Player, AddPlayer(p) \/ RemovePlayer(p), crashed' = crashed
      PROVE  NInv'
  BY <1>2, <1>6 DEF AddPlayer, RemovePlayer
<1>7. ASSUME StartGame \/ StopGame, crashed' = crashed PROVE NInv'
  BY <1>2, <1>7 DEF StartGame, StopGame
<1>8. ASSUME NEW p \in Player, NEW ready \in BOOLEAN, Hello(p, ready),
             crashed' = crashed
      PROVE  NInv'
  BY <1>2, <1>8 DEF Hello
<1>9. ASSUME NEW t \in TempId, Register(t), ~crashed PROVE NInv'
  BY <1>9, RegisterNInv
<1>10. CASE UNCHANGED vars
  BY <1>2, <1>10 DEF vars
<1>. QED  BY <1>3, <1>4, <1>5, <1>6, <1>7, <1>8, <1>9, <1>10 DEF Next, Agent

LEMMA NInvImplies == NInv => ByIdUnlessReused /\ SameInformation
<1> SUFFICES ASSUME NInv PROVE ByIdUnlessReused /\ SameInformation
  OBVIOUS
<1>1. ByIdUnlessReused
  <2> SUFFICES ASSUME NEW o \in Live, robotsById[idOf[o]] # o
               PROVE  /\ robotsById[idOf[o]] \in Gone
                      /\ idOf[robotsById[idOf[o]]] = idOf[o]
    BY DEF ByIdUnlessReused
  <2>1. o \in Object /\ o <= made /\ idOf[o] \in Id
    BY LiveObjects DEF NInv, IInv, TypeOK
  <2> DEFINE b == robotsById[idOf[o]]
  <2>2. b # 0 /\ idOf[b] = idOf[o]
    BY <2>1 DEF NInv, ByIdKnown
  <2>3. b \in 1 .. made
    BY <2>1, <2>2 DEF NInv, IInv, TypeOK
  <2>4. b \notin Live
    BY <2>2 DEF NInv, IInv, IdsDistinct
  <2>. QED  BY <2>2, <2>3, <2>4 DEF Gone
<1>2. SameInformation
  <2> SUFFICES ASSUME NEW t \in TempId, registered[t] \notin removed,
                      NEW i \in told[t], NEW j \in told[t]
               PROVE  i = j
    BY DEF SameInformation
  <2>1. CASE registered[t] = NoName
    BY <2>1 DEF NInv, RegistrationsHold
  <2>2. CASE registered[t] # NoName
    BY <2>2 DEF NInv, RegistrationsHold
  <2>. QED  BY <2>1, <2>2
<1>. QED  BY <1>1, <1>2

LEMMA AlwaysNInv == Spec => []NInv
BY InitNInv, NextNInv, PTL DEF Spec

\* Whatever agents do, an id of a robot of the game leads to that robot or to
\* one that had the id before and was removed (Game.hpp:196, Game.cpp:259-311).
THEOREM IdsLead == Spec => []ByIdUnlessReused
BY AlwaysNInv, NInvImplies, PTL

\* Until its robot is removed a temporary id is told one robot id: what
\* Game.hpp:202-204 promises.
THEOREM RegistrationsSame == Spec => []SameInformation
BY AlwaysNInv, NInvImplies, PTL

\* Only a Register for a robot that was removed ends the program.
THEOREM RegistersAnswered == Spec => []RegisterAnswered
<1>1. NInv => RegisterAnswered
  BY DEF NInv
<1>. QED  BY AlwaysNInv, <1>1, PTL

----------------------------------------------------------------------------
(* Slots *)

\* What SlotsNotShared rests on: a slot that was given away and not taken back
\* has its real robot.
SlotsTaken ==
  \A t \in TempId :
    registered[t] \notin removed \cup freed \cup {NoName}
      => hasReal[robots[registered[t]]]

SInv == NInv /\ SlotsTaken /\ SlotsNotShared

LEMMA RegisterSInv ==
  ASSUME SInv, NEW t \in TempId, Register(t)
  PROVE  SlotsTaken' /\ SlotsNotShared'
<1> DEFINE name == IF Registration(t) # NoName THEN Registration(t)
                                               ELSE First(WithoutReal)
           Back == removed \cup freed \cup {NoName}
<1>1. removed' = removed /\ freed' = freed /\ robots' = robots
  BY DEF Register, vars
<1>2. CASE registered' = registered /\ hasReal' = hasReal
  BY <1>1, <1>2 DEF SInv, SlotsTaken, SlotsNotShared
<1>3. CASE /\ registered' = [registered EXCEPT ![t] = name]
           /\ hasReal' = [hasReal EXCEPT ![robots[name]] = TRUE]
           /\ Registration(t) = NoName => WithoutReal # {}
           /\ Registration(t) # NoName => robots[Registration(t)] # 0
  <2>1. /\ registered \in [TempId -> Name \cup {NoName}]
        /\ hasReal \in [Object -> BOOLEAN]
        /\ robots \in [Name -> 0 .. made] /\ made \in 0 .. MaxObjects
    BY DEF SInv, NInv, IInv, TypeOK
  <2>2. ASSUME NEW u \in TempId, registered[u] \notin Back
        PROVE  registered[u] \in Name /\ robots[registered[u]] \in Object
    <3>1. registered[u] \in Name /\ robots[registered[u]] # 0
      BY <2>1, <2>2 DEF SInv, NInv, RegistrationsHold
    <3>2. robots[registered[u]] \in 0 .. made
      BY <2>1, <3>1
    <3>. QED  BY <2>1, <3>1, <3>2, BoundAssumption
  <2>3. Registration(t) = NoName =>
          name \in Name /\ ~hasReal[robots[name]] /\ robots[name] # 0
    <3>1. WithoutReal \in SUBSET Nat
      BY NameAssumption DEF WithoutReal
    <3>2. Registration(t) = NoName => name \in WithoutReal
      BY <1>3, <3>1, HasFirst, Zenon
    <3>. QED  BY <3>2 DEF WithoutReal
  <2>4. Registration(t) # NoName => name = registered[t] /\ robots[name] # 0
                                                         /\ name \in Name
    BY <1>3, <2>1 DEF Registration
  <2>5. robots[name] \in Object /\ name \in Name
    <3>1. name \in Name /\ robots[name] # 0
      BY <2>3, <2>4
    <3>2. robots[name] \in 0 .. made
      BY <2>1, <3>1
    <3>. QED  BY <2>1, <3>1, <3>2, BoundAssumption
  <2>6. Registration(t) = registered[t]
    BY DEF Registration
  <2> HIDE DEF name
  <2>7. SlotsTaken'
    <3> SUFFICES ASSUME NEW u \in TempId, registered'[u] \notin Back
                 PROVE  hasReal'[robots[registered'[u]]]
      BY <1>1, <1>3 DEF SlotsTaken
    <3>1. CASE u = t
      BY <1>3, <2>1, <2>5, <3>1
    <3>2. CASE u # t
      <4>1. registered'[u] = registered[u] /\ hasReal[robots[registered[u]]]
        BY <1>3, <2>1, <3>2 DEF SInv, SlotsTaken
      <4>2. robots[registered[u]] \in Object
        BY <2>2, <4>1
      <4>. QED  BY <1>3, <2>1, <4>1, <4>2
    <3>. QED  BY <3>1, <3>2
  <2>8. ASSUME NEW u \in TempId, u # t, registered[u] \notin Back
        PROVE  registered[u] # name
    <3>1. CASE Registration(t) # NoName
      BY <2>4, <2>8, <3>1 DEF SInv, SlotsNotShared
    <3>2. CASE Registration(t) = NoName
      BY <2>3, <2>8, <3>2 DEF SInv, SlotsTaken
    <3>. QED  BY <3>1, <3>2
  <2>9. SlotsNotShared'
    <3> SUFFICES ASSUME NEW u \in TempId, NEW v \in TempId,
                        registered'[u] \notin Back, registered'[u] = registered'[v]
                 PROVE  u = v
      BY <1>1 DEF SlotsNotShared
    <3>1. registered' = [registered EXCEPT ![t] = name]
      BY <1>3
    <3>2. CASE u # t /\ v # t
      BY <2>1, <3>1, <3>2 DEF SInv, SlotsNotShared
    <3>3. CASE u = t /\ v # t
      <4>1. registered[v] = name /\ registered[v] \notin Back
        BY <2>1, <3>1, <3>3
      <4>. QED  BY <2>8, <3>3, <4>1
    <3>4. CASE u # t /\ v = t
      <4>1. registered[u] = name /\ registered[u] \notin Back
        BY <2>1, <3>1, <3>4
      <4>. QED  BY <2>8, <3>4, <4>1
    <3>. QED  BY <3>2, <3>3, <3>4
  <2>. QED  BY <2>7, <2>9
<1>. QED  BY <1>2, <1>3 DEF Register, vars, robotVars, registerVars

LEMMA NextSInv == SInv /\ [Next]_vars => SInv'
<1> SUFFICES ASSUME SInv, [Next]_vars PROVE SInv'
  OBVIOUS
<1>1. NInv'
  BY NextNInv DEF SInv
<1>2. ASSUME robots' = robots, registered' = registered, hasReal' = hasReal,
             removed' = removed, freed' = freed
      PROVE  SInv'
  BY <1>1, <1>2 DEF SInv, SlotsTaken, SlotsNotShared
<1>3. ASSUME NEW n \in Name, AddRobot(n) PROVE SInv'
  <2>1. \A t \in TempId : registered[t] \notin removed \cup {NoName} =>
          registered[t] \in Name /\ robots[registered[t]] # 0
    BY DEF SInv, NInv, RegistrationsHold, IInv, TypeOK
  <2>2. /\ robots' = [robots EXCEPT ![n] = made + 1] /\ robots[n] = 0
        /\ registered' = registered /\ hasReal' = hasReal
        /\ removed' = removed /\ freed' = freed
    BY <1>3 DEF AddRobot
  <2>3. robots \in [Name -> 0 .. made]
    BY DEF SInv, NInv, IInv, TypeOK
  <2>4. \A t \in TempId : registered[t] \notin removed \cup {NoName} =>
          robots'[registered[t]] = robots[registered[t]]
    BY <2>1, <2>2, <2>3
  <2>5. SlotsTaken' /\ SlotsNotShared'
    BY <2>2, <2>4 DEF SInv, SlotsTaken, SlotsNotShared
  <2>. QED  BY <1>1, <2>5 DEF SInv
<1>4. ASSUME NEW n \in Name, RemoveRobot(n) PROVE SInv'
  <2>1. /\ robots' = [robots EXCEPT ![n] = 0] /\ removed' = removed \cup {n}
        /\ registered' = registered /\ hasReal' = hasReal /\ freed' = freed
    BY <1>4 DEF RemoveRobot
  <2>2. robots \in [Name -> 0 .. made]
    BY DEF SInv, NInv, IInv, TypeOK
  <2>3. \A t \in TempId : registered[t] # n => robots'[registered[t]] = robots[registered[t]]
    BY <2>1, <2>2
  <2>4. SlotsTaken' /\ SlotsNotShared'
    BY <2>1, <2>3 DEF SInv, SlotsTaken, SlotsNotShared
  <2>. QED  BY <1>1, <2>4 DEF SInv
<1>5. ASSUME NEW n \in Name, NEW real \in BOOLEAN, RegisterRobot(n, real)
      PROVE  SInv'
  <2>1. /\ hasReal' = [hasReal EXCEPT ![robots[n]] = real]
        /\ freed' = IF real THEN freed ELSE freed \cup {n}
        /\ robots' = robots /\ registered' = registered /\ removed' = removed
        /\ robots[n] # 0
    BY <1>5 DEF RegisterRobot
  <2>2. /\ hasReal \in [Object -> BOOLEAN] /\ robots \in [Name -> 0 .. made]
        /\ registered \in [TempId -> Name \cup {NoName}]
        /\ \A m, k \in Name : robots[m] = robots[k] /\ robots[m] # 0 => m = k
    BY DEF SInv, NInv, IInv, TypeOK
  <2>3. ASSUME NEW t \in TempId, registered[t] \notin removed \cup freed' \cup {NoName}
        PROVE  hasReal'[robots[registered[t]]]
    <3>1. hasReal[robots[registered[t]]] /\ registered[t] \in Name
      BY <2>1, <2>2, <2>3 DEF SInv, SlotsTaken
    <3>2. CASE real = TRUE
      BY <2>1, <2>2, <3>1, <3>2
    <3>3. CASE real = FALSE
      <4>1. registered[t] # n
        BY <2>1, <2>3, <3>3
      <4>2. robots[registered[t]] # robots[n]
        BY <2>1, <2>2, <3>1, <4>1
      <4>. QED  BY <2>1, <2>2, <3>1, <4>2
    <3>. QED  BY <3>2, <3>3
  <2>4. SlotsTaken' /\ SlotsNotShared'
    BY <2>1, <2>3 DEF SInv, SlotsTaken, SlotsNotShared
  <2>. QED  BY <1>1, <2>4 DEF SInv
<1>6. ASSUME NEW p \in Player, AddPlayer(p) \/ RemovePlayer(p) PROVE SInv'
  BY <1>2, <1>6 DEF AddPlayer, RemovePlayer
<1>7. ASSUME StartGame \/ StopGame PROVE SInv'
  BY <1>2, <1>7 DEF StartGame, StopGame
<1>8. ASSUME NEW p \in Player, NEW ready \in BOOLEAN, Hello(p, ready) PROVE SInv'
  BY <1>2, <1>8 DEF Hello
<1>9. ASSUME NEW t \in TempId, Register(t) PROVE SInv'
  BY <1>1, <1>9, RegisterSInv DEF SInv
<1>10. CASE UNCHANGED vars
  BY <1>2, <1>10 DEF vars
<1>. QED  BY <1>3, <1>4, <1>5, <1>6, <1>7, <1>8, <1>9, <1>10 DEF Next, Agent

LEMMA AlwaysSInv == Spec => []SInv
<1>1. Init => SInv
  BY InitNInv DEF Init, SInv, SlotsTaken, SlotsNotShared
<1>. QED  BY <1>1, NextSInv, PTL DEF Spec

\* Two real robots never share a slot of the game that no agent took back,
\* however their Register messages interleave with what agents do.
THEOREM SlotsCorrect == Spec => []SlotsNotShared
<1>1. SInv => SlotsNotShared
  BY DEF SInv
<1>. QED  BY <1>1, AlwaysSInv, PTL

----------------------------------------------------------------------------
(* The start of the game *)

LEMMA HelloStartsDriven ==
  ASSUME IInv, NEW p \in Player, NEW ready \in BOOLEAN, Hello(p, ready),
         IInv', ~isRunning, isRunning', NEW o \in Live', hasReal'[o]
  PROVE  \E q \in players' : robotOf'[q] = o
<1> DEFINE r == RobotForPlayer(p)
<1>1. r # 0 /\ NobodyWaitsFor(r) /\ playerOf' = [playerOf EXCEPT ![r] = p]
  BY DEF Hello
<1>2. robots' = robots /\ hasReal' = hasReal
  BY DEF Hello
<1>3. PICK n \in Name : o \in Object /\ robots[n] = o /\ o # 0
  BY <1>2, LiveObjects DEF Live, IInv
<1> HIDE DEF r
<1>4. playerOf'[o] # NoPlayer
  <2>1. playerOf \in [Object -> Player \cup {NoPlayer}]
    BY DEF IInv, TypeOK
  <2>2. CASE o = r
    BY <1>1, <1>3, <2>1, <2>2, PlayerAssumption
  <2>3. CASE o # r
    <3>1. n \notin Available
      BY <1>1, <1>3, <2>3 DEF NobodyWaitsFor
    <3>2. playerOf[o] # NoPlayer
      BY <1>2, <1>3, <3>1 DEF Available
    <3>. QED  BY <1>1, <1>3, <2>1, <2>3, <3>2
  <2>. QED  BY <2>2, <2>3
<1>5. playerOf'[o] \in players' /\ robotOf'[playerOf'[o]] = o
  BY <1>4 DEF IInv, LinkSymmetric
<1>. QED  BY <1>5

\* When Hello starts the game, every real robot of the game is driven by a
\* player of its own, whatever agents do.
THEOREM StartsCorrect == Spec => GameStartsDriven
<1> DEFINE AllDriven ==
      HelloStarts =>
        \A o \in Live' : hasReal'[o] => \E p \in players' : robotOf'[p] = o
<1>1. IInv /\ IInv' /\ [Next]_vars => [AllDriven]_vars
  <2> SUFFICES ASSUME IInv, IInv', HelloStarts
               PROVE  \A o \in Live' : hasReal'[o] =>
                        \E p \in players' : robotOf'[p] = o
    OBVIOUS
  <2>1. PICK p \in Player, ready \in BOOLEAN : Hello(p, ready)
    BY DEF HelloStarts
  <2>. QED  BY <2>1, HelloStartsDriven DEF HelloStarts
<1>2. Spec => []IInv
  BY InitIInv, NextIInv, PTL DEF Spec
<1>. QED  BY <1>1, <1>2, PTL DEF Spec, GameStartsDriven

----------------------------------------------------------------------------
(* The register *)

\* The robots that Registry speaks of.
LEMMA RobotsKnown ==
  ASSUME TypeOK
  PROVE  /\ Live \subseteq Object /\ 0 \notin Live
         /\ Live = {robots[n] : n \in Name} \ {0}
<1>1. made \in 0 .. MaxObjects /\ robots \in [Name -> 0 .. made]
  BY DEF TypeOK
<1>2. \A n \in Name : robots[n] # 0 => robots[n] \in Object
  BY <1>1, BoundAssumption
<1>. QED  BY <1>2, BoundAssumption DEF Live

LEMMA OwnedKnown ==
  ASSUME SInv, NEW t \in TempId
  PROVE  /\ Owned[t] # 0 =>
              /\ registered[t] \in Name \ (removed \cup freed)
              /\ Owned[t] = robots[registered[t]] /\ Owned[t] \in Taken
         /\ registered[t] \in removed \cup freed \cup {NoName} => Owned[t] = 0
<1>1. registered[t] \in Name \cup {NoName}
  BY DEF SInv, NInv, IInv, TypeOK
<1>2. CASE registered[t] \in removed \cup freed \cup {NoName}
  BY <1>2 DEF Owned
<1>3. CASE registered[t] \notin removed \cup freed \cup {NoName}
  <2>1. Owned[t] = robots[registered[t]] /\ registered[t] \in Name
    BY <1>1, <1>3 DEF Owned
  <2>2. hasReal[robots[registered[t]]]
    BY <1>3 DEF SInv, SlotsTaken
  <2>3. robots[registered[t]] # 0
    BY <1>3 DEF SInv, NInv, RegistrationsHold
  <2>4. robots[registered[t]] \in Live
    BY <2>1, <2>3, RobotsKnown DEF SInv, NInv, IInv
  <2>. QED  BY <1>3, <2>1, <2>2, <2>4 DEF Taken
<1>. QED  BY <1>2, <1>3

LEMMA AddRegisters ==
  ASSUME SInv, NEW n \in Name, AddRobot(n)
  PROVE  \E o \in Object : Registrar!Add(o)
<1> DEFINE o == made + 1
<1>1. TypeOK
  BY DEF SInv, NInv, IInv
<1>2. /\ made \in 0 .. MaxObjects /\ made < MaxObjects /\ robots[n] = 0
      /\ robots' = [robots EXCEPT ![n] = o] /\ robots \in [Name -> 0 .. made]
      /\ UNCHANGED <<hasReal, registered, robotOf, removed, freed>>
  BY <1>1 DEF AddRobot, TypeOK
<1>3. o \in Object /\ o \notin Live /\ Live \subseteq 1 .. made
  BY <1>1, <1>2, BoundAssumption DEF Live
<1>4. Live' = Live \cup {o}
  BY <1>2, <1>3 DEF Live
<1>5. Taken' = Taken
  <2>1. ~hasReal[o]
    BY <1>1, <1>2, <1>3 DEF TypeOK
  <2>. QED  BY <1>2, <1>4, <2>1 DEF Taken
<1>6. Owned' = Owned
  <2>1. \A t \in TempId : registered[t] \notin removed \cup {NoName} =>
          robots'[registered[t]] = robots[registered[t]]
    BY <1>1, <1>2 DEF SInv, NInv, RegistrationsHold, TypeOK
  <2>. QED  BY <1>2, <2>1 DEF Owned
<1>7. Driven' = Driven
  <2>1. \A p \in Player : robotOf[p] # o
    BY <1>1, <1>2 DEF TypeOK
  <2>. QED  BY <1>2, <1>4, <2>1 DEF Driven
<1>. QED  BY <1>3, <1>4, <1>5, <1>6, <1>7 DEF Registrar!Add

LEMMA RemoveRegisters ==
  ASSUME SInv, NEW n \in Name, RemoveRobot(n)
  PROVE  \E o \in Object : Registrar!Remove(o)
<1> DEFINE o == robots[n]
<1>1. TypeOK
  BY DEF SInv, NInv, IInv
<1>2. /\ o # 0 /\ robots' = [robots EXCEPT ![n] = 0] /\ removed' = removed \cup {n}
      /\ robots \in [Name -> 0 .. made]
      /\ UNCHANGED <<hasReal, registered, robotOf, freed>>
  BY <1>1 DEF RemoveRobot, TypeOK
<1>3. \A m \in Name : robots[m] = o => m = n
  BY <1>1, <1>2 DEF TypeOK
<1>4. o \in Live /\ o \in Object
  BY <1>1, <1>2, RobotsKnown
<1>5. Live' = Live \ {o}
  <2>1. \A m \in Name \ {n} : robots'[m] = robots[m]
    BY <1>2
  <2>2. robots'[n] = 0 /\ 0 \notin Object
    BY <1>2, BoundAssumption
  <2>. QED  BY <1>3, <2>1, <2>2 DEF Live
<1> HIDE DEF o
<1>6. Taken' = Taken \ {o}
  BY <1>2, <1>5 DEF Taken
<1>7. Owned' = Registrar!Without(Owned, o)
  <2>1. ASSUME NEW t \in TempId PROVE Owned'[t] = IF Owned[t] = o THEN 0 ELSE Owned[t]
    <3>1. CASE registered[t] = n
      <4>1. Owned'[t] = 0
        BY <1>2, <3>1 DEF Owned
      <4>2. Owned[t] \in {0, o}
        BY <3>1 DEF Owned, o
      <4>. QED  BY <4>1, <4>2
    <3>2. CASE registered[t] # n
      <4>1. Owned'[t] = Owned[t]
        BY <1>2, <3>2 DEF Owned
      <4>2. Owned[t] # o
        BY <1>2, <1>3, <3>2, OwnedKnown
      <4>. QED  BY <4>1, <4>2
    <3>. QED  BY <3>1, <3>2
  <2>2. DOMAIN Owned = TempId /\ Owned' = [t \in TempId |-> Owned'[t]]
    BY DEF Owned
  <2>. QED  BY <2>1, <2>2 DEF Registrar!Without
<1>8. Driven' = Registrar!Without(Driven, o)
  <2>1. ASSUME NEW p \in Player PROVE Driven'[p] = IF Driven[p] = o THEN 0 ELSE Driven[p]
    BY <1>2, <1>4, <1>5 DEF Driven
  <2>2. DOMAIN Driven = Player /\ Driven' = [p \in Player |-> Driven'[p]]
    BY DEF Driven
  <2>. QED  BY <2>1, <2>2 DEF Registrar!Without
<1>. QED  BY <1>4, <1>5, <1>6, <1>7, <1>8 DEF Registrar!Remove

LEMMA AgentRegisters ==
  ASSUME SInv, NEW n \in Name, NEW real \in BOOLEAN, RegisterRobot(n, real)
  PROVE  \E o \in Object : Registrar!Mark(o) \/ Registrar!Free(o)
<1> DEFINE o == robots[n]
<1>1. TypeOK
  BY DEF SInv, NInv, IInv
<1>2. /\ o # 0 /\ hasReal' = [hasReal EXCEPT ![o] = real]
      /\ freed' = IF real THEN freed ELSE freed \cup {n}
      /\ robots \in [Name -> 0 .. made] /\ hasReal \in [Object -> BOOLEAN]
      /\ UNCHANGED <<robots, registered, robotOf, removed>>
  BY <1>1 DEF RegisterRobot, TypeOK
<1>3. \A m \in Name : robots[m] = o => m = n
  BY <1>1, <1>2 DEF TypeOK
<1>4. o \in Live /\ o \in Object /\ Live \subseteq Object
  BY <1>1, <1>2, RobotsKnown
<1>5. Live' = Live /\ Driven' = Driven
  BY <1>2 DEF Live, Driven
<1> HIDE DEF o
<1>6. Taken' = IF real THEN Taken \cup {o} ELSE Taken \ {o}
  BY <1>2, <1>4, <1>5 DEF Taken
<1>7. CASE real
  <2>1. Owned' = Owned
    BY <1>2, <1>7 DEF Owned
  <2>. QED  BY <1>4, <1>5, <1>6, <1>7, <2>1 DEF Registrar!Mark
<1>8. CASE ~real
  <2>1. ASSUME NEW t \in TempId PROVE Owned'[t] = IF Owned[t] = o THEN 0 ELSE Owned[t]
    <3>1. CASE registered[t] = n
      <4>1. Owned'[t] = 0
        BY <1>2, <1>8, <3>1 DEF Owned
      <4>2. Owned[t] \in {0, o}
        BY <3>1 DEF Owned, o
      <4>. QED  BY <4>1, <4>2
    <3>2. CASE registered[t] # n
      <4>1. Owned'[t] = Owned[t]
        BY <1>2, <3>2 DEF Owned
      <4>2. Owned[t] # o
        BY <1>2, <1>3, <3>2, OwnedKnown
      <4>. QED  BY <4>1, <4>2
    <3>. QED  BY <3>1, <3>2
  <2>2. DOMAIN Owned = TempId /\ Owned' = [t \in TempId |-> Owned'[t]]
    BY DEF Owned
  <2>3. Owned' = Registrar!Without(Owned, o)
    BY <2>1, <2>2 DEF Registrar!Without
  <2>. QED  BY <1>4, <1>5, <1>6, <1>8, <2>3 DEF Registrar!Free
<1>. QED  BY <1>7, <1>8

LEMMA RobotRegisters ==
  ASSUME SInv, NEW t \in TempId, Register(t)
  PROVE  \/ UNCHANGED <<Live, Taken, Owned, Driven>>
         \/ \E o \in Object : Registrar!Mark(o) \/ Registrar!Take(t, o)
<1> DEFINE name == IF Registration(t) # NoName THEN Registration(t)
                                               ELSE First(WithoutReal)
           o == robots[name]
<1>1. TypeOK
  BY DEF SInv, NInv, IInv
<1>2. UNCHANGED <<robots, robotOf, removed, freed>>
  BY DEF Register, vars
<1>3. Live' = Live /\ Driven' = Driven
  BY <1>2 DEF Live, Driven
<1>4. CASE UNCHANGED <<hasReal, registered>>
  BY <1>2, <1>3, <1>4 DEF Taken, Owned
<1>5. CASE /\ IF Registration(t) # NoName THEN robots[Registration(t)] # 0
                                          ELSE WithoutReal # {}
           /\ registered' = [registered EXCEPT ![t] = name]
           /\ hasReal' = [hasReal EXCEPT ![o] = TRUE]
  <2>1. /\ registered \in [TempId -> Name \cup {NoName}]
        /\ hasReal \in [Object -> BOOLEAN]
    BY <1>1 DEF TypeOK
  <2>2. /\ name \in Name /\ o # 0
        /\ registered[t] = NoName => ~hasReal[o]
        /\ registered[t] # NoName => name = registered[t]
    <3>1. WithoutReal # {} => First(WithoutReal) \in WithoutReal
      <4>1. WithoutReal \in SUBSET Nat
        BY NameAssumption DEF WithoutReal
      <4>. QED  BY <4>1, HasFirst, Zenon
    <3>2. CASE Registration(t) = NoName
      <4>1. name = First(WithoutReal) /\ name \in WithoutReal
        BY <1>5, <3>1, <3>2
      <4>. QED  BY <3>2, <4>1 DEF WithoutReal, Registration
    <3>3. CASE Registration(t) # NoName
      <4>1. name = registered[t] /\ robots[name] # 0
        BY <1>5, <3>3 DEF Registration
      <4>. QED  BY <2>1, <3>3, <4>1 DEF Registration
    <3>. QED  BY <3>2, <3>3
  <2>3. o \in Live /\ o \in Object /\ Live \subseteq Object
    BY <1>1, <2>2, RobotsKnown
  <2> HIDE DEF name, o
  <2>4. Taken' = Taken \cup {o}
    BY <1>3, <1>5, <2>1, <2>3 DEF Taken
  <2>5. CASE name \in removed \cup freed \/ registered[t] # NoName
    <3>1. Owned' = Owned
      <4>1. ASSUME NEW u \in TempId PROVE Owned'[u] = Owned[u]
        <5>1. registered'[u] = registered[u] \/ (u = t /\ registered'[u] = name)
          BY <1>5, <2>1
        <5>2. CASE registered'[u] = registered[u]
          BY <1>2, <5>2 DEF Owned
        <5>3. CASE u = t /\ registered'[u] = name
          <6>1. CASE registered[t] # NoName
            BY <2>2, <5>2, <5>3, <6>1
          <6>2. CASE registered[t] = NoName /\ name \in removed \cup freed
            BY <1>2, <5>3, <6>2 DEF Owned
          <6>. QED  BY <2>5, <6>1, <6>2
        <5>. QED  BY <5>1, <5>2, <5>3
      <4>2. Owned' = [u \in TempId |-> Owned'[u]] /\ Owned = [u \in TempId |-> Owned[u]]
        BY DEF Owned
      <4>. QED  BY <4>1, <4>2
    <3>. QED  BY <1>3, <2>3, <2>4, <3>1 DEF Registrar!Mark
  <2>6. CASE name \notin removed \cup freed /\ registered[t] = NoName
    <3>1. Owned[t] = 0 /\ o \notin Taken
      BY <2>2, <2>6 DEF Owned, Taken
    <3>2. Owned' = [Owned EXCEPT ![t] = o]
      <4>1. ASSUME NEW u \in TempId PROVE Owned'[u] = IF u = t THEN o ELSE Owned[u]
        <5>1. CASE u = t
          <6>1. registered'[u] = name /\ name # NoName
            BY <1>5, <2>1, <2>2, <5>1, NameAssumption
          <6>. QED  BY <1>2, <2>6, <5>1, <6>1 DEF Owned, o
        <5>2. CASE u # t
          <6>1. registered'[u] = registered[u]
            BY <1>5, <2>1, <5>2
          <6>. QED  BY <1>2, <5>2, <6>1 DEF Owned
        <5>. QED  BY <5>1, <5>2
      <4>2. Owned' = [u \in TempId |-> Owned'[u]] /\ Owned = [u \in TempId |-> Owned[u]]
        BY DEF Owned
      <4>. QED  BY <4>1, <4>2
    <3>. QED  BY <1>3, <2>3, <2>4, <3>1, <3>2 DEF Registrar!Take
  <2>. QED  BY <2>5, <2>6
<1>. QED  BY <1>4, <1>5 DEF Register, vars, registerVars

LEMMA PlayerLeaves ==
  ASSUME SInv, NEW p \in Player, RemovePlayer(p)
  PROVE  Registrar!Leave(p)
<1>1. TypeOK
  BY DEF SInv, NInv, IInv
<1>2. /\ robotOf' = [robotOf EXCEPT ![p] = 0] /\ robotOf \in [Player -> 0 .. made]
      /\ UNCHANGED <<robots, hasReal, registered, removed, freed>>
  BY <1>1 DEF RemovePlayer, TypeOK
<1>3. Live' = Live /\ Taken' = Taken /\ Owned' = Owned
  BY <1>2 DEF Live, Taken, Owned
<1>4. Driven' = [Driven EXCEPT ![p] = 0]
  BY <1>1, <1>2, <1>3, RobotsKnown DEF Driven
<1>. QED  BY <1>3, <1>4 DEF Registrar!Leave

LEMMA PlayerRegisters ==
  ASSUME SInv, NEW p \in Player, NEW ready \in BOOLEAN, Hello(p, ready)
  PROVE  \/ UNCHANGED <<Live, Taken, Owned, Driven>>
         \/ \E o \in Object : Registrar!Drive(p, o)
<1> DEFINE o == RobotForPlayer(p)
<1>1. TypeOK /\ LinkSymmetric
  BY DEF SInv, NInv, IInv
<1>2. UNCHANGED <<robots, hasReal, registered, removed, freed>>
  BY DEF Hello
<1>3. Live' = Live /\ Taken' = Taken /\ Owned' = Owned
  BY <1>2 DEF Live, Taken, Owned
<1>4. CASE o = 0
  <2>1. robotOf' = robotOf
    BY <1>4 DEF Hello
  <2>. QED  BY <1>3, <2>1 DEF Driven
<1>5. CASE o # 0
  <2>1. robotOf' = [robotOf EXCEPT ![p] = o]
    BY <1>5 DEF Hello
  <2>2. /\ o \in Live
        /\ \/ playerOf[o] = p
           \/ /\ hasReal[o] /\ playerOf[o] = NoPlayer
              /\ \A x \in Live : playerOf[x] # p
    BY <1>1, <1>5, FoundRobot
  <2>3. robotOf \in [Player -> 0 .. made] /\ Live \subseteq Object /\ 0 \notin Live
    BY <1>1, RobotsKnown DEF TypeOK
  <2> HIDE DEF o
  <2>4. Driven' = [Driven EXCEPT ![p] = o]
    BY <1>3, <2>1, <2>2, <2>3 DEF Driven
  <2>5. \A q \in Player : Driven[q] # 0 =>
          Driven[q] = robotOf[q] /\ robotOf[q] \in Live /\ playerOf[Driven[q]] = q
    <3>1. \A q \in Player : robotOf[q] # 0 => q \in players
      BY <1>1 DEF TypeOK
    <3>. QED  BY <1>1, <2>3, <3>1 DEF Driven, LinkSymmetric
  <2>6. CASE playerOf[o] = p
    <3>1. robotOf[p] = o
      BY <1>1, <2>2, <2>6, PlayerAssumption DEF LinkSymmetric
    <3>2. Driven[p] = o /\ Driven \in [Player -> Live \cup {0}]
      BY <2>2, <3>1 DEF Driven
    <3>. QED  BY <1>3, <2>4, <3>2
  <2>7. CASE /\ hasReal[o] /\ playerOf[o] = NoPlayer
             /\ \A x \in Live : playerOf[x] # p
    <3>1. o \in Taken /\ o \in Object
      BY <2>2, <2>3, <2>7 DEF Taken
    <3>2. Driven[p] = 0
      BY <2>5, <2>7
    <3>3. \A q \in Player : Driven[q] # o
      BY <2>2, <2>3, <2>5, <2>7, PlayerAssumption
    <3>. QED  BY <1>3, <2>4, <3>1, <3>2, <3>3 DEF Registrar!Drive
  <2>. QED  BY <2>2, <2>6, <2>7
<1>. QED  BY <1>4, <1>5

\* The maps of the game, with their repeated messages, ids given again and weak
\* pointers, implement the register (ProcessRegister.cpp:44-58,
\* ProcessHello.cpp:55-89, Game.cpp:259-390).
THEOREM ImplementsRegistry == Spec => RegistrySpec
<1>1. Init => Registrar!Init
  <2> SUFFICES ASSUME Init PROVE Registrar!Init
    OBVIOUS
  <2>1. TypeOK
    BY InitIInv DEF IInv
  <2>2. Live \subseteq Object /\ 0 \notin Live
    BY <2>1, RobotsKnown
  <2>3. Taken = {} /\ Owned = [t \in TempId |-> 0] /\ Driven = [p \in Player |-> 0]
    BY <2>2 DEF Init, Taken, Owned, Driven
  <2>. QED  BY <2>2, <2>3 DEF Registrar!Init
<1>2. SInv /\ [Next]_vars => [Registrar!Next]_(Registrar!registryVars)
  <2> SUFFICES ASSUME SInv, [Next]_vars
               PROVE  Registrar!Next \/ UNCHANGED <<Live, Taken, Owned, Driven>>
    BY DEF Registrar!registryVars
  <2>1. ASSUME UNCHANGED <<robots, hasReal, registered, robotOf, removed, freed>>
        PROVE  UNCHANGED <<Live, Taken, Owned, Driven>>
    BY <2>1 DEF Live, Taken, Owned, Driven
  <2>2. ASSUME NEW n \in Name, AddRobot(n) \/ RemoveRobot(n) PROVE Registrar!Next
    BY <2>2, AddRegisters, RemoveRegisters DEF Registrar!Next
  <2>3. ASSUME NEW n \in Name, NEW real \in BOOLEAN, RegisterRobot(n, real)
        PROVE  Registrar!Next
    BY <2>3, AgentRegisters DEF Registrar!Next
  <2>4. ASSUME NEW p \in Player, RemovePlayer(p) PROVE Registrar!Next
    BY <2>4, PlayerLeaves DEF Registrar!Next
  <2>5. ASSUME NEW p \in Player, NEW ready \in BOOLEAN, Hello(p, ready)
        PROVE  Registrar!Next \/ UNCHANGED <<Live, Taken, Owned, Driven>>
    BY <2>5, PlayerRegisters DEF Registrar!Next
  <2>6. ASSUME NEW t \in TempId, Register(t)
        PROVE  Registrar!Next \/ UNCHANGED <<Live, Taken, Owned, Driven>>
    BY <2>6, RobotRegisters DEF Registrar!Next
  <2>7. CASE StartGame \/ StopGame \/ UNCHANGED vars \/ \E p \in Player : AddPlayer(p)
    BY <2>1, <2>7 DEF StartGame, StopGame, AddPlayer, vars
  <2>. QED  BY <2>2, <2>3, <2>4, <2>5, <2>6, <2>7 DEF Next, Agent
<1>. QED  BY <1>1, <1>2, AlwaysSInv, PTL DEF Spec, RegistrySpec, Registrar!Spec

=============================================================================
