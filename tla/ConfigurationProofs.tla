------------------------- MODULE ConfigurationProofs -----------------------
(***************************************************************************)
(* Theorems about Configuration, for every command line, rc file and game  *)
(* file, and for whatever agents do to the robots.                         *)
(***************************************************************************)
EXTENDS Configuration, FiniteSetTheorems, SequenceTheorems, TLAPS

----------------------------------------------------------------------------
(* Types *)

LEMMA PortNames == PortName \subseteq Setting /\ "duration" \notin PortName
BY DEF PortName, Setting

\* What a source gives a setting: its numbers are Nat, its ports Port.
IsSource(v) ==
  v \in Value /\ \A s \in PortName : v[s] \in Port \cup {Absent}

LEMMA CompleteType ==
  ASSUME TypeOK, NEW v, IsSource(v)
  PROVE  IsSource(Complete(v))
<1>1. Complete(v) \in Value
  BY DEF TypeOK, IsSource, Complete, Value
<1>2. ASSUME NEW s \in PortName PROVE Complete(v)[s] \in Port \cup {Absent}
  BY <1>2, PortNames DEF TypeOK, IsSource, Complete, Value
<1> QED BY <1>1, <1>2 DEF IsSource

LEMMA DefaultType == IsSource(Default) /\ \A s \in Setting : Default[s] # Absent
BY DefaultAssumption, PortAssumption, PortNames DEF IsSource, Value

LEMMA LineType ==
  ASSUME TypeOK PROVE line.value \in Value /\ (FitsCommandLine => IsSource(line.value))
BY LineAssumption DEF TypeOK, IsSource, FitsCommandLine

LEMMA RcType ==
  ASSUME TypeOK, rcFile # Missing PROVE IsSource(RcValue)
<1>1. \A s \in Setting : RcValue[s] \in Port \cup {Absent}
  BY DEF RcValue
<1>2. RcValue = [s \in Setting |-> RcValue[s]]
  BY DEF RcValue
<1>3. Port \subseteq Nat
  BY PortAssumption DEF Port
<1>4. RcValue \in Value
  BY <1>1, <1>2, <1>3 DEF Value
<1> QED BY <1>1, <1>4, PortNames DEF IsSource

LEMMA GameType ==
  ASSUME TypeOK, gameFile # Missing PROVE IsSource(GameValue)
<1>1. gameFile.value \in Value
  BY GameAssumption DEF TypeOK
<1>2. ASSUME NEW s \in Setting
      PROVE  /\ GameValue[s] \in Nat \cup {Absent}
             /\ s # "duration" => GameValue[s] \in Port \cup {Absent}
  <2>1. CASE gameFile.value[s] = Absent
    BY <2>1 DEF GameValue
  <2>2. CASE gameFile.value[s] # Absent /\ s = "broadcast"
    <3>1. GameValue[s] = gameFile.value[s] % (MaxPort + 1)
      BY <2>2 DEF GameValue
    <3>2. gameFile.value[s] \in Nat
      BY <1>1, <2>2 DEF Value
    <3>3. GameValue[s] \in Port
      BY <3>1, <3>2, PortAssumption DEF Port
    <3> QED BY <3>3, PortAssumption DEF Port
  <2>3. CASE gameFile.value[s] # Absent /\ s = "duration"
    BY <1>1, <2>3 DEF GameValue, Value
  <2>4. CASE gameFile.value[s] # Absent /\ s \notin {"broadcast", "duration"}
    BY <2>4 DEF GameValue
  <2> QED BY <2>1, <2>2, <2>3, <2>4
<1>3. GameValue = [s \in Setting |-> GameValue[s]]
  BY DEF GameValue
<1>4. GameValue \in Value
  BY <1>2, <1>3 DEF Value
<1> QED BY <1>2, <1>4, PortNames DEF IsSource

\* The range of video ports that is walked.
LEMMA RangeType ==
  ASSUME TypeOK, rcFile # Missing, rcFile.range # Absent
  PROVE  FirstPort \in 0 .. MaxPort - 1 /\ LastPort \in 0 .. MaxPort - 1
BY RcAssumption, PortAssumption DEF TypeOK, FirstPort, LastPort

\* What two calls of popPort leave, and give: the last two ports that are
\* available, and 0 for one that is not.
LEMMA PopType ==
  ASSUME TypeOK
  PROVE  /\ PopPorts[1] \in Seq(Port) /\ PopPorts[2] \in Seq(Port)
         /\ PopPorts[3][1] \in Port /\ PopPorts[3][2] \in Port
<1> DEFINE n == Len(available)
           k == IF n < 2 THEN n ELSE 2
<1>1. available \in Seq(Port) /\ taken \in Seq(Port) /\ n \in Nat /\ k \in 0 .. n /\ k <= 2
  BY DEF TypeOK
<1>2. \A i \in 1 .. 2 : Popped(i) \in Port
  BY <1>1, PortAssumption DEF Popped, Port
<1>3. Popped(1) \in Port /\ Popped(2) \in Port
  BY <1>2
<1>4. <<Popped(1), Popped(2)>> \in Seq(Port) /\ Len(<<Popped(1), Popped(2)>>) = 2
  BY <1>3
<1>5. SubSeq(available, 1, n - k) \in Seq(Port)
  BY <1>1
<1>6. SubSeq(<<Popped(1), Popped(2)>>, 1, k) \in Seq(Port)
  BY <1>1, <1>4
<1>7. taken \o SubSeq(<<Popped(1), Popped(2)>>, 1, k) \in Seq(Port)
  BY <1>1, <1>6
<1>8. PopPorts = <<SubSeq(available, 1, n - k),
                   taken \o SubSeq(<<Popped(1), Popped(2)>>, 1, k), <<Popped(1), Popped(2)>>>>
  BY DEF PopPorts, Left
<1> QED BY <1>3, <1>5, <1>7, <1>8

LEMMA AddRobotType ==
  ASSUME TypeOK, NEW r \in Robot, NEW known, AddRobot(r, known)
  PROVE  /\ available' \in Seq(Port) /\ taken' \in Seq(Port)
         /\ ports' \in [Robot -> {Absent} \cup (Port \X Port)]
<1>1. available' = PopPorts[1] /\ taken' = PopPorts[2]
  BY DEF AddRobot
<1>2. \/ UNCHANGED ports
      \/ ports' = [ports EXCEPT ![r] = <<PopPorts[3][1], PopPorts[3][2]>>]
      \/ ports' = [ports EXCEPT ![r] = <<PopPorts[3][2], PopPorts[3][1]>>]
  BY DEF AddRobot
<1>3. \A p, q \in Port :
        [ports EXCEPT ![r] = <<p, q>>] \in [Robot -> {Absent} \cup (Port \X Port)]
  BY DEF TypeOK
<1>4. ports' \in [Robot -> {Absent} \cup (Port \X Port)]
  <2>1. CASE UNCHANGED ports
    BY <2>1 DEF TypeOK
  <2> DEFINE p == PopPorts[3][1]
             q == PopPorts[3][2]
  <2>2. p \in Port /\ q \in Port
    BY PopType
  <2> HIDE DEF p, q
  <2>3. CASE ports' = [ports EXCEPT ![r] = <<p, q>>]
    BY <1>3, <2>2, <2>3
  <2>4. CASE ports' = [ports EXCEPT ![r] = <<q, p>>]
    BY <1>3, <2>2, <2>4
  <2> QED BY <1>2, <2>1, <2>3, <2>4 DEF p, q
<1> QED BY <1>1, <1>4, PopType

LEMMA CreateItemType ==
  ASSUME TypeOK, gameFile # Missing, stage = "items", NEW s \in DOMAIN gameFile.items,
         CreateItem(s)
  PROVE  /\ stage' \in {"items", "crashed"}
         /\ byColour' \in [Colour -> Nat \cup {Absent}]
         /\ byTag' \in [Tag -> Nat \cup {Absent}]
<1>1. Items = gameFile.items /\ s \in Nat /\ Items[s] \in ItemSection
  BY GameAssumption DEF TypeOK, Items
<1>2. UNCHANGED byTag \/ byTag' = TagsWith(s)
  BY DEF CreateItem, itemVars
<1>3. byTag' \in [Tag -> Nat \cup {Absent}]
  BY <1>1, <1>2 DEF TypeOK, TagsWith
<1>4. Items[s].colour # NoColour => Items[s].colour \in Colour
  BY <1>1 DEF ItemSection
<1>5. byColour' \in [Colour -> Nat \cup {Absent}]
  BY <1>1, <1>4 DEF TypeOK, CreateItem, itemVars
<1> QED BY <1>3, <1>5 DEF CreateItem

\* The sections that are left are sections of the game file.
TodoInv ==
  /\ stage = "robots" => todo \subseteq DOMAIN Robots
  /\ stage = "items" => todo \subseteq DOMAIN Items
  /\ stage = "range" => rcFile # Missing /\ rcFile.range # Absent

LEMMA Sections ==
  ASSUME TypeOK
  PROVE  /\ DOMAIN Robots \subseteq Nat /\ IsFiniteSet(DOMAIN Robots)
         /\ \A s \in DOMAIN Robots : Robots[s] \in Robot
         /\ DOMAIN Items \subseteq Nat /\ IsFiniteSet(DOMAIN Items)
         /\ \A s \in DOMAIN Items : Items[s] \in ItemSection /\ gameFile # Missing
<1>1. CASE gameFile = Missing
  <2>1. DOMAIN Robots = {} /\ DOMAIN Items = {}
    BY <1>1 DEF Robots, Items
  <2> QED BY <2>1, FS_EmptySet
<1>2. CASE gameFile # Missing
  BY <1>2, GameAssumption DEF TypeOK, Robots, Items
<1> QED BY <1>1, <1>2

TypeInv == TypeOK /\ TodoInv

LEMMA TypeInit == Init => TypeInv
<1> SUFFICES ASSUME Init PROVE TypeInv
  OBVIOUS
<1>1. 0 \in Port
  BY PortAssumption DEF Port
<1> QED BY <1>1 DEF Init, TypeInv, TypeOK, TodoInv, Value, Reading, Accepted, PortName, Setting

LEMMA TypeNext == TypeInv /\ [Next]_vars => TypeInv'
<1> SUFFICES ASSUME TypeInv, [Next]_vars PROVE TypeInv'
  OBVIOUS
<1> USE DEF TypeInv, Reading, Accepted
<1>1. CASE ParseCommandLine
  BY <1>1, LineType DEF ParseCommandLine, TypeOK, TodoInv, IsSource, givenVars, portVars, itemVars, Robots, Items
<1>2. CASE ParseConfigFile
  <2>1. param' \in Value /\ \A s \in PortName : param'[s] \in Port \cup {Absent}
    <3>1. CASE rcFile # Missing
      BY <1>2, <3>1, RcType, CompleteType DEF ParseConfigFile, IsSource
    <3>2. CASE rcFile = Missing
      BY <1>2, <3>2 DEF ParseConfigFile, TypeOK
    <3> QED BY <3>1, <3>2
  <2>2. next' \in Port
    BY <1>2, RangeType, PortAssumption DEF ParseConfigFile, TypeOK, Port
  <2> QED BY <1>2, <2>1, <2>2 DEF ParseConfigFile, TypeOK, TodoInv, givenVars, portVars, itemVars, Robots, Items
<1>3. CASE InsertVideoPort
  <2>1. videoPorts' \in Seq(Port)
    <3>1. <<next>> \in Seq(Port) /\ videoPorts \in Seq(Port)
      BY DEF TypeOK
    <3>2. <<next>> \o videoPorts \in Seq(Port)
      BY <3>1
    <3> QED BY <1>3, <3>1, <3>2 DEF InsertVideoPort
  <2>2. next' \in Port
    BY <1>3, PortAssumption DEF InsertVideoPort, TypeOK, Port
  <2> QED BY <1>3, <2>1, <2>2 DEF InsertVideoPort, TypeOK, TodoInv, givenVars, portVars, itemVars, Robots, Items
<1>4. CASE ParseGameConfig
  <2>1. param' \in Value /\ \A s \in PortName : param'[s] \in Port \cup {Absent}
    <3>1. CASE gameFile # Missing
      BY <1>4, <3>1, GameType, CompleteType DEF ParseGameConfig, IsSource, TypeOK
    <3>2. CASE gameFile = Missing
      BY <1>4, <3>2 DEF ParseGameConfig, TypeOK
    <3> QED BY <3>1, <3>2
  <2> QED BY <1>4, <2>1 DEF ParseGameConfig, TypeOK, TodoInv, givenVars, portVars, itemVars, Robots, Items
<1>5. CASE SetDefaults
  BY <1>5, DefaultType, CompleteType DEF SetDefaults, IsSource, TypeOK, TodoInv, givenVars, portVars, itemVars, Robots, Items
<1>6. CASE CheckParametersConsistency
  BY <1>6 DEF CheckParametersConsistency, TypeOK, TodoInv, givenVars, portVars, itemVars, Robots, Items
<1>7. CASE InitServer
  BY <1>7, Sections DEF InitServer, TypeOK, TodoInv, givenVars, itemVars, Robots, Items
<1>8. CASE InitRobot
  <2>1. PICK s \in todo : AddRobot(Robots[s], TRUE) /\ todo' = todo \ {s}
    BY <1>8 DEF InitRobot
  <2>2. Robots[s] \in Robot
    BY <1>8, <2>1, Sections DEF InitRobot, TodoInv
  <2> QED BY <1>8, <2>1, <2>2, AddRobotType DEF InitRobot, TypeOK, TodoInv, givenVars, itemVars, Robots, Items
<1>9. CASE RobotsDone
  BY <1>9, Sections DEF RobotsDone, TypeOK, TodoInv, givenVars, portVars, itemVars, Robots, Items
<1>10. CASE InitItem
  <2>1. PICK s \in todo : CreateItem(s) /\ todo' = todo \ {s}
    BY <1>10 DEF InitItem
  <2>2. gameFile # Missing /\ s \in DOMAIN gameFile.items
    BY <1>10, <2>1, Sections DEF InitItem, TodoInv, Items
  <2> QED BY <1>10, <2>1, <2>2, CreateItemType DEF InitItem, TypeOK, TodoInv, givenVars, portVars, Robots, Items
<1>11. CASE ItemsDone
  BY <1>11 DEF ItemsDone, TypeOK, TodoInv, givenVars, portVars, itemVars, Robots, Items
<1>12. ASSUME NEW r \in Robot, NEW known \in BOOLEAN, AgentAddsRobot(r, known) PROVE TypeInv'
  BY <1>12, AddRobotType DEF AgentAddsRobot, TypeOK, TodoInv, givenVars, itemVars, Robots, Items
<1>13. ASSUME NEW r \in Robot, AgentRemovesRobot(r) PROVE TypeInv'
  BY <1>13 DEF AgentRemovesRobot, TypeOK, TodoInv, givenVars, itemVars, Robots, Items
<1>14. CASE Ended \/ UNCHANGED vars
  BY <1>14 DEF Ended, vars, TypeOK, TodoInv, givenVars, portVars, itemVars, Robots, Items
<1> QED
  BY <1>1, <1>2, <1>3, <1>4, <1>5, <1>6, <1>7, <1>8, <1>9, <1>10, <1>11, <1>12, <1>13, <1>14
  DEF Next

\* Whatever the sources say, the parameters, ports and items keep their types
\* and widths (Application.hpp:28-86).
THEOREM TypeCorrect == Spec => []TypeOK
<1>1. TypeInv => TypeOK
  BY DEF TypeInv
<1> QED BY <1>1, TypeInit, TypeNext, PTL DEF Spec

----------------------------------------------------------------------------
(* Precedence *)

\* The first n sources were read: each setting is that of the strongest that
\* gives it, or none does.
Known(n) == \A s \in Setting :
  \/ param[s] = Absent /\ \A j \in 1 .. n : Said(s)[j] = Absent
  \/ \E i \in 1 .. n : /\ param[s] = Said(s)[i] /\ Said(s)[i] # Absent
                       /\ \A j \in 1 .. i - 1 : Said(s)[j] = Absent

KnownInv ==
  /\ stage = "line" => Known(0)
  /\ stage = "rc" => Known(1)
  /\ stage \in {"range", "game"} => Known(2)
  /\ stage = "defaults" => Known(3)
  /\ stage \in {"check"} \cup Accepted => Known(4)

LEMMA SaidKept == UNCHANGED givenVars => \A s : Said(s)' = Said(s)
BY DEF givenVars, Said, RcValue, GameValue

\* A source more is read.
LEMMA OneMore ==
  ASSUME TypeOK, NEW n \in 0 .. 3, Known(n), UNCHANGED givenVars,
         NEW source, param' = Complete(source),
         \A s \in Setting : source[s] = Said(s)[n + 1]
  PROVE  Known(n + 1)'
<1> SUFFICES ASSUME NEW s \in Setting
             PROVE  \/ param'[s] = Absent /\ \A j \in 1 .. n + 1 : Said(s)[j] = Absent
                    \/ \E i \in 1 .. n + 1 :
                         /\ param'[s] = Said(s)[i] /\ Said(s)[i] # Absent
                         /\ \A j \in 1 .. i - 1 : Said(s)[j] = Absent
  BY SaidKept DEF Known
<1> HIDE DEF Said
<1>1. param'[s] = IF param[s] = Absent THEN Said(s)[n + 1] ELSE param[s]
  BY DEF Complete
<1>2. CASE param[s] = Absent
  <2>1. \A j \in 1 .. n : Said(s)[j] = Absent
    BY <1>2 DEF Known
  <2>2. CASE Said(s)[n + 1] = Absent
    <3>1. \A j \in 1 .. n + 1 : Said(s)[j] = Absent
      BY <2>1, <2>2
    <3> QED BY <1>1, <1>2, <2>2, <3>1
  <2>3. CASE Said(s)[n + 1] # Absent
    <3>1. \A j \in 1 .. (n + 1) - 1 : Said(s)[j] = Absent
      BY <2>1
    <3> QED BY <1>1, <1>2, <2>3, <3>1
  <2> QED BY <2>2, <2>3
<1>3. CASE param[s] # Absent
  <2>1. PICK i \in 1 .. n : /\ param[s] = Said(s)[i] /\ Said(s)[i] # Absent
                            /\ \A j \in 1 .. i - 1 : Said(s)[j] = Absent
    BY <1>3 DEF Known
  <2>2. i \in 1 .. n + 1 /\ param'[s] = Said(s)[i]
    BY <1>1, <1>3, <2>1
  <2> QED BY <2>1, <2>2
<1> QED BY <1>2, <1>3

\* What does not touch the parameters keeps what is known.
LEMMA KnownKept ==
  ASSUME UNCHANGED <<givenVars, param>>, NEW n, Known(n) PROVE Known(n)'
BY SaidKept DEF Known

LEMMA KnownInit == Init => KnownInv
BY DEF Init, KnownInv, Known, Accepted

LEMMA KnownNext == TypeOK /\ KnownInv /\ [Next]_vars => KnownInv'
<1> SUFFICES ASSUME TypeOK, KnownInv, [Next]_vars PROVE KnownInv'
  OBVIOUS
<1> USE DEF KnownInv, Accepted
<1>1. CASE ParseCommandLine
  <2>1. CASE FitsCommandLine
    <3>1. \A s \in Setting : line.value[s] = Said(s)[0 + 1]
      BY DEF Said
    <3>2. param' = Complete(line.value)
      <4>1. \A s \in Setting : param[s] = Absent
        BY <1>1 DEF ParseCommandLine, Known
      <4>2. line.value = [s \in Setting |-> line.value[s]]
        BY LineType DEF Value
      <4> QED BY <1>1, <2>1, <4>1, <4>2 DEF ParseCommandLine, Complete
    <3>3. Known(0 + 1)'
      BY <1>1, <3>1, <3>2, OneMore DEF ParseCommandLine
    <3> QED BY <1>1, <2>1, <3>3 DEF ParseCommandLine
  <2>2. CASE ~FitsCommandLine
    BY <1>1, <2>2 DEF ParseCommandLine
  <2> QED BY <2>1, <2>2
<1>2. CASE ParseConfigFile
  <2>1. CASE rcFile # Missing
    <3>1. \A s \in Setting : RcValue[s] = Said(s)[1 + 1]
      BY DEF Said
    <3>2. Known(1 + 1)'
      BY <1>2, <2>1, <3>1, OneMore DEF ParseConfigFile
    <3> QED BY <1>2, <3>2 DEF ParseConfigFile
  <2>2. CASE rcFile = Missing
    BY <1>2, <2>2 DEF ParseConfigFile
  <2> QED BY <2>1, <2>2
<1>3. CASE InsertVideoPort
  BY <1>3, KnownKept DEF InsertVideoPort
<1>4. CASE ParseGameConfig
  <2>1. CASE gameFile # Missing /\ ~gameFile.malformed
    <3>1. \A s \in Setting : GameValue[s] = Said(s)[2 + 1]
      BY <2>1 DEF Said
    <3>2. Known(2 + 1)'
      BY <1>4, <2>1, <3>1, OneMore DEF ParseGameConfig
    <3> QED BY <1>4, <2>1, <3>2 DEF ParseGameConfig
  <2>2. CASE gameFile = Missing
    <3>1. \A s \in Setting : Said(s)[3] = Absent
      BY <2>2 DEF Said
    <3> HIDE DEF Said
    <3>2. Known(2)
      BY <1>4 DEF ParseGameConfig
    <3>3. \A j \in 1 .. 3 : j \in 1 .. 2 \/ j = 3
      OBVIOUS
    <3>4. Known(3)
      BY <3>1, <3>2, <3>3 DEF Known
    <3> QED BY <1>4, <2>2, <3>4, KnownKept DEF ParseGameConfig
  <2>3. CASE gameFile # Missing /\ gameFile.malformed
    BY <1>4, <2>3 DEF ParseGameConfig
  <2> QED BY <2>1, <2>2, <2>3
<1>5. CASE SetDefaults
  <2>1. \A s \in Setting : Default[s] = Said(s)[3 + 1]
    BY DEF Said
  <2>2. Known(3 + 1)'
    BY <1>5, <2>1, OneMore DEF SetDefaults
  <2> QED BY <1>5, <2>2 DEF SetDefaults
<1>6. CASE CheckParametersConsistency
  BY <1>6, KnownKept DEF CheckParametersConsistency
<1>7. CASE InitServer
  BY <1>7, KnownKept DEF InitServer
<1>8. CASE InitRobot
  BY <1>8, KnownKept DEF InitRobot
<1>9. CASE RobotsDone
  BY <1>9, KnownKept DEF RobotsDone
<1>10. CASE InitItem
  BY <1>10, KnownKept DEF InitItem, CreateItem
<1>11. CASE ItemsDone
  BY <1>11, KnownKept DEF ItemsDone
<1>12. ASSUME NEW r \in Robot, NEW known \in BOOLEAN, AgentAddsRobot(r, known) PROVE KnownInv'
  BY <1>12, KnownKept DEF AgentAddsRobot
<1>13. ASSUME NEW r \in Robot, AgentRemovesRobot(r) PROVE KnownInv'
  BY <1>13, KnownKept DEF AgentRemovesRobot
<1>14. CASE Ended \/ UNCHANGED vars
  BY <1>14, KnownKept DEF Ended, vars
<1> QED
  BY <1>1, <1>2, <1>3, <1>4, <1>5, <1>6, <1>7, <1>8, <1>9, <1>10, <1>11, <1>12, <1>13, <1>14
  DEF Next

\* Every setting is there when the defaults were set.
LEMMA AllKnown == TypeOK /\ Known(4) => \A s \in Setting : param[s] # Absent
<1> SUFFICES ASSUME TypeOK, Known(4), NEW s \in Setting, param[s] = Absent PROVE FALSE
  OBVIOUS
<1>1. Said(s)[4] = Absent
  BY DEF Known
<1>2. Said(s)[4] = Default[s]
  BY DEF Said
<1> QED BY <1>1, <1>2, DefaultType

LEMMA KnownPrecedence == TypeOK /\ KnownInv => Precedence
<1> SUFFICES ASSUME TypeOK, KnownInv, stage \in Accepted, NEW s \in Setting
             PROVE  \E i \in 1 .. 4 : /\ param[s] = Said(s)[i] /\ Said(s)[i] # Absent
                                     /\ \A j \in 1 .. i - 1 : Said(s)[j] = Absent
  BY DEF Precedence
<1>1. Known(4)
  BY DEF KnownInv
<1> QED BY <1>1, AllKnown DEF Known

\* The server starts with what the strongest source says of each setting,
\* whatever the sources say and however they are cut (Application.cpp:89-172).
THEOREM PrecedenceKept == Spec => []Precedence
<1>1. Init => TypeInv /\ KnownInv
  BY TypeInit, KnownInit
<1>2. TypeInv /\ KnownInv /\ [Next]_vars => (TypeInv /\ KnownInv)'
  BY TypeNext, KnownNext DEF TypeInv
<1>3. TypeInv /\ KnownInv => Precedence
  BY KnownPrecedence DEF TypeInv
<1> QED BY <1>1, <1>2, <1>3, PTL DEF Spec

----------------------------------------------------------------------------
(* The five ports *)

\* A set of ports has one of the least number, and so the ports have an order.
LEMMA LeastPort ==
  ASSUME \A s \in PortName : param[s] \in Nat, NEW S \in SUBSET PortName, S # {}
  PROVE  \E m \in S : \A s \in S : param[m] <= param[s]
<1> DEFINE Least(A) == (S \cap A) = {} \/ \E m \in S \cap A : \A s \in S \cap A : param[m] <= param[s]
<1>1. ASSUME NEW A, NEW x \in PortName, Least(A) PROVE Least(A \cup {x})
  <2>1. CASE x \notin S
    <3>1. S \cap (A \cup {x}) = S \cap A
      BY <2>1
    <3> QED BY <1>1, <3>1
  <2>2. CASE x \in S /\ S \cap A = {}
    <3>1. S \cap (A \cup {x}) = {x}
      BY <2>2
    <3> QED BY <1>1, <2>2, <3>1
  <2>3. CASE x \in S /\ S \cap A # {}
    <3>1. PICK m \in S \cap A : \A s \in S \cap A : param[m] <= param[s]
      BY <1>1, <2>3
    <3>2. CASE param[m] <= param[x]
      BY <1>1, <2>3, <3>1, <3>2
    <3>3. CASE ~(param[m] <= param[x])
      <4>1. \A s \in S \cap (A \cup {x}) : param[x] <= param[s]
        BY <1>1, <2>3, <3>1, <3>3
      <4> QED BY <2>3, <4>1
    <3> QED BY <3>2, <3>3
  <2> QED BY <2>1, <2>2, <2>3
<1>2. Least({})
  OBVIOUS
<1> HIDE DEF Least
<1>3. Least(((((({} \cup {"publisher"}) \cup {"puller"}) \cup {"agent"}) \cup {"replier"}) \cup {"broadcast"}))
  <2>1. {"publisher", "puller", "agent", "replier", "broadcast"} \subseteq PortName
    BY DEF PortName
  <2>2. Least({} \cup {"publisher"})
    BY <1>1, <1>2, <2>1
  <2>3. Least(({} \cup {"publisher"}) \cup {"puller"})
    BY <1>1, <2>1, <2>2
  <2>4. Least((({} \cup {"publisher"}) \cup {"puller"}) \cup {"agent"})
    BY <1>1, <2>1, <2>3
  <2>5. Least(((({} \cup {"publisher"}) \cup {"puller"}) \cup {"agent"}) \cup {"replier"})
    BY <1>1, <2>1, <2>4
  <2> QED BY <1>1, <2>1, <2>5
<1>4. ((((({} \cup {"publisher"}) \cup {"puller"}) \cup {"agent"}) \cup {"replier"}) \cup {"broadcast"}) = PortName
  BY DEF PortName
<1>5. S \cap PortName = S
  OBVIOUS
<1> QED BY <1>3, <1>4, <1>5 DEF Least

\* Five different members of a set of five are all of it.
LEMMA FiveOfFive ==
  ASSUME NEW a \in PortName, NEW b \in PortName \ {a}, NEW c \in PortName \ {a, b},
         NEW d \in PortName \ {a, b, c}, NEW e \in PortName \ {a, b, c, d}
  PROVE  PortName = {a, b, c, d, e}
BY DEF PortName

\* std::adjacent_find finds two equal ports wherever they are: equal ports are
\* neighbours in some order of the map, and all between them are equal too.
LEMMA NeighboursFound ==
  ASSUME \A s \in PortName : param[s] \in Nat, ~NeighboursEqual
  PROVE  \A s, t \in PortName : s # t => param[s] # param[t]
<1>1. \A A \in SUBSET PortName : PortName \ A # {} =>
        \E m \in PortName \ A : \A s \in PortName \ A : param[m] <= param[s]
  BY LeastPort
<1>2. PICK a \in PortName : \A s \in PortName : param[a] <= param[s]
  <2>1. PortName # {}
    BY DEF PortName
  <2> QED BY <2>1, LeastPort
<1>3. PICK b \in PortName \ {a} : \A s \in PortName \ {a} : param[b] <= param[s]
  <2>1. PortName \ {a} # {}
    BY DEF PortName
  <2> QED BY <1>1, <2>1
<1>4. PICK c \in PortName \ {a, b} : \A s \in PortName \ {a, b} : param[c] <= param[s]
  <2>1. PortName \ {a, b} # {}
    BY DEF PortName
  <2> QED BY <1>1, <2>1
<1>5. PICK d \in PortName \ {a, b, c} : \A s \in PortName \ {a, b, c} : param[d] <= param[s]
  <2>1. PortName \ {a, b, c} # {}
    BY DEF PortName
  <2> QED BY <1>1, <2>1
<1>6. PICK e \in PortName \ {a, b, c, d} : TRUE
  <2>1. PortName \ {a, b, c, d} # {}
    BY DEF PortName
  <2> QED BY <2>1
<1>7. PortName = {a, b, c, d, e}
  BY FiveOfFive
<1> DEFINE o == [i \in 1 .. 5 |-> IF i = 1 THEN a ELSE IF i = 2 THEN b ELSE
                                 IF i = 3 THEN c ELSE IF i = 4 THEN d ELSE e]
<1>8. o[1] = a /\ o[2] = b /\ o[3] = c /\ o[4] = d /\ o[5] = e
  OBVIOUS
<1>9. param[a] <= param[b] /\ param[b] <= param[c] /\ param[c] <= param[d] /\ param[d] <= param[e]
  BY <1>2, <1>3, <1>4, <1>5
<1>10. o \in Orders
  <2>1. o \in [1 .. 5 -> PortName]
    OBVIOUS
  <2>2. \A i, j \in 1 .. 5 : i # j => o[i] # o[j]
    OBVIOUS
  <2>3. \A i \in 1 .. 4 : i = 1 \/ i = 2 \/ i = 3 \/ i = 4
    OBVIOUS
  <2> HIDE DEF o
  <2>4. \A i \in 1 .. 4 : param[o[i]] <= param[o[i + 1]]
    BY <1>8, <1>9, <2>3
  <2> QED BY <2>1, <2>2, <2>4 DEF Orders
<1> HIDE DEF o
<1>11. \A i \in 1 .. 4 : param[o[i]] # param[o[i + 1]]
  BY <1>10 DEF NeighboursEqual
<1>12. /\ param[o[1]] # param[o[1 + 1]] /\ param[o[2]] # param[o[2 + 1]]
       /\ param[o[3]] # param[o[3 + 1]] /\ param[o[4]] # param[o[4 + 1]]
  BY <1>11
<1>13. param[a] < param[b] /\ param[b] < param[c] /\ param[c] < param[d] /\ param[d] < param[e]
  BY <1>8, <1>9, <1>12
<1> QED BY <1>7, <1>13

LEMMA PortsInit == Init => AcceptedPortsDistinct
BY DEF Init, AcceptedPortsDistinct, Accepted

LEMMA PortsNext ==
  TypeInv /\ KnownInv /\ AcceptedPortsDistinct /\ [Next]_vars => AcceptedPortsDistinct'
<1> SUFFICES ASSUME TypeInv, KnownInv, AcceptedPortsDistinct, [Next]_vars
             PROVE  AcceptedPortsDistinct'
  OBVIOUS
<1>1. CASE CheckParametersConsistency /\ stage' = "accepted"
  <2>1. ~NeighboursEqual /\ \A s \in PortName : param[s] # 0
    BY <1>1 DEF CheckParametersConsistency
  <2>2. \A s \in PortName : param[s] \in Port
    BY <1>1, AllKnown, PortNames
    DEF CheckParametersConsistency, KnownInv, TypeInv, TypeOK
  <2>3. \A s \in PortName : param[s] \in Nat
    BY <2>2, PortAssumption DEF Port
  <2>4. \A s, t \in PortName : s # t => param[s] # param[t]
    BY <2>1, <2>3, NeighboursFound
  <2>5. UNCHANGED param
    BY <1>1 DEF CheckParametersConsistency
  <2> QED BY <2>1, <2>2, <2>4, <2>5 DEF AcceptedPortsDistinct
<1>2. CASE ~(CheckParametersConsistency /\ stage' = "accepted")
  <2>1. stage' \in Accepted => stage \in Accepted /\ UNCHANGED param
    BY <1>2 DEF Next, vars, Accepted, ParseCommandLine, ParseConfigFile, InsertVideoPort,
       ParseGameConfig, SetDefaults, CheckParametersConsistency, InitServer, InitRobot,
       RobotsDone, InitItem, CreateItem, ItemsDone, AgentAddsRobot, AgentRemovesRobot, Ended
  <2> QED BY <2>1 DEF AcceptedPortsDistinct
<1> QED BY <1>1, <1>2

\* Whatever the sources say, a configuration is accepted only with five
\* different ports that are not 0 (Application.cpp:502-542).
THEOREM PortsAccepted == Spec => []AcceptedPortsDistinct
<1>1. Init => TypeInv /\ KnownInv /\ AcceptedPortsDistinct
  BY TypeInit, KnownInit, PortsInit
<1>2. TypeInv /\ KnownInv /\ AcceptedPortsDistinct /\ [Next]_vars
        => (TypeInv /\ KnownInv /\ AcceptedPortsDistinct)'
  BY TypeNext, KnownNext, PortsNext DEF TypeInv
<1> QED BY <1>1, <1>2, PTL DEF Spec

----------------------------------------------------------------------------
(* Items *)

\* The sections that were gone through come before those that are left, their
\* tags are in the map, and each map leads to a section that says so.
ColoursInv == \A c \in Colour : byColour[c] # Absent =>
  /\ byColour[c] \in DOMAIN Items
  /\ Items[byColour[c]].colour = c /\ Items[byColour[c]].tags = {}

TagsInv == \A t \in Tag : byTag[t] # Absent =>
  /\ byTag[t] \in DOMAIN Items /\ t \in Items[byTag[t]].tags
  /\ stage = "items" => byTag[t] \notin todo

DoneInv == stage \in {"items", "serving"} => \A s \in DOMAIN Items \ todo :
  /\ \A u \in todo : s < u
  /\ \A t \in Items[s].tags : byTag[t] # Absent /\ byTag[t] <= s

NoItemsInv ==
  stage \notin {"items", "serving", "crashed"} =>
    /\ \A c \in Colour : byColour[c] = Absent
    /\ \A t \in Tag : byTag[t] = Absent

ServingInv == stage = "serving" => todo = {}

ItemsInv == ColoursInv /\ TagsInv /\ DoneInv /\ NoItemsInv /\ ServingInv

LEMMA ItemsInit == Init => ItemsInv
BY DEF Init, ItemsInv, ColoursInv, TagsInv, DoneInv, NoItemsInv, ServingInv

\* Item::CreateItem keeps the maps true.
LEMMA CreateKeeps ==
  ASSUME TypeInv, ItemsInv, stage = "items", NEW s \in todo, IsFirst(s), CreateItem(s),
         todo' = todo \ {s}, UNCHANGED givenVars
  PROVE  ItemsInv'
<1>1. s \in DOMAIN Items /\ s \in Nat /\ Items[s] \in ItemSection /\ Items' = Items
  BY Sections DEF TypeInv, TodoInv, Items, givenVars
<1>2. Items[s].tags \subseteq Tag /\ todo \subseteq Nat
  BY <1>1 DEF ItemSection, TypeInv, TypeOK
<1>3. stage' \in {"items", "crashed"}
  BY DEF CreateItem
<1>4. \A c \in Colour :
         \/ byColour'[c] = byColour[c]
         \/ byColour'[c] = s /\ c = Items[s].colour /\ Items[s].tags = {}
  <2>1. CASE byColour' = byColour
    BY <2>1
  <2>2. CASE byColour' # byColour
    <3>1. Items[s].tags = {} /\ byColour' = [byColour EXCEPT ![Items[s].colour] = s]
      BY <2>2 DEF CreateItem, itemVars
    <3>2. DOMAIN byColour = Colour
      BY DEF TypeInv, TypeOK
    <3> QED BY <3>1, <3>2
  <2> QED BY <2>1, <2>2
<1>5. \/ Items[s].tags = {} /\ UNCHANGED byTag
      \/ byTag' = TagsWith(s)
      \/ stage' = "crashed" /\ UNCHANGED byTag
  BY DEF CreateItem, itemVars
<1>6. \A t \in Tag :
         \/ byTag'[t] = byTag[t]
         \/ byTag'[t] = s /\ t \in Items[s].tags /\ byTag[t] = Absent
  <2>1. CASE byTag' = byTag
    BY <2>1
  <2>2. CASE byTag' = TagsWith(s)
    BY <2>2 DEF TagsWith
  <2> QED BY <1>5, <2>1, <2>2
<1>7. \A t \in Items[s].tags :
        stage' = "crashed" \/ byTag'[t] = (IF byTag[t] = Absent THEN s ELSE byTag[t])
  BY <1>2, <1>5 DEF TagsWith
<1>8. ColoursInv'
  BY <1>1, <1>4 DEF ItemsInv, ColoursInv
<1>9. TagsInv'
  BY <1>1, <1>6 DEF ItemsInv, TagsInv
<1>10. DoneInv'
  <2> SUFFICES ASSUME stage' = "items", NEW d \in DOMAIN Items, d \notin todo \ {s}
               PROVE  /\ \A u \in todo \ {s} : d < u
                      /\ \A t \in Items[d].tags : byTag'[t] # Absent /\ byTag'[t] <= d
    BY <1>1, <1>3 DEF DoneInv
  <2>1. Items[d].tags \subseteq Tag /\ d \in Nat
    BY Sections DEF TypeInv, ItemSection
  <2>2. s # Absent
    BY <1>1, PortAssumption
  <2>3. CASE d = s
    <3>1. \A u \in todo \ {s} : s < u
      BY <1>1, <1>2 DEF IsFirst
    <3>2. ASSUME NEW t \in Items[s].tags PROVE byTag'[t] # Absent /\ byTag'[t] <= s
      <4>1. CASE byTag[t] = Absent
        BY <1>1, <1>7, <2>2, <3>2, <4>1
      <4>2. CASE byTag[t] # Absent
        <5>1. byTag[t] \in DOMAIN Items \ todo /\ byTag[t] \in Nat
          BY <1>2, <3>2, <4>2, Sections DEF ItemsInv, TagsInv, TypeInv
        <5>2. byTag[t] < s
          BY <5>1 DEF ItemsInv, DoneInv
        <5> QED BY <1>1, <1>7, <3>2, <4>2, <5>1, <5>2
      <4> QED BY <4>1, <4>2
    <3> QED BY <2>3, <3>1, <3>2
  <2>4. CASE d # s
    <3>1. d \in DOMAIN Items \ todo
      BY <2>4
    <3>2. /\ \A u \in todo : d < u
          /\ \A t \in Items[d].tags : byTag[t] # Absent /\ byTag[t] <= d
      BY <3>1 DEF ItemsInv, DoneInv
    <3> QED BY <1>6, <2>1, <3>2
  <2> QED BY <2>3, <2>4
<1> QED BY <1>3, <1>8, <1>9, <1>10 DEF ItemsInv, NoItemsInv, ServingInv

LEMMA ItemsNext == TypeInv /\ ItemsInv /\ [Next]_vars => ItemsInv'
<1> SUFFICES ASSUME TypeInv, ItemsInv, [Next]_vars PROVE ItemsInv'
  OBVIOUS
<1>1. CASE InitItem
  <2>1. PICK s \in todo : IsFirst(s) /\ CreateItem(s) /\ todo' = todo \ {s}
    BY <1>1 DEF InitItem
  <2> QED BY <1>1, <2>1, CreateKeeps DEF InitItem
<1>2. CASE RobotsDone
  <2>1. Items' = Items
    BY <1>2 DEF RobotsDone, givenVars, Items
  <2>2. todo' = DOMAIN Items
    BY <1>2 DEF RobotsDone
  <2> QED BY <1>2, <2>1, <2>2
       DEF RobotsDone, itemVars, ItemsInv, ColoursInv, TagsInv, DoneInv, NoItemsInv, ServingInv
<1>3. CASE ItemsDone
  <2>1. Items' = Items
    BY <1>3 DEF ItemsDone, givenVars, Items
  <2> QED BY <1>3, <2>1
       DEF ItemsDone, itemVars, ItemsInv, ColoursInv, TagsInv, DoneInv, NoItemsInv, ServingInv
<1>4. CASE ~(InitItem \/ RobotsDone \/ ItemsDone)
  <2>1. Items' = Items /\ UNCHANGED itemVars
    BY <1>4 DEF Next, vars, givenVars, Items, itemVars, ParseCommandLine, ParseConfigFile,
       InsertVideoPort, ParseGameConfig, SetDefaults, CheckParametersConsistency, InitServer,
       InitRobot, AgentAddsRobot, AgentRemovesRobot, Ended
  <2>2. \/ stage' = stage /\ stage \in {"items", "serving"} /\ UNCHANGED todo
        \/ stage \notin {"items", "serving", "crashed"} /\ stage' \notin {"items", "serving"}
        \/ stage = "crashed" /\ stage' = "crashed"
    BY <1>4 DEF Next, vars, ParseCommandLine, ParseConfigFile,
       InsertVideoPort, ParseGameConfig, SetDefaults, CheckParametersConsistency, InitServer,
       InitRobot, AgentAddsRobot, AgentRemovesRobot, Ended, TypeInv, TypeOK, Reading, Accepted
  <2> QED BY <2>1, <2>2
       DEF itemVars, ItemsInv, ColoursInv, TagsInv, DoneInv, NoItemsInv, ServingInv
<1> QED BY <1>1, <1>2, <1>3, <1>4

LEMMA ItemsApart == TypeInv /\ ItemsInv => ItemsToldApart
<1> SUFFICES ASSUME TypeInv, ItemsInv PROVE ItemsToldApart
  OBVIOUS
<1>1. ASSUME NEW c \in Colour, byColour[c] # Absent
      PROVE  Items[byColour[c]].colour = c /\ \A t \in Tag : byTag[t] # byColour[c]
  BY <1>1 DEF ItemsInv, ColoursInv, TagsInv
<1>2. ASSUME stage = "serving", NEW t \in Tag, NEW s \in DOMAIN Items, t \in Items[s].tags
      PROVE  byTag[t] # Absent /\ byTag[t] <= s
  <2>1. s \in DOMAIN Items \ todo
    BY <1>2 DEF ItemsInv, ServingInv
  <2> QED BY <1>2, <2>1 DEF ItemsInv, DoneInv
<1> QED BY <1>1, <1>2 DEF ItemsToldApart

\* Whatever items the game file names, in whatever order, each is found by what
\* its section says, and the first with a tag keeps it (Item.cpp:113-165).
THEOREM ItemsFound == Spec => []ItemsToldApart
<1>1. Init => TypeInv /\ ItemsInv
  BY TypeInit, ItemsInit
<1>2. TypeInv /\ ItemsInv /\ [Next]_vars => (TypeInv /\ ItemsInv)'
  BY TypeNext, ItemsNext
<1> QED BY <1>1, <1>2, ItemsApart, PTL DEF Spec

----------------------------------------------------------------------------
(* The ports of robots *)

Distinct(s) == \A i, j \in 1 .. Len(s) : s[i] = s[j] => i = j

\* The range is walked upwards, so each of its ports is inserted once.
RangeInv ==
  /\ Distinct(videoPorts)
  /\ stage \in {"line", "rc"} => videoPorts = <<>>
  /\ stage = "range" => \A i \in 1 .. Len(videoPorts) : videoPorts[i] < next

\* Ports are available once, are of the range, and belong to nobody; there are
\* enough of them until every robot of the configuration has two.
AvailableInv ==
  /\ Distinct(available)
  /\ \A i \in 1 .. Len(available) : \E j \in 1 .. Len(videoPorts) :
       available[i] = videoPorts[j]
  /\ stage = "accepted" => EnoughVideoPorts
  /\ stage = "robots" => Len(available) >= 2 * Cardinality(todo)

OwnedInv ==
  \A r \in Live, i \in 1 .. Len(available) : available[i] \in PortsOf(r) => available[i] = 0

EarlyInv ==
  stage \in Reading \cup {"accepted"} =>
    available = <<>> /\ \A r \in Robot : ports[r] = Absent

ApartInv == \A r \in Live :
  /\ ports[r][1] = ports[r][2] => ports[r][1] = 0
  /\ \A q \in Live \ {r} : PortsOf(r) \cap PortsOf(q) \subseteq {0}

OfRangeInv == stage \in {"robots", "items"} => \A r \in Live :
  \A p \in PortsOf(r) : \E i \in DOMAIN videoPorts : videoPorts[i] = p

PoolInv == RangeInv /\ AvailableInv /\ OwnedInv /\ EarlyInv /\ ApartInv /\ OfRangeInv

LEMMA PoolInit == Init => PoolInv
BY DEF Init, PoolInv, RangeInv, AvailableInv, OwnedInv, EarlyInv, ApartInv, OfRangeInv,
       Live, Distinct

LEMMA Prefix ==
  ASSUME NEW S, NEW s \in Seq(S), NEW m \in 0 .. Len(s)
  PROVE  /\ Len(SubSeq(s, 1, m)) = m
         /\ \A i \in 1 .. m : SubSeq(s, 1, m)[i] = s[i]
<1>1. Len(s) \in Nat /\ DOMAIN s = 1 .. Len(s)
  OBVIOUS
<1> QED BY <1>1

\* What two calls of popPort give is not available any more, and is different
\* unless nothing is left.
LEMMA PopPool ==
  ASSUME TypeOK, Distinct(available)
  PROVE  LET n == Len(available)
             left == PopPorts[1]
             p == PopPorts[3][1]
             q == PopPorts[3][2]
         IN  /\ Len(left) \in 0 .. n /\ (n >= 2 => Len(left) = n - 2)
             /\ \A i \in 1 .. Len(left) :
                  left[i] = available[i] /\ left[i] # p /\ left[i] # q
             /\ p = q => p = 0
             /\ p # 0 => \E i \in 1 .. n : p = available[i]
             /\ q # 0 => \E i \in 1 .. n : q = available[i]
             /\ n >= 2 => p = available[n] /\ q = available[n - 1]
<1> DEFINE n == Len(available)
           k == IF n < 2 THEN n ELSE 2
           left == SubSeq(available, 1, n - k)
<1>0. available \in Seq(Port) /\ n \in Nat
  BY DEF TypeOK
<1>1. k \in 0 .. n /\ n - k \in 0 .. n /\ available \in Seq(Port) /\ n \in Nat
  <2> HIDE DEF n
  <2> QED BY <1>0
<1>2. Len(left) = n - k /\ \A i \in 1 .. n - k : left[i] = available[i]
  <2> HIDE DEF k
  <2> QED BY <1>1, Prefix
<1>3. PopPorts[1] = left /\ PopPorts[3][1] = Popped(1) /\ PopPorts[3][2] = Popped(2)
  BY DEF PopPorts, Left
<1> HIDE DEF left
<1>4. CASE n = 0
  <2>1. Popped(1) = 0 /\ Popped(2) = 0
    BY <1>4 DEF Popped
  <2> QED BY <1>2, <1>3, <1>4, <2>1
<1>5. CASE n = 1
  <2>1. Popped(1) = available[1] /\ Popped(2) = 0
    BY <1>5 DEF Popped
  <2> QED BY <1>2, <1>3, <1>5, <2>1
<1>6. CASE n >= 2
  <2>1. Popped(1) = available[n] /\ Popped(2) = available[n - 1]
    BY <1>1, <1>6 DEF Popped
  <2>2. k = 2
    BY <1>1, <1>6
  <2>3. available[n] # available[n - 1]
    BY <1>1, <1>6 DEF Distinct
  <2>4. \A i \in 1 .. n - 2 : available[i] # available[n] /\ available[i] # available[n - 1]
    BY <1>1, <1>6 DEF Distinct
  <2> HIDE DEF k
  <2> QED BY <1>1, <1>2, <1>3, <1>6, <2>1, <2>2, <2>3, <2>4
<1>7. n = 0 \/ n = 1 \/ n >= 2
  <2> HIDE DEF n
  <2> QED BY <1>0
<1> QED BY <1>4, <1>5, <1>6, <1>7, Zenon

\* A robot is added, or refused: its ports are nobody else's.
LEMMA AddPool ==
  ASSUME TypeOK, PoolInv, NEW r \in Robot, NEW known, AddRobot(r, known)
  PROVE  /\ Distinct(available')
         /\ \A i \in 1 .. Len(available') : \E j \in 1 .. Len(available) :
              available'[i] = available[j]
         /\ Len(available) >= 2 => Len(available') = Len(available) - 2
         /\ OwnedInv' /\ ApartInv'
         /\ \A x \in Robot \ {r} : ports'[x] = ports[x]
         /\ \/ ports'[r] = ports[r]
            \/ \A p \in {ports'[r][1], ports'[r][2]} :
                 (p = 0 /\ Len(available) < 2) \/ \E j \in 1 .. Len(available) : p = available[j]
<1> DEFINE n == Len(available)
           p == PopPorts[3][1]
           q == PopPorts[3][2]
<1>1. Distinct(available) /\ n \in Nat /\ available' = PopPorts[1]
  BY DEF PoolInv, AvailableInv, AddRobot, TypeOK
<1>2. /\ Len(available') \in 0 .. n /\ (n >= 2 => Len(available') = n - 2)
      /\ \A i \in 1 .. Len(available') :
           available'[i] = available[i] /\ available'[i] # p /\ available'[i] # q
      /\ p = q => p = 0
      /\ p # 0 => \E i \in 1 .. n : p = available[i]
      /\ q # 0 => \E i \in 1 .. n : q = available[i]
      /\ n >= 2 => p = available[n] /\ q = available[n - 1]
  BY <1>1, PopPool
<1>3. \/ ports' = ports
      \/ ports[r] = Absent /\ ports' = [ports EXCEPT ![r] = <<p, q>>]
      \/ ports[r] = Absent /\ ports' = [ports EXCEPT ![r] = <<q, p>>]
  BY DEF AddRobot
<1> HIDE DEF p, q
<1>4. /\ \A x \in Robot \ {r} : ports'[x] = ports[x]
      /\ \/ ports'[r] = ports[r]
         \/ ports[r] = Absent /\ {ports'[r][1], ports'[r][2]} = {p, q}
             /\ (ports'[r][1] = ports'[r][2] => p = q /\ ports'[r][1] = p)
  BY <1>3 DEF TypeOK
<1>5. Distinct(available')
  BY <1>1, <1>2 DEF Distinct
<1>6. \A i \in 1 .. Len(available') : \E j \in 1 .. n : available'[i] = available[j]
  BY <1>1, <1>2
<1>7. \A x \in Robot \ {r} : (x \in Live' <=> x \in Live) /\ PortsOf(x)' = PortsOf(x)
  BY <1>4 DEF Live, PortsOf
<1>8. CASE ports'[r] = ports[r]
  <2>1. \A x \in Robot : ports'[x] = ports[x]
    BY <1>4, <1>8
  <2>2. Live' = Live /\ \A x \in Robot : PortsOf(x)' = PortsOf(x)
    BY <2>1 DEF Live, PortsOf
  <2>3. Live \subseteq Robot
    BY DEF Live
  <2>4. OwnedInv'
    BY <1>6, <2>2, <2>3 DEF PoolInv, OwnedInv
  <2>5. ApartInv'
    BY <2>1, <2>2, <2>3 DEF PoolInv, ApartInv
  <2> QED BY <1>2, <1>4, <1>5, <1>6, <1>8, <2>4, <2>5
<1>9. CASE ports'[r] # ports[r]
  <2>1. /\ r \notin Live /\ PortsOf(r)' = {p, q}
        /\ ports'[r][1] = ports'[r][2] => ports'[r][1] = 0
    BY <1>2, <1>4, <1>9 DEF Live, PortsOf
  <2>2. \A x \in Live : x \in Robot \ {r}
    BY <2>1 DEF Live
  <2>3. \A x \in Live' : x = r \/ x \in Live
    BY <1>7 DEF Live
  <2>4. \A i \in 1 .. Len(available') : available'[i] \notin PortsOf(r)'
    BY <1>2, <2>1
  <2>5. OwnedInv'
    <3> SUFFICES ASSUME NEW x \in Live', NEW i \in 1 .. Len(available'),
                        available'[i] \in PortsOf(x)'
                 PROVE  available'[i] = 0
      BY DEF OwnedInv
    <3>1. x \in Live /\ PortsOf(x)' = PortsOf(x)
      BY <1>7, <2>2, <2>3, <2>4
    <3> QED BY <1>6, <3>1 DEF PoolInv, OwnedInv
  <2>6. \A x \in Live : PortsOf(x) \cap {p, q} \subseteq {0}
    BY <1>2 DEF PoolInv, OwnedInv
  <2>7. ApartInv'
    <3> SUFFICES ASSUME NEW x \in Live'
                 PROVE  /\ ports'[x][1] = ports'[x][2] => ports'[x][1] = 0
                        /\ \A y \in Live' \ {x} : PortsOf(x)' \cap PortsOf(y)' \subseteq {0}
      BY DEF ApartInv
    <3>1. CASE x = r
      <4>1. \A y \in Live' \ {r} : y \in Live /\ PortsOf(y)' = PortsOf(y)
        BY <1>7, <2>2, <2>3
      <4> QED BY <2>1, <2>6, <3>1, <4>1
    <3>2. CASE x # r
      <4>1. x \in Live /\ PortsOf(x)' = PortsOf(x) /\ ports'[x] = ports[x]
        BY <1>4, <1>7, <2>2, <2>3, <3>2
      <4>2. ports'[x][1] = ports'[x][2] => ports'[x][1] = 0
        BY <4>1 DEF PoolInv, ApartInv
      <4>3. ASSUME NEW y \in Live' \ {x} PROVE PortsOf(x)' \cap PortsOf(y)' \subseteq {0}
        <5>1. CASE y = r
          BY <2>1, <2>6, <4>1, <5>1
        <5>2. CASE y # r
          <6>1. y \in Live \ {x} /\ PortsOf(y)' = PortsOf(y)
            BY <1>7, <2>2, <2>3, <4>3, <5>2
          <6> QED BY <4>1, <6>1 DEF PoolInv, ApartInv
        <5> QED BY <5>1, <5>2
      <4> QED BY <4>2, <4>3
    <3> QED BY <3>1, <3>2
  <2>8. \A x \in {p, q} : (x = 0 /\ n < 2) \/ \E j \in 1 .. n : x = available[j]
    BY <1>1, <1>2
  <2> QED BY <1>2, <1>4, <1>5, <1>6, <1>9, <2>5, <2>7, <2>8
<1> QED BY <1>8, <1>9

\* Where nothing of the pool changes but how far the program is.
LEMMA PoolKept ==
  ASSUME PoolInv, UNCHANGED <<videoPorts, available, ports>>,
         stage' \in {"line", "rc"} => stage \in {"line", "rc"},
         stage' = "range" => stage = "range" /\ next' = next,
         stage' \in Reading \cup {"accepted"} => stage \in Reading \cup {"accepted"},
         stage' \in {"robots", "items"} => stage \in {"robots", "items"},
         stage' = "accepted" => EnoughVideoPorts',
         stage' = "robots" => stage = "robots" /\ todo' = todo
  PROVE  PoolInv'
<1>1. Live' = Live /\ \A r : PortsOf(r)' = PortsOf(r)
  BY DEF Live, PortsOf
<1>2. RangeInv' /\ AvailableInv'
  BY DEF PoolInv, RangeInv, AvailableInv
<1>3. OwnedInv' /\ EarlyInv'
  BY <1>1 DEF PoolInv, OwnedInv, EarlyInv
<1>4. ApartInv' /\ OfRangeInv'
  BY <1>1 DEF PoolInv, ApartInv, OfRangeInv
<1> QED BY <1>2, <1>3, <1>4 DEF PoolInv

LEMMA PoolGrows == TypeInv /\ PoolInv /\ InsertVideoPort => PoolInv'
<1> SUFFICES ASSUME TypeInv, PoolInv, InsertVideoPort PROVE PoolInv'
  OBVIOUS
<1>1. CASE next <= LastPort
  <2>1. /\ stage = "range" /\ stage' = stage
        /\ videoPorts' = <<next>> \o videoPorts
        /\ next' = (next + 1) % (MaxPort + 1)
        /\ UNCHANGED <<available, ports, todo>>
    BY <1>1 DEF InsertVideoPort, portVars
  <2>2. LastPort \in 0 .. MaxPort - 1 /\ next \in Nat /\ MaxPort \in Nat
    BY <2>1, RangeType, PortAssumption DEF TypeInv, TodoInv, TypeOK, Port
  <2>3. next' = next + 1
    BY <1>1, <2>1, <2>2
  <2>4. videoPorts \in Seq(Port) /\ next \in Port /\ <<next>> \in Seq(Port)
    BY DEF TypeInv, TypeOK
  <2>5. /\ Len(videoPorts') = 1 + Len(videoPorts)
        /\ videoPorts'[1] = next
        /\ \A i \in 2 .. Len(videoPorts') : videoPorts'[i] = videoPorts[i - 1]
    BY <2>1, <2>4, ConcatProperties
  <2>6. Len(videoPorts) \in Nat /\ \A i \in 1 .. Len(videoPorts) : videoPorts[i] \in Nat
    BY <2>4, PortAssumption DEF Port
  <2>7. \A i \in 1 .. Len(videoPorts) : videoPorts[i] < next
    BY <2>1 DEF PoolInv, RangeInv
  <2>8. Distinct(videoPorts')
    BY <2>2, <2>5, <2>6, <2>7 DEF PoolInv, RangeInv, Distinct
  <2>9. \A i \in 1 .. Len(videoPorts') : videoPorts'[i] < next'
    BY <2>2, <2>3, <2>5, <2>6, <2>7
  <2>10. RangeInv'
    BY <2>1, <2>8, <2>9 DEF RangeInv
  <2>11. available = <<>> /\ \A r \in Robot : ports[r] = Absent
    BY <2>1 DEF PoolInv, EarlyInv, Reading
  <2> QED BY <2>1, <2>10, <2>11
       DEF PoolInv, AvailableInv, OwnedInv, EarlyInv, ApartInv, OfRangeInv, Live, Distinct
<1>2. CASE ~(next <= LastPort)
  <2>1. stage = "range" /\ stage' = "game" /\ UNCHANGED <<videoPorts, available, ports>>
    BY <1>2 DEF InsertVideoPort, portVars
  <2> QED BY <2>1, PoolKept DEF Reading
<1> QED BY <1>1, <1>2

\* Every robot of the configuration finds two ports.
LEMMA PoolGives == TypeInv /\ PoolInv /\ InitRobot => PoolInv'
<1> SUFFICES ASSUME TypeInv, PoolInv, InitRobot PROVE PoolInv'
  OBVIOUS
<1>1. PICK s \in todo : AddRobot(Robots[s], TRUE) /\ todo' = todo \ {s}
  BY DEF InitRobot
<1>2. stage = "robots" /\ stage' = "robots" /\ UNCHANGED <<videoPorts, next>>
  BY DEF InitRobot
<1> DEFINE r == Robots[s]
<1>3. IsFiniteSet(todo) /\ r \in Robot /\ AddRobot(r, TRUE)
  BY <1>1, <1>2, Sections, FS_Subset DEF TypeInv, TodoInv
<1>4. Cardinality(todo') = Cardinality(todo) - 1 /\ Cardinality(todo') \in Nat
      /\ Cardinality(todo) \in Nat
  BY <1>1, <1>3, FS_RemoveElement, FS_CardinalityType
<1>5. Len(available) >= 2 * Cardinality(todo) /\ Len(available) \in Nat
  BY <1>2 DEF PoolInv, AvailableInv, TypeInv, TypeOK
<1>6. Len(available) >= 2
  BY <1>4, <1>5
<1> HIDE DEF r
<1>7. /\ Distinct(available')
      /\ \A i \in 1 .. Len(available') : \E j \in 1 .. Len(available) :
           available'[i] = available[j]
      /\ Len(available') = Len(available) - 2
      /\ OwnedInv' /\ ApartInv'
      /\ \A x \in Robot \ {r} : ports'[x] = ports[x]
      /\ \/ ports'[r] = ports[r]
         \/ \A p \in {ports'[r][1], ports'[r][2]} :
              \E j \in 1 .. Len(available) : p = available[j]
  <2>1. ~(Len(available) < 2)
    BY <1>5, <1>6
  <2>2. TypeOK
    BY DEF TypeInv
  <2> QED BY <1>3, <1>6, <2>1, <2>2, AddPool
<1>8. \A i \in 1 .. Len(available) : \E j \in 1 .. Len(videoPorts) :
        available[i] = videoPorts[j]
  BY DEF PoolInv, AvailableInv
<1>9. AvailableInv'
  <2>1. \A i \in 1 .. Len(available') : \E j \in 1 .. Len(videoPorts') :
          available'[i] = videoPorts'[j]
    <3> SUFFICES ASSUME NEW i \in 1 .. Len(available')
                 PROVE  \E j \in 1 .. Len(videoPorts) : available'[i] = videoPorts[j]
      BY <1>2
    <3>1. PICK k \in 1 .. Len(available) : available'[i] = available[k]
      BY <1>7
    <3> QED BY <1>8, <3>1
  <2>2. Len(available') >= 2 * Cardinality(todo')
    BY <1>4, <1>5, <1>7
  <2> QED BY <1>2, <1>7, <2>1, <2>2 DEF AvailableInv
<1>10. OfRangeInv'
  <2> SUFFICES ASSUME NEW x \in Live', NEW p \in PortsOf(x)'
               PROVE  \E i \in DOMAIN videoPorts : videoPorts[i] = p
    BY <1>2 DEF OfRangeInv
  <2>1. DOMAIN videoPorts = 1 .. Len(videoPorts)
    BY DEF TypeInv, TypeOK
  <2>2. CASE ports'[x] = ports[x]
    <3>1. x \in Live /\ p \in PortsOf(x)
      BY <2>2 DEF Live, PortsOf
    <3> QED BY <1>2, <3>1 DEF PoolInv, OfRangeInv
  <2>3. CASE ports'[x] # ports[x]
    <3>1. x = r
      BY <1>7, <2>3 DEF Live
    <3>2. PICK j \in 1 .. Len(available) : p = available[j]
      BY <1>7, <2>3, <3>1 DEF PortsOf
    <3> QED BY <1>8, <2>1, <3>2, Zenon
  <2> QED BY <2>2, <2>3
<1>11. RangeInv' /\ EarlyInv'
  BY <1>2 DEF PoolInv, RangeInv, EarlyInv, Reading
<1> QED BY <1>7, <1>9, <1>10, <1>11 DEF PoolInv

LEMMA PoolNext == TypeInv /\ PoolInv /\ [Next]_vars => PoolInv'
<1> SUFFICES ASSUME TypeInv, PoolInv, [Next]_vars PROVE PoolInv'
  OBVIOUS
<1>1. CASE ParseCommandLine
  <2>1. UNCHANGED <<videoPorts, available, ports>> /\ stage' \in {"rc", "refused"} /\ stage = "line"
    BY <1>1 DEF ParseCommandLine, portVars
  <2> QED BY <2>1, PoolKept DEF Reading
<1>2. CASE ParseConfigFile
  <2>1. UNCHANGED <<videoPorts, available, ports>> /\ stage' \in {"range", "refused"} /\ stage = "rc"
    BY <1>2 DEF ParseConfigFile, portVars
  <2>2. videoPorts = <<>> /\ available = <<>> /\ \A r \in Robot : ports[r] = Absent
    BY <2>1 DEF PoolInv, RangeInv, EarlyInv, Reading
  <2> QED BY <2>1, <2>2 DEF PoolInv, RangeInv, AvailableInv, OwnedInv, EarlyInv, ApartInv,
          OfRangeInv, Live, Distinct
<1>3. CASE InsertVideoPort
  BY <1>3, PoolGrows
<1>4. CASE ParseGameConfig \/ SetDefaults
  <2>1. /\ UNCHANGED <<videoPorts, available, ports>>
        /\ stage' \in {"defaults", "crashed", "check"} /\ stage \in {"game", "defaults"}
    BY <1>4 DEF ParseGameConfig, SetDefaults, portVars
  <2> QED BY <2>1, PoolKept DEF Reading
<1>5. CASE CheckParametersConsistency
  <2>1. UNCHANGED <<videoPorts, available, ports>> /\ stage = "check"
        /\ stage' \in {"accepted", "refused"} /\ (stage' = "accepted" => EnoughVideoPorts)
    BY <1>5 DEF CheckParametersConsistency, portVars
  <2>2. EnoughVideoPorts' <=> EnoughVideoPorts
    BY <1>5 DEF CheckParametersConsistency, EnoughVideoPorts, givenVars, Robots
  <2> QED BY <2>1, <2>2, PoolKept DEF Reading
<1>6. CASE InitServer
  <2>1. /\ stage = "accepted" /\ stage' = "robots"
        /\ available' = videoPorts /\ todo' = DOMAIN Robots
        /\ UNCHANGED <<videoPorts, ports>>
    BY <1>6 DEF InitServer
  <2>2. \A r \in Robot : ports[r] = Absent
    BY <2>1 DEF PoolInv, EarlyInv
  <2>3. Distinct(videoPorts) /\ Len(videoPorts) >= 2 * Cardinality(DOMAIN Robots)
    BY <2>1 DEF PoolInv, RangeInv, AvailableInv, EnoughVideoPorts
  <2>4. RangeInv' /\ AvailableInv'
    BY <2>1, <2>3 DEF RangeInv, AvailableInv
  <2> QED BY <2>1, <2>2, <2>4
          DEF PoolInv, OwnedInv, EarlyInv, ApartInv, OfRangeInv, Live, Reading
<1>7. CASE InitRobot
  BY <1>7, PoolGives
<1>8. CASE RobotsDone \/ InitItem \/ ItemsDone
  <2>1. /\ UNCHANGED <<videoPorts, available, ports>>
        /\ stage' \in {"items", "serving", "crashed"} /\ stage \in {"robots", "items"}
    BY <1>8 DEF RobotsDone, InitItem, ItemsDone, CreateItem, portVars
  <2> QED BY <2>1, PoolKept DEF Reading
<1>9. ASSUME NEW r \in Robot, NEW known \in BOOLEAN, AgentAddsRobot(r, known) PROVE PoolInv'
  <2>1. stage = "serving" /\ UNCHANGED <<stage, videoPorts, next>> /\ AddRobot(r, known)
    BY <1>9 DEF AgentAddsRobot
  <2>2. /\ Distinct(available') /\ OwnedInv' /\ ApartInv'
        /\ \A i \in 1 .. Len(available') : \E j \in 1 .. Len(available) :
             available'[i] = available[j]
    BY <2>1, AddPool DEF TypeInv
  <2>3. AvailableInv'
    BY <2>1, <2>2 DEF PoolInv, AvailableInv
  <2>4. RangeInv' /\ EarlyInv' /\ OfRangeInv'
    BY <2>1 DEF PoolInv, RangeInv, EarlyInv, OfRangeInv, Reading
  <2> QED BY <2>2, <2>3, <2>4 DEF PoolInv
<1>10. ASSUME NEW r \in Robot, AgentRemovesRobot(r) PROVE PoolInv'
  <2>1. /\ stage = "serving" /\ UNCHANGED <<stage, videoPorts, next, available>>
        /\ ports' = [ports EXCEPT ![r] = Absent]
    BY <1>10 DEF AgentRemovesRobot
  <2>2. \A x \in Live' : x \in Live /\ ports'[x] = ports[x] /\ PortsOf(x)' = PortsOf(x)
    BY <2>1 DEF TypeInv, TypeOK, Live, PortsOf
  <2>3. RangeInv' /\ AvailableInv' /\ EarlyInv' /\ OfRangeInv'
    BY <2>1 DEF PoolInv, RangeInv, AvailableInv, EarlyInv, OfRangeInv, Reading
  <2>4. OwnedInv'
    BY <2>1, <2>2 DEF PoolInv, OwnedInv
  <2>5. ApartInv'
    BY <2>2 DEF PoolInv, ApartInv
  <2> QED BY <2>3, <2>4, <2>5 DEF PoolInv
<1>11. CASE Ended \/ UNCHANGED vars
  <2>1. UNCHANGED vars
    BY <1>11 DEF Ended
  <2>2. UNCHANGED <<videoPorts, available, ports, stage, next, todo>> /\ EnoughVideoPorts' = EnoughVideoPorts
    BY <2>1 DEF vars, portVars, givenVars, EnoughVideoPorts, Robots
  <2> QED BY <2>2, PoolKept DEF PoolInv, AvailableInv
<1> QED BY <1>1, <1>2, <1>3, <1>4, <1>5, <1>6, <1>7, <1>8, <1>9, <1>10, <1>11 DEF Next

\* "each robot needs 1 port for the video retransmission and 1 port to send
\* commands" (Application.cpp:549): whatever range, robots and agents there are,
\* no port but 0 is given twice, and the robots of the configuration get ports
\* of the range (Application.cpp:823-837).
THEOREM PortsApart == Spec => []RobotPortsDistinct
<1>1. Init => TypeInv /\ PoolInv
  BY TypeInit, PoolInit
<1>2. TypeInv /\ PoolInv /\ [Next]_vars => (TypeInv /\ PoolInv)'
  BY TypeNext, PoolNext
<1>3. PoolInv => RobotPortsDistinct
  BY DEF PoolInv, OfRangeInv, ApartInv, RobotPortsDistinct
<1> QED BY <1>1, <1>2, <1>3, PTL DEF Spec

=============================================================================
