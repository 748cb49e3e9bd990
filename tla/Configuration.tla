---------------------------- MODULE Configuration --------------------------
(***************************************************************************)
(* How the application comes to its parameters, and what it makes of them: *)
(* Application::ReadParameters takes each setting from the first of the    *)
(* command line, the rc file, the game file and the defaults that gives    *)
(* it, refuses what does not fit together, and initServer hands the video  *)
(* ports to robots and makes the items.  Agents add robots later, from the *)
(* ports that are left.                                                    *)
(*                                                                         *)
(* Files and command line are what their parsers make of them.  A port is  *)
(* a number up to MaxPort; a source may say a greater one, which each of   *)
(* the three takes in a way of its own.  Sections of the game file are     *)
(* numbers that stand for their order as map keys.  A duration is less     *)
(* than 2^31.                                                              *)
(***************************************************************************)
EXTENDS Integers, Sequences, FiniteSets

CONSTANTS
  MaxPort,       \* the greatest uint16_t
  Absent,        \* the source does not say; no item; the robot is not there
  Default,       \* the constants DEFAULT_*
  CommandLines,  \* [value, help]: the options, and whether -h or -v is there
  Missing,       \* an rc file that cannot be read, a game file not asked for
  RcFiles,       \* [value, range]: the section "server"; range is video-ports
  GameFiles,     \* [value, malformed, robots, items]: robots and items by section
  Robot,         \* the names of robots
  Colour,        \* colour codes of items, NoColour apart
  Tag            \* RFID tags

PortName == {"publisher", "puller", "agent", "replier", "broadcast"}
Setting == PortName \cup {"tick", "duration"}
Value == [Setting -> Nat \cup {Absent}]
NoColour == -1
Port == 0 .. MaxPort
ItemSection == [flag : BOOLEAN, tags : SUBSET Tag, colour : Colour \cup {NoColour}]

ASSUME PortAssumption == MaxPort \in Nat \ {0} /\ Absent \notin Int
ASSUME DefaultAssumption ==
  Default \in [Setting -> Nat] /\ \A s \in PortName : Default[s] \in Port
ASSUME ColourAssumption == Colour \subseteq Int \ {NoColour} /\ Absent \notin Tag
ASSUME LineAssumption == CommandLines \subseteq [value : Value, help : BOOLEAN]
\* A range the loop over uint16_t leaves: it does not end at MaxPort.
ASSUME RcAssumption == \A f \in RcFiles \ {Missing} :
  /\ f.value \in Value
  /\ f.range = Absent \/ f.range \in (0 .. MaxPort - 1) \X (0 .. MaxPort - 1)
ASSUME GameAssumption == \A f \in GameFiles \ {Missing} :
  /\ f.value \in Value /\ f.malformed \in BOOLEAN
  /\ DOMAIN f.robots \subseteq Nat /\ IsFiniteSet(DOMAIN f.robots)
  /\ \A s \in DOMAIN f.robots : f.robots[s] \in Robot
  /\ DOMAIN f.items \subseteq Nat /\ IsFiniteSet(DOMAIN f.items)
  /\ \A s \in DOMAIN f.items : f.items[s] \in ItemSection

VARIABLES
  line, rcFile, gameFile,  \* what the program is given
  stage,       \* how far it is
  param,       \* CommandLineParameters, Absent while not set
  videoPorts,  \* Parameters::m_videoPorts, the last is the next to be taken
  next,        \* the loop variable over the range of video ports
  available,   \* Application::m_availablePorts
  taken,       \* Application::m_takenPorts
  ports,       \* the two ports of each robot in Game::m_robots
  todo,        \* the sections initServer has yet to go through
  byColour,    \* Item::s_itemsByColour, the section that made the item
  byTag        \* Item::s_itemsByRfid

givenVars == <<line, rcFile, gameFile>>
portVars == <<available, taken, ports>>
itemVars == <<byColour, byTag>>
vars == <<givenVars, stage, param, videoPorts, next, portVars, todo, itemVars>>

Reading == {"line", "rc", "range", "game", "defaults", "check"}
Accepted == {"accepted", "robots", "items", "serving"}

TypeOK ==
  /\ line \in CommandLines /\ rcFile \in RcFiles /\ gameFile \in GameFiles
  /\ stage \in Reading \cup Accepted \cup {"refused", "crashed"}
  /\ param \in Value /\ \A s \in PortName : param[s] \in Port \cup {Absent}
  /\ videoPorts \in Seq(Port) /\ next \in Port
  /\ available \in Seq(Port) /\ taken \in Seq(Port)
  /\ ports \in [Robot -> {Absent} \cup (Port \X Port)]
  /\ todo \subseteq Nat
  /\ byColour \in [Colour -> Nat \cup {Absent}]
  /\ byTag \in [Tag -> Nat \cup {Absent}]

Init ==
  /\ line \in CommandLines /\ rcFile \in RcFiles /\ gameFile \in GameFiles
  /\ stage = "line"
  /\ param = [s \in Setting |-> Absent]
  /\ videoPorts = <<>> /\ next = 0
  /\ available = <<>> /\ taken = <<>>
  /\ ports = [r \in Robot |-> Absent]
  /\ todo = {}
  /\ byColour = [c \in Colour |-> Absent] /\ byTag = [t \in Tag |-> Absent]

----------------------------------------------------------------------------
(* ReadParameters *)

\* Mutant: the source overrides what was given before.
Override(source) ==
  [s \in Setting |-> IF source[s] = Absent THEN param[s] ELSE source[s]]

\* Settings not given yet are taken from the source.
Complete(source) ==
  [s \in Setting |-> IF param[s] = Absent THEN source[s] ELSE param[s]]

\* A number that does not fit a port makes boost::program_options throw; help
\* and version end the program too.
FitsCommandLine ==
  ~line.help /\ \A s \in PortName : line.value[s] # Absent => line.value[s] \in Port

ParseCommandLine ==
  /\ stage = "line"
  /\ IF FitsCommandLine THEN stage' = "rc" /\ param' = line.value
                        ELSE stage' = "refused" /\ UNCHANGED param
  /\ UNCHANGED <<givenVars, videoPorts, next, portVars, todo, itemVars>>

\* get_optional<uint16_t> takes a number that does not fit for no number, the
\* tick interval's too; the rc file has no duration.
RcValue == [s \in Setting |->
  IF s # "duration" /\ rcFile.value[s] \in Port THEN rcFile.value[s] ELSE Absent]

\* "first:last", where no last is 0.
FirstPort == rcFile.range[1]
LastPort == IF rcFile.range[2] = 0 THEN rcFile.range[1] ELSE rcFile.range[2]

ParseConfigFile ==
  /\ stage = "rc"
  /\ IF rcFile # Missing THEN param' = Complete(RcValue) ELSE UNCHANGED param
  /\ IF rcFile = Missing \/ rcFile.range = Absent \/ FirstPort > LastPort
     THEN stage' = "refused" /\ UNCHANGED next
     ELSE stage' = "range" /\ next' = FirstPort
  /\ UNCHANGED <<givenVars, videoPorts, portVars, todo, itemVars>>

\* The loop that inserts the ports in reverse order, over a uint16_t.
InsertVideoPort ==
  /\ stage = "range"
  /\ IF next <= LastPort
     THEN /\ videoPorts' = <<next>> \o videoPorts
          /\ next' = (next + 1) % (MaxPort + 1)
          /\ UNCHANGED stage
     ELSE stage' = "game" /\ UNCHANGED <<videoPorts, next>>
  /\ UNCHANGED <<givenVars, param, portVars, todo, itemVars>>

\* get_optional<uint32_t> cut to 16 bits for the broadcast port; the game file
\* has no other setting than that and the duration.
GameValue == [s \in Setting |->
  IF gameFile.value[s] = Absent THEN Absent
  ELSE CASE s = "broadcast" -> gameFile.value[s] % (MaxPort + 1)
         [] s = "duration"  -> gameFile.value[s]
         [] OTHER           -> Absent]

\* ParseGameConfigFromFile throws out of the program when the file or a key is
\* not there.
ParseGameConfig ==
  /\ stage = "game"
  /\ IF gameFile = Missing THEN stage' = "defaults" /\ UNCHANGED param
     ELSE IF gameFile.malformed THEN stage' = "crashed" /\ UNCHANGED param
     ELSE stage' = "defaults" /\ param' = Complete(GameValue)
  /\ UNCHANGED <<givenVars, videoPorts, next, portVars, todo, itemVars>>

SetDefaults ==
  /\ stage = "defaults" /\ stage' = "check"
  /\ param' = Complete(Default)
  /\ UNCHANGED <<givenVars, videoPorts, next, portVars, todo, itemVars>>

Robots == IF gameFile = Missing THEN <<>> ELSE gameFile.robots
Items == IF gameFile = Missing THEN <<>> ELSE gameFile.items

\* The ports in the order of a multimap's keys.
Orders == {o \in [1 .. 5 -> PortName] :
  /\ \A i, j \in 1 .. 5 : i # j => o[i] # o[j]
  /\ \A i \in 1 .. 4 : param[o[i]] <= param[o[i + 1]]}

\* Mutant: neighbours are compared in the order of declaration.
NeighboursInPlace ==
  LET o == <<"publisher", "puller", "agent", "replier", "broadcast">>
  IN  \E i \in 1 .. 4 : param[o[i]] = param[o[i + 1]]

\* std::adjacent_find on the multimap.
NeighboursEqual == \E o \in Orders, i \in 1 .. 4 : param[o[i]] = param[o[i + 1]]

EnoughVideoPorts == Len(videoPorts) >= 2 * Cardinality(DOMAIN Robots)

\* An item is found by its colour or by its tags, not by both.
ItemsWellFormed ==
  \A s \in DOMAIN Items : Items[s].colour = NoColour \/ Items[s].tags = {}

CheckParametersConsistency ==
  /\ stage = "check"
  /\ stage' = IF /\ ~NeighboursEqual
                 /\ \A s \in PortName : param[s] # 0
                 /\ EnoughVideoPorts
                 /\ ItemsWellFormed
              THEN "accepted" ELSE "refused"
  /\ UNCHANGED <<givenVars, param, videoPorts, next, portVars, todo, itemVars>>

----------------------------------------------------------------------------
(* initServer, and the agents after it *)

\* What the i-th call of popPort gives: 0 when there is none left.
Popped(i) == IF Len(available) >= i THEN available[Len(available) + 1 - i] ELSE 0
Left(n) == SubSeq(available, 1, Len(available) - n)

\* Mutant: the port is read and stays available.
PeekPorts == <<available, taken, <<Popped(1), Popped(2)>>>>

\* Two calls of popPort: what is available and taken after them, and the ports.
PopPorts ==
  LET p == <<Popped(1), Popped(2)>>
      k == IF Len(available) < 2 THEN Len(available) ELSE 2
  IN  <<Left(k), taken \o SubSeq(p, 1, k), p>>

\* Two arguments of one call, evaluated in either order, before Game::addRobot
\* looks whether there is such a robot already or the team is unknown: the
\* ports are gone then, and are never given back.
AddRobot(r, known) ==
  LET p == PopPorts
  IN  /\ available' = p[1] /\ taken' = p[2]
      /\ IF ports[r] = Absent /\ known
         THEN ports' \in {[ports EXCEPT ![r] = <<p[3][1], p[3][2]>>],
                          [ports EXCEPT ![r] = <<p[3][2], p[3][1]>>]}
         ELSE UNCHANGED ports

\* A map is walked in the order of its keys.
IsFirst(s) == \A t \in todo : s <= t

InitServer ==
  /\ stage = "accepted" /\ stage' = "robots"
  /\ available' = videoPorts /\ todo' = DOMAIN Robots
  /\ UNCHANGED <<givenVars, param, videoPorts, next, taken, ports, itemVars>>

InitRobot ==
  /\ stage = "robots"
  /\ \E s \in todo :
       IsFirst(s) /\ AddRobot(Robots[s], TRUE) /\ todo' = todo \ {s}
  /\ UNCHANGED <<givenVars, stage, param, videoPorts, next, itemVars>>

RobotsDone ==
  /\ stage = "robots" /\ todo = {}
  /\ stage' = "items" /\ todo' = DOMAIN Items
  /\ UNCHANGED <<givenVars, param, videoPorts, next, portVars, itemVars>>

\* Mutant: the last item with a tag gets it.
TagsOverwritten(s) ==
  [t \in Tag |-> IF t \in Items[s].tags THEN s ELSE byTag[t]]

\* A tag in use stays with its item.
TagsWith(s) ==
  [t \in Tag |-> IF t \in Items[s].tags /\ byTag[t] = Absent THEN s ELSE byTag[t]]

\* Item::CreateItem: a coloured flag of a new colour, or a flag with tags.  For
\* anything else there is no item, and the log line that names it crashes.
CreateItem(s) ==
  LET item == Items[s]
  IN  \/ /\ item.flag /\ item.tags = {} /\ item.colour # NoColour
         /\ byColour[item.colour] = Absent
         /\ byColour' = [byColour EXCEPT ![item.colour] = s]
         /\ UNCHANGED <<stage, byTag>>
      \/ /\ item.flag /\ item.tags # {} /\ item.colour = NoColour
         /\ byTag' = TagsWith(s)
         /\ UNCHANGED <<stage, byColour>>
      \/ /\ \/ ~item.flag
            \/ item.tags = {} /\ item.colour = NoColour
            \/ item.tags = {} /\ item.colour # NoColour /\ byColour[item.colour] # Absent
         /\ stage' = "crashed" /\ UNCHANGED itemVars

InitItem ==
  /\ stage = "items"
  /\ \E s \in todo : IsFirst(s) /\ CreateItem(s) /\ todo' = todo \ {s}
  /\ UNCHANGED <<givenVars, param, videoPorts, next, portVars>>

ItemsDone ==
  /\ stage = "items" /\ todo = {} /\ stage' = "serving"
  /\ UNCHANGED <<givenVars, param, videoPorts, next, portVars, todo, itemVars>>

\* AgentProxy::addRobot.
AgentAddsRobot(r, known) ==
  /\ stage = "serving" /\ AddRobot(r, known)
  /\ UNCHANGED <<givenVars, stage, param, videoPorts, next, todo, itemVars>>

\* AgentProxy::removeRobot.
AgentRemovesRobot(r) ==
  /\ stage = "serving" /\ ports' = [ports EXCEPT ![r] = Absent]
  /\ UNCHANGED <<givenVars, stage, param, videoPorts, next, available, taken, todo, itemVars>>

----------------------------------------------------------------------------
\* The program ends, by itself or not.
Ended == stage \in {"refused", "crashed"} /\ UNCHANGED vars

Next ==
  \/ ParseCommandLine \/ ParseConfigFile \/ InsertVideoPort \/ ParseGameConfig
  \/ SetDefaults \/ CheckParametersConsistency
  \/ InitServer \/ InitRobot \/ RobotsDone \/ InitItem \/ ItemsDone
  \/ \E r \in Robot, known \in BOOLEAN : AgentAddsRobot(r, known)
  \/ \E r \in Robot : AgentRemovesRobot(r)
  \/ Ended

Spec == Init /\ [][Next]_vars

----------------------------------------------------------------------------
(* Properties *)

\* What the sources say of a setting, the strongest first, in the terms of the
\* parameters.
Said(s) == <<line.value[s],
             RcValue[s],
             IF gameFile = Missing THEN Absent ELSE GameValue[s],
             Default[s]>>

\* The parameters the server starts with are those of the strongest source:
\* the command line "override[s]" the files (Application.cpp:188), the rc file
\* the game file, and a default is taken for nothing a source gives; whatever
\* numbers the sources say, and however they are cut (Application.cpp:104-170).
Precedence ==
  stage \in Accepted => \A s \in Setting : \E i \in 1 .. 4 :
    /\ param[s] = Said(s)[i] /\ Said(s)[i] # Absent
    /\ \A j \in 1 .. i - 1 : Said(s)[j] = Absent

\* "... have the same value ... which is not allowed", "... cannot be 0"
\* (Application.cpp:530, 541): the five sockets of an accepted configuration
\* have five ports that are different and not 0, whichever source each comes
\* from.
AcceptedPortsDistinct ==
  stage \in Accepted =>
    /\ \A s \in PortName : param[s] \in Port \ {0}
    /\ \A s, t \in PortName : s # t => param[s] # param[t]

PortsOf(r) == {ports[r][1], ports[r][2]}
Live == {r \in Robot : ports[r] # Absent}

\* "each robot needs 1 port for the video retransmission and 1 port to send
\* commands" (Application.cpp:549): every robot of the configuration gets two
\* ports of the range, and no port but 0, which stands for none, is ever given
\* to two robots or twice to one, though agents add, remove and fail to add
\* robots in any order.
RobotPortsDistinct ==
  /\ stage \in {"robots", "items"} => \A r \in Live :
       \A p \in PortsOf(r) : \E i \in DOMAIN videoPorts : videoPorts[i] = p
  /\ stage \in Accepted => \A r \in Live :
       /\ ports[r][1] = ports[r][2] => ports[r][1] = 0
       /\ \A q \in Live \ {r} : PortsOf(r) \cap PortsOf(q) \subseteq {0}

\* An item is found by what its section says: the detector finds a flag by its
\* colour, the reader one by its tags, never the same item by both, and of two
\* sections with one tag the first keeps it (Item.cpp:122-158).
ItemsToldApart ==
  /\ \A c \in Colour : byColour[c] # Absent =>
       Items[byColour[c]].colour = c /\ \A t \in Tag : byTag[t] # byColour[c]
  /\ stage = "serving" => \A t \in Tag, s \in DOMAIN Items :
       t \in Items[s].tags => byTag[t] # Absent /\ byTag[t] <= s

=============================================================================
