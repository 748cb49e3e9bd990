---------------------------- MODULE FlagDetector ---------------------------
(***************************************************************************)
(* The sensors of one robot: its FlagDetector, a state machine that turns  *)
(* the colours the robot reads of the ground into contacts with flags, and *)
(* its RFID reader, which makes contacts of its own.  Both write the one   *)
(* entry the robot has in Game::m_contacts; what the entry does to the     *)
(* item is in FlagCapture.                                                 *)
(*                                                                         *)
(* A flag is a coloured disc with a frontier of another colour around it,  *)
(* and is named here by its colour.  The ground and the robot are          *)
(* external: the robot crosses frontiers to go from place to place, and    *)
(* sends what it reads, with noise.                                        *)
(***************************************************************************)
EXTENDS Integers

CONSTANTS
  ItemColour,  \* the colour codes of the flags
  Noise,       \* colour codes the robot may read wherever it is
  RfidItem,    \* the flags with RFID tags
  NoItem       \* an empty pointer; no contact

None == 0
FrontierColour == 1
Colour == {None, FrontierColour} \cup ItemColour \cup Noise
Place == {None, FrontierColour} \cup ItemColour

ASSUME ColourAssumption ==
  ItemColour \subseteq Int \ {None, FrontierColour} /\ Noise \subseteq Int
\* Noise is never taken for a frontier or a flag.
ASSUME NoiseAssumption == Noise \cap ({FrontierColour} \cup ItemColour) = {}
ASSUME ItemAssumption == NoItem \notin Colour \cup RfidItem /\ RfidItem \cap Colour = {}

VARIABLES
  state,       \* FlagDetector::m_state
  colourCode,  \* FlagDetector::m_colourCode
  lastItem,    \* FlagDetector::m_lastItem
  contact,     \* the item of the robot's entry in Game::m_contacts
  parity,      \* history: how many contacts began, modulo 2
  place,       \* where the robot is, by the colour of the ground
  read         \* its detector was told the colour of this place

detectorVars == <<state, colourCode, lastItem>>
contactVars == <<contact, parity>>
vars == <<detectorVars, contactVars, place, read>>

State == {"OUTSIDE", "FRONTIER", "UNKNOWN_FROM_FRONTIER", "INSIDE",
          "TRANSITION_FROM_INSIDE"}
OnFlag == state \in {"INSIDE", "TRANSITION_FROM_INSIDE"}

TypeOK ==
  /\ state \in State
  /\ colourCode \in ItemColour \cup {FrontierColour}
  /\ lastItem \in ItemColour \cup {NoItem}
  /\ contact \in ItemColour \cup RfidItem \cup {NoItem}
  /\ parity \in {0, 1} /\ place \in Place /\ read \in BOOLEAN
  /\ IF OnFlag THEN lastItem = colourCode ELSE lastItem = NoItem

Init ==
  /\ state = "OUTSIDE" /\ colourCode = FrontierColour /\ lastItem = NoItem
  /\ contact = NoItem /\ parity = 0 /\ place = None /\ read = FALSE

----------------------------------------------------------------------------
(* FlagDetector::setColour, one disjunct for each state *)

\* Game::robotIsInContactWith: a new Contact replaces the one there is.
InContactWith(i) == contact' = i /\ parity' = 1 - parity

\* Item::GetItemByColour finds an item.
Enter(c) ==
  /\ c \in ItemColour
  /\ state' = "INSIDE" /\ colourCode' = c /\ lastItem' = c /\ InContactWith(c)

\* Mutant: the contact outlives the visit.
LeaveInContact ==
  /\ state' = "FRONTIER" /\ colourCode' = FrontierColour /\ lastItem' = NoItem
  /\ UNCHANGED contactVars

\* Back on the frontier: the contact is dropped, whatever item it is with.
Leave ==
  /\ state' = "FRONTIER" /\ colourCode' = FrontierColour /\ lastItem' = NoItem
  /\ contact' = IF lastItem # NoItem THEN NoItem ELSE contact
  /\ UNCHANGED parity

GoTo(s) == state' = s /\ UNCHANGED <<colourCode, lastItem, contactVars>>

Outside(c) ==
  state = "OUTSIDE" /\ GoTo(IF c = FrontierColour THEN "FRONTIER" ELSE "OUTSIDE")

Frontier(c) ==
  /\ state = "FRONTIER"
  /\ Enter(c) \/ (c \notin ItemColour /\ GoTo("UNKNOWN_FROM_FRONTIER"))

\* Mutant: noise on the frontier is taken for the ground outside.
GivesUp(c) == state = "UNKNOWN_FROM_FRONTIER" /\ GoTo("OUTSIDE")

\* A last item, if there were one, would keep the contact it has.
UnknownFromFrontier(c) ==
  /\ state = "UNKNOWN_FROM_FRONTIER"
  /\ \/ /\ c \in ItemColour /\ state' = "INSIDE" /\ colourCode' = c
        /\ IF lastItem = NoItem THEN lastItem' = c /\ InContactWith(c)
                                ELSE UNCHANGED <<lastItem, contactVars>>
     \/ c \notin ItemColour /\ GoTo(state)

Inside(c) ==
  /\ state = "INSIDE"
  /\ \/ c = FrontierColour /\ Leave
     \/ c # FrontierColour /\ GoTo(IF c # colourCode THEN "TRANSITION_FROM_INSIDE" ELSE state)

\* Mutant: the colour of the flag, read again, begins a new contact.
BeginsAgain(c) ==
  /\ state = "TRANSITION_FROM_INSIDE"
  /\ \/ c = colourCode /\ Enter(c)
     \/ c # colourCode /\ c = FrontierColour /\ Leave
     \/ c # colourCode /\ c # FrontierColour /\ GoTo(state)

TransitionFromInside(c) ==
  /\ state = "TRANSITION_FROM_INSIDE"
  /\ \/ c = colourCode /\ GoTo(IF lastItem # NoItem THEN "INSIDE" ELSE state)
     \/ c # colourCode /\ c = FrontierColour /\ Leave
     \/ c # colourCode /\ c # FrontierColour /\ GoTo(state)

SetColour(c) == \/ Outside(c) \/ Frontier(c) \/ UnknownFromFrontier(c)
                \/ Inside(c) \/ TransitionFromInside(c)

----------------------------------------------------------------------------
\* A colour in a message of the robot (ProcessRobotState::lookForColour).
Read(c) ==
  /\ c = place \/ c \in Noise
  /\ SetColour(c)
  /\ read' = (read \/ c = place) /\ UNCHANGED place

\* A tag in a message of the robot (ProcessRobotState::lookForRfid).  Off ends
\* the contact, whatever item it is with.
LookForRfid(i, on) ==
  /\ IF on THEN InContactWith(i) ELSE contact' = NoItem /\ UNCHANGED parity
  /\ UNCHANGED <<detectorVars, place, read>>

\* The contact has lasted long enough: Contact::step tells the game to erase it,
\* and nobody tells the detector.
Capture ==
  /\ contact # NoItem /\ contact' = NoItem
  /\ UNCHANGED <<detectorVars, parity, place, read>>

\* The robot goes over a frontier, which it reads before it leaves it.  Other
\* places it may cross unread.
Move ==
  /\ IF place = FrontierColour THEN read /\ place' \in Place \ {FrontierColour}
                               ELSE place' = FrontierColour
  /\ read' = FALSE
  /\ UNCHANGED <<detectorVars, contactVars>>

Next ==
  \/ \E c \in Colour : Read(c)
  \/ \E i \in RfidItem, on \in BOOLEAN : LookForRfid(i, on)
  \/ Capture \/ Move

Spec == Init /\ [][Next]_vars

----------------------------------------------------------------------------
(* Properties *)

\* The detector follows the robot through any walk and any noise: after it was
\* told the colour of the place the robot is at, it has the robot on the flag
\* it is on, and on none when it is on none (what
\* test_orwell_game_item_FlagDetector.cpp tries on single walks).
Tracks == read => lastItem = IF place \in ItemColour THEN place ELSE NoItem

\* No contact with a coloured flag outlives the visit, although the RFID
\* reader and captures change the entry behind the detector's back: a robot
\* that left never captures (Game.cpp:497-512).
ContactInVisit == contact \in ItemColour => contact = lastItem

Visit == INSTANCE Visits WITH
  Flag <- ItemColour, Tag <- RfidItem, visited <- lastItem

\* The detector keeps the promise of Visits: noise on a flag neither ends its
\* contact nor begins it again, which would restart the time to capture, and a
\* captured flag is not captured again in the same visit.
VisitSpec == Visit!Spec

=============================================================================
