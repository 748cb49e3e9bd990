------------------------- MODULE FlagDetectorProofs ------------------------
(***************************************************************************)
(* Theorems about FlagDetector, for every set of flags, tags and noise.    *)
(***************************************************************************)
EXTENDS FlagDetector, TLAPS

USE DEF None, FrontierColour

\* Where the robot may be since its detector was last told, by the state the
\* detector is in: it read the frontier after every flag it left.
WalkInv ==
  /\ state = "OUTSIDE" => place # FrontierColour \/ ~read
  /\ state = "OUTSIDE" => place \notin ItemColour
  /\ OnFlag => place \in {lastItem, FrontierColour}
  /\ OnFlag /\ place = FrontierColour => ~read
  /\ read /\ place \in ItemColour => OnFlag

Inv == TypeOK /\ WalkInv /\ ContactInVisit

----------------------------------------------------------------------------
LEMMA InitInv == Init => Inv
BY ColourAssumption, ItemAssumption
   DEF Init, Inv, TypeOK, WalkInv, ContactInVisit, OnFlag, State, Place, Colour

\* A flag is entered where it is.
LEMMA EnterKeeps ==
  ASSUME Inv, NEW c \in Colour, Enter(c), c = place \/ c \in Noise,
         UNCHANGED place, read' \in BOOLEAN
  PROVE  Inv'
<1>1. place = c /\ c # FrontierColour
  BY ColourAssumption, NoiseAssumption DEF Enter
<1>2. parity' \in {0, 1}
  BY DEF Inv, TypeOK, Enter, InContactWith
<1> QED
  BY <1>1, <1>2, ItemAssumption
     DEF Enter, InContactWith, Inv, TypeOK, WalkInv, ContactInVisit, OnFlag, State

\* A reading of the ground: one step for each state of the detector.
LEMMA ReadKeeps ==
  ASSUME Inv, NEW c \in Colour, Read(c)
  PROVE  Inv'
<1> USE ColourAssumption, NoiseAssumption, ItemAssumption
    DEF Inv, TypeOK, WalkInv, ContactInVisit, OnFlag, State, Place, Read,
        GoTo, Enter, Leave, InContactWith, contactVars
<1>1. CASE Outside(c)
  BY <1>1 DEF Outside
<1>2. CASE Frontier(c)
  <2>1. CASE Enter(c)
    BY <1>2, <2>1, EnterKeeps DEF Frontier
  <2>2. CASE c \notin ItemColour /\ GoTo("UNKNOWN_FROM_FRONTIER")
    BY <1>2, <2>2 DEF Frontier
  <2> QED BY <1>2, <2>1, <2>2 DEF Frontier
<1>3. CASE UnknownFromFrontier(c)
  <2>1. lastItem = NoItem
    BY <1>3 DEF UnknownFromFrontier
  <2>2. CASE c \in ItemColour
    BY <1>3, <2>1, <2>2, EnterKeeps DEF UnknownFromFrontier
  <2>3. CASE c \notin ItemColour
    BY <1>3, <2>3 DEF UnknownFromFrontier
  <2> QED BY <2>2, <2>3
<1>4. CASE Inside(c)
  BY <1>4 DEF Inside
<1>5. CASE TransitionFromInside(c)
  BY <1>5 DEF TransitionFromInside
<1> QED BY <1>1, <1>2, <1>3, <1>4, <1>5 DEF SetColour

LEMMA NextInv == Inv /\ [Next]_vars => Inv'
<1> SUFFICES ASSUME Inv, [Next]_vars PROVE Inv'
  OBVIOUS
<1> USE DEF Inv, TypeOK, WalkInv, ContactInVisit, OnFlag, detectorVars
<1>1. ASSUME NEW c \in Colour, Read(c) PROVE Inv'
  BY <1>1, ReadKeeps
<1>2. ASSUME NEW i \in RfidItem, NEW on \in BOOLEAN, LookForRfid(i, on) PROVE Inv'
  BY <1>2, ItemAssumption DEF LookForRfid, InContactWith, Colour
<1>3. CASE Capture
  BY <1>3, ItemAssumption DEF Capture, Colour
<1>4. CASE Move
  BY <1>4, ColourAssumption DEF Move, Place, contactVars
<1>5. CASE UNCHANGED vars
  BY <1>5 DEF vars, contactVars
<1> QED BY <1>1, <1>2, <1>3, <1>4, <1>5 DEF Next

LEMMA SpecInv == Spec => []Inv
BY InitInv, NextInv, PTL DEF Spec

----------------------------------------------------------------------------
\* The detector's state and its last item agree.
THEOREM TypeCorrect == Spec => []TypeOK
<1>1. Inv => TypeOK
  BY DEF Inv
<1> QED BY <1>1, SpecInv, PTL

\* However the robot walks and whatever noise it reads, the detector knows the
\* flag it is on (FlagDectector.cpp:29-150).
THEOREM DetectorTracks == Spec => []Tracks
<1>1. Inv => Tracks
  BY ColourAssumption, ItemAssumption
     DEF Inv, TypeOK, WalkInv, OnFlag, Tracks, Place, Colour
<1> QED BY <1>1, SpecInv, PTL

\* Whatever RFID tags the robot reads too, no contact with a coloured flag
\* outlives the visit.
THEOREM ContactsEnd == Spec => []ContactInVisit
<1>1. Inv => ContactInVisit
  BY DEF Inv
<1> QED BY <1>1, SpecInv, PTL

----------------------------------------------------------------------------
(* The detector implements Visits *)

LEMMA ReadVisits ==
  ASSUME Inv, NEW c \in Colour, Read(c)
  PROVE  [Visit!Next]_Visit!vars
<1> USE ColourAssumption, ItemAssumption
    DEF Inv, TypeOK, ContactInVisit, OnFlag, Read, Visit!Next, Visit!vars,
        Visit!Begin, Visit!End, GoTo, Enter, Leave, InContactWith, contactVars, Colour
<1>1. CASE Outside(c)
  BY <1>1 DEF Outside
<1>2. CASE Frontier(c)
  BY <1>2 DEF Frontier
<1>3. CASE UnknownFromFrontier(c)
  BY <1>3 DEF UnknownFromFrontier
<1>4. CASE Inside(c)
  BY <1>4 DEF Inside
<1>5. CASE TransitionFromInside(c)
  BY <1>5 DEF TransitionFromInside
<1> QED BY <1>1, <1>2, <1>3, <1>4, <1>5 DEF SetColour

\* Every contact with a coloured flag begins with a visit and ends no later,
\* whatever tags are read in between (FlagDectector.cpp:29-150,
\* Game.cpp:475-512, ProcessRobotState.cpp:125-158).
THEOREM ImplementsVisits == Spec => VisitSpec
<1>1. Init => Visit!Init
  BY DEF Init, Visit!Init
<1>2. Inv /\ [Next]_vars => [Visit!Next]_Visit!vars
  <2> SUFFICES ASSUME Inv, [Next]_vars PROVE [Visit!Next]_Visit!vars
    OBVIOUS
  <2>1. ASSUME NEW c \in Colour, Read(c) PROVE [Visit!Next]_Visit!vars
    BY <2>1, ReadVisits DEF Inv, TypeOK
  <2>2. ASSUME NEW i \in RfidItem, NEW on \in BOOLEAN, LookForRfid(i, on)
        PROVE  [Visit!Next]_Visit!vars
    BY <2>2 DEF LookForRfid, InContactWith, Visit!Next, Visit!Touch, Visit!Capture,
                Visit!vars, detectorVars
  <2>3. CASE Capture
    BY <2>3 DEF Capture, Visit!Next, Visit!Capture, Visit!vars, detectorVars
  <2>4. CASE Move
    BY <2>4 DEF Move, Visit!vars, detectorVars, contactVars
  <2>5. CASE UNCHANGED vars
    BY <2>5 DEF vars, Visit!vars, detectorVars, contactVars
  <2> QED BY <2>1, <2>2, <2>3, <2>4, <2>5 DEF Next
<1> QED BY <1>1, <1>2, SpecInv, PTL DEF Spec, VisitSpec, Visit!Spec

=============================================================================
