------------------------------- MODULE Visits ------------------------------
(***************************************************************************)
(* What a flag detector promises to the contacts of its robot: the robot   *)
(* visits one flag at a time, a visit begins one contact and its end ends  *)
(* the contact, unless the flag was captured before or an RFID tag has     *)
(* taken its place.                                                        *)
(***************************************************************************)
EXTENDS Integers

CONSTANTS Flag, Tag, NoItem   \* the coloured flags, those with RFID tags

VARIABLES
  visited,  \* the flag the robot is on
  contact,  \* its contact
  parity    \* how many contacts began, modulo 2

vars == <<visited, contact, parity>>

Init == visited = NoItem /\ contact = NoItem /\ parity = 0

Begin(f) ==
  /\ visited = NoItem /\ visited' = f
  /\ contact' = f /\ parity' = 1 - parity

End == visited # NoItem /\ visited' = NoItem /\ contact' = NoItem /\ UNCHANGED parity

\* A tag begins a contact on a visit or between two.
Touch(i) == contact' = i /\ parity' = 1 - parity /\ UNCHANGED visited

\* The contact is over for its visit: no new one begins before the next.
Capture == contact # NoItem /\ contact' = NoItem /\ UNCHANGED <<visited, parity>>

Next == End \/ Capture \/ (\E f \in Flag : Begin(f)) \/ \E i \in Tag : Touch(i)

Spec == Init /\ [][Next]_vars

=============================================================================
