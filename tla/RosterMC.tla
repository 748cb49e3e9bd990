------------------------------ MODULE RosterMC -----------------------------
EXTENDS Roster, TLC

CONSTANTS p1, p2, t1, t2

\* The configuration names its robot's id "robot_1", the game's next choice is
\* "robot_0" and the one after must step over the configuration's.
MixedIds == <<[name |-> 2, id |-> 1]>>

\* Players and temporary ids are interchangeable.
Symmetry == Permutations({p1, p2}) \cup Permutations({t1, t2})

=============================================================================
