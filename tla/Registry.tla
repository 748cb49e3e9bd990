------------------------------ MODULE Registry -----------------------------
(***************************************************************************)
(* What real robots and players are promised of the robots of a game: a    *)
(* real robot gets one that is free and keeps it until an agent takes it   *)
(* back; a player drives one that is real, alone, as long as both are      *)
(* there.  Names, ids, repeated messages and weak pointers are left out:   *)
(* this is what they amount to.                                            *)
(***************************************************************************)

CONSTANTS Robot, Player, TempId, Nothing

VARIABLES
  inGame,  \* the robots of the game
  taken,   \* those that are real
  owned,   \* the robot of each temporary id
  driven   \* the robot of each player

registryVars == <<inGame, taken, owned, driven>>

Init ==
  /\ inGame \subseteq Robot /\ taken = {}
  /\ owned = [t \in TempId |-> Nothing] /\ driven = [p \in Player |-> Nothing]

Without(f, o) == [x \in DOMAIN f |-> IF f[x] = o THEN Nothing ELSE f[x]]

Add(o) ==
  /\ o \notin inGame /\ inGame' = inGame \cup {o}
  /\ UNCHANGED <<taken, owned, driven>>

Remove(o) ==
  /\ o \in inGame /\ inGame' = inGame \ {o} /\ taken' = taken \ {o}
  /\ owned' = Without(owned, o) /\ driven' = Without(driven, o)

\* A real robot takes a robot that nobody has.
Take(t, o) ==
  /\ owned[t] = Nothing /\ o \in inGame \ taken
  /\ owned' = [owned EXCEPT ![t] = o] /\ taken' = taken \cup {o}
  /\ UNCHANGED <<inGame, driven>>

\* An agent says that a robot is real, or one comes back whose own was taken.
Mark(o) ==
  /\ o \in inGame /\ taken' = taken \cup {o}
  /\ UNCHANGED <<inGame, owned, driven>>

\* An agent takes a robot back.
Free(o) ==
  /\ o \in inGame /\ taken' = taken \ {o} /\ owned' = Without(owned, o)
  /\ UNCHANGED <<inGame, driven>>

\* A player without a robot gets a real one that nobody drives.
Drive(p, o) ==
  /\ driven[p] = Nothing /\ o \in taken /\ \A q \in Player : driven[q] # o
  /\ driven' = [driven EXCEPT ![p] = o]
  /\ UNCHANGED <<inGame, taken, owned>>

Leave(p) ==
  /\ driven' = [driven EXCEPT ![p] = Nothing]
  /\ UNCHANGED <<inGame, taken, owned>>

Next ==
  \/ \E p \in Player : Leave(p)
  \/ \E o \in Robot : Add(o) \/ Remove(o) \/ Mark(o) \/ Free(o)
  \/ \E o \in Robot, t \in TempId : Take(t, o)
  \/ \E o \in Robot, p \in Player : Drive(p, o)

Spec == Init /\ [][Next]_registryVars

=============================================================================
