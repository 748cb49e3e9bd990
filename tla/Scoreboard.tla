---------------------------- MODULE Scoreboard -----------------------------
(***************************************************************************)
(* What a client of the server sees of a game in the GameState messages:   *)
(* whether it is played, who owns each flag, the score of each team and    *)
(* the winner.  Contacts, time and ticks are left out: this is what they   *)
(* amount to.                                                              *)
(***************************************************************************)
EXTENDS Integers

CONSTANTS
  Team, Item, NoTeam,
  ScoreToWin,   \* a team at this score may be declared the winner
  points,       \* what a capture is worth
  AgentScores   \* the scores an agent may give to a team

VARIABLES playing, owner, score, winner

boardVars == <<playing, owner, score, winner>>

Init ==
  /\ playing = FALSE /\ winner = NoTeam
  /\ owner = [i \in Item |-> NoTeam] /\ score = [t \in Team |-> 0]

\* A new game, whether or not one is played, is a clean slate.
NewGame ==
  /\ playing' = TRUE /\ winner' = NoTeam
  /\ owner' = [i \in Item |-> NoTeam] /\ score' = [t \in Team |-> 0]

\* A team takes a flag it does not own.
Take(t, i) ==
  /\ playing /\ owner[i] # t
  /\ owner' = [owner EXCEPT ![i] = t]
  /\ score' = [score EXCEPT ![t] = @ + points]
  /\ UNCHANGED <<playing, winner>>

\* The game ends, and the flags are nobody's.
EndGame(w) ==
  /\ playing /\ playing' = FALSE /\ winner' = w
  /\ owner' = [i \in Item |-> NoTeam]
  /\ UNCHANGED score

MayWin(w) == /\ score[w] >= ScoreToWin
             /\ \A t \in Team \ {w} : score[t] < ScoreToWin

Arbitrate(t, s) ==
  /\ score' = [score EXCEPT ![t] = s]
  /\ UNCHANGED <<playing, owner, winner>>

Next ==
  \/ NewGame
  \/ \E t \in Team, i \in Item : Take(t, i)
  \/ EndGame(winner)
  \/ \E w \in Team : MayWin(w) /\ EndGame(w)
  \/ \E t \in Team, s \in AgentScores : Arbitrate(t, s)

Spec == Init /\ [][Next]_boardVars

=============================================================================
