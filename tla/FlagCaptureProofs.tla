------------------------- MODULE FlagCaptureProofs -------------------------
(***************************************************************************)
(* Proofs about FlagCapture, for every value of its constants.             *)
(***************************************************************************)
EXTENDS FlagCapture, FiniteSetTheorems, TLAPS

USE DEF clockVars, itemVars, contactVars, gameVars

\* What a capture adds, and the score after it, fit their types.
LEMMA IncrementType == Increment \in Nat
BY WidthAssumption, RulesetAssumption DEF Increment

LEMMA ScoreType ==
  ASSUME NEW t \in Team, score \in [Team -> 0 .. Uint32 - 1]
  PROVE  ScoreAfterCapture(t) \in 0 .. Uint32 - 1
BY IncrementType, WidthAssumption DEF ScoreAfterCapture

\* Every variable keeps its type.
THEOREM TypeCorrect == Spec => []TypeOK
<1>1. Init => TypeOK
  <2> SUFFICES ASSUME Init PROVE TypeOK
    OBVIOUS
  <2>1. score \in [Team -> 0 .. Uint32 - 1]
    <3>1. 0 \in 0 .. Uint32 - 1
      BY WidthAssumption
    <3>. QED  BY <3>1 DEF Init
  <2>2. /\ contact \in [Robot -> Item \cup {NoItem}]
        /\ stopTime \in [Robot -> Nat]
        /\ owningTeam \in [Item -> Team \cup {NoTeam}]
        /\ capturingTeam \in [Item -> Team \cup {NoTeam}]
        /\ captureState \in [Item -> CaptureState]
    BY DEF Init, CaptureState
  <2>3. /\ isRunning \in BOOLEAN /\ winner \in Team \cup {NoTeam}
        /\ duration \in Durations
        /\ phase \in {"loop", "step"} /\ todo = {}
    BY Zenon DEF Init
  <2>4. time \in Nat /\ startTime \in Nat /\ startTime <= time
    BY DEF Init
  <2>. QED  BY <2>1, <2>2, <2>3, <2>4 DEF TypeOK
<1>2. TypeOK /\ [Next]_vars => TypeOK'
  <2> SUFFICES ASSUME TypeOK, [Next]_vars PROVE TypeOK'
    OBVIOUS
  <2> USE DEF TypeOK, CaptureState
  <2>1. CASE \E now \in 0 .. MaxTime : Start(now)
    <3>1. 0 \in 0 .. Uint32 - 1
      BY WidthAssumption
    <3>. QED  BY <2>1, <3>1 DEF Start, StopItems, ResetAllItems
  <2>2. CASE Stop
    BY <2>2 DEF Stop, StopItems, ResetAllItems
  <2>3. ASSUME NEW d \in Durations, SetDuration(d) PROVE TypeOK'
    BY <2>3 DEF SetDuration
  <2>4. ASSUME NEW t \in Team, NEW s \in AgentScores, SetScore(t, s)
        PROVE  TypeOK'
    BY <2>4, InputAssumption DEF SetScore
  <2>5. ASSUME NEW r \in Robot, DropContact(r) PROVE TypeOK'
    BY <2>5 DEF DropContact, EraseContact
  <2>6. ASSUME NEW r \in Robot, NEW i \in Item, TouchItem(r, i) PROVE TypeOK'
    <3>1. TeamOf[r] \in Team
      BY TeamAssumption
    <3>2. stopTime' \in [Robot -> Nat]
      BY <2>6, RulesetAssumption DEF TouchItem
    <3>3. contact' \in [Robot -> Item \cup {NoItem}]
      BY <2>6 DEF TouchItem
    <3>4. capturingTeam' \in [Item -> Team \cup {NoTeam}]
      BY <2>6, <3>1 DEF TouchItem
    <3>5. captureState' \in [Item -> CaptureState]
      BY <2>6 DEF TouchItem
    <3>. QED  BY <2>6, <3>2, <3>3, <3>4, <3>5 DEF TouchItem
  <2>7. CASE BeginStep
    BY <2>7 DEF BeginStep
  <2>8. ASSUME NEW r \in Robot, StepContact(r) PROVE TypeOK'
    <3> DEFINE t == TeamOf[r]
               i == contact[r]
    <3>1. t \in Team /\ i \in Item
      BY <2>8, TeamAssumption DEF StepContact, ComesFirst
    <3>2. ScoreAfterCapture(t) \in 0 .. Uint32 - 1
      BY <3>1, ScoreType
    <3>3. CASE time > stopTime[r]
      BY <2>8, <3>1, <3>2, <3>3
      DEF StepContact, CaptureItem, EraseContact
    <3>4. CASE ~(time > stopTime[r])
      BY <2>8, <3>4 DEF StepContact
    <3>. QED  BY <3>3, <3>4
  <2>9. CASE StopIfGameIsFinished
    BY <2>9 DEF StopIfGameIsFinished, StopItems, ResetAllItems
  <2>10. ASSUME NEW now \in 1 .. MaxTime, SetTime(now) PROVE TypeOK'
    BY <2>10, TimeAssumption DEF SetTime
  <2>11. CASE UNCHANGED vars
    BY <2>11 DEF vars
  <2>. QED
    BY <2>1, <2>2, <2>3, <2>4, <2>5, <2>6, <2>7, <2>8, <2>9, <2>10, <2>11
    DEF Next, Agent, RobotState, Tick, Clock
<1>. QED  BY <1>1, <1>2, PTL DEF Spec
----------------------------------------------------------------------------
(* Items and contacts *)

\* The invariant that is inductive: a tick only runs in a game, so that what
\* happens inside one does not disturb OwnedOnlyInGame.
TickOnlyInGame == phase = "step" => isRunning
ItemInv == TypeOK /\ TickOnlyInGame /\ CaptureUnderWay /\ ItemCoherent /\ OwnedOnlyInGame

\* Stopping leaves items that satisfy the three properties.
LEMMA StopItemsResets ==
  ASSUME ItemInv, StopItems
  PROVE  /\ \A i \in Item : owningTeam'[i] = NoTeam
         /\ ItemCoherent'
         /\ \A i \in Item : captureState'[i] = "STARTED" =>
              ~isRunning /\ captureState[i] = "STARTED"
                         /\ capturingTeam'[i] = capturingTeam[i]
                         /\ owningTeam'[i] = owningTeam[i]
<1>1. CASE isRunning
  BY <1>1 DEF StopItems, ResetAllItems, ItemCoherent
<1>2. CASE ~isRunning
  BY <1>2 DEF ItemInv, StopItems, ItemCoherent, OwnedOnlyInGame
<1>. QED  BY <1>1, <1>2

\* The same, for the actions that change no contact.
LEMMA StopKeepsItemInv ==
  ASSUME ItemInv, StopItems, UNCHANGED contact, phase' = "loop"
  PROVE  TickOnlyInGame' /\ CaptureUnderWay' /\ ItemCoherent' /\ OwnedOnlyInGame'
<1>1. CaptureUnderWay'
  BY StopItemsResets DEF ItemInv, CaptureUnderWay
<1>. QED  BY <1>1, StopItemsResets DEF TickOnlyInGame, OwnedOnlyInGame

LEMMA TouchKeepsItemInv ==
  ASSUME ItemInv, NEW r \in Robot, NEW i \in Item, TouchItem(r, i)
  PROVE  TickOnlyInGame' /\ CaptureUnderWay' /\ ItemCoherent' /\ OwnedOnlyInGame'
<1> USE DEF ItemInv
<1>1. TeamOf[r] \in Team /\ TeamOf[r] # NoTeam
  BY TeamAssumption
<1>2. CaptureUnderWay'
  <2> SUFFICES ASSUME NEW j \in Item, captureState'[j] = "STARTED"
               PROVE  /\ capturingTeam'[j] # owningTeam'[j]
                      /\ \E q \in Robot : contact'[q] = j /\ TeamOf[q] = capturingTeam'[j]
    BY DEF CaptureUnderWay
  <2>1. j # contact[r] /\ owningTeam' = owningTeam
    BY DEF TouchItem
  <2>2. CASE j = i /\ StartsCapture(r, i)
    BY <2>1, <2>2 DEF TouchItem, StartsCapture, TypeOK
  <2>3. CASE ~(j = i /\ StartsCapture(r, i))
    <3>1. captureState[j] = "STARTED" /\ capturingTeam'[j] = capturingTeam[j]
      BY <2>1, <2>3 DEF TouchItem, TypeOK
    <3>2. PICK q \in Robot : contact[q] = j /\ TeamOf[q] = capturingTeam[j]
      BY <3>1 DEF CaptureUnderWay
    <3>3. contact'[q] = j
      BY <2>1, <3>2 DEF TouchItem, TypeOK
    <3>. QED  BY <2>1, <3>1, <3>2, <3>3 DEF CaptureUnderWay
  <2>. QED  BY <2>2, <2>3
<1>3. ItemCoherent'
  <2> SUFFICES ASSUME NEW j \in Item
               PROVE  /\ captureState'[j] = "SUCCEEDED" => owningTeam'[j] # NoTeam
                      /\ captureState'[j] = "PENDING" =>
                           owningTeam'[j] = NoTeam /\ capturingTeam'[j] = NoTeam
    BY DEF ItemCoherent
  <2>1. captureState'[j] \in {"SUCCEEDED", "PENDING"} =>
          captureState'[j] = captureState[j] /\ ~(j = i /\ StartsCapture(r, i))
    BY DEF TouchItem
  <2>2. ~(j = i /\ StartsCapture(r, i)) => capturingTeam'[j] = capturingTeam[j]
    BY DEF TouchItem, TypeOK
  <2>. QED  BY <2>1, <2>2 DEF TouchItem, ItemCoherent
<1>4. TickOnlyInGame' /\ OwnedOnlyInGame'
  BY DEF TouchItem, TickOnlyInGame, OwnedOnlyInGame
<1>. QED  BY <1>2, <1>3, <1>4

LEMMA DropKeepsItemInv ==
  ASSUME ItemInv, NEW r \in Robot, DropContact(r)
  PROVE  TickOnlyInGame' /\ CaptureUnderWay' /\ ItemCoherent' /\ OwnedOnlyInGame'
<1> USE DEF ItemInv
<1>1. contact[r] \in Item /\ captureState' = [captureState EXCEPT ![contact[r]] = "FAILED"]
  BY DEF DropContact, TypeOK
<1>2. CaptureUnderWay'
  <2> SUFFICES ASSUME NEW j \in Item, captureState'[j] = "STARTED"
               PROVE  /\ capturingTeam'[j] # owningTeam'[j]
                      /\ \E q \in Robot : contact'[q] = j /\ TeamOf[q] = capturingTeam'[j]
    BY DEF CaptureUnderWay
  <2>1. j # contact[r] /\ captureState[j] = "STARTED"
    BY <1>1 DEF TypeOK
  <2>2. PICK q \in Robot : contact[q] = j /\ TeamOf[q] = capturingTeam[j]
    BY <2>1 DEF CaptureUnderWay
  <2>3. contact'[q] = j
    BY <2>1, <2>2 DEF DropContact, EraseContact, TypeOK
  <2>. QED  BY <2>1, <2>2, <2>3 DEF DropContact, CaptureUnderWay
<1>3. ItemCoherent'
  BY <1>1 DEF DropContact, ItemCoherent, TypeOK
<1>4. TickOnlyInGame' /\ OwnedOnlyInGame'
  BY DEF DropContact, TickOnlyInGame, OwnedOnlyInGame
<1>. QED  BY <1>2, <1>3, <1>4

LEMMA ContactKeepsItemInv ==
  ASSUME ItemInv, NEW r \in Robot, StepContact(r)
  PROVE  TickOnlyInGame' /\ CaptureUnderWay' /\ ItemCoherent' /\ OwnedOnlyInGame'
<1> USE DEF ItemInv
<1> DEFINE t == TeamOf[r]
           i == contact[r]
<1>1. t \in Team /\ t # NoTeam /\ i \in Item /\ isRunning /\ isRunning'
  BY TeamAssumption DEF StepContact, ComesFirst, TypeOK, TickOnlyInGame
<1>2. TickOnlyInGame' /\ OwnedOnlyInGame'
  BY <1>1 DEF TickOnlyInGame, OwnedOnlyInGame
<1>3. CASE ~(time > stopTime[r])
  <2>1. UNCHANGED <<contact, owningTeam, capturingTeam, captureState>>
    BY <1>3 DEF StepContact
  <2>. QED  BY <1>2, <2>1 DEF CaptureUnderWay, ItemCoherent
<1>4. CASE time > stopTime[r]
  <2>1. contact' = [contact EXCEPT ![r] = NoItem] /\ UNCHANGED capturingTeam
    BY <1>4 DEF StepContact, EraseContact
  <2>2. CASE owningTeam[i] # t
    <3>1. /\ owningTeam' = [owningTeam EXCEPT ![i] = t]
          /\ captureState' = [captureState EXCEPT ![i] = "SUCCEEDED"]
      BY <1>4, <2>2 DEF StepContact, CaptureItem
    <3>2. ItemCoherent'
      BY <1>1, <2>1, <3>1 DEF ItemCoherent, TypeOK
    <3>3. CaptureUnderWay'
      BY <1>1, <2>1, <3>1 DEF CaptureUnderWay, TypeOK
    <3>. QED  BY <1>2, <3>2, <3>3
  <2>3. CASE owningTeam[i] = t
    <3>1. UNCHANGED <<owningTeam, captureState>>
      BY <1>4, <2>3 DEF StepContact, CaptureItem
    <3>2. CaptureUnderWay'
      \* The robot of a capture that is under way is another one, of another team.
      BY <1>1, <2>1, <2>3, <3>1 DEF CaptureUnderWay, TypeOK
    <3>. QED  BY <1>2, <2>1, <3>1, <3>2 DEF ItemCoherent
  <2>. QED  BY <2>2, <2>3
<1>. QED  BY <1>3, <1>4

\* The invariant holds.
LEMMA ItemInvariant == Spec => []ItemInv
<1> DEFINE P == TickOnlyInGame /\ CaptureUnderWay /\ ItemCoherent /\ OwnedOnlyInGame
<1>1. Init => P
  BY DEF Init, TickOnlyInGame, CaptureUnderWay, ItemCoherent, OwnedOnlyInGame
<1>2. TypeOK /\ P /\ [Next]_vars => P'
  <2> SUFFICES ASSUME ItemInv, [Next]_vars PROVE P'
    BY DEF ItemInv
  <2>1. CASE \E now \in 0 .. MaxTime : Start(now)
    <3>1. StopItems /\ UNCHANGED contact /\ phase' = "loop"
      BY <2>1 DEF Start
    <3>. QED  BY <3>1, StopKeepsItemInv
  <2>2. CASE Stop
    <3>1. StopItems /\ UNCHANGED contact /\ phase' = "loop"
      BY <2>2 DEF Stop
    <3>. QED  BY <3>1, StopKeepsItemInv
  <2>3. CASE UNCHANGED <<contact, itemVars, isRunning>> /\ phase' = "loop"
    BY <2>3
    DEF ItemInv, TickOnlyInGame, CaptureUnderWay, ItemCoherent, OwnedOnlyInGame
  <2>4. CASE BeginStep
    BY <2>4
    DEF BeginStep, ItemInv, TickOnlyInGame, CaptureUnderWay, ItemCoherent, OwnedOnlyInGame
  <2>5. CASE StopIfGameIsFinished
    <3>1. UNCHANGED contact /\ phase' = "loop"
      BY <2>5 DEF StopIfGameIsFinished
    <3>2. CASE StopItems
      BY <3>1, <3>2, StopKeepsItemInv
    <3>3. CASE UNCHANGED <<itemVars, isRunning>>
      BY <2>3, <3>1, <3>3
    <3>. QED  BY <2>5, <3>2, <3>3 DEF StopIfGameIsFinished
  <2>6. CASE UNCHANGED vars
    BY <2>6
    DEF vars, ItemInv, TickOnlyInGame, CaptureUnderWay, ItemCoherent, OwnedOnlyInGame
  <2>7. CASE \/ \E d \in Durations : SetDuration(d)
             \/ \E t \in Team, s \in AgentScores : SetScore(t, s)
             \/ \E now \in 1 .. MaxTime : SetTime(now)
    BY <2>3, <2>7 DEF SetDuration, SetScore, SetTime
  <2>. QED
    BY <2>1, <2>2, <2>4, <2>5, <2>6, <2>7,
       TouchKeepsItemInv, DropKeepsItemInv, ContactKeepsItemInv
    DEF Next, Agent, RobotState, Tick, Clock
<1>3. TypeOK /\ P => ItemInv
  BY DEF ItemInv
<1>. QED  BY <1>1, <1>2, <1>3, TypeCorrect, PTL DEF Spec

\* The fields of an item agree across captures, aborts and resets (Item.cpp,
\* Contact.cpp).
THEOREM ItemsCoherent == Spec => []ItemCoherent
<1>1. ItemInv => ItemCoherent
  BY DEF ItemInv
<1>. QED  BY <1>1, ItemInvariant, PTL

\* What is shown of a capture is backed by a contact of a robot of the capturing
\* team (Contact.cpp, Game.cpp:497-512).
THEOREM CapturesBacked == Spec => []CaptureUnderWay
<1>1. ItemInv => CaptureUnderWay
  BY DEF ItemInv
<1>. QED  BY <1>1, ItemInvariant, PTL

\* Whichever way a game ended, the next one starts from neutral items
\* (Game.cpp:195-209).
THEOREM NeutralBetweenGames == Spec => []OwnedOnlyInGame
<1>1. ItemInv => OwnedOnlyInGame
  BY DEF ItemInv
<1>. QED  BY <1>1, ItemInvariant, PTL

----------------------------------------------------------------------------
(* Scores and winners, when no agent sets scores *)

\* Two facts about the end of a tick.
LEMMA FinishFacts ==
  ASSUME ItemInv, StopIfGameIsFinished
  PROVE  /\ isRunning' => isRunning /\ winner' = winner /\ WinningTeams = {}
         /\ winner' = winner \/ (~isRunning' /\ WinningTeams = {winner'} /\ winner' \in Team)
<1>1. SecondsLeft \in Nat
  BY InputAssumption, WidthAssumption, TimeAssumption
  DEF SecondsLeft, ElapsedSeconds, ItemInv, TypeOK
<1>2. isRunning' => WinningTeams = {} /\ UNCHANGED isRunning
  BY DEF StopIfGameIsFinished
<1>3. CASE SecondsLeft > 0 /\ \E t \in Team : WinningTeams = {t}
  <2>1. winner' \in Team /\ WinningTeams = {winner'}
    BY <1>3 DEF StopIfGameIsFinished
  <2>. QED  BY <2>1, <1>2, <1>3 DEF StopIfGameIsFinished
<1>4. CASE ~(SecondsLeft > 0 /\ \E t \in Team : WinningTeams = {t})
  BY <1>2, <1>4 DEF StopIfGameIsFinished
<1>. QED  BY <1>3, <1>4

\* The game ends with the tick in which a team reaches the score to win, and
\* only a team that is alone there is named the winner.
WinInv == GameEndsAtScoreToWin /\ WinnerIsAlone

LEMMA WinInvStep ==
  ASSUME AgentScores = {}, ScoreToWin > 0, ItemInv, WinInv, [Next]_vars
  PROVE  WinInv'
<1> USE DEF WinInv, GameEndsAtScoreToWin, WinnerIsAlone
<1>1. CASE \E now \in 0 .. MaxTime : Start(now)
  <2>1. winner' = NoTeam /\ \A t \in Team : score'[t] = 0
    BY <1>1 DEF Start
  <2>. QED  BY <2>1, RulesetAssumption
<1>2. CASE StopIfGameIsFinished
  <2>1. score' = score /\ WinningTeams' = WinningTeams
    BY <1>2 DEF StopIfGameIsFinished, WinningTeams
  <2>2. isRunning /\ winner = NoTeam
    BY <1>2 DEF StopIfGameIsFinished, ItemInv, TypeOK, TickOnlyInGame
  <2>3. GameEndsAtScoreToWin'
    <3> SUFFICES ASSUME isRunning', NEW t \in Team PROVE score'[t] < ScoreToWin
      OBVIOUS
    <3>1. t \notin WinningTeams
      BY <1>2, FinishFacts
    <3>. QED  BY <2>1, <3>1, RulesetAssumption DEF WinningTeams, ItemInv, TypeOK
  <2>. QED  BY <1>2, <2>1, <2>2, <2>3, FinishFacts
<1>3. CASE \/ BeginStep
           \/ \E r \in Robot : StepContact(r)
  <2>1. isRunning /\ winner = NoTeam
    BY <1>3 DEF BeginStep, StepContact, ItemInv, TickOnlyInGame
  <2>2. phase' = "step" /\ winner' = winner
    BY <1>3 DEF BeginStep, StepContact
  <2>. QED  BY <2>1, <2>2
<1>4. CASE \/ Stop
           \/ \E d \in Durations : SetDuration(d)
           \/ RobotState \/ Clock \/ UNCHANGED vars
  <2>1. score' = score /\ winner' = winner /\ phase' = phase
    BY <1>4
    DEF Stop, SetDuration, RobotState, TouchItem, DropContact, Clock, SetTime, vars
  <2>2. isRunning' => isRunning
    BY <1>4
    DEF Stop, SetDuration, RobotState, TouchItem, DropContact, Clock, SetTime, vars
  <2>. QED  BY <2>1, <2>2 DEF WinningTeams
<1>. QED  BY <1>1, <1>2, <1>3, <1>4 DEF Next, Agent, Tick

LEMMA WinInvariant ==
  ASSUME AgentScores = {}, ScoreToWin > 0 PROVE Spec => []WinInv
<1>1. Init => WinInv
  BY DEF Init, WinInv, GameEndsAtScoreToWin, WinnerIsAlone
<1>2. ItemInv /\ WinInv /\ [Next]_vars => WinInv'
  BY WinInvStep
<1>. QED  BY <1>1, <1>2, ItemInvariant, PTL DEF Spec

\* The tick in which a team reaches the score to win is the last of its game
\* (Game.cpp:407-442).
THEOREM GamesEnd ==
  ASSUME AgentScores = {}, ScoreToWin > 0 PROVE Spec => []GameEndsAtScoreToWin
<1>1. WinInv => GameEndsAtScoreToWin
  BY DEF WinInv
<1>. QED  BY <1>1, WinInvariant, PTL

\* A winner is alone at the score to win, and its game is over
\* (Game.cpp:407-442).
THEOREM WinnersAlone ==
  ASSUME AgentScores = {}, ScoreToWin > 0 PROVE Spec => []WinnerIsAlone
<1>1. WinInv => WinnerIsAlone
  BY DEF WinInv
<1>. QED  BY <1>1, WinInvariant, PTL

----------------------------------------------------------------------------
(* The bound of the scores, and what it is for *)

\* The contacts of a team that a tick has still to visit.
TodoOf(t) == todo \cap RobotsOf(t)

\* The inductive form of ScoreBounded: what the team may still score in this
\* tick is left of its allowance.
BoundInv ==
  \A t \in Team :
    score[t] + Increment * Cardinality(TodoOf(t))
      < ScoreToWin + Increment * Cardinality(RobotsOf(t))

LEMMA Monotone ==
  ASSUME NEW m \in Nat, NEW n \in Nat, m <= n
  PROVE  Increment * m \in Nat /\ Increment * n \in Nat /\ Increment * m <= Increment * n
<1>1. PICK k \in Nat : n = m + k
  BY (n - m) \in Nat
<1>2. Increment * n = Increment * m + Increment * k
  BY <1>1, IncrementType
<1>3. Increment * k \in Nat /\ Increment * m \in Nat
  BY IncrementType
<1>. QED  BY <1>2, <1>3

LEMMA Cardinalities ==
  ASSUME TypeOK, NEW t \in Team
  PROVE  /\ IsFiniteSet(RobotsOf(t)) /\ IsFiniteSet(TodoOf(t))
         /\ Cardinality(RobotsOf(t)) \in Nat /\ Cardinality(TodoOf(t)) \in Nat
         /\ Cardinality(TodoOf(t)) <= Cardinality(RobotsOf(t))
<1>1. RobotsOf(t) \in SUBSET Robot /\ TodoOf(t) \in SUBSET RobotsOf(t)
  BY DEF RobotsOf, TodoOf
<1>2. IsFiniteSet(RobotsOf(t))
  BY <1>1, RobotAssumption, FS_Subset
<1>. QED  BY <1>1, <1>2, FS_Subset, FS_CardinalityType

\* One contact more or less.
LEMMA VisitOne ==
  ASSUME TypeOK, NEW r \in Robot, StepContact(r), NEW t \in Team
  PROVE  /\ TeamOf[r] = t =>
              Increment * Cardinality(TodoOf(t)') + Increment = Increment * Cardinality(TodoOf(t))
         /\ TeamOf[r] # t => Cardinality(TodoOf(t)') = Cardinality(TodoOf(t))
<1>1. r \in todo /\ todo' = todo \ {r}
  BY DEF StepContact, ComesFirst
<1>2. CASE TeamOf[r] = t
  <2>1. TodoOf(t)' = TodoOf(t) \ {r} /\ r \in TodoOf(t)
    BY <1>1, <1>2 DEF TodoOf, RobotsOf
  <2>2. Cardinality(TodoOf(t)') = Cardinality(TodoOf(t)) - 1
    BY <2>1, Cardinalities, FS_RemoveElement
  <2>. QED  BY <1>2, <2>2, Cardinalities, IncrementType
<1>3. CASE TeamOf[r] # t
  <2>1. TodoOf(t)' = TodoOf(t)
    BY <1>1, <1>3 DEF TodoOf, RobotsOf
  <2>. QED  BY <1>3, <2>1
<1>. QED  BY <1>2, <1>3

\* What a contact does to the scores: at most one increment for its team.
LEMMA VisitScore ==
  ASSUME TypeOK, NEW r \in Robot, StepContact(r), NEW t \in Team
  PROVE  /\ score'[t] \in Nat
         /\ score'[t] <= score[t] + Increment
         /\ TeamOf[r] # t => score'[t] = score[t]
<1>1. TeamOf[r] \in Team /\ score[t] \in Nat
  BY TeamAssumption DEF TypeOK
<1>2. ScoreAfterCapture(t) \in Nat /\ ScoreAfterCapture(t) <= score[t] + Increment
  BY <1>1, IncrementType, WidthAssumption DEF ScoreAfterCapture
<1>3. CASE score' = score
  BY <1>1, <1>3, IncrementType
<1>4. CASE score' = [score EXCEPT ![TeamOf[r]] = ScoreAfterCapture(TeamOf[r])]
  <2>1. score'[t] = IF TeamOf[r] = t THEN ScoreAfterCapture(t) ELSE score[t]
    BY <1>4 DEF TypeOK
  <2>. QED  BY <1>1, <1>2, <2>1, IncrementType
<1>. QED  BY <1>3, <1>4 DEF StepContact, CaptureItem

LEMMA BoundInvStep ==
  ASSUME AgentScores = {}, ScoreToWin > 0, ItemInv, WinInv, BoundInv, [Next]_vars
  PROVE  BoundInv'
<1> SUFFICES ASSUME NEW t \in Team
             PROVE  score'[t] + Increment * Cardinality(TodoOf(t)')
                      < ScoreToWin + Increment * Cardinality(RobotsOf(t))
  BY DEF BoundInv, RobotsOf
<1> DEFINE before == Increment * Cardinality(TodoOf(t))
           after == Increment * Cardinality(TodoOf(t)')
           allowed == Increment * Cardinality(RobotsOf(t))
<1>1. before \in Nat /\ allowed \in Nat /\ before <= allowed /\ score[t] \in Nat
  BY Cardinalities, Monotone DEF ItemInv, TypeOK
<1>2. score[t] + before < ScoreToWin + allowed
  BY DEF BoundInv
<1>3. CASE \E now \in 0 .. MaxTime : Start(now)
  <2>1. score'[t] = 0 /\ TodoOf(t)' = {}
    BY <1>3 DEF Start, TodoOf, ItemInv, TypeOK
  <2>2. after = 0
    BY <2>1, FS_EmptySet, IncrementType
  <2>. QED  BY <1>1, <2>1, <2>2, RulesetAssumption
<1>4. CASE BeginStep
  <2>1. score' = score /\ score[t] < ScoreToWin
    BY <1>4 DEF BeginStep, WinInv, GameEndsAtScoreToWin
  <2>2. TodoOf(t)' \in SUBSET RobotsOf(t)
    BY DEF TodoOf, RobotsOf
  <2>3. Cardinality(TodoOf(t)') \in Nat /\ Cardinality(TodoOf(t)') <= Cardinality(RobotsOf(t))
    BY <2>2, Cardinalities, FS_Subset, FS_CardinalityType DEF ItemInv
  <2>4. after \in Nat /\ after <= allowed
    BY <2>3, Cardinalities, Monotone DEF ItemInv
  <2>. QED  BY <1>1, <2>1, <2>4, RulesetAssumption
<1>5. ASSUME NEW r \in Robot, StepContact(r) PROVE score'[t] + after < ScoreToWin + allowed
  <2>1. /\ score'[t] \in Nat /\ score'[t] <= score[t] + Increment
        /\ TeamOf[r] # t => score'[t] = score[t]
    BY <1>5, VisitScore DEF ItemInv
  <2>2. CASE TeamOf[r] = t
    <3>1. after + Increment = before /\ after \in Nat
      <4>1. TodoOf(t)' \in SUBSET TodoOf(t)
        BY <1>5 DEF StepContact, TodoOf, RobotsOf
      <4>2. Cardinality(TodoOf(t)') \in Nat
        BY <4>1, Cardinalities, FS_Subset, FS_CardinalityType DEF ItemInv
      <4>3. after \in Nat
        BY <4>2, IncrementType
      <4>. QED  BY <1>5, <2>2, <4>3, VisitOne DEF ItemInv
    <3>. QED  BY <1>1, <1>2, <2>1, <3>1, IncrementType, RulesetAssumption
  <2>3. CASE TeamOf[r] # t
    <3>1. Cardinality(TodoOf(t)') = Cardinality(TodoOf(t))
      BY <1>5, <2>3, VisitOne DEF ItemInv
    <3>. QED  BY <1>2, <2>1, <2>3, <3>1
  <2>. QED  BY <2>2, <2>3
<1>6. CASE \/ Stop \/ StopIfGameIsFinished
           \/ \E d \in Durations : SetDuration(d)
           \/ RobotState \/ Clock \/ UNCHANGED vars
  <2>1. score' = score /\ todo' = todo
    BY <1>6
    DEF Stop, StopIfGameIsFinished, SetDuration, RobotState, TouchItem,
        DropContact, Clock, SetTime, vars
  <2>. QED  BY <1>2, <2>1 DEF TodoOf, RobotsOf
<1>. QED  BY <1>3, <1>4, <1>5, <1>6 DEF Next, Agent, Tick

LEMMA BoundInvariant ==
  ASSUME AgentScores = {}, ScoreToWin > 0 PROVE Spec => []BoundInv
<1>1. Init => BoundInv
  <2> SUFFICES ASSUME Init, NEW t \in Team
               PROVE  score[t] + Increment * Cardinality(TodoOf(t))
                        < ScoreToWin + Increment * Cardinality(RobotsOf(t))
    BY DEF BoundInv
  <2>1. score[t] = 0 /\ TodoOf(t) = {}
    BY DEF Init, TodoOf
  <2>2. Increment * Cardinality(TodoOf(t)) = 0
    BY <2>1, FS_EmptySet, IncrementType
  <2>3. Cardinality(RobotsOf(t)) \in Nat
    <3>1. RobotsOf(t) \in SUBSET Robot
      BY DEF RobotsOf
    <3>. QED  BY <3>1, RobotAssumption, FS_Subset, FS_CardinalityType
  <2>4. Increment * Cardinality(RobotsOf(t)) \in Nat
    BY <2>3, IncrementType
  <2>. QED  BY <2>1, <2>2, <2>4, RulesetAssumption
<1>2. ItemInv /\ WinInv /\ BoundInv /\ [Next]_vars => BoundInv'
  BY BoundInvStep
<1>. QED  BY <1>1, <1>2, ItemInvariant, WinInvariant, PTL DEF Spec

\* No team goes further past the score to win than one capture per robot: the
\* tick that passes it is the last (Game.cpp:407-495).
THEOREM ScoresBounded ==
  ASSUME AgentScores = {}, ScoreToWin > 0 PROVE Spec => []ScoreBounded
<1>1. ItemInv /\ BoundInv => ScoreBounded
  <2> SUFFICES ASSUME ItemInv, BoundInv, NEW t \in Team
               PROVE  score[t] < ScoreToWin + Increment * Cardinality(RobotsOf(t))
    BY DEF ScoreBounded
  <2>1. Increment * Cardinality(TodoOf(t)) \in Nat
    BY Cardinalities, IncrementType DEF ItemInv
  <2>2. Increment * Cardinality(RobotsOf(t)) \in Nat /\ score[t] \in Nat
    BY Cardinalities, IncrementType DEF ItemInv, TypeOK
  <2>. QED  BY <2>1, <2>2, RulesetAssumption DEF BoundInv
<1>. QED  BY <1>1, ItemInvariant, BoundInvariant, PTL

----------------------------------------------------------------------------
(* Scores that fit their type do not wrap *)

\* The score to win leaves room for one capture per robot of a team.
ScoresFit ==
  \A t \in Team : ScoreToWin + Increment * Cardinality(RobotsOf(t)) <= Uint32

LEMMA NoWrap ==
  ASSUME ScoresFit, ItemInv, BoundInv, NEW r \in Robot, StepContact(r)
  PROVE  ScoreAfterCapture(TeamOf[r]) = score[TeamOf[r]] + Increment
<1> DEFINE t == TeamOf[r]
<1>1. t \in Team /\ score[t] \in Nat
  BY TeamAssumption DEF ItemInv, TypeOK
<1>2. Increment * Cardinality(TodoOf(t)') + Increment = Increment * Cardinality(TodoOf(t))
  BY <1>1, VisitOne DEF ItemInv
<1>3. Increment * Cardinality(TodoOf(t)') \in Nat
  <2>1. TodoOf(t)' \in SUBSET TodoOf(t)
    BY DEF StepContact, TodoOf, RobotsOf
  <2>2. Cardinality(TodoOf(t)') \in Nat
    BY <1>1, <2>1, Cardinalities, FS_Subset, FS_CardinalityType DEF ItemInv
  <2>. QED  BY <2>2, IncrementType
<1>4. score[t] + Increment * Cardinality(TodoOf(t))
        < ScoreToWin + Increment * Cardinality(RobotsOf(t))
  BY <1>1 DEF BoundInv
<1>5. ScoreToWin + Increment * Cardinality(RobotsOf(t)) <= Uint32
  BY <1>1 DEF ScoresFit
<1>6. Increment * Cardinality(RobotsOf(t)) \in Nat
  BY <1>1, Cardinalities, IncrementType DEF ItemInv
<1>7. score[t] + Increment < Uint32
  BY <1>1, <1>2, <1>3, <1>4, <1>5, <1>6, IncrementType, RulesetAssumption, WidthAssumption
<1>. QED  BY <1>1, <1>7, IncrementType, WidthAssumption DEF ScoreAfterCapture

\* What a visit of a contact comes to.
LEMMA VisitEffect ==
  ASSUME ScoresFit, ItemInv, BoundInv, NEW r \in Robot, StepContact(r)
  PROVE  \/ UNCHANGED <<isRunning, winner, owningTeam, score>>
         \/ \E t \in Team, i \in Item :
              /\ isRunning /\ owningTeam[i] # t
              /\ owningTeam' = [owningTeam EXCEPT ![i] = t]
              /\ score' = [score EXCEPT ![t] = score[t] + Increment]
              /\ UNCHANGED <<isRunning, winner>>
<1>1. TeamOf[r] \in Team /\ contact[r] \in Item /\ isRunning
  BY TeamAssumption DEF StepContact, ComesFirst, ItemInv, TypeOK, TickOnlyInGame
<1>2. CASE time > stopTime[r] /\ owningTeam[contact[r]] # TeamOf[r]
  BY <1>1, <1>2, NoWrap DEF StepContact, CaptureItem
<1>3. CASE ~(time > stopTime[r] /\ owningTeam[contact[r]] # TeamOf[r])
  BY <1>3 DEF StepContact, CaptureItem
<1>. QED  BY <1>2, <1>3

\* The items of a team, and their number.
Owned(t) == {i \in Item : owningTeam[i] = t}

LEMMA OwnedFinite ==
  ASSUME NEW t PROVE IsFiniteSet(Owned(t)) /\ Cardinality(Owned(t)) \in Nat
<1>1. Owned(t) \in SUBSET Item
  BY DEF Owned
<1>. QED  BY <1>1, ItemAssumption, FS_Subset, FS_CardinalityType

\* One more item for one team, none more for the others.
LEMMA OwnedAfterCapture ==
  ASSUME TypeOK, NEW t \in Team, NEW i \in Item, owningTeam[i] # t,
         owningTeam' = [owningTeam EXCEPT ![i] = t], NEW u \in Team
  PROVE  /\ Cardinality(Owned(u)') \in Nat
         /\ Cardinality(Owned(u)') <= Cardinality(Owned(u)) + (IF u = t THEN 1 ELSE 0)
<1>1. CASE u = t
  <2>1. Owned(u)' = Owned(u) \cup {i}
    BY <1>1 DEF Owned, TypeOK
  <2>2. i \notin Owned(u)
    BY <1>1 DEF Owned
  <2>3. Cardinality(Owned(u)') = Cardinality(Owned(u)) + 1
    BY <2>1, <2>2, OwnedFinite, FS_AddElement
  <2>. QED  BY <1>1, <2>3, OwnedFinite
<1>2. CASE u # t
  <2>1. Owned(u)' \in SUBSET Owned(u)
    BY <1>2 DEF Owned, TypeOK
  <2>2. /\ Cardinality(Owned(u)') \in Nat
        /\ Cardinality(Owned(u)') <= Cardinality(Owned(u))
    BY <2>1, OwnedFinite, FS_Subset, FS_CardinalityType
  <2>. QED  BY <1>2, <2>2, OwnedFinite
<1>. QED  BY <1>1, <1>2

\* A team's score covers the items it owns, whatever captures, starts and
\* stops come in between.
LEMMA CoverStep ==
  ASSUME AgentScores = {}, ScoresFit, ItemInv, BoundInv, ScoreCoversItems, [Next]_vars
  PROVE  ScoreCoversItems'
<1>0. \A t \in Team : score[t] >= Increment * Cardinality(Owned(t)) /\ score[t] \in Nat
  BY DEF ScoreCoversItems, Owned, ItemInv, TypeOK
<1> SUFFICES ASSUME NEW u \in Team
             PROVE  score'[u] >= Increment * Cardinality(Owned(u)')
  BY DEF ScoreCoversItems, Owned
<1>1. CASE Owned(u)' = {} /\ score'[u] \in Nat
  <2>1. Increment * Cardinality(Owned(u)') = 0
    BY <1>1, FS_EmptySet, IncrementType
  <2>. QED  BY <1>1, <2>1
<1>2. CASE UNCHANGED <<owningTeam, score>>
  BY <1>0, <1>2 DEF Owned
<1>3. CASE StopItems /\ score'[u] \in Nat
  <2>1. Owned(u)' = {}
    BY <1>3, StopItemsResets, TeamAssumption DEF Owned
  <2>. QED  BY <1>1, <1>3, <2>1
<1>4. ASSUME NEW t \in Team, NEW i \in Item, owningTeam[i] # t,
             owningTeam' = [owningTeam EXCEPT ![i] = t],
             score' = [score EXCEPT ![t] = score[t] + Increment]
      PROVE  score'[u] >= Increment * Cardinality(Owned(u)')
  <2> DEFINE m == Cardinality(Owned(u)')
             n == Cardinality(Owned(u))
  <2>1. m \in Nat /\ n \in Nat /\ m <= n + (IF u = t THEN 1 ELSE 0)
    BY <1>4, OwnedFinite, OwnedAfterCapture DEF ItemInv
  <2>2. score'[u] = score[u] + (IF u = t THEN Increment ELSE 0)
    BY <1>4, IncrementType, <1>0 DEF ItemInv, TypeOK
  <2>3. CASE u = t
    <3>1. m <= n + 1
      BY <2>1, <2>3
    <3>2. Increment * m <= Increment * (n + 1) /\ Increment * m \in Nat
      BY <2>1, <3>1, Monotone
    <3>3. Increment * (n + 1) = Increment * n + Increment /\ Increment * n \in Nat
      BY <2>1, IncrementType
    <3>. QED  BY <1>0, <2>2, <2>3, <3>2, <3>3, IncrementType
  <2>4. CASE u # t
    <3>1. m <= n
      BY <2>1, <2>4
    <3>2. Increment * m <= Increment * n /\ Increment * m \in Nat /\ Increment * n \in Nat
      BY <2>1, <3>1, Monotone
    <3>. QED  BY <1>0, <2>2, <2>4, <3>2
  <2>. QED  BY <2>3, <2>4
<1>5. CASE \E now \in 0 .. MaxTime : Start(now)
  BY <1>3, <1>5 DEF Start
<1>6. CASE Stop
  BY <1>0, <1>3, <1>6 DEF Stop
<1>7. CASE StopIfGameIsFinished
  <2>1. score' = score /\ (StopItems \/ UNCHANGED owningTeam)
    BY <1>7 DEF StopIfGameIsFinished
  <2>. QED  BY <1>0, <1>2, <1>3, <2>1
<1>8. ASSUME NEW r \in Robot, StepContact(r)
      PROVE  score'[u] >= Increment * Cardinality(Owned(u)')
  BY <1>2, <1>4, <1>8, VisitEffect
<1>9. CASE \/ BeginStep \/ \E d \in Durations : SetDuration(d)
           \/ RobotState \/ Clock \/ UNCHANGED vars
  BY <1>2, <1>9
  DEF BeginStep, SetDuration, RobotState, TouchItem, DropContact, Clock, SetTime, vars
<1>. QED  BY <1>5, <1>6, <1>7, <1>8, <1>9 DEF Next, Agent, Tick

\* A team has scored for every item it owns, while the scores fit in 32 bits
\* (Item.cpp:232-247, Team.cpp:42-46, Game.cpp:150-209).
THEOREM ScoresCoverItems ==
  ASSUME AgentScores = {}, ScoreToWin > 0, ScoresFit
  PROVE  Spec => []ScoreCoversItems
<1>1. Init => ScoreCoversItems
  <2> SUFFICES ASSUME Init, NEW t \in Team
               PROVE  score[t] >= Increment * Cardinality(Owned(t))
    BY DEF ScoreCoversItems, Owned
  <2>1. score[t] = 0 /\ Owned(t) = {}
    BY TeamAssumption DEF Init, Owned
  <2>. QED  BY <2>1, FS_EmptySet, IncrementType
<1>2. ItemInv /\ BoundInv /\ ScoreCoversItems /\ [Next]_vars => ScoreCoversItems'
  BY CoverStep
<1>. QED  BY <1>1, <1>2, ItemInvariant, BoundInvariant, PTL DEF Spec

----------------------------------------------------------------------------
(* The game implements the score board *)

\* The neutral board.
NeutralItems == [i \in Item |-> NoTeam]

\* Stopping, or finding nothing to stop, leaves every item neutral.
LEMMA StopNeutral ==
  ASSUME ItemInv, StopItems PROVE owningTeam' = NeutralItems
<1>1. CASE isRunning
  BY <1>1 DEF StopItems, ResetAllItems, NeutralItems
<1>2. CASE ~isRunning
  BY <1>2 DEF ItemInv, TypeOK, StopItems, OwnedOnlyInGame, NeutralItems
<1>. QED  BY <1>1, <1>2

LEMMA BoardStep ==
  ASSUME AgentScores = {}, ScoresFit, ItemInv, BoundInv, [Next]_vars
  PROVE  [Board!Next]_(Board!boardVars)
<1> USE DEF Board!boardVars
<1>1. CASE \E now \in 0 .. MaxTime : Start(now)
  <2>1. owningTeam' = NeutralItems
    BY <1>1, StopNeutral DEF Start
  <2>2. Board!NewGame
    BY <1>1, <2>1 DEF Start, Board!NewGame, NeutralItems
  <2>. QED  BY <2>2 DEF Board!Next
<1>2. CASE Stop
  <2>1. CASE isRunning
    <3>1. Board!EndGame(winner)
      BY <1>2, <2>1, StopNeutral DEF Stop, Board!EndGame, NeutralItems
    <3>. QED  BY <3>1 DEF Board!Next
  <2>2. CASE ~isRunning
    <3>1. isRunning' = isRunning
      BY Zenon, <1>2, <2>2 DEF Stop, ItemInv, TypeOK
    <3>. QED  BY <1>2, <2>2, <3>1 DEF Stop, StopItems
  <2>. QED  BY <2>1, <2>2
<1>3. CASE StopIfGameIsFinished
  <2>1. isRunning /\ score' = score
    BY <1>3 DEF StopIfGameIsFinished, ItemInv, TickOnlyInGame
  <2>2. CASE StopItems /\ isRunning' = FALSE
    <3>1. owningTeam' = NeutralItems
      BY <2>2, StopNeutral
    <3>2. CASE winner' = winner
      <4>1. Board!EndGame(winner)
        BY <2>1, <2>2, <3>1, <3>2 DEF Board!EndGame, NeutralItems
      <4>. QED  BY <4>1 DEF Board!Next
    <3>3. CASE winner' # winner
      <4>1. WinningTeams = {winner'} /\ winner' \in Team
        BY <1>3, <3>3, FinishFacts
      <4>2. Board!MayWin(winner')
        BY <4>1, RulesetAssumption
        DEF WinningTeams, Board!MayWin, ItemInv, TypeOK
      <4>3. Board!EndGame(winner')
        BY <2>1, <2>2, <3>1 DEF Board!EndGame, NeutralItems
      <4>. QED  BY <4>1, <4>2, <4>3 DEF Board!Next
    <3>. QED  BY <3>2, <3>3
  <2>3. CASE UNCHANGED <<itemVars, isRunning>>
    <3>1. isRunning'
      BY <2>1, <2>3
    <3>2. winner' = winner
      BY <1>3, <3>1, FinishFacts
    <3>. QED  BY <2>1, <2>3, <3>2
  <2>. QED  BY <1>3, <2>2, <2>3 DEF StopIfGameIsFinished
<1>4. ASSUME NEW r \in Robot, StepContact(r) PROVE [Board!Next]_(Board!boardVars)
  <2>1. CASE UNCHANGED <<isRunning, winner, owningTeam, score>>
    BY <2>1
  <2>2. ASSUME NEW t \in Team, NEW i \in Item, isRunning, owningTeam[i] # t,
               owningTeam' = [owningTeam EXCEPT ![i] = t],
               score' = [score EXCEPT ![t] = score[t] + Increment],
               UNCHANGED <<isRunning, winner>>
        PROVE  [Board!Next]_(Board!boardVars)
    <3>1. Board!Take(t, i)
      BY <2>2 DEF Board!Take
    <3>. QED  BY <3>1 DEF Board!Next
  <2>. QED  BY <1>4, <2>1, <2>2, VisitEffect
<1>5. CASE \/ BeginStep \/ \E d \in Durations : SetDuration(d)
           \/ RobotState \/ Clock \/ UNCHANGED vars
  BY <1>5
  DEF BeginStep, SetDuration, RobotState, TouchItem, DropContact, Clock, SetTime, vars
<1>. QED  BY <1>1, <1>2, <1>3, <1>4, <1>5 DEF Next, Agent, Tick

\* Every behaviour of the game is one of the score board that GameState messages
\* show (Game.cpp:150-209, 407-495).
THEOREM ImplementsBoard ==
  ASSUME AgentScores = {}, ScoreToWin > 0, ScoresFit
  PROVE  Spec => BoardSpec
<1>1. Init => Board!Init
  BY DEF Init, Board!Init
<1>2. ItemInv /\ BoundInv /\ [Next]_vars => [Board!Next]_(Board!boardVars)
  BY BoardStep
<1>. QED  BY <1>1, <1>2, ItemInvariant, BoundInvariant, PTL DEF Spec, BoardSpec, Board!Spec
=============================================================================
