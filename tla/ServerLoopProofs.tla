-------------------------- MODULE ServerLoopProofs -------------------------
(***************************************************************************)
(* Proofs about ServerLoop and ServerWaits, for any clients, texts and     *)
(* bounds, and about the texts of Wire.                                    *)
(***************************************************************************)
EXTENDS ServerWaits, FiniteSetTheorems, TLAPS

USE DEF socketVars, Channel

\* The two channels alternate.
LEMMA Alternates ==
  ASSUME first \in Channel, NextPermutation
  PROVE  /\ first' \in Channel
         /\ first = "PUBLISH" => first' = "REPLY"
         /\ first = "REPLY" => first' = "PUBLISH"
<1>1. \E c \in Channel : c # first
  OBVIOUS
<1>2. first' \in Channel /\ first' # first
  BY <1>1 DEF NextPermutation
<1>. QED  BY <1>2

\* The time a handler or a tick takes adds up to a natural number.
LEMMA ElapsedType ==
  ASSUME TypeOK, Loop
  PROVE  elapsed' \in Nat
<1>1. CASE Enter
  BY <1>1, TimeAssumption DEF Enter, TypeOK
<1>2. CASE Tick
  BY <1>2, TimeAssumption DEF Tick, TypeOK
<1>3. CASE Sleep
  BY <1>3 DEF Sleep, TypeOK
<1>4. CASE Handled
  BY <1>4, TimeAssumption DEF Handled, TypeOK
<1>. QED  BY <1>1, <1>2, <1>3, <1>4 DEF Loop, Poll, ReceiveMessage, ReceiveRequest

LEMMA OvertakeType ==
  ASSUME NEW c \in Channel, overtaken \in [Channel -> 0 .. 2], Overtake(c)
  PROVE  overtaken' \in [Channel -> 0 .. 2]
BY DEF Overtake

\* Every variable keeps its type.
THEOREM TypeCorrect == Spec => []TypeOK
<1>1. Init => TypeOK
  <2>1. 0 \in 0 .. MaxPulled
    BY PullAssumption
  <2>2. <<>> \in Seq(Client \X Text)
    OBVIOUS
  <2>3. [c \in Channel |-> 0] \in [Channel -> 0 .. 2]
    OBVIOUS
  <2>. SUFFICES ASSUME Init PROVE TypeOK
    OBVIOUS
  <2>4. overtaken \in [Channel -> 0 .. 2] /\ requests \in Seq(Client \X Text)
    BY <2>2, <2>3, Zenon DEF Init
  <2>5. pulled \in 0 .. MaxPulled /\ elapsed \in Nat
    BY <2>1 DEF Init
  <2>6. /\ pc \in {"enter", "check"} /\ first \in Channel /\ agent \in BOOLEAN
        /\ waiting \subseteq Client /\ owed \in Client \cup {NoClient}
    BY DEF Init
  <2>. QED  BY <2>4, <2>5, <2>6 DEF TypeOK
<1>2. TypeOK /\ [Next]_vars => TypeOK'
  <2> SUFFICES ASSUME TypeOK, [Next]_vars PROVE TypeOK'
    OBVIOUS
  <2>1. CASE SendMessage
    <3>1. pulled' \in 0 .. MaxPulled
      BY <2>1, PullAssumption DEF SendMessage, TypeOK
    <3>. QED  BY <2>1, <3>1 DEF SendMessage, TypeOK
  <2>2. CASE SendCommand
    BY <2>2 DEF SendCommand, TypeOK
  <2>3. ASSUME NEW c \in Client, NEW k \in Text, SendRequest(c, k) PROVE TypeOK'
    <3>1. requests' \in Seq(Client \X Text)
      BY <2>3 DEF SendRequest, TypeOK
    <3>. QED  BY <2>3, <3>1 DEF SendRequest, TypeOK
  <2>4. CASE Enter
    BY <2>4, ElapsedType DEF Loop, Enter, FeedAgentProxy, TypeOK
  <2>5. CASE Tick
    BY <2>5, ElapsedType DEF Loop, Tick, FeedAgentProxy, TypeOK
  <2>6. CASE ReceiveMessage
    <3>1. elapsed' \in Nat /\ first' \in Channel
      BY <2>6, ElapsedType, Alternates DEF Loop, Poll, ReceiveMessage, TypeOK
    <3>2. pulled' \in 0 .. MaxPulled
      BY <2>6, PullAssumption DEF ReceiveMessage, Chosen, CanReceive, TypeOK
    <3>3. overtaken' \in [Channel -> 0 .. 2]
      BY <2>6, OvertakeType DEF ReceiveMessage, TypeOK
    <3>. QED  BY <2>6, <3>1, <3>2, <3>3 DEF ReceiveMessage, Handled, TypeOK
  <2>7. CASE ReceiveRequest
    <3>1. elapsed' \in Nat /\ first' \in Channel
      BY <2>7, ElapsedType, Alternates DEF Loop, Poll, ReceiveRequest, TypeOK
    <3>2. requests \in Seq(Client \X Text) /\ requests # <<>>
      BY <2>7 DEF ReceiveRequest, Chosen, CanReceive, TypeOK
    <3>3. requests' \in Seq(Client \X Text) /\ requests[1] \in Client \X Text
      BY <2>7, <3>2 DEF ReceiveRequest
    <3>4. waiting' \subseteq Client /\ owed' \in Client \cup {NoClient}
      BY <2>7, <3>3 DEF ReceiveRequest, Reply, TypeOK
    <3>5. overtaken' \in [Channel -> 0 .. 2]
      BY <2>7, OvertakeType DEF ReceiveRequest, TypeOK
    <3>. QED  BY <2>7, <3>1, <3>3, <3>4, <3>5 DEF ReceiveRequest, Handled, TypeOK
  <2>8. CASE Sleep
    BY <2>8, ElapsedType, Alternates DEF Loop, Poll, Sleep, TypeOK
  <2>9. CASE UNCHANGED vars
    BY <2>9 DEF vars, TypeOK
  <2>. QED  BY <2>1, <2>2, <2>3, <2>4, <2>5, <2>6, <2>7, <2>8, <2>9
            DEF Next, World, Loop, Poll
<1>. QED  BY <1>1, <1>2, PTL DEF Spec

----------------------------------------------------------------------------
(* Ticks *)

\* What TickOnTime rests on: before the loop enters again at most one message
\* was handled since the time was checked.
TimeInv ==
  /\ elapsed < TicDuration + 2 * MaxHandler
  /\ pc = "enter" => elapsed < TicDuration + MaxHandler

LEMMA TimeInvariant ==
  ASSUME MaxTick < TicDuration
  PROVE  Spec => []TimeInv
<1>1. Init => TimeInv
  BY TimeAssumption DEF Init, TimeInv
<1>2. TypeOK /\ TimeInv /\ [Next]_vars => TimeInv'
  <2> SUFFICES ASSUME TypeOK, TimeInv, [Next]_vars PROVE TimeInv'
    OBVIOUS
  <2> USE DEF TimeInv
  <2> USE TimeAssumption
  <2>1. CASE World \/ UNCHANGED vars
    BY <2>1 DEF World, SendMessage, SendRequest, SendCommand, vars
  <2>2. CASE Enter
    BY <2>2 DEF Enter, TypeOK
  <2>3. CASE Tick
    BY <2>3 DEF Tick, TypeOK
  <2>4. CASE Sleep
    BY <2>4 DEF Sleep, Polls, TypeOK
  <2>5. CASE Polls /\ Handled
    BY <2>5 DEF Polls, Handled, TypeOK
  <2>. QED  BY <2>1, <2>2, <2>3, <2>4, <2>5
            DEF Next, Loop, Poll, ReceiveMessage, ReceiveRequest
<1>. QED  BY <1>1, <1>2, TypeCorrect, PTL DEF Spec

\* When a tick is handled within a tic, every tick is late by less than a message
\* and a command (Server.cpp:103-143).
THEOREM TicksOnTime ==
  ASSUME MaxTick < TicDuration
  PROVE  Spec => []TickOnTime
<1>1. TimeInv => TickOnTime
  BY DEF TimeInv, TickOnTime
<1>. QED  BY <1>1, TimeInvariant, PTL

----------------------------------------------------------------------------
(* Turns *)

\* What OvertakenOnce rests on: a channel that was overtaken is polled first,
\* and still has what was overtaken.
TurnInv ==
  \A c \in Channel :
    overtaken[c] = 0 \/ (overtaken[c] = 1 /\ first = c /\ CanReceive(c))

LEMMA PollTurns ==
  ASSUME TypeOK, TurnInv, NEW c \in Channel, NEW o \in Channel, o # c,
         Chosen(c), NextPermutation, Overtake(c), CanReceive(o) => CanReceive(o)'
  PROVE  TurnInv'
<1>1. overtaken'[c] = 0
  BY DEF Overtake, TypeOK
<1>2. CASE CanReceive(o)
  <2>1. first = c
    BY <1>2 DEF Chosen, TypeOK
  <2>2. overtaken[o] = 0
    BY <2>1 DEF TurnInv
  <2>3. overtaken'[o] = 1
    BY <1>2, <2>2 DEF Overtake, TypeOK
  <2>4. first' = o
    BY <2>1, Alternates DEF TypeOK
  <2>. QED  BY <1>1, <1>2, <2>3, <2>4 DEF TurnInv
<1>3. CASE ~CanReceive(o)
  <2>1. overtaken'[o] = 0
    BY <1>3 DEF Overtake
  <2>. QED  BY <1>1, <2>1 DEF TurnInv
<1>. QED  BY <1>2, <1>3

LEMMA NextTurns == TypeOK /\ TurnInv /\ [Next]_vars => TurnInv'
<1> SUFFICES ASSUME TypeOK, TurnInv, [Next]_vars PROVE TurnInv'
  OBVIOUS
<1>1. CASE SendMessage
  BY <1>1 DEF SendMessage, TurnInv, CanReceive, TypeOK
<1>2. ASSUME NEW c \in Client, NEW k \in Text, SendRequest(c, k) PROVE TurnInv'
  <2>1. requests' # <<>>
    BY <1>2 DEF SendRequest, TypeOK
  <2>. QED  BY <1>2, <2>1 DEF SendRequest, TurnInv, CanReceive
<1>3. CASE SendCommand \/ Enter \/ Tick \/ UNCHANGED vars
  BY <1>3 DEF SendCommand, Enter, Tick, vars, TurnInv, CanReceive
<1>4. CASE ReceiveMessage
  <2>1. CanReceive("REPLY") => CanReceive("REPLY")'
    BY <1>4 DEF ReceiveMessage, CanReceive
  <2>. QED  BY <1>4, <2>1, PollTurns DEF ReceiveMessage
<1>5. CASE ReceiveRequest
  <2>1. CanReceive("PUBLISH") => CanReceive("PUBLISH")'
    BY <1>5 DEF ReceiveRequest, CanReceive
  <2>. QED  BY <1>5, <2>1, PollTurns DEF ReceiveRequest
<1>6. CASE Sleep
  BY <1>6 DEF Sleep, TurnInv
<1>. QED  BY <1>1, <1>2, <1>3, <1>4, <1>5, <1>6 DEF Next, World, Loop, Poll

\* Neither channel is overtaken more than once by the other.
THEOREM TurnsCorrect == Spec => []OvertakenOnce
<1>1. Init => TurnInv
  BY DEF Init, TurnInv
<1>2. TurnInv => OvertakenOnce
  BY DEF TurnInv, OvertakenOnce
<1>. QED  BY <1>1, <1>2, NextTurns, TypeCorrect, PTL DEF Spec

----------------------------------------------------------------------------
(* Requests *)

\* A request that arrives and a request that is answered keep clients and
\* queue together.
LEMMA RequestReady ==
  ASSUME TypeOK, ReplierReady, NEW c \in Client, NEW k \in Text, SendRequest(c, k)
  PROVE  ReplierReady'
<1> DEFINE n == Len(requests)
<1>1. requests \in Seq(Client \X Text) /\ n \in Nat
  BY DEF TypeOK
<1>2. /\ Len(requests') = n + 1 /\ requests'[n + 1] = <<c, k>>
      /\ \A i \in 1 .. n : requests'[i] = requests[i]
  BY <1>1 DEF SendRequest
<1>3. requests'[n + 1][1] = c
  BY <1>2
<1>4. \A i \in 1 .. n : requests[i][1] # c
  BY DEF SendRequest, ReplierReady
<1> HIDE DEF n
<1>5. \A i \in 1 .. n + 1 : i \in 1 .. n \/ i = n + 1
  BY <1>1
<1>6. \A i, j \in 1 .. n + 1 : requests'[i][1] = requests'[j][1] => i = j
  BY <1>2, <1>3, <1>4, <1>5 DEF ReplierReady, n
<1>7. waiting' = {requests'[i][1] : i \in 1 .. n + 1}
  <2>1. waiting' = {requests[i][1] : i \in 1 .. n} \cup {c}
    BY DEF SendRequest, ReplierReady, n
  <2>2. \A x : x \in {requests'[i][1] : i \in 1 .. n + 1} <=>
               x = c \/ \E i \in 1 .. n : x = requests[i][1]
    <3>1. n + 1 \in 1 .. n + 1 /\ \A i \in 1 .. n : i \in 1 .. n + 1
      BY <1>1
    <3>. QED  BY <1>2, <1>3, <1>5, <3>1
  <2>. QED  BY <2>1, <2>2
<1>8. owed' = NoClient
  BY DEF SendRequest, ReplierReady
<1>. QED  BY <1>2, <1>6, <1>7, <1>8 DEF ReplierReady

LEMMA AnswerReady ==
  ASSUME \A x \in Text : Type(x) \in Answered, TypeOK, ReplierReady, ReceiveRequest
  PROVE  ReplierReady'
<1> DEFINE n == Len(requests)
<1>1. requests \in Seq(Client \X Text) /\ n \in Nat /\ n > 0
  BY DEF TypeOK, ReceiveRequest, Chosen, CanReceive
<1>2. requests[1] \in Client \X Text
  BY <1>1
<1>3. waiting' = waiting \ {requests[1][1]} /\ owed' = NoClient
  BY <1>2 DEF ReceiveRequest, Reply, ReplierReady
<1>4. /\ Len(requests') = n - 1
      /\ \A i \in 1 .. n - 1 : requests'[i] = requests[i + 1]
  BY <1>1 DEF ReceiveRequest
<1> HIDE DEF n
<1>5. \A i \in 1 .. n - 1 : i + 1 \in 1 .. n /\ i + 1 # 1
  BY <1>1
<1>6. \A i \in 1 .. n : i = 1 \/ i - 1 \in 1 .. n - 1
  BY <1>1
<1>7. \A i, j \in 1 .. n - 1 : requests'[i][1] = requests'[j][1] => i = j
  <2> SUFFICES ASSUME NEW i \in 1 .. n - 1, NEW j \in 1 .. n - 1,
                      requests'[i][1] = requests'[j][1]
               PROVE  i = j
    OBVIOUS
  <2>1. requests[i + 1][1] = requests[j + 1][1]
    BY <1>4
  <2>2. i + 1 = j + 1
    BY <1>5, <2>1 DEF ReplierReady, n
  <2>. QED  BY <1>1, <2>2
<1>8. \A x : x \in waiting' <=> \E i \in 1 .. n - 1 : x = requests'[i][1]
  <2>1. ASSUME NEW i \in 1 .. n - 1 PROVE requests'[i][1] \in waiting'
    <3>1. requests'[i][1] = requests[i + 1][1] /\ i + 1 \in 1 .. n /\ i + 1 # 1
      BY <1>4, <1>5
    <3>2. 1 \in 1 .. n
      BY <1>1
    <3>3. requests[i + 1][1] # requests[1][1] /\ requests[i + 1][1] \in waiting
      BY <3>1, <3>2 DEF ReplierReady, n
    <3>. QED  BY <1>3, <3>1, <3>3
  <2>2. ASSUME NEW x \in waiting' PROVE \E i \in 1 .. n - 1 : x = requests'[i][1]
    <3>1. PICK i \in 1 .. n : x = requests[i][1]
      BY <1>3 DEF ReplierReady, n
    <3>2. i # 1
      BY <1>3, <3>1
    <3>3. i - 1 \in 1 .. n - 1 /\ (i - 1) + 1 = i
      BY <1>1, <3>2
    <3>4. requests'[i - 1] = requests[i]
      BY <1>4, <3>3
    <3>. QED  BY <3>1, <3>3, <3>4
  <2>. QED  BY <2>1, <2>2
<1>9. waiting' = {requests'[i][1] : i \in 1 .. n - 1}
  BY <1>8
<1>. QED  BY <1>3, <1>4, <1>7, <1>9 DEF ReplierReady

\* While every request is of a type that is answered, the reply socket never
\* refuses and the clients that wait are those with one request in its queue
\* (Server.cpp:198-207, InterfaceProcess.cpp:67-84).
THEOREM RepliesCorrect ==
  ASSUME \A x \in Text : Type(x) \in Answered
  PROVE  Spec => []ReplierReady
<1>1. Init => ReplierReady
  BY DEF Init, ReplierReady
<1>2. TypeOK /\ ReplierReady /\ [Next]_vars => ReplierReady'
  <2> SUFFICES ASSUME TypeOK, ReplierReady, [Next]_vars PROVE ReplierReady'
    OBVIOUS
  <2>1. ASSUME NEW c \in Client, NEW k \in Text, SendRequest(c, k)
        PROVE  ReplierReady'
    BY <2>1, RequestReady
  <2>2. CASE ReceiveRequest
    BY <2>2, AnswerReady
  <2>3. CASE UNCHANGED <<requests, waiting, owed>>
    BY <2>3 DEF ReplierReady
  <2>. QED  BY <2>1, <2>2, <2>3
            DEF Next, World, Loop, Poll, SendMessage, SendCommand, Enter, Tick,
                ReceiveMessage, Sleep, vars
<1>. QED  BY <1>1, <1>2, TypeCorrect, PTL DEF Spec

----------------------------------------------------------------------------
(* Waits *)

\* The histories of ServerWaits change nothing of the loop.
LEMMA WaitsAside == SpecWaits => Spec
<1>1. InitWaits => Init
  BY DEF InitWaits
<1>2. [NextWaits]_<<vars, waitVars>> => [Next]_vars
  BY DEF NextWaits, WorldWaits, LoopWaits, Next, Loop
<1>. QED  BY <1>1, <1>2, PTL DEF SpecWaits, Spec

\* What a poll that finds a message leaves alone, and the time it takes.
LEMMA PollTimes ==
  ASSUME TypeOK, ReceiveMessage \/ ReceiveRequest
  PROVE  /\ pc = "check" /\ pc' = "enter" /\ elapsed < TicDuration
         /\ elapsed' - elapsed \in 1 .. MaxHandler
         /\ elapsed \in Nat /\ elapsed' \in Nat /\ agent' = agent /\ agent \in BOOLEAN
<1>1. pc = "check" /\ elapsed < TicDuration /\ agent' = agent /\ Handled
  BY DEF ReceiveMessage, ReceiveRequest, Polls
<1>. QED  BY <1>1, TimeAssumption DEF Handled, TypeOK

\* What CommandWithin rests on: a command that waits came after the last tick,
\* and after the loop last looked at the agent's socket.
CommandInv ==
  /\ commandWait \in Nat
  /\ ~agent => commandWait = 0
  /\ agent => commandWait <= elapsed
  /\ agent /\ pc = "check" => commandWait <= TicDuration
  /\ agent /\ pc = "enter" => commandWait < TicDuration + MaxHandler

LEMMA GoesWith ==
  ASSUME NEW w \in Nat, NEW e \in Nat, NEW f \in Nat, w <= e, e < f
  PROVE  w + (f - e) \in Nat /\ w + (f - e) <= f
  OBVIOUS

LEMMA NextCommand ==
  ASSUME TypeOK, CommandInv, [NextWaits]_<<vars, waitVars>>
  PROVE  CommandInv'
<1> USE TimeAssumption DEF CommandInv
<1>1. CASE WorldWaits
  <2>1. UNCHANGED <<commandWait, pc, elapsed>> /\ (agent => agent')
    BY <1>1 DEF WorldWaits, World, SendMessage, SendCommand, SendRequest
  <2>. QED  BY <2>1 DEF TypeOK
<1>2. CASE Sleep /\ Spends(elapsed' - elapsed)
  <2>1. /\ pc = "check" /\ pc' = "check" /\ elapsed < TicDuration
        /\ elapsed \in Nat /\ elapsed' = elapsed + 1 /\ agent' = agent
    BY <1>2 DEF Sleep, Polls, TypeOK
  <2>2. commandWait' = IF agent THEN commandWait + 1 ELSE 0
    BY <1>2, <2>1 DEF Spends
  <2>. QED  BY <2>1, <2>2
<1>3. CASE (ReceiveMessage \/ ReceiveRequest) /\ Spends(elapsed' - elapsed)
  <2>1. commandWait' = IF agent THEN commandWait + (elapsed' - elapsed) ELSE 0
    BY <1>3, PollTimes DEF Spends
  <2>2. pc = "check" /\ pc' = "enter" /\ agent' = agent /\ agent \in BOOLEAN
    BY <1>3, PollTimes
  <2>3. elapsed \in Nat /\ elapsed' \in Nat /\ elapsed < TicDuration /\ elapsed < elapsed'
        /\ elapsed' <= elapsed + MaxHandler
    BY <1>3, PollTimes
  <2>4. CASE agent
    <3>1. commandWait' = commandWait + (elapsed' - elapsed) /\ agent'
      BY <2>1, <2>2, <2>4
    <3>2. commandWait' \in Nat /\ commandWait' <= elapsed'
      <4>1. commandWait \in Nat /\ commandWait <= elapsed
        BY <2>4
      <4>. QED  BY <2>3, <3>1, <4>1, GoesWith
    <3>3. commandWait' < TicDuration + MaxHandler
      BY <2>3, <3>2
    <3>. QED  BY <2>2, <3>1, <3>2, <3>3
  <2>5. CASE ~agent
    BY <2>1, <2>2, <2>5
  <2>. QED  BY <2>4, <2>5
<1>4. CASE UNCHANGED <<vars, waitVars>>
  BY <1>4 DEF vars, waitVars
<1>5. ASSUME NEW d, Enter \/ Tick, Spends(d) PROVE ~agent' /\ commandWait' = 0
  BY <1>5 DEF Enter, Tick, FeedAgentProxy, Spends
<1>. QED  BY <1>1, <1>2, <1>3, <1>4, <1>5 DEF NextWaits, LoopWaits, Poll

\* An agent's command waits for less than a tic and a message.
THEOREM CommandsInTime == SpecWaits => []CommandWithin
<1>1. InitWaits => CommandInv
  BY DEF InitWaits, Init, CommandInv
<1>2. TypeOK /\ CommandInv => CommandWithin
  BY TimeAssumption DEF TypeOK, CommandInv, CommandWithin
<1>. QED  BY <1>1, <1>2, NextCommand, WaitsAside, TypeCorrect, PTL DEF SpecWaits

\* How much of its turn the loop has left, from where it stands.
LeftOfTurn ==
  IF pc = "enter" THEN Turn
  ELSE IF elapsed >= TicDuration THEN MaxTick + MaxHandler ELSE MaxHandler

LEMMA Shifted ==
  ASSUME NEW a \in Nat, NEW b \in Nat, NEW c \in Nat, a <= b
  PROVE  a + c <= b + c
  OBVIOUS

\* A step of the loop other than sleeping takes no longer than it takes off the
\* turn, and a message begins a new one.
LEMMA TurnTimes ==
  ASSUME MaxTick < TicDuration, TypeOK
  PROVE  /\ Turn \in Nat /\ LeftOfTurn \in Nat /\ LeftOfTurn <= Turn
         /\ Enter => /\ elapsed' - elapsed \in Nat
                     /\ (elapsed' - elapsed) + LeftOfTurn' <= LeftOfTurn
         /\ Tick => elapsed' \in Nat /\ elapsed' + LeftOfTurn' <= LeftOfTurn
         /\ ReceiveMessage \/ ReceiveRequest =>
              /\ elapsed' - elapsed \in Nat
              /\ elapsed' - elapsed <= LeftOfTurn /\ LeftOfTurn' = Turn
<1> USE TimeAssumption DEF LeftOfTurn, Turn
<1>1. elapsed \in Nat
  BY DEF TypeOK
<1>2. ASSUME Enter
      PROVE  /\ elapsed' - elapsed \in Nat
             /\ (elapsed' - elapsed) + LeftOfTurn' <= LeftOfTurn
  BY <1>1, <1>2 DEF Enter
<1>3. ASSUME Tick PROVE elapsed' \in Nat /\ elapsed' + LeftOfTurn' <= LeftOfTurn
  <2>1. /\ pc = "check" /\ pc' = "check" /\ elapsed >= TicDuration
        /\ elapsed' \in 1 .. MaxTick
    BY <1>3 DEF Tick
  <2>2. elapsed' \in Nat /\ ~(elapsed' >= TicDuration)
    BY <2>1
  <2>3. LeftOfTurn = MaxTick + MaxHandler /\ LeftOfTurn' = MaxHandler
    BY <2>1, <2>2
  <2>4. MaxTick \in Nat /\ MaxHandler \in Nat /\ elapsed' <= MaxTick
    BY <2>1
  <2>5. elapsed' + MaxHandler <= MaxTick + MaxHandler
    BY <2>2, <2>4, Shifted
  <2> HIDE DEF LeftOfTurn
  <2>. QED  BY <2>2, <2>3, <2>5
<1>4. ASSUME ReceiveMessage \/ ReceiveRequest
      PROVE  /\ elapsed' - elapsed \in Nat
             /\ elapsed' - elapsed <= LeftOfTurn /\ LeftOfTurn' = Turn
  BY <1>1, <1>4, PollTimes
<1>. QED  BY <1>1, <1>2, <1>3, <1>4

\* After waiting for w, with k turns to come after what is left of this one, the
\* wait ends within two turns for each of the most there may be.
Within(w, k, left, most) == w + k * Turn + left <= (2 * most) * Turn

LEMMA Multiples ==
  ASSUME NEW t \in Nat, NEW j \in Nat, NEW k \in Nat, j <= k
  PROVE  j * t \in Nat /\ k * t \in Nat /\ j * t <= k * t
  OBVIOUS

LEMMA OneMore ==
  ASSUME NEW t \in Nat, NEW k \in Nat
  PROVE  (k + 1) * t = k * t + t
  OBVIOUS

LEMMA Arrives ==
  ASSUME Turn \in Nat, NEW k \in Nat, NEW most \in Nat, k + 1 <= 2 * most,
         NEW left \in Nat, left <= Turn
  PROVE  Within(0, k, left, most)
<1>1. k * Turn \in Nat /\ (k + 1) * Turn = k * Turn + Turn
  BY OneMore, Multiples
<1>2. (2 * most) * Turn \in Nat /\ (k + 1) * Turn <= (2 * most) * Turn
  BY Multiples
<1>. QED  BY <1>1, <1>2 DEF Within

LEMMA GoesOn ==
  ASSUME Turn \in Nat, NEW w \in Nat, NEW k \in Nat, NEW most \in Nat,
         NEW left \in Nat, NEW d \in Nat, NEW rest \in Nat,
         Within(w, k, left, most), d + rest <= left
  PROVE  Within(w + d, k, rest, most)
<1>1. k * Turn \in Nat /\ (2 * most) * Turn \in Nat
  BY Multiples
<1>. QED  BY <1>1 DEF Within

LEMMA TurnEnds ==
  ASSUME Turn \in Nat, NEW w \in Nat, NEW k \in Nat, NEW j \in Nat, NEW most \in Nat,
         NEW left \in Nat, NEW d \in Nat,
         Within(w, k, left, most), d <= left, j + 1 <= k
  PROVE  Within(w + d, j, Turn, most)
<1>1. j * Turn \in Nat /\ (j + 1) * Turn = j * Turn + Turn
  BY OneMore, Multiples
<1>2. k * Turn \in Nat /\ (2 * most) * Turn \in Nat /\ (j + 1) * Turn <= k * Turn
  BY Multiples
<1>. QED  BY <1>1, <1>2 DEF Within

LEMMA Ends ==
  ASSUME Turn \in Nat, NEW w \in Nat, NEW k \in Nat, NEW most \in Nat,
         NEW left \in Nat, MaxHandler <= left, Within(w, k, left, most)
  PROVE  w + MaxHandler <= 2 * most * Turn
<1>1. k * Turn \in Nat /\ (2 * most) * Turn \in Nat
  BY Multiples
<1>. QED  BY <1>1, TimeAssumption DEF Within

\* How many messages are handled before the one at place i of a channel is: as
\* many of the other channel as of its own, and one more when the other is first.
Before(i, c) == IF first = c THEN 2 * i - 2 ELSE 2 * i - 1

\* What MessageWithin rests on.
MessageInv ==
  /\ followed \in 0 .. pulled /\ messageWait \in Nat
  /\ followed = 0 => messageWait = 0
  /\ followed # 0 => Within(messageWait, Before(followed, "PUBLISH"), LeftOfTurn, MaxPulled)

LEMMA NextMessage ==
  ASSUME MaxTick < TicDuration, TypeOK, TypeOK', MessageInv,
         [NextWaits]_<<vars, waitVars>>
  PROVE  MessageInv'
<1> USE DEF MessageInv
<1>0. /\ Turn \in Nat /\ LeftOfTurn \in Nat /\ LeftOfTurn' \in Nat
      /\ LeftOfTurn <= Turn /\ LeftOfTurn' <= Turn
  <2>1. Turn \in Nat /\ LeftOfTurn \in Nat /\ LeftOfTurn <= Turn
    BY TurnTimes
  <2>2. LeftOfTurn' \in Nat /\ LeftOfTurn' <= Turn
    BY TimeAssumption DEF LeftOfTurn, Turn
  <2>. QED  BY <2>1, <2>2
<1>n. pulled \in Nat /\ pulled' \in Nat /\ MaxPulled \in Nat /\ followed \in Nat
  BY PullAssumption DEF TypeOK
<1>1. CASE WorldWaits
  <2>1. /\ UNCHANGED <<messageWait, pc, elapsed, first>>
        /\ UNCHANGED followed \/ (followed = 0 /\ followed' = pulled')
        /\ pulled' = pulled \/ pulled' = pulled + 1
        /\ pulled' # pulled \/ UNCHANGED followed
        /\ pulled' <= MaxPulled
    BY <1>1, <1>n DEF WorldWaits, World, SendMessage, SendCommand, SendRequest, TypeOK
  <2>2. LeftOfTurn' = LeftOfTurn
    BY <2>1 DEF LeftOfTurn
  <2>3. CASE UNCHANGED followed
    <3>1. Before(followed, "PUBLISH")' = Before(followed, "PUBLISH")
      BY <2>1, <2>3 DEF Before
    <3>. QED  BY <1>n, <2>1, <2>2, <2>3, <3>1
  <2>4. CASE followed = 0 /\ followed' = pulled' /\ pulled' = pulled + 1
    <3>1. Before(followed, "PUBLISH")' \in Nat /\ Before(followed, "PUBLISH")' + 1 <= 2 * MaxPulled
      BY <1>n, <2>1, <2>4 DEF Before
    <3>2. Within(0, Before(followed, "PUBLISH")', LeftOfTurn', MaxPulled)
      BY <1>0, <1>n, <3>1, Arrives
    <3>. QED  BY <1>n, <2>1, <2>4, <3>2
  <2>. QED  BY <2>1, <2>3, <2>4
<1>2. CASE UNCHANGED <<vars, waitVars>>
  BY <1>2 DEF vars, waitVars, LeftOfTurn, Before
<1>3. ASSUME NEW d \in Nat, Spends(d), UNCHANGED <<first, pulled>>,
             d + LeftOfTurn' <= LeftOfTurn \/ followed = 0
      PROVE  MessageInv'
  <2>1. followed' = followed /\ messageWait' = IF followed # 0 THEN messageWait + d ELSE 0
    BY <1>3, <1>n DEF Spends
  <2>2. Before(followed, "PUBLISH")' = Before(followed, "PUBLISH")
    BY <1>3, <2>1 DEF Before
  <2>3. followed # 0 => Before(followed, "PUBLISH") \in Nat
    BY <1>n DEF Before
  <2>4. followed # 0 =>
          Within(messageWait + d, Before(followed, "PUBLISH"), LeftOfTurn', MaxPulled)
    BY <1>0, <1>n, <1>3, <2>3, GoesOn
  <2>. QED  BY <1>3, <1>n, <2>1, <2>2, <2>4
<1>4. CASE Enter /\ Spends(elapsed' - elapsed)
  BY <1>3, <1>4, TurnTimes DEF Enter
<1>5. CASE Tick /\ Spends(elapsed')
  BY <1>3, <1>5, TurnTimes DEF Tick
<1>6. CASE Sleep /\ Spends(elapsed' - elapsed)
  <2>1. /\ elapsed' - elapsed \in Nat /\ UNCHANGED pulled /\ pulled = 0
        /\ first' \in Channel
    BY <1>6, <1>n, Alternates DEF Sleep, CanReceive, TypeOK
  <2>2. followed = 0 /\ followed' = 0 /\ messageWait' = 0
    BY <1>6, <1>n, <2>1 DEF Spends
  <2>. QED  BY <2>1, <2>2, <1>n
<1>7. ASSUME NEW d \in Nat, Spends(d), d <= LeftOfTurn, LeftOfTurn' = Turn,
             NextPermutation,
             \/ Chosen("PUBLISH") /\ pulled' = pulled - 1
             \/ Chosen("REPLY") /\ pulled' = pulled
      PROVE  MessageInv'
  <2>1. CASE followed = 0
    BY <1>7, <1>n, <2>1 DEF Spends, Chosen, CanReceive
  <2>2. CASE followed # 0 /\ Chosen("PUBLISH") /\ pulled' = pulled - 1
    <3>1. followed' = followed - 1 /\ followed' \in 0 .. pulled'
      BY <1>7, <1>n, <2>2 DEF Spends
    <3>2. messageWait' = IF followed' # 0 THEN messageWait + d ELSE 0
      BY <1>7 DEF Spends
    <3>3. CASE followed' = 0
      BY <3>1, <3>2, <3>3
    <3>4. CASE followed' # 0
      <4>1. /\ Before(followed, "PUBLISH")' \in Nat /\ Before(followed, "PUBLISH") \in Nat
            /\ Before(followed, "PUBLISH")' + 1 <= Before(followed, "PUBLISH")
        <5>1. first = "PUBLISH" => first' = "REPLY"
          BY <1>7, Alternates DEF TypeOK
        <5>. QED  BY <1>n, <2>2, <3>1, <3>4, <5>1 DEF Before
      <4>2. Within(messageWait + d, Before(followed, "PUBLISH")', Turn, MaxPulled)
        BY <1>0, <1>7, <1>n, <2>2, <4>1, TurnEnds
      <4>. QED  BY <1>7, <3>1, <3>2, <3>4, <4>2
    <3>. QED  BY <3>3, <3>4
  <2>3. CASE followed # 0 /\ Chosen("REPLY") /\ pulled' = pulled
    <3>1. first = "REPLY" /\ first' = "PUBLISH"
      <4>1. CanReceive("PUBLISH")
        BY <1>n, <2>3 DEF CanReceive
      <4>2. first = "REPLY"
        BY <2>3, <4>1 DEF Chosen, TypeOK
      <4>. QED  BY <1>7, <4>2, Alternates DEF TypeOK
    <3>2. followed' = followed /\ messageWait' = messageWait + d
      BY <1>7, <1>n, <2>3 DEF Spends
    <3>3. /\ Before(followed, "PUBLISH")' \in Nat /\ Before(followed, "PUBLISH") \in Nat
          /\ Before(followed, "PUBLISH")' + 1 <= Before(followed, "PUBLISH")
      BY <1>n, <2>3, <3>1, <3>2 DEF Before
    <3>4. Within(messageWait + d, Before(followed, "PUBLISH")', Turn, MaxPulled)
      BY <1>0, <1>7, <1>n, <2>3, <3>3, TurnEnds
    <3>. QED  BY <1>7, <1>n, <2>3, <3>2, <3>4
  <2>. QED  BY <1>7, <2>1, <2>2, <2>3
<1>8. CASE (ReceiveMessage \/ ReceiveRequest) /\ Spends(elapsed' - elapsed)
  <2>1. /\ elapsed' - elapsed \in Nat
        /\ elapsed' - elapsed <= LeftOfTurn /\ LeftOfTurn' = Turn
    BY <1>8, TurnTimes
  <2>. QED  BY <1>7, <1>8, <2>1 DEF ReceiveMessage, ReceiveRequest
<1>. QED  BY <1>1, <1>2, <1>4, <1>5, <1>6, <1>8 DEF NextWaits, LoopWaits, Poll

\* A message nobody waits for is handled within two turns for each message the
\* queue may hold, if ticks are handled within a tic.
THEOREM MessagesInTime ==
  ASSUME MaxTick < TicDuration
  PROVE  SpecWaits => []MessageWithin
<1>1. InitWaits => MessageInv
  BY PullAssumption DEF InitWaits, Init, MessageInv
<1>2. TypeOK /\ MessageInv => MessageWithin
  <2> SUFFICES ASSUME TypeOK, MessageInv, followed # 0
               PROVE  messageWait + MaxHandler <= 2 * MaxPulled * Turn
    BY DEF MessageWithin
  <2>1. Before(followed, "PUBLISH") \in Nat /\ messageWait \in Nat /\ MaxPulled \in Nat
    BY PullAssumption DEF MessageInv, Before, TypeOK
  <2>2. LeftOfTurn \in Nat /\ Turn \in Nat /\ MaxHandler <= LeftOfTurn
    BY TimeAssumption DEF LeftOfTurn, Turn
  <2>. QED  BY <2>1, <2>2, Ends DEF MessageInv
<1>3. TypeOK /\ TypeOK' /\ MessageInv /\ [NextWaits]_<<vars, waitVars>> => MessageInv'
  BY NextMessage
<1>. QED  BY <1>1, <1>2, <1>3, WaitsAside, TypeCorrect, PTL DEF SpecWaits

\* The request at place i of the queue is answered in time.
Timely(i) ==
  Within(requestWait[requests[i][1]], Before(i, "REPLY"), LeftOfTurn, Cardinality(Client))

\* What RequestWithin rests on: the queue holds one request of each client that
\* waits, and each is handled after those before it.
RequestInv ==
  /\ requestWait \in [Client -> Nat]
  /\ \A c \in Client : c \notin waiting => requestWait[c] = 0
  /\ Len(requests) = Cardinality(waiting)
  /\ \A i \in 1 .. Len(requests) : Timely(i)

LEMMA Asks ==
  ASSUME TypeOK, NEW i \in 1 .. Len(requests)
  PROVE  /\ requests[i] \in Client \X Text /\ requests[i][1] \in Client
         /\ Before(i, "REPLY") \in Nat /\ i \in Nat /\ i > 0
<1>1. requests \in Seq(Client \X Text) /\ i \in Nat /\ i > 0
  BY DEF TypeOK
<1>2. 2 * i - 2 \in Nat /\ 2 * i - 1 \in Nat
  BY <1>1
<1>. QED  BY <1>1, <1>2 DEF Before

LEMMA ClientsWait ==
  ASSUME NEW d \in Nat, Spends(d), requestWait \in [Client -> Nat]
  PROVE  /\ requestWait' \in [Client -> Nat]
         /\ \A c \in Client : c \notin waiting' => requestWait'[c] = 0
         /\ \A c \in waiting' \cap Client : requestWait'[c] = requestWait[c] + d
  BY DEF Spends

\* A request that moves from place i to place j, in a turn that goes on or one
\* that ends with a message handled before it.
LEMMA Moves ==
  ASSUME Turn \in Nat, Cardinality(Client) \in Nat, LeftOfTurn \in Nat,
         LeftOfTurn' \in Nat, requestWait \in [Client -> Nat],
         NEW d \in Nat, Spends(d), NEW i, NEW j, Timely(i),
         requests'[j][1] = requests[i][1], requests[i][1] \in Client \cap waiting',
         Before(i, "REPLY") \in Nat, Before(j, "REPLY")' \in Nat,
         \/ d + LeftOfTurn' <= LeftOfTurn /\ Before(j, "REPLY")' = Before(i, "REPLY")
         \/ /\ d <= LeftOfTurn /\ LeftOfTurn' = Turn
            /\ Before(j, "REPLY")' + 1 <= Before(i, "REPLY")
  PROVE  Timely(j)'
<1> DEFINE most == Cardinality(Client)
           w == requestWait[requests[i][1]]
           k == Before(i, "REPLY")
           l == Before(j, "REPLY")'
           left == LeftOfTurn
           rest == LeftOfTurn'
<1>1. requestWait'[requests'[j][1]] = w + d
  BY ClientsWait
<1>2. w \in Nat /\ Within(w, k, left, most)
  BY DEF Timely
<1>3. Timely(j)' <=> Within(w + d, l, rest, most)
  BY <1>1 DEF Timely, Within, Turn
<1>4. /\ most \in Nat /\ k \in Nat /\ l \in Nat /\ left \in Nat /\ rest \in Nat
      /\ (d + rest <= left /\ l = k) \/ (d <= left /\ rest = Turn /\ l + 1 <= k)
  OBVIOUS
<1> HIDE DEF most, w, k, l, left, rest
<1>5. CASE d + rest <= left /\ l = k
  <2>1. Within(w + d, k, rest, most)
    BY <1>2, <1>4, <1>5, GoesOn
  <2>. QED  BY <1>3, <1>5, <2>1
<1>6. CASE d <= left /\ rest = Turn /\ l + 1 <= k
  <2>1. Within(w + d, l, Turn, most)
    BY <1>2, <1>4, <1>6, TurnEnds
  <2>. QED  BY <1>3, <1>6, <2>1
<1>. QED  BY <1>4, <1>5, <1>6

LEMMA NextRequest ==
  ASSUME MaxTick < TicDuration, IsFiniteSet(Client),
         \A x \in Text : Type(x) \in Answered,
         TypeOK, TypeOK', ReplierReady, ReplierReady', RequestInv,
         [NextWaits]_<<vars, waitVars>>
  PROVE  RequestInv'
<1> DEFINE n == Len(requests)
<1>1. /\ Turn \in Nat /\ LeftOfTurn \in Nat /\ LeftOfTurn' \in Nat
      /\ LeftOfTurn <= Turn /\ LeftOfTurn' <= Turn
  <2>1. Turn \in Nat /\ LeftOfTurn \in Nat /\ LeftOfTurn <= Turn
    BY TurnTimes
  <2>2. LeftOfTurn' \in Nat /\ LeftOfTurn' <= Turn
    BY TimeAssumption DEF LeftOfTurn, Turn
  <2>. QED  BY <2>1, <2>2
<1>2. /\ Cardinality(Client) \in Nat /\ n \in Nat /\ requests \in Seq(Client \X Text)
      /\ IsFiniteSet(waiting) /\ waiting \subseteq Client /\ waiting' \subseteq Client
  BY FS_CardinalityType, FS_Subset DEF TypeOK
<1>3. /\ requestWait \in [Client -> Nat] /\ n = Cardinality(waiting)
      /\ \A c \in Client : c \notin waiting => requestWait[c] = 0
      /\ \A i \in 1 .. n : Timely(i)
  BY DEF RequestInv
<1>4. \A i \in 1 .. n : requests[i][1] \in Client /\ Before(i, "REPLY") \in Nat
  BY Asks
<1>5. ASSUME NEW c \in Client, NEW k \in Text, SendRequest(c, k), WorldWaits
      PROVE  RequestInv'
  <2>1. /\ c \notin waiting /\ waiting' = waiting \cup {c}
        /\ requests' = Append(requests, <<c, k>>)
        /\ UNCHANGED <<pc, elapsed, first, requestWait>>
    BY <1>5 DEF SendRequest, WorldWaits
  <2>2. /\ Len(requests') = n + 1 /\ requests'[n + 1] = <<c, k>>
        /\ \A i \in 1 .. n : requests'[i] = requests[i]
    BY <1>2, <2>1
  <2>3. Cardinality(waiting') = n + 1 /\ n + 1 <= Cardinality(Client)
    <3>1. Cardinality(waiting') = n + 1
      BY <1>2, <1>3, <2>1, FS_AddElement
    <3>. QED  BY <1>2, <3>1, FS_Subset
  <2>4. LeftOfTurn' = LeftOfTurn /\ \A i : Before(i, "REPLY")' = Before(i, "REPLY")
    BY <2>1 DEF LeftOfTurn, Before
  <2>5. ASSUME NEW i, i = n + 1 PROVE Timely(i)'
    <3> DEFINE most == Cardinality(Client)
               p == Before(i, "REPLY")
    <3>1. p \in Nat /\ p + 1 <= 2 * most
      <4>1. p \in {2 * i - 2, 2 * i - 1}
        BY DEF Before
      <4> HIDE DEF p, n, most
      <4>. QED  BY <1>2, <2>3, <2>5, <4>1 DEF most
    <3>2. requestWait'[requests'[i][1]] = 0
      BY <1>3, <2>1, <2>2, <2>5
    <3>3. Timely(i)' <=> Within(0, p, LeftOfTurn, most)
      BY <2>4, <3>2 DEF Timely, Within, Turn
    <3> HIDE DEF p, most
    <3>. QED  BY <1>1, <1>2, <3>1, <3>3, Arrives DEF most
  <2>6. \A i \in 1 .. n + 1 : i \in 1 .. n \/ i = n + 1
    BY <1>2
  <2>7. ASSUME NEW i \in 1 .. n PROVE Timely(i)'
    BY <1>3, <2>1, <2>2, <2>4 DEF Timely
  <2>8. \A x \in Client : x \notin waiting' => requestWait'[x] = 0
    BY <1>3, <2>1
  <2> HIDE DEF n
  <2>. QED  BY <1>3, <2>1, <2>2, <2>3, <2>5, <2>6, <2>7, <2>8 DEF RequestInv
<1>6. CASE UNCHANGED <<pc, elapsed, first, requests, waiting, requestWait>>
  BY <1>6 DEF RequestInv, Timely, LeftOfTurn, Before
<1>7. ASSUME NEW d \in Nat, Spends(d), UNCHANGED <<first, requests, waiting>>,
             d + LeftOfTurn' <= LeftOfTurn
      PROVE  RequestInv'
  <2>1. ASSUME NEW i \in 1 .. n PROVE Timely(i)'
    <3>1. requests'[i][1] = requests[i][1] /\ Before(i, "REPLY")' = Before(i, "REPLY")
      BY <1>7 DEF Before
    <3>2. requests[i][1] \in Client \cap waiting'
      BY <1>4, <1>7 DEF ReplierReady
    <3>. QED  BY <1>1, <1>2, <1>3, <1>4, <1>7, <3>1, <3>2, Moves
  <2>. QED  BY <1>3, <1>7, <2>1, ClientsWait DEF RequestInv
<1>8. ASSUME NEW d \in Nat, Spends(d), d <= LeftOfTurn, LeftOfTurn' = Turn, ReceiveMessage
      PROVE  RequestInv'
  <2>1. UNCHANGED <<requests, waiting>>
    BY <1>8 DEF ReceiveMessage
  <2>2. ASSUME NEW i \in 1 .. n PROVE Timely(i)'
    <3>1. requests'[i][1] = requests[i][1] /\ requests[i][1] \in Client \cap waiting'
      BY <1>4, <2>1 DEF ReplierReady
    <3>2. first = "PUBLISH" /\ first' = "REPLY"
      <4>1. CanReceive("REPLY")
        BY <1>2 DEF CanReceive, ReplierReady
      <4>2. first = "PUBLISH"
        BY <1>8, <4>1 DEF ReceiveMessage, Chosen, TypeOK
      <4>. QED  BY <1>8, <4>2, Alternates DEF TypeOK, ReceiveMessage
    <3>3. Before(i, "REPLY") = 2 * i - 1 /\ Before(i, "REPLY")' = 2 * i - 2
      BY <3>2 DEF Before
    <3>4. Before(i, "REPLY")' \in Nat /\ Before(i, "REPLY")' + 1 <= Before(i, "REPLY")
      BY <3>3, Asks
    <3>. QED  BY <1>1, <1>2, <1>3, <1>4, <1>8, <3>1, <3>4, Moves
  <2>. QED  BY <1>3, <1>8, <2>1, <2>2, ClientsWait DEF RequestInv
<1>9. ASSUME NEW d \in Nat, Spends(d), d <= LeftOfTurn, LeftOfTurn' = Turn, ReceiveRequest
      PROVE  RequestInv'
  <2>1. n > 0 /\ requests' = Tail(requests)
    BY <1>2, <1>9 DEF ReceiveRequest, Chosen, CanReceive
  <2>2. requests[1][1] \in waiting /\ waiting' = waiting \ {requests[1][1]}
    <3>1. 1 \in 1 .. n /\ requests[1] \in Client \X Text
      BY <1>2, <2>1
    <3>. QED  BY <1>9, <3>1 DEF ReceiveRequest, Reply, ReplierReady
  <2>3. /\ Len(requests') = n - 1
        /\ \A i \in 1 .. n - 1 : requests'[i] = requests[i + 1] /\ i + 1 \in 1 .. n
    BY <1>2, <2>1
  <2>4. Cardinality(waiting') = n - 1
    <3> DEFINE c == requests[1][1]
    <3>1. c \in waiting /\ waiting' = waiting \ {c}
      BY <2>2
    <3> HIDE DEF c
    <3>2. Cardinality(waiting \ {c}) = Cardinality(waiting) - 1
      BY <1>2, <3>1, FS_RemoveElement
    <3>. QED  BY <1>3, <3>1, <3>2
  <2>5. ASSUME NEW i \in 1 .. n - 1 PROVE Timely(i)'
    <3>1. /\ requests'[i][1] = requests[i + 1][1] /\ i + 1 \in 1 .. n
          /\ requests[i + 1][1] \in Client
      BY <1>4, <2>3
    <3>2. requests[i + 1][1] \in waiting'
      BY <2>3, <3>1 DEF ReplierReady
    <3>3. i \in Nat /\ i > 0
      BY <1>2
    <3>4. (first = "PUBLISH" => first' = "REPLY") /\ (first = "REPLY" => first' = "PUBLISH")
      BY <1>9, Alternates DEF TypeOK, ReceiveRequest
    <3>5. \/ Before(i + 1, "REPLY") = 2 * (i + 1) - 2 /\ Before(i, "REPLY")' = 2 * i - 1
          \/ Before(i + 1, "REPLY") = 2 * (i + 1) - 1 /\ Before(i, "REPLY")' = 2 * i - 2
      BY <3>4 DEF Before, TypeOK
    <3>6. Before(i, "REPLY")' \in Nat /\ Before(i, "REPLY")' + 1 <= Before(i + 1, "REPLY")
      BY <3>3, <3>5
    <3>. QED  BY <1>1, <1>2, <1>3, <1>4, <1>9, <3>1, <3>2, <3>6, Moves
  <2>. QED  BY <1>3, <1>9, <2>3, <2>4, <2>5, ClientsWait DEF RequestInv
<1>10. CASE WorldWaits
  BY <1>5, <1>6, <1>10 DEF WorldWaits, World, SendMessage, SendCommand
<1>11. CASE Enter /\ Spends(elapsed' - elapsed)
  BY <1>7, <1>11, TurnTimes DEF Enter
<1>12. CASE Tick /\ Spends(elapsed')
  BY <1>7, <1>12, TurnTimes DEF Tick
<1>13. CASE Sleep /\ Spends(elapsed' - elapsed)
  <2>1. /\ elapsed' - elapsed \in Nat /\ UNCHANGED <<requests, waiting>> /\ n = 0
    BY <1>2, <1>13 DEF Sleep, CanReceive, TypeOK, ReplierReady
  <2>2. 1 .. n = {}
    BY <2>1
  <2>. QED  BY <1>3, <1>13, <2>1, <2>2, ClientsWait DEF RequestInv
<1>14. CASE (ReceiveMessage \/ ReceiveRequest) /\ Spends(elapsed' - elapsed)
  BY <1>8, <1>9, <1>14, TurnTimes
<1>15. CASE UNCHANGED <<vars, waitVars>>
  BY <1>6, <1>15 DEF vars, waitVars
<1>. QED  BY <1>10, <1>11, <1>12, <1>13, <1>14, <1>15 DEF NextWaits, LoopWaits, Poll

\* A client is answered within two turns for each client there is, if every text
\* is answered and ticks are handled within a tic.
THEOREM RequestsInTime ==
  ASSUME MaxTick < TicDuration, IsFiniteSet(Client),
         \A x \in Text : Type(x) \in Answered
  PROVE  SpecWaits => []RequestWithin
<1>1. InitWaits => RequestInv
  BY FS_EmptySet DEF InitWaits, Init, RequestInv
<1>2. TypeOK /\ ReplierReady /\ RequestInv => RequestWithin
  <2> SUFFICES ASSUME TypeOK, ReplierReady, RequestInv, NEW c \in waiting
               PROVE  requestWait[c] + MaxHandler <= 2 * Cardinality(Client) * Turn
    BY DEF RequestWithin
  <2>1. PICK i \in 1 .. Len(requests) : c = requests[i][1]
    BY DEF ReplierReady
  <2>2. /\ Before(i, "REPLY") \in Nat /\ requestWait[c] \in Nat
        /\ Cardinality(Client) \in Nat
    BY <2>1, Asks, FS_CardinalityType DEF RequestInv
  <2>3. LeftOfTurn \in Nat /\ Turn \in Nat /\ MaxHandler <= LeftOfTurn
    BY TimeAssumption DEF LeftOfTurn, Turn
  <2>4. Within(requestWait[c], Before(i, "REPLY"), LeftOfTurn, Cardinality(Client))
    BY <2>1 DEF RequestInv, Timely
  <2>. QED  BY <2>2, <2>3, <2>4, Ends
<1>3. /\ TypeOK /\ TypeOK' /\ ReplierReady /\ ReplierReady' /\ RequestInv
      /\ [NextWaits]_<<vars, waitVars>>
      => RequestInv'
  BY NextRequest
<1>. QED  BY <1>1, <1>2, <1>3, WaitsAside, TypeCorrect, RepliesCorrect, PTL DEF SpecWaits

----------------------------------------------------------------------------
(* Texts *)

\* The space that comes first is the one after which find stops.
LEMMA FirstIs ==
  ASSUME NEW text, NEW i \in Nat, NEW e \in Nat, e \in Spaces(text, i),
         \A j \in Spaces(text, i) : e <= j
  PROVE  FirstSpace(text, i) = e
<1> DEFINE S == Spaces(text, i)
<1>1. S \subseteq Int
  BY DEF Spaces
<1>2. \A f \in S : (\A k \in S : f <= k) => f = e
  BY <1>1
<1> HIDE DEF S
<1>3. FirstSpace(text, i) = CHOOSE j \in S : \A k \in S : j <= k
  BY DEF FirstSpace, S
<1>4. e \in S /\ \A k \in S : e <= k
  BY DEF S
<1>. QED  BY <1>2, <1>3, <1>4

\* Two sequences, one behind the other.
LEMMA Behind ==
  ASSUME NEW S, NEW s \in Seq(S), NEW t \in Seq(S)
  PROVE  /\ s \o t \in Seq(S)
         /\ Len(s \o t) = Len(s) + Len(t)
         /\ \A i \in 1 .. Len(s) : (s \o t)[i] = s[i]
         /\ \A i \in 1 .. Len(t) : (s \o t)[Len(s) + i] = t[i]
<1>1. s \o t \in Seq(S) /\ Len(s \o t) = Len(s) + Len(t)
  OBVIOUS
<1>2. \A i \in 1 .. Len(s) : (s \o t)[i] = s[i]
  OBVIOUS
<1>3. \A i \in 1 .. Len(t) : (s \o t)[Len(s) + i] = t[i]
  OBVIOUS
<1>. QED  BY <1>1, <1>2, <1>3

\* The part of a sequence after its first c members.
LEMMA Part ==
  ASSUME NEW S, NEW s \in Seq(S), NEW c \in Nat, NEW k \in Nat, c + k <= Len(s)
  PROVE  /\ SubSeq(s, c + 1, c + k) \in Seq(S)
         /\ Len(SubSeq(s, c + 1, c + k)) = k
         /\ \A j \in 1 .. k : SubSeq(s, c + 1, c + k)[j] = s[c + j]
<1>1. \A j \in c + 1 .. c + k : s[j] \in S
  OBVIOUS
<1>. QED  BY <1>1

\* What is sent is received: a message whose destination and type hold no space
\* is split into the three fields it was joined from, whatever its payload is
\* (Socket.cpp:98-168).
THEOREM SplitJoin ==
  ASSUME NEW Char, NEW d \in Seq(Char), NEW t \in Seq(Char), NEW p \in Seq(Char),
         \A i \in 1 .. Len(d) : d[i] # Space,
         \A i \in 1 .. Len(t) : t[i] # Space
  PROVE  LET m == [dest |-> d, type |-> t, payload |-> p] IN Split(Join(m)) = m
<1> DEFINE m == [dest |-> d, type |-> t, payload |-> p]
           x == d \o <<Space>> \o t \o <<Space>> \o p
           a == Len(d) + 1
           b == Len(d) + Len(t) + 2
           n == Len(d) + Len(t) + Len(p) + 2
           Any == Char \cup {Space}
<1>1. Join(m) = x
  BY DEF Join
<1>2. /\ Len(d) \in Nat /\ Len(t) \in Nat /\ Len(p) \in Nat
      /\ a \in Nat /\ b \in Nat /\ n \in Nat
  OBVIOUS
<1>3. /\ x \in Seq(Any) /\ Len(x) = n
      /\ \A i \in 1 .. Len(d) : x[i] = d[i]
      /\ x[a] = Space
      /\ \A i \in 1 .. Len(t) : x[a + i] = t[i]
      /\ x[b] = Space
      /\ \A i \in 1 .. Len(p) : x[b + i] = p[i]
  <2>1. d \in Seq(Any) /\ t \in Seq(Any) /\ p \in Seq(Any) /\ <<Space>> \in Seq(Any)
    OBVIOUS
  <2> HIDE DEF Any, x
  <2> DEFINE x1 == d \o <<Space>>  x2 == x1 \o t  x3 == x2 \o <<Space>>
  <2>2. /\ x1 \in Seq(Any) /\ Len(x1) = a /\ x1[a] = Space
        /\ \A i \in 1 .. Len(d) : x1[i] = d[i]
    BY <2>1 DEF Any
  <2> HIDE DEF x1
  <2>3. /\ x2 \in Seq(Any) /\ Len(x2) = a + Len(t)
        /\ \A i \in 1 .. a : x2[i] = x1[i]
        /\ \A i \in 1 .. Len(t) : x2[a + i] = t[i]
    <3>1. /\ x1 \o t \in Seq(Any) /\ Len(x1 \o t) = Len(x1) + Len(t)
          /\ \A i \in 1 .. Len(x1) : (x1 \o t)[i] = x1[i]
          /\ \A i \in 1 .. Len(t) : (x1 \o t)[Len(x1) + i] = t[i]
      <4>1. x1 \in Seq(Any) /\ t \in Seq(Any)
        BY <2>1, <2>2
      <4>. QED  BY <4>1, Behind
    <3>. QED  BY <2>2, <3>1
  <2> HIDE DEF x2
  <2>4. /\ x3 \in Seq(Any) /\ Len(x3) = b /\ x3[b] = Space
        /\ \A i \in 1 .. a + Len(t) : x3[i] = x2[i]
    <3> DEFINE one == <<Space>>
    <3>1. one \in Seq(Any) /\ Len(one) = 1 /\ one[1] = Space
      BY <2>1
    <3>2. /\ x3 = x2 \o one /\ Len(x2) = a + Len(t) /\ x2 \in Seq(Any)
          /\ Len(x2) + 1 = b /\ 1 \in 1 .. 1
      BY <1>2, <2>3
    <3> HIDE DEF one, x3, a, b
    <3>3. /\ x3 \in Seq(Any) /\ Len(x3) = Len(x2) + Len(one)
          /\ \A i \in 1 .. Len(x2) : x3[i] = x2[i]
          /\ \A i \in 1 .. Len(one) : x3[Len(x2) + i] = one[i]
      <4>1. x2 \in Seq(Any) /\ one \in Seq(Any)
        BY <3>1, <3>2
      <4>2. /\ x2 \o one \in Seq(Any) /\ Len(x2 \o one) = Len(x2) + Len(one)
            /\ \A i \in 1 .. Len(x2) : (x2 \o one)[i] = x2[i]
            /\ \A i \in 1 .. Len(one) : (x2 \o one)[Len(x2) + i] = one[i]
        BY <4>1, Behind
      <4>. QED  BY <3>2, <4>2
    <3>. QED  BY <3>1, <3>2, <3>3
  <2> HIDE DEF x3
  <2>5. x = x3 \o p
    BY DEF x, x1, x2, x3
  <2>6. /\ x \in Seq(Any) /\ Len(x) = n
        /\ \A i \in 1 .. b : x[i] = x3[i]
        /\ \A i \in 1 .. Len(p) : x[b + i] = p[i]
    <3>1. /\ x3 \o p \in Seq(Any) /\ Len(x3 \o p) = Len(x3) + Len(p)
          /\ \A i \in 1 .. Len(x3) : (x3 \o p)[i] = x3[i]
          /\ \A i \in 1 .. Len(p) : (x3 \o p)[Len(x3) + i] = p[i]
      <4>1. x3 \in Seq(Any) /\ p \in Seq(Any)
        BY <2>1, <2>4
      <4>. QED  BY <4>1, Behind
    <3>2. b + Len(p) = n
      BY <1>2
    <3> HIDE DEF b, n
    <3>. QED  BY <2>4, <2>5, <3>1, <3>2
  <2> HIDE DEF x
  <2>7. \A i \in 1 .. Len(d) : i \in 1 .. a /\ i \in 1 .. a + Len(t) /\ i \in 1 .. b
    BY <1>2
  <2>8. a \in 1 .. a /\ a \in 1 .. a + Len(t) /\ a \in 1 .. b /\ b \in 1 .. b
    BY <1>2
  <2>9. \A i \in 1 .. Len(t) : a + i \in 1 .. a + Len(t) /\ a + i \in 1 .. b
    BY <1>2
  <2>. QED  BY <2>2, <2>3, <2>4, <2>6, <2>7, <2>8, <2>9
<1> HIDE DEF x, m
<1>4. HasDest(x) /\ EndOfDest(x) = a
  <2>1. a \in Spaces(x, 1)
    BY <1>2, <1>3 DEF Spaces
  <2>2. ASSUME NEW j \in Spaces(x, 1) PROVE a <= j
    <3>1. j \in 1 .. n /\ x[j] = Space
      BY <1>3 DEF Spaces
    <3>2. j \notin 1 .. Len(d)
      BY <1>3, <3>1
    <3>. QED  BY <1>2, <3>1, <3>2
  <2>. QED  BY <2>1, <2>2, FirstIs DEF HasDest, EndOfDest
<1>5. HasType(x) /\ EndOfType(x) = b
  <2>1. b \in Spaces(x, a + 1)
    BY <1>2, <1>3 DEF Spaces
  <2>2. ASSUME NEW j \in Spaces(x, a + 1) PROVE b <= j
    <3>1. j \in a + 1 .. n /\ x[j] = Space
      BY <1>3 DEF Spaces
    <3>2. \A i \in 1 .. Len(t) : x[a + i] # Space
      BY <1>3
    <3>3. \A i \in 1 .. Len(t) : j # a + i
      BY <3>1, <3>2
    <3>4. j \in Int /\ a + 1 <= j /\ a \in Nat /\ Len(t) \in Nat /\ b = a + 1 + Len(t)
      BY <1>2, <3>1
    <3> HIDE DEF a, b, n
    <3>5. CASE j < b
      <4>1. j - a \in 1 .. Len(t) /\ a + (j - a) = j
        BY <3>4, <3>5
      <4>. QED  BY <3>3, <4>1
    <3>. QED  BY <3>4, <3>5
  <2>3. EndOfType(x) = FirstSpace(x, a + 1) /\ a + 1 \in Nat
    BY <1>2, <1>4 DEF EndOfType
  <2>. QED  BY <1>2, <1>4, <2>1, <2>2, <2>3, FirstIs DEF HasType
<1>6. Dest(x) = d
  <2>1. Dest(x) = SubSeq(x, 1, Len(d))
    BY <1>2, <1>4 DEF Dest
  <2>2. /\ SubSeq(x, 1, Len(d)) \in Seq(Any) /\ Len(SubSeq(x, 1, Len(d))) = Len(d)
        /\ \A i \in 1 .. Len(d) : SubSeq(x, 1, Len(d))[i] = x[i]
    <3>1. /\ 0 \in Nat /\ Len(d) \in Nat /\ 0 + Len(d) <= Len(x) /\ x \in Seq(Any)
          /\ 0 + 1 = 1 /\ 0 + Len(d) = Len(d) /\ \A i \in 1 .. Len(d) : 0 + i = i
      BY <1>2, <1>3
    <3> HIDE DEF a, b, n, Any
    <3>2. /\ SubSeq(x, 0 + 1, 0 + Len(d)) \in Seq(Any)
          /\ Len(SubSeq(x, 0 + 1, 0 + Len(d))) = Len(d)
          /\ \A i \in 1 .. Len(d) : SubSeq(x, 0 + 1, 0 + Len(d))[i] = x[0 + i]
      BY <3>1, Part
    <3>. QED  BY <3>1, <3>2
  <2>. QED  BY <1>3, <2>1, <2>2
<1>7. Type(x) = t
  <2>1. Type(x) = SubSeq(x, a + 1, b - 1)
    BY <1>4, <1>5 DEF Type
  <2>2. /\ SubSeq(x, a + 1, b - 1) \in Seq(Any)
        /\ Len(SubSeq(x, a + 1, b - 1)) = Len(t)
        /\ \A i \in 1 .. Len(t) : SubSeq(x, a + 1, b - 1)[i] = x[a + i]
    <3>1. a \in Nat /\ Len(t) \in Nat /\ a + Len(t) = b - 1 /\ a + Len(t) <= Len(x) /\ x \in Seq(Any)
      BY <1>2, <1>3
    <3> HIDE DEF a, b, n, Any
    <3>2. /\ SubSeq(x, a + 1, a + Len(t)) \in Seq(Any)
          /\ Len(SubSeq(x, a + 1, a + Len(t))) = Len(t)
          /\ \A i \in 1 .. Len(t) : SubSeq(x, a + 1, a + Len(t))[i] = x[a + i]
      BY <3>1, Part
    <3>. QED  BY <3>1, <3>2
  <2>. QED  BY <1>3, <2>1, <2>2
<1>8. Payload(x) = p
  <2>1. Payload(x) = SubSeq(x, b + 1, n)
    BY <1>3, <1>5 DEF Payload
  <2>2. /\ SubSeq(x, b + 1, n) \in Seq(Any) /\ Len(SubSeq(x, b + 1, n)) = Len(p)
        /\ \A i \in 1 .. Len(p) : SubSeq(x, b + 1, n)[i] = x[b + i]
    <3>1. b \in Nat /\ Len(p) \in Nat /\ b + Len(p) = n /\ b + Len(p) <= Len(x) /\ x \in Seq(Any)
      BY <1>2, <1>3
    <3> HIDE DEF a, b, n, Any
    <3>2. /\ SubSeq(x, b + 1, b + Len(p)) \in Seq(Any)
          /\ Len(SubSeq(x, b + 1, b + Len(p))) = Len(p)
          /\ \A i \in 1 .. Len(p) : SubSeq(x, b + 1, b + Len(p))[i] = x[b + i]
      BY <3>1, Part
    <3>. QED  BY <3>1, <3>2
  <2>. QED  BY <1>3, <2>1, <2>2
<1>. QED  BY <1>1, <1>6, <1>7, <1>8 DEF Split, m

=============================================================================
