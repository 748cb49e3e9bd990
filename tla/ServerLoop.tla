----------------------------- MODULE ServerLoop ----------------------------
(***************************************************************************)
(* The main loop of the server: one thread that polls three sockets and    *)
(* ticks.  PULL brings messages nobody waits on, REPLY brings requests     *)
(* whose clients wait for the answer, the agent's socket brings commands.  *)
(*                                                                         *)
(* The sockets and clients are external: PULL is a count of the messages   *)
(* that wait, REPLY a queue of requests and, since it is a ZMQ_REP socket, *)
(* the client it owes an answer to: until it has sent that answer it       *)
(* refuses to receive, and Socket::receiveString turns the refusal into    *)
(* "no message".  A client is a ZMQ_REQ socket: one request at a time.     *)
(* What handlers do to the game is in FlagCapture and Roster; here a       *)
(* handler takes time and answers or not.                                  *)
(***************************************************************************)
EXTENDS Wire

CONSTANTS
  Client,        \* the clients of the reply socket
  Text,          \* the texts clients send as requests
  Answered,      \* the types whose handler calls InterfaceProcess::reply
  NoClient,      \* the reply socket owes no answer
  TicDuration,   \* Server::m_ticDuration, in units no handler is shorter than
  MaxHandler,    \* bound: how long a message or a command is handled
  MaxTick,       \* bound: how long a tick is handled
  MaxPulled      \* bound: how many messages wait at the puller

ASSUME ClientAssumption == NoClient \notin Client
ASSUME TimeAssumption ==
  TicDuration \in Nat /\ MaxHandler \in Nat \ {0} /\ MaxTick \in Nat \ {0}
ASSUME PullAssumption == MaxPulled \in Nat

Channel == {"PUBLISH", "REPLY"}

VARIABLES
  pc,         \* "enter" or "check": the two places of loopUntilOneMessageIsProcessed
  elapsed,    \* the time since Server::m_previousTic
  first,      \* the first of Server::m_channels
  pulled,     \* the messages that wait at m_puller
  requests,   \* the requests that wait at m_replier, with their clients
  waiting,    \* the clients that wait for an answer
  owed,       \* the client m_replier owes an answer to
  agent,      \* an agent's command waits at m_agentSocket
  overtaken   \* history: how many messages of the other channel were handled
              \* while one of this channel waited; 2 is two or more

socketVars == <<pulled, requests, waiting, owed>>
vars == <<pc, elapsed, first, socketVars, agent, overtaken>>

TypeOK ==
  /\ pc \in {"enter", "check"}
  /\ elapsed \in Nat
  /\ first \in Channel
  /\ pulled \in 0 .. MaxPulled
  /\ requests \in Seq(Client \X Text)
  /\ waiting \subseteq Client
  /\ owed \in Client \cup {NoClient}
  /\ agent \in BOOLEAN
  /\ overtaken \in [Channel -> 0 .. 2]

Init ==
  /\ pc = "enter" /\ elapsed = 0 /\ first = "PUBLISH"
  /\ pulled = 0 /\ requests = <<>> /\ waiting = {} /\ owed = NoClient
  /\ agent = FALSE /\ overtaken = [c \in Channel |-> 0]

----------------------------------------------------------------------------
(* The world *)

SendMessage ==
  /\ pulled < MaxPulled /\ pulled' = pulled + 1
  /\ UNCHANGED <<pc, elapsed, first, requests, waiting, owed, agent, overtaken>>

SendRequest(c, text) ==
  /\ c \notin waiting /\ waiting' = waiting \cup {c}
  /\ requests' = Append(requests, <<c, text>>)
  /\ UNCHANGED <<pc, elapsed, first, pulled, owed, agent, overtaken>>

SendCommand ==
  /\ ~agent /\ agent' = TRUE
  /\ UNCHANGED <<pc, elapsed, first, socketVars, overtaken>>

----------------------------------------------------------------------------
(* The loop *)

\* Mutant: nobody reads the agent's socket.
IgnoreAgentProxy == UNCHANGED agent

\* Server::feedAgentProxy reads and answers one command, if there is one.
FeedAgentProxy == agent' = FALSE

\* The start of loopUntilOneMessageIsProcessed.
Enter ==
  /\ pc = "enter" /\ pc' = "check"
  /\ FeedAgentProxy
  /\ \E d \in 0 .. MaxHandler : elapsed' = IF agent THEN elapsed + d ELSE elapsed
  /\ UNCHANGED <<first, socketVars, overtaken>>

\* Mutant: m_previousTic is not moved.
TickAgain ==
  /\ pc = "check" /\ elapsed >= TicDuration
  /\ FeedAgentProxy
  /\ UNCHANGED <<pc, elapsed, first, socketVars, overtaken>>

\* The time to tick has come: the tick goes before every message.  m_previousTic
\* is when the tick started.
Tick ==
  /\ pc = "check" /\ elapsed >= TicDuration
  /\ FeedAgentProxy
  /\ elapsed' \in 1 .. MaxTick
  /\ UNCHANGED <<pc, first, socketVars, overtaken>>

CanReceive(c) ==
  IF c = "PUBLISH" THEN pulled > 0 ELSE owed = NoClient /\ requests # <<>>

\* Mutant: the channels are always polled in the same order.
SameOrder == UNCHANGED first

\* Mutant: the last permutation is not followed by the first one again.
StaysLast == first' = "REPLY"

\* std::next_permutation of the two channels, after every poll.
NextPermutation == first' = CHOOSE c \in Channel : c # first

\* Poll takes the message of channel c: the first that has one.
Chosen(c) == CanReceive(c) /\ (c = first \/ ~CanReceive(first))

\* The history after a message of channel c was handled.
Overtake(c) ==
  overtaken' = [o \in Channel |->
    IF o = c \/ ~CanReceive(o) THEN 0
    ELSE IF overtaken[o] = 0 THEN 1 ELSE 2]

\* Mutant: time has no say when a message waits.
PollEarly == pc = "check"

\* The poll happens between two ticks.
Polls == pc = "check" /\ elapsed < TicDuration

Handled == /\ pc' = "enter"
           /\ \E d \in 1 .. MaxHandler : elapsed' = elapsed + d

\* A message of the puller: what its handler answers is published.
ReceiveMessage ==
  /\ Polls /\ Chosen("PUBLISH")
  /\ pulled' = pulled - 1
  /\ NextPermutation /\ Overtake("PUBLISH") /\ Handled
  /\ UNCHANGED <<requests, waiting, owed, agent>>

\* ProcessDecider::process finds the handler by the type the text splits to;
\* a text without a type has none.  InterfaceProcess::reply, on the channel of
\* the request, is called by the handlers of Answered only.
Reply(c, text) ==
  IF Type(text) \in Answered THEN waiting' = waiting \ {c} /\ UNCHANGED owed
                             ELSE owed' = c /\ UNCHANGED waiting

\* A request that waits at the replier.
ReceiveRequest ==
  /\ Polls /\ Chosen("REPLY")
  /\ requests' = Tail(requests)
  /\ Reply(requests[1][1], requests[1][2])
  /\ NextPermutation /\ Overtake("REPLY") /\ Handled
  /\ UNCHANGED <<pulled, agent>>

\* No message: the loop sleeps, since usleep is given a tenth of the tic's
\* milliseconds, for less than any handler takes.
Sleep ==
  /\ Polls /\ \A c \in Channel : ~CanReceive(c)
  /\ elapsed' = elapsed + 1
  /\ NextPermutation
  /\ UNCHANGED <<pc, socketVars, agent, overtaken>>

Poll == ReceiveMessage \/ ReceiveRequest \/ Sleep

----------------------------------------------------------------------------
World == SendMessage \/ SendCommand \/ \E c \in Client, text \in Text : SendRequest(c, text)

Loop == Enter \/ Tick \/ Poll

Next == World \/ Loop

Spec == Init /\ [][Next]_vars

\* The thread of the loop runs; of clients and agents nothing is assumed.
FairSpec == Spec /\ WF_vars(Loop)

----------------------------------------------------------------------------
(* Properties *)

\* However many messages wait, the loop is late for a tick by less than the
\* handling of one message and one command: this is what makes the ticks of
\* FlagCapture happen in time.  (The check of time comes before the poll and
\* is repeated for every message, Server.cpp:111-141.)
TickOnTime == elapsed < TicDuration + 2 * MaxHandler

\* Neither channel starves the other: no message, and no request the replier
\* can receive, is overtaken more than once by what comes through the other
\* channel, in whatever order they come and however ticks and sleeps change the
\* order of the channels in between (Server.cpp:88-101).
OvertakenOnce == \A c \in Channel : overtaken[c] <= 1

\* While every text a client sends is of a type that is answered, the reply
\* socket is ready whenever the loop polls it, and the clients that wait are
\* exactly those with a request in the queue, each of them once.
ReplierReady ==
  /\ owed = NoClient
  /\ waiting = {requests[i][1] : i \in 1 .. Len(requests)}
  /\ \A i, j \in 1 .. Len(requests) : requests[i][1] = requests[j][1] => i = j

\* "Loop eternaly to process all incoming messages" (Server.hpp:56): a client
\* that waits is answered, also while others flood every socket.
RequestsAnswered == \A c \in Client : c \in waiting ~> c \notin waiting

=============================================================================
