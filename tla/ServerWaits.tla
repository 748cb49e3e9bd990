----------------------------- MODULE ServerWaits ---------------------------
(***************************************************************************)
(* How long the server keeps its peers waiting: ServerLoop, with histories *)
(* of the time its thread has spent since a command, a message or a        *)
(* request came.  A wait begins at the step of the loop after which the    *)
(* peer is there, and ends when its handler is called.                     *)
(***************************************************************************)
EXTENDS ServerLoop, FiniteSets

VARIABLES
  commandWait,  \* how long the agent's command waits
  requestWait,  \* how long each client waits
  followed,     \* one message of the puller is followed: its place in the
                \* queue, 0 while there is none
  messageWait   \* how long it waits

waitVars == <<commandWait, requestWait, followed, messageWait>>

InitWaits ==
  /\ Init
  /\ commandWait = 0 /\ requestWait = [c \in Client |-> 0]
  /\ followed = 0 /\ messageWait = 0

\* While the thread spends d in a step, everyone who waits after it has waited.
Spends(d) ==
  /\ commandWait' = IF agent' THEN commandWait + d ELSE 0
  /\ requestWait' = [c \in Client |-> IF c \in waiting' THEN requestWait[c] + d ELSE 0]
  /\ followed' = IF followed = 0 THEN 0 ELSE followed - (pulled - pulled')
  /\ messageWait' = IF followed' # 0 THEN messageWait + d ELSE 0

\* m_previousTic is when the tick starts, so all the time since it is the tick's.
LoopWaits == \/ (Enter \/ Poll) /\ Spends(elapsed' - elapsed)
             \/ Tick /\ Spends(elapsed')

\* Any message may be the one that is followed.
WorldWaits ==
  /\ World
  /\ \/ UNCHANGED followed
     \/ pulled' # pulled /\ followed = 0 /\ followed' = pulled'
  /\ UNCHANGED <<commandWait, requestWait, messageWait>>

NextWaits == WorldWaits \/ LoopWaits

SpecWaits == InitWaits /\ [][NextWaits]_<<vars, waitVars>>

----------------------------------------------------------------------------
(* Properties *)

\* An agent's command waits for less than a tic and a message, however many
\* messages come and also when none does: it is read before every message and in
\* every tick (Server.cpp:105, 133).
CommandWithin == agent => commandWait < TicDuration + MaxHandler

\* The longest the loop takes from one message to the next, when one waits: the
\* message, a command, and the tick that comes first, with the command it reads.
Turn == 2 * MaxHandler + MaxTick

\* While ticks are handled within a tic and every text is answered, a client is
\* answered within two turns for each client there is, whatever floods the
\* puller: the channels take turns and no time is slept away while a request
\* waits (Server.cpp:88-141).
RequestWithin ==
  \A c \in waiting : requestWait[c] + MaxHandler <= 2 * Cardinality(Client) * Turn

\* The same of the messages nobody waits for, whatever the clients request and
\* whether or not they can be answered.
MessageWithin == followed # 0 => messageWait + MaxHandler <= 2 * MaxPulled * Turn

=============================================================================
