----------------------------- MODULE Lifecycle -----------------------------
(***************************************************************************)
(* The life of the program, from main to its exit: the father process that *)
(* serves the game, the child it forks to answer UDP discovery, and the    *)
(* signals and agent commands that stop them.                              *)
(*                                                                         *)
(* Both processes run the same steps on their own copy of Application: it  *)
(* makes its server, says it is RUNNING, enters a loop and tests a flag    *)
(* before each iteration.  The handler of signals runs between any two of  *)
(* these steps.  ServerLoop has what an iteration of the father does; the  *)
(* child answers a datagram, or waits for one in vain.                     *)
(*                                                                         *)
(* A process may fail: the father when it makes its server or in an        *)
(* iteration, by an exception that nothing catches or a crash, and the     *)
(* child when it joins the multicast group.                                *)
(***************************************************************************)
EXTENDS Discovery

CONSTANTS
  Modes,       \* how the program may be run: "broadcast", "plain", "dry-run"
  MaxSignals,  \* bound: how many signals users send
  Datagrams    \* what clients send to discover the server

ASSUME ModeAssumption == Modes \subseteq {"broadcast", "plain", "dry-run"}
ASSUME SignalAssumption == MaxSignals \in Nat
ASSUME DatagramAssumption == Datagrams \subseteq Seq(Nat)

Process == {"server", "broadcast"}

VARIABLES
  mode,     \* the command line
  pc,       \* where each process is in Application::run
  state,    \* Application::m_state of each process
  looping,  \* m_mainLoopRunning of its Server or BroadcastServer
  forced,   \* its m_forcedStop
  server,   \* m_server of the father, m_broadcastServer of the child: "none", "made"
            \* or "deleted"
  failed,   \* the processes that end by an error and not of their own accord
  pending,  \* a signal waits to be handled by the process
  signals,  \* how many signals users sent
  buffer,   \* aMessageBuffer of the child, zeroed before its loop
  datagram, \* the last datagram the child received
  answer    \* what it answered; <<>> before the first one

discoveryVars == <<buffer, datagram, answer>>
vars == <<mode, pc, state, looping, forced, server, failed, pending, signals,
          discoveryVars>>

Place == {"main", "init", "made", "running", "loop", "iterate", "left", "wait",
          "clean", "cleaned", "exited"}

TypeOK ==
  /\ mode \in {"broadcast", "plain", "dry-run"}
  /\ pc \in [Process -> Place]
  /\ state \in [Process -> {"CREATED", "RUNNING", "STOPPED"}]
  /\ looping \in [Process -> BOOLEAN] /\ forced \in [Process -> BOOLEAN]
  /\ server \in [Process -> {"none", "made", "deleted"}] /\ failed \subseteq Process
  /\ pending \in [Process -> BOOLEAN]
  /\ signals \in 0 .. MaxSignals
  /\ buffer \in [1 .. Limit -> Nat]
  /\ datagram \in Datagrams \cup {<<>>} /\ answer \in Seq(Nat)
  /\ \A p \in Process : looping[p] => pc[p] \notin {"main", "init", "made", "running"}

Init ==
  /\ mode \in Modes
  /\ pc = [p \in Process |-> IF p = "server" THEN "main" ELSE "exited"]
  /\ state = [p \in Process |-> "CREATED"]
  /\ looping = [p \in Process |-> FALSE] /\ forced = [p \in Process |-> FALSE]
  /\ server = [p \in Process |-> "none"] /\ failed = {}
  /\ pending = [p \in Process |-> FALSE] /\ signals = 0
  /\ buffer = Blank /\ datagram = <<>> /\ answer = <<>>

Go(p, from, to) == pc[p] = from /\ pc' = [pc EXCEPT ![p] = to]

----------------------------------------------------------------------------
(* Application::run *)

\* The father forks in broadcast mode.  When fork fails it goes on as if it had
\* a child that is over.
Start ==
  /\ pc["server"] = "main"
  /\ \E child \in IF mode = "broadcast" THEN {"init", "exited"} ELSE {"exited"} :
       pc' = [pc EXCEPT !["server"] = "init", !["broadcast"] = child]
  /\ UNCHANGED <<mode, state, looping, forced, server, failed, pending, signals, discoveryVars>>

\* initServer or initBroadcastServer.
MakeServer(p) ==
  /\ Go(p, "init", "made")
  /\ server' = [server EXCEPT ![p] = "made"]
  /\ UNCHANGED <<mode, state, looping, forced, failed, pending, signals, discoveryVars>>

\* The father ends at once, without kill, waitpid or clean.
FatherFails(from) ==
  /\ Go("server", from, "exited")
  /\ failed' = failed \cup {"server"}
  /\ UNCHANGED <<mode, state, looping, forced, server, pending, signals, discoveryVars>>

\* initServer fails: a socket of the Server cannot be bound and its constructor
\* throws, or CreateItem gives no item and the log reads it.
ServerFails == FatherFails("init")

\* An iteration throws: m_robots.at for a robot removed after its registration, or
\* substr for a bare "json".
IterationThrows == FatherFails("iterate")

\* m_state = RUNNING; the dry run returns there.
SetRunning(p) ==
  /\ Go(p, "made", IF mode = "dry-run" THEN "clean" ELSE "running")
  /\ state' = [state EXCEPT ![p] = "RUNNING"]
  /\ UNCHANGED <<mode, looping, forced, server, failed, pending, signals, discoveryVars>>

\* m_mainLoopRunning = true, whatever it was.
EnterLoop(p) ==
  /\ Go(p, "running", "loop")
  /\ looping' = [looping EXCEPT ![p] = TRUE]
  /\ UNCHANGED <<mode, state, forced, server, failed, pending, signals, discoveryVars>>

\* The child cannot join the multicast group and leaves by exit(1), whatever its
\* state: exit runs ~Application, hence clean.
JoinFails ==
  /\ Go("broadcast", "running", "clean")
  /\ failed' = failed \cup {"broadcast"}
  /\ UNCHANGED <<mode, state, looping, forced, server, pending, signals, discoveryVars>>

\* while (m_mainLoopRunning)
TestLoop(p) ==
  /\ Go(p, "loop", IF looping[p] THEN "iterate" ELSE "left")
  /\ UNCHANGED <<mode, state, looping, forced, server, failed, pending, signals, discoveryVars>>

\* Mutant: the flag is raised in the loop, not before it.
IterateRaising(p) ==
  /\ Go(p, "iterate", "loop") /\ looping' = [looping EXCEPT ![p] = TRUE]
  /\ UNCHANGED <<mode, state, forced, server, failed, pending, signals, discoveryVars>>

\* One iteration: of the father, when a message comes or it sees m_forcedStop; of
\* the child, when nothing comes until its receive times out.
Iterate(p) ==
  /\ Go(p, "iterate", "loop")
  /\ UNCHANGED <<mode, state, looping, forced, server, failed, pending, signals, discoveryVars>>

\* A datagram comes in an iteration of the child: it is read, its bytes are
\* zeroed for the next one, and it is answered.
Receive(d) ==
  /\ Go("broadcast", "iterate", "loop")
  /\ datagram' = d
  /\ answer' \in Answers(buffer, d)
  /\ buffer' = Zeroed(Filled(buffer, d), ReadSize(d))
  /\ UNCHANGED <<mode, state, looping, forced, server, failed, pending, signals>>

\* The child leaves by exit(0), which runs ~Application.
ChildExits ==
  /\ Go("broadcast", "left", "clean")
  /\ UNCHANGED <<mode, state, looping, forced, server, failed, pending, signals, discoveryVars>>

\* Mutant: the father leaves it to the user to signal the child.
KillNobody ==
  /\ Go("server", "left", IF mode = "broadcast" THEN "wait" ELSE "clean")
  /\ UNCHANGED <<mode, state, looping, forced, server, failed, pending, signals, discoveryVars>>

\* The father sends SIGTERM to the child it has, which may be over already.
KillChild ==
  /\ Go("server", "left", IF mode = "broadcast" THEN "wait" ELSE "clean")
  /\ pending' = IF mode = "broadcast" THEN [pending EXCEPT !["broadcast"] = TRUE]
                                      ELSE pending
  /\ UNCHANGED <<mode, state, looping, forced, server, failed, signals, discoveryVars>>

\* Mutant: the father asks once whether the child is over.
WaitOnce ==
  /\ Go("server", "wait", "clean")
  /\ UNCHANGED <<mode, state, looping, forced, server, failed, pending, signals, discoveryVars>>

\* The father waits for the child to be over.
WaitChild ==
  /\ Go("server", "wait", "clean") /\ pc["broadcast"] = "exited"
  /\ UNCHANGED <<mode, state, looping, forced, server, failed, pending, signals, discoveryVars>>

\* Application::clean, of main in the father and of exit in the child: the server
\* of the process is deleted, then forgotten.
DeleteServer(p) ==
  /\ Go(p, "clean", "cleaned") /\ server' = [server EXCEPT ![p] = "deleted"]
  /\ UNCHANGED <<mode, state, looping, forced, failed, pending, signals, discoveryVars>>

ForgetServer(p) ==
  /\ Go(p, "cleaned", "exited") /\ server' = [server EXCEPT ![p] = "none"]
  /\ UNCHANGED <<mode, state, looping, forced, failed, pending, signals, discoveryVars>>

----------------------------------------------------------------------------
(* Stopping *)

\* Mutant: the loop is told to stop and the application keeps its state.
StopServer(p) ==
  /\ IF state[p] = "RUNNING"
     THEN /\ forced' = [forced EXCEPT ![p] = TRUE]
          /\ looping' = [looping EXCEPT ![p] = FALSE]
     ELSE UNCHANGED <<forced, looping>>
  /\ UNCHANGED state

\* Mutant: the flag of the inner loop is raised and that of the outer one kept.
StopForced(p) ==
  IF state[p] = "RUNNING"
  THEN /\ forced' = [forced EXCEPT ![p] = TRUE]
       /\ state' = [state EXCEPT ![p] = "STOPPED"]
       /\ UNCHANGED looping
  ELSE UNCHANGED <<forced, looping, state>>

\* Application::stop: the server it has is told to stop, but only when RUNNING.
Stop(p) ==
  IF state[p] = "RUNNING"
  THEN /\ forced' = [forced EXCEPT ![p] = TRUE]
       /\ looping' = [looping EXCEPT ![p] = FALSE]
       /\ state' = [state EXCEPT ![p] = "STOPPED"]
  ELSE UNCHANGED <<forced, looping, state>>

\* A user signals a process, or both at once from the terminal.
SendSignal(ps) ==
  /\ signals < MaxSignals /\ signals' = signals + 1
  /\ pending' = [p \in Process |-> pending[p] \/ (p \in ps /\ pc[p] # "exited")]
  /\ UNCHANGED <<mode, pc, state, looping, forced, server, failed, discoveryVars>>

\* The signal handler.  A process that is over has none.
HandleSignal(p) ==
  /\ pending[p] /\ pc[p] # "exited"
  /\ pending' = [pending EXCEPT ![p] = FALSE]
  /\ Stop(p)
  /\ UNCHANGED <<mode, pc, server, failed, signals, discoveryVars>>

\* AgentProxy::stopApplication, in an iteration of the father.
StopByAgent ==
  /\ pc["server"] = "iterate"
  /\ Stop("server")
  /\ UNCHANGED <<mode, pc, server, failed, pending, signals, discoveryVars>>

----------------------------------------------------------------------------
Step(p) ==
  \/ MakeServer(p) \/ SetRunning(p) \/ EnterLoop(p) \/ TestLoop(p)
  \/ DeleteServer(p) \/ ForgetServer(p)

FatherOnly == Start \/ KillChild \/ WaitChild

Failure == ServerFails \/ IterationThrows \/ JoinFails

\* An iteration ends by itself only when a message comes.
Message == (\E p \in Process : Iterate(p)) \/ \E d \in Datagrams : Receive(d)

Users == StopByAgent \/ \E ps \in SUBSET Process : SendSignal(ps)

\* The program is over.
Over == (\A p \in Process : pc[p] = "exited") /\ UNCHANGED vars

Next ==
  \/ \E p \in Process : Step(p) \/ HandleSignal(p)
  \/ FatherOnly \/ ChildExits \/ Failure \/ Message \/ Users \/ Over

Spec == Init /\ [][Next]_vars

\* Both processes run and handle their signals.  An iteration of the child ends
\* by its time-out and one of the father, unless it throws, once m_forcedStop is
\* set; nobody has to fail or to send a message, a signal or a command.
FairSpec ==
  /\ Spec
  /\ \A p \in Process : WF_vars(Step(p)) /\ WF_vars(HandleSignal(p))
  /\ WF_vars(FatherOnly) /\ WF_vars(ChildExits)
  /\ WF_vars(Iterate("broadcast") \/ \E d \in Datagrams : Receive(d))
  /\ WF_vars(forced["server"] /\ Iterate("server"))

----------------------------------------------------------------------------
(* Properties *)

\* A father that does not fail never leaves its child behind: when it cleans up or
\* is over, the child is over, however the father left its loop and whether the
\* child was asked to end, had ended or had failed to join (Application.cpp:634-645).
\* A father that fails does leave it.
NoOrphan ==
  pc["server"] \in {"clean", "cleaned", "exited"} /\ "server" \notin failed
    => pc["broadcast"] = "exited"

\* A signal handled between the deletion of a process's server and its nullptr
\* never reaches the deleted server: the application is no longer RUNNING when it
\* cleans up, by whichever of signal and command it was stopped and however often
\* (Application.cpp:669-704).  Except in two cases that clean up while RUNNING: a
\* dry run, and a child that could not join the multicast group.
HandlerSparesDeleted ==
  \A p \in Process :
    server[p] = "deleted" /\ mode # "dry-run" /\ p \notin failed => state[p] # "RUNNING"

\* A running process in its loop is stopped by one signal, wherever in the loop
\* the signal comes and whether or not a message ever comes (Server.cpp:103-161,
\* BroadcastServer.cpp:84-156): so is a child whose father failed.
InLoop(p) == pc[p] \in {"loop", "iterate"}
Running(p) == InLoop(p) /\ state[p] = "RUNNING"
LoopStops == \A p \in Process : Running(p) /\ pending[p] ~> ~InLoop(p)

\* When both processes run their loops a signal to the father alone ends both,
\* unless the father throws in the iteration it is in: it passes the signal on and
\* waits (Application.cpp:634-645).
ShutdownCompletes ==
  (\A p \in Process : Running(p)) /\ pending["server"]
    ~> (\A p \in Process : pc[p] = "exited") \/ "server" \in failed

\* Once the flag of its loop is down a process starts no other iteration, and
\* every step it takes is one towards its exit, whatever signals and commands
\* still come and whatever the other process does (Server.cpp:103-161,
\* BroadcastServer.cpp:84-156, Application.cpp:625-649).
WayOut == [iterate |-> 6, loop |-> 5, left |-> 4, wait |-> 3, clean |-> 2, cleaned |-> 1]
Leaving(p) == pc[p] \in DOMAIN WayOut /\ (InLoop(p) => ~looping[p])
OnlyOut ==
  [][\A p \in Process : Leaving(p) =>
       \/ pc'[p] = "exited"
       \/ Leaving(p)' /\ (pc'[p] # pc[p] => WayOut[pc'[p]] < WayOut[pc[p]])]_vars

\* A datagram is answered by what it says itself, whatever longer or shorter ones
\* came before it into the same buffer (BroadcastServer.cpp:87-105).
OwnAnswer == answer # <<>> => answer \in Answers(Blank, datagram)

\* "Correctly stop the server" (Server.hpp:58, BroadcastServer.hpp:22): when
\* Application::stop has told its server to stop, the process ends.
AcceptedStopEnds == \A p \in Process : state[p] = "STOPPED" ~> pc[p] = "exited"

=============================================================================
