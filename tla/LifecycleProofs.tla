-------------------------- MODULE LifecycleProofs --------------------------
(***************************************************************************)
(* Theorems about Lifecycle, for every set of modes, any number of signals *)
(* and every set of datagrams.                                             *)
(***************************************************************************)
EXTENDS Lifecycle, SequenceTheorems, TLAPS

\* Before the fork there is no child, and there is one in broadcast mode only.
ChildInv ==
  /\ pc["server"] = "main" => pc["broadcast"] = "exited" /\ ~looping["broadcast"]
  /\ mode # "broadcast" => pc["broadcast"] = "exited"

\* A process leaves its loop by Application::stop only, and one that did not fail
\* deletes its server after it.
LoopInv ==
  \A p \in Process :
    /\ pc[p] \in {"loop", "iterate"} /\ ~looping[p] => state[p] = "STOPPED"
    /\ pc[p] \in {"left", "wait", "clean", "cleaned"} /\ mode # "dry-run" /\ p \notin failed
         => state[p] = "STOPPED"
    /\ server[p] = "deleted" => pc[p] = "cleaned"

\* The bytes of a datagram are zeroed before the next one comes, so each comes
\* into a blank buffer.
BufferInv == buffer = Blank /\ OwnAnswer

Inv == TypeOK /\ ChildInv /\ NoOrphan /\ LoopInv /\ BufferInv

----------------------------------------------------------------------------
LEMMA BlankType == Blank \in [1 .. Limit -> Nat]
BY DEF Blank, Nul

LEMMA InitInv == Init => Inv
BY ModeAssumption, SignalAssumption, BlankType
   DEF Init, Inv, TypeOK, ChildInv, NoOrphan, LoopInv, BufferInv, OwnAnswer, Process, Place

\* An answer is a sequence of numbers whatever the version.
LEMMA AnswerType == ASSUME NEW version PROVE Answer(version) \in Seq(Nat)
<1>1. ASSUME NEW tag \in Nat, NEW url \in Seq(Nat) PROVE Section(tag, url) \in Seq(Nat)
  <2>1. Len(url) % Uint8 \in Nat
    BY UrlAssumption
  <2> QED BY <2>1 DEF Section
<1>2. /\ Section(160, PullerUrl) \in Seq(Nat) /\ Section(161, PublisherUrl) \in Seq(Nat)
      /\ Section(162, ReplierUrl) \in Seq(Nat) /\ Section(163, AgentUrl) \in Seq(Nat)
  BY <1>1, UrlAssumption
<1>3. <<>> \in Seq(Nat) /\ <<Nul>> \in Seq(Nat)
  BY DEF Nul
<1>4. \A s, t \in Seq(Nat) : s \o t \in Seq(Nat)
  OBVIOUS
<1> DEFINE A == IF version >= 0 THEN Section(160, PullerUrl) \o Section(161, PublisherUrl) ELSE <<>>
           B == IF version >= 1 THEN Section(162, ReplierUrl) ELSE <<>>
           C == IF version >= 2 THEN Section(163, AgentUrl) ELSE <<>>
<1>5. A \in Seq(Nat) /\ B \in Seq(Nat) /\ C \in Seq(Nat)
  BY <1>2, <1>3, <1>4
<1>6. Answer(version) = A \o B \o C \o <<Nul>>
  BY DEF Answer
<1> HIDE DEF A, B, C
<1> QED BY <1>3, <1>4, <1>5, <1>6

\* What a datagram wrote into a blank buffer is zeroed, so the buffer is blank
\* again.
LEMMA ZeroedBlank ==
  ASSUME NEW d \in Seq(Nat)
  PROVE  Zeroed(Filled(Blank, d), ReadSize(d)) = Blank
<1>1. Len(d) \in Nat /\ ReadSize(d) \in Nat /\ ReadSize(d) <= Len(d)
  BY LimitAssumption DEF ReadSize
<1>2. \A i \in 1 .. Limit : ~(i <= ReadSize(d)) => Filled(Blank, d)[i] = Nul
  BY <1>1 DEF Filled, Blank
<1> QED BY <1>2 DEF Zeroed, Blank

LEMMA ReceiveKeeps ==
  ASSUME Inv, NEW d \in Datagrams, Receive(d)
  PROVE  Inv'
<1>1. d \in Seq(Nat)
  BY DatagramAssumption
<1>2. buffer' = Blank /\ datagram' = d /\ answer' \in Answers(Blank, d)
  BY <1>1, ZeroedBlank DEF Receive, Inv, BufferInv
<1>3. answer' \in Seq(Nat)
  BY <1>2, AnswerType DEF Answers
<1>4. TypeOK'
  BY <1>2, <1>3, BlankType DEF Receive, Go, Inv, TypeOK, Process, Place
<1>5. (ChildInv /\ NoOrphan /\ LoopInv)'
  BY DEF Receive, Go, Inv, TypeOK, ChildInv, NoOrphan, LoopInv, Process, Place
<1>6. BufferInv'
  BY <1>2 DEF BufferInv, OwnAnswer
<1> QED BY <1>4, <1>5, <1>6 DEF Inv

\* Application::stop leaves a process that is not RUNNING alone and moves one
\* that is to STOPPED.
LEMMA StopType ==
  ASSUME TypeOK, NEW p \in Process, Stop(p), UNCHANGED pc
  PROVE  /\ state' \in [Process -> {"CREATED", "RUNNING", "STOPPED"}]
         /\ looping' \in [Process -> BOOLEAN] /\ forced' \in [Process -> BOOLEAN]
         /\ \A q \in Process : looping'[q] => looping[q]
         /\ \A q \in Process : state[q] = "STOPPED" => state'[q] = "STOPPED"
         /\ \A q \in Process : looping[q] /\ ~looping'[q] => state'[q] = "STOPPED"
<1>1. CASE state[p] = "RUNNING"
  <2>1. /\ state' = [state EXCEPT ![p] = "STOPPED"]
        /\ looping' = [looping EXCEPT ![p] = FALSE]
        /\ forced' = [forced EXCEPT ![p] = TRUE]
    BY <1>1 DEF Stop
  <2>2. /\ state \in [Process -> {"CREATED", "RUNNING", "STOPPED"}]
        /\ looping \in [Process -> BOOLEAN] /\ forced \in [Process -> BOOLEAN]
    BY DEF TypeOK
  <2>3. \A q \in Process : looping[q] /\ ~looping'[q] => q = p
    BY <2>1, <2>2, Zenon
  <2>4. \A q \in Process : looping'[q] => looping[q]
    BY <2>1, <2>2, Zenon
  <2>5. forced' \in [Process -> BOOLEAN] /\ looping' \in [Process -> BOOLEAN]
    BY <2>1, <2>2
  <2>. QED  BY <2>1, <2>2, <2>3, <2>4, <2>5
<1>2. CASE state[p] # "RUNNING"
  BY <1>2 DEF TypeOK, Stop
<1> QED BY <1>1, <1>2

LEMMA StopKeeps ==
  ASSUME Inv, NEW p \in Process, Stop(p), UNCHANGED <<mode, pc, server, failed, discoveryVars>>,
         pending' \in [Process -> BOOLEAN], UNCHANGED signals
  PROVE  Inv'
<1>1. TypeOK'
  BY StopType DEF Inv, TypeOK, Process, discoveryVars
<1>2. ChildInv' /\ NoOrphan'
  BY StopType DEF Inv, ChildInv, NoOrphan, TypeOK, Process
<1>3. LoopInv'
  BY StopType DEF Inv, LoopInv, TypeOK, Process
<1>4. BufferInv'
  BY DEF Inv, BufferInv, OwnAnswer, discoveryVars
<1> QED BY <1>1, <1>2, <1>3, <1>4 DEF Inv

LEMMA StepKeeps ==
  ASSUME Inv, NEW p \in Process, Step(p)
  PROVE  Inv'
<1> USE DEF Go, Process, Place, TypeOK, ChildInv, NoOrphan, LoopInv, BufferInv,
            OwnAnswer, discoveryVars
<1>1. CASE MakeServer(p)
  BY <1>1 DEF MakeServer, Inv
<1>2. CASE SetRunning(p)
  BY <1>2 DEF SetRunning, Inv
<1>3. CASE EnterLoop(p)
  BY <1>3 DEF EnterLoop, Inv
<1>4. CASE TestLoop(p)
  BY <1>4 DEF TestLoop, Inv
<1>5. CASE DeleteServer(p)
  BY <1>5 DEF DeleteServer, Inv
<1>6. CASE ForgetServer(p)
  BY <1>6 DEF ForgetServer, Inv
<1> QED BY <1>1, <1>2, <1>3, <1>4, <1>5, <1>6 DEF Step

LEMMA NextInv == Inv /\ [Next]_vars => Inv'
<1> SUFFICES ASSUME Inv, [Next]_vars PROVE Inv'
  OBVIOUS
<1>1. ASSUME NEW p \in Process, Step(p) PROVE Inv'
  BY <1>1, StepKeeps
<1>2. ASSUME NEW p \in Process, HandleSignal(p) PROVE Inv'
  BY <1>2, StopKeeps DEF HandleSignal, Inv, TypeOK
<1>3. CASE StopByAgent
  BY <1>3, StopKeeps DEF StopByAgent, Inv, TypeOK, Process
<1>4. ASSUME NEW ps \in SUBSET Process, SendSignal(ps) PROVE Inv'
  BY <1>4, SignalAssumption
     DEF SendSignal, Inv, TypeOK, ChildInv, NoOrphan, LoopInv, BufferInv, OwnAnswer,
         discoveryVars, Process
<1>5. CASE Start
  BY <1>5 DEF Start, Inv, TypeOK, ChildInv, NoOrphan, LoopInv,
      BufferInv, OwnAnswer, discoveryVars, Process, Place
<1>6. CASE KillChild
  BY <1>6 DEF KillChild, Go, Inv, TypeOK, ChildInv, NoOrphan, LoopInv,
      BufferInv, OwnAnswer, discoveryVars, Process, Place
<1>7. CASE WaitChild
  BY <1>7 DEF WaitChild, Go, Inv, TypeOK, ChildInv, NoOrphan, LoopInv,
      BufferInv, OwnAnswer, discoveryVars, Process, Place
<1>8. CASE ServerFails
  BY <1>8 DEF ServerFails, FatherFails, Go, Inv, TypeOK, ChildInv, NoOrphan, LoopInv,
      BufferInv, OwnAnswer, discoveryVars, Process, Place
<1>9. CASE IterationThrows
  BY <1>9 DEF IterationThrows, FatherFails, Go, Inv, TypeOK, ChildInv, NoOrphan, LoopInv,
      BufferInv, OwnAnswer, discoveryVars, Process, Place
<1>10. CASE ChildExits
  BY <1>10 DEF ChildExits, Go, Inv, TypeOK, ChildInv, NoOrphan, LoopInv,
      BufferInv, OwnAnswer, discoveryVars, Process, Place
<1>11. CASE JoinFails
  BY <1>11 DEF JoinFails, Go, Inv, TypeOK, ChildInv, NoOrphan, LoopInv,
      BufferInv, OwnAnswer, discoveryVars, Process, Place
<1>12. ASSUME NEW p \in Process, Iterate(p) PROVE Inv'
  BY <1>12 DEF Iterate, Go, Inv, TypeOK, ChildInv, NoOrphan, LoopInv,
      BufferInv, OwnAnswer, discoveryVars, Process, Place
<1>13. CASE UNCHANGED vars
  BY <1>13 DEF vars, Inv, TypeOK, ChildInv, NoOrphan, LoopInv, BufferInv, OwnAnswer,
               discoveryVars
<1>14. ASSUME NEW d \in Datagrams, Receive(d) PROVE Inv'
  BY <1>14, ReceiveKeeps
<1> QED
  BY <1>1, <1>2, <1>3, <1>4, <1>5, <1>6, <1>7, <1>8, <1>9, <1>10, <1>11, <1>12, <1>13, <1>14
     DEF Next, FatherOnly, Failure, Message, Users, Over

LEMMA SpecInv == Spec => []Inv
BY InitInv, NextInv, PTL DEF Spec

----------------------------------------------------------------------------
\* The steps of the two processes keep the types, and a loop's flag is up only
\* from its loop on (Server.cpp:147, BroadcastServer.cpp:84).
THEOREM TypeCorrect == Spec => []TypeOK
<1>1. Inv => TypeOK
  BY DEF Inv
<1> QED BY <1>1, SpecInv, PTL

\* However signals and commands come, and whether or not the child could join the
\* multicast group, a father that does not fail cleans up and ends only when its
\* child is over (Application.cpp:634-645).
THEOREM ChildNotLeft == Spec => []NoOrphan
<1>1. Inv => NoOrphan
  BY DEF Inv
<1> QED BY <1>1, SpecInv, PTL

\* However signals and commands come, no handler reaches the deleted server of its
\* process, except in a dry run or in a child that could not join the multicast
\* group (Application.cpp:669-704).
THEOREM DeletedNotReached == Spec => []HandlerSparesDeleted
<1>1. Inv => HandlerSparesDeleted
  BY DEF Inv, LoopInv, HandlerSparesDeleted
<1> QED BY <1>1, SpecInv, PTL

\* Whatever came before it into the same buffer, a datagram is answered by its
\* own bytes (BroadcastServer.cpp:87-105).
THEOREM AnswersOwn == Spec => []OwnAnswer
<1>1. Inv => OwnAnswer
  BY DEF Inv, BufferInv
<1> QED BY <1>1, SpecInv, PTL

----------------------------------------------------------------------------
(* The way out *)

\* Application::stop moves no process and puts no flag up.
LEMMA StopOut ==
  ASSUME TypeOK, NEW p \in Process, Stop(p), UNCHANGED pc,
         NEW q \in Process, Leaving(q)
  PROVE  Leaving(q)' /\ pc'[q] = pc[q]
BY StopType DEF Leaving, InLoop, TypeOK

\* A step of one process that keeps its flag, and those of the other.
LEMMA GoOut ==
  ASSUME TypeOK, NEW p \in Process, NEW from, NEW to, Go(p, from, to), UNCHANGED looping,
         \/ to = "exited"
         \/ /\ from \in DOMAIN WayOut => to \in DOMAIN WayOut /\ WayOut[to] < WayOut[from]
            /\ to \in {"loop", "iterate"} => from \in {"loop", "iterate"},
         NEW q \in Process, Leaving(q)
  PROVE  \/ pc'[q] = "exited"
         \/ Leaving(q)' /\ (pc'[q] # pc[q] => WayOut[pc'[q]] < WayOut[pc[q]])
<1>1. CASE q = p
  BY <1>1 DEF Go, TypeOK, Leaving, InLoop
<1>2. CASE q # p
  <2>1. pc'[q] = pc[q]
    BY <1>2 DEF Go, TypeOK
  <2> QED BY <2>1 DEF Leaving, InLoop
<1> QED BY <1>1, <1>2

LEMMA NextOut ==
  ASSUME Inv, [Next]_vars, NEW q \in Process, Leaving(q)
  PROVE  \/ pc'[q] = "exited"
         \/ Leaving(q)' /\ (pc'[q] # pc[q] => WayOut[pc'[q]] < WayOut[pc[q]])
<1> USE DEF WayOut
<1> DEFINE Out == \/ pc'[q] = "exited"
                  \/ Leaving(q)' /\ (pc'[q] # pc[q] => WayOut[pc'[q]] < WayOut[pc[q]])
<1>0. TypeOK
  BY DEF Inv
<1>1. ASSUME NEW p \in Process, MakeServer(p) PROVE Out
  BY <1>0, <1>1, GoOut DEF MakeServer
<1>2. ASSUME NEW p \in Process, SetRunning(p) PROVE Out
  BY <1>0, <1>2, GoOut DEF SetRunning
<1>3. ASSUME NEW p \in Process, EnterLoop(p) PROVE Out
  <2>1. q # p
    BY <1>3 DEF EnterLoop, Go, Leaving
  <2>2. pc'[q] = pc[q] /\ looping'[q] = looping[q]
    BY <1>0, <1>3, <2>1 DEF EnterLoop, Go, TypeOK
  <2> QED BY <2>2 DEF Leaving, InLoop
<1>4. ASSUME NEW p \in Process, TestLoop(p) PROVE Out
  <2>1. CASE q = p
    <3>1. pc'[q] = "left"
      BY <1>0, <1>4, <2>1 DEF TestLoop, Go, Leaving, InLoop, TypeOK
    <3> QED BY <1>4, <2>1, <3>1 DEF TestLoop, Go, Leaving, InLoop
  <2>2. CASE q # p
    <3>1. pc'[q] = pc[q] /\ looping' = looping
      BY <1>0, <1>4, <2>2 DEF TestLoop, Go, TypeOK
    <3> QED BY <3>1 DEF Leaving, InLoop
  <2> QED BY <2>1, <2>2
<1>5. ASSUME NEW p \in Process, HandleSignal(p) PROVE Out
  BY <1>0, <1>5, StopOut DEF HandleSignal
<1>6. CASE StopByAgent
  BY <1>0, <1>6, StopOut DEF StopByAgent, Process
<1>7. CASE Start
  <2>1. pc["server"] = "main" /\ pc["broadcast"] = "exited"
    BY <1>7 DEF Start, Inv, ChildInv
  <2> QED BY <2>1 DEF Leaving, Process
<1>8. CASE KillChild
  BY <1>0, <1>8, GoOut DEF KillChild, Process
<1>9. CASE WaitChild
  BY <1>0, <1>9, GoOut DEF WaitChild, Process
<1>10. ASSUME NEW p \in Process, DeleteServer(p) PROVE Out
  BY <1>0, <1>10, GoOut DEF DeleteServer
<1>11. ASSUME NEW p \in Process, ForgetServer(p) PROVE Out
  BY <1>0, <1>11, GoOut DEF ForgetServer
<1>12. CASE ChildExits
  BY <1>0, <1>12, GoOut DEF ChildExits, Process
<1>13. CASE JoinFails
  BY <1>0, <1>13, GoOut DEF JoinFails, Process
<1>14. ASSUME NEW p \in Process, Iterate(p) PROVE Out
  BY <1>0, <1>14, GoOut DEF Iterate
<1>15. ASSUME NEW d \in Datagrams, Receive(d) PROVE Out
  BY <1>0, <1>15, GoOut DEF Receive, Process
<1>16. ASSUME NEW ps \in SUBSET Process, SendSignal(ps) PROVE Out
  BY <1>16 DEF SendSignal, Leaving, InLoop
<1>17. CASE UNCHANGED vars
  BY <1>17 DEF vars, Leaving, InLoop
<1>18. CASE ServerFails
  BY <1>0, <1>18, GoOut DEF ServerFails, FatherFails, Process
<1>19. CASE IterationThrows
  BY <1>0, <1>19, GoOut DEF IterationThrows, FatherFails, Process
<1> QED
  BY <1>1, <1>2, <1>3, <1>4, <1>5, <1>6, <1>7, <1>8, <1>9, <1>10, <1>11, <1>12, <1>13, <1>14,
     <1>15, <1>16, <1>17, <1>18, <1>19
     DEF Next, Step, FatherOnly, Failure, Message, Users, Over

\* However signals and commands come, a process whose loop is told to end only
\* goes on to its exit: the steps LoopStops and ShutdownCompletes count on are
\* bounded in number (Server.cpp:103-161, Application.cpp:625-649).
THEOREM StopIsFinal == Spec => OnlyOut
<1>1. Inv /\ [Next]_vars =>
        [\A p \in Process : Leaving(p) =>
           \/ pc'[p] = "exited"
           \/ Leaving(p)' /\ (pc'[p] # pc[p] => WayOut[pc'[p]] < WayOut[pc[p]])]_vars
  BY NextOut
<1> QED BY <1>1, SpecInv, PTL DEF Spec, OnlyOut

----------------------------------------------------------------------------
(* What a client reads *)

\* How a client reads an answer: at a place a tag, then a size, then an address
\* of that size, then the next tag.
TagAt(a, k) == a[k]
UrlAt(a, k) == SubSeq(a, k + 2, k + 1 + a[k + 1])
After(a, k) == k + 2 + a[k + 1]

\* What may stand at a place: a section, or the end.
Shows(a, k, tag, url) == TagAt(a, k) = tag /\ UrlAt(a, k) = url
Finishes(a, k) == Len(a) = k /\ a[k] = Nul

\* A section stands at a place.
Stands(a, k, tag, url) ==
  /\ a \in Seq(Nat) /\ k \in Nat \ {0} /\ url \in Seq(Nat)
  /\ k + 1 + Len(url) <= Len(a)
  /\ a[k] = tag /\ a[k + 1] = Len(url)
  /\ \A i \in 1 .. Len(url) : a[(k + 1) + i] = url[i]

LEMMA Small == ASSUME NEW n \in Nat, NEW u \in Nat \ {0}, n < u PROVE n % u = n
OBVIOUS

\* Two sequences, one behind the other.
LEMMA Behind ==
  ASSUME NEW S, NEW s \in Seq(S), NEW t \in Seq(S), NEW x, x = s \o t
  PROVE  /\ x \in Seq(S) /\ Len(x) = Len(s) + Len(t)
         /\ \A i \in 1 .. Len(s) : x[i] = s[i]
         /\ \A i \in 1 .. Len(t) : x[Len(s) + i] = t[i]
<1>1. x \in Seq(S) /\ Len(x) = Len(s) + Len(t)
  OBVIOUS
<1>2. \A i \in 1 .. Len(s) : x[i] = s[i]
  OBVIOUS
<1>3. \A i \in 1 .. Len(t) : x[Len(s) + i] = t[i]
  OBVIOUS
<1> QED BY <1>1, <1>2, <1>3

\* A section whose address fits a byte stands in itself.
LEMMA StandsInSection ==
  ASSUME NEW tag \in Nat, NEW url \in Seq(Nat), Len(url) < Uint8
  PROVE  Section(tag, url) \in Seq(Nat) /\ Stands(Section(tag, url), 1, tag, url)
<1> DEFINE head == <<tag, Len(url)>>
           x == head \o url
<1>1. Section(tag, url) = x
  <2>1. Len(url) \in Nat
    OBVIOUS
  <2>2. Len(url) % Uint8 = Len(url)
    BY <2>1, Small, UrlAssumption
  <2> QED BY <2>2 DEF Section
<1>2. /\ head \in Seq(Nat) /\ Len(head) = 2 /\ head[1] = tag /\ head[2] = Len(url)
      /\ Len(url) \in Nat
  OBVIOUS
<1> HIDE DEF head
<1>a. x = head \o url
  OBVIOUS
<1> HIDE DEF x
<1>3. /\ x \in Seq(Nat) /\ Len(x) = Len(head) + Len(url)
      /\ \A i \in 1 .. Len(head) : x[i] = head[i]
      /\ \A i \in 1 .. Len(url) : x[Len(head) + i] = url[i]
  <2>1. head \in Seq(Nat)
    BY <1>2
  <2> QED BY <1>a, <2>1, Behind
<1>4. x[1] = tag /\ x[2] = Len(url) /\ Len(x) = 2 + Len(url)
  BY <1>2, <1>3
<1>5. \A i \in 1 .. Len(url) : x[2 + i] = url[i]
  BY <1>2, <1>3
<1>6. Stands(x, 1, tag, url)
  <2>1. 1 \in Nat \ {0} /\ 1 + 1 = 2 /\ 1 + 1 + Len(url) <= Len(x)
    BY <1>2, <1>4
  <2> QED BY <1>3, <1>4, <1>5, <2>1 DEF Stands
<1> QED BY <1>1, <1>3, <1>6

\* What stands in a sequence stands in a longer one.
LEMMA StandsBefore ==
  ASSUME NEW x, NEW y \in Seq(Nat), NEW z, z = x \o y, NEW k, NEW tag,
         NEW url, Stands(x, k, tag, url)
  PROVE  Stands(z, k, tag, url)
<1>1. /\ x \in Seq(Nat) /\ k \in Nat \ {0} /\ k + 1 + Len(url) <= Len(x)
      /\ url \in Seq(Nat)
  BY DEF Stands
<1>2. Len(url) \in Nat /\ Len(x) \in Nat /\ Len(y) \in Nat
  BY <1>1
<1>3. z \in Seq(Nat) /\ Len(z) = Len(x) + Len(y) /\ \A i \in 1 .. Len(x) : z[i] = x[i]
  BY <1>1, Behind
<1>4. k \in 1 .. Len(x) /\ k + 1 \in 1 .. Len(x)
  BY <1>1, <1>2
<1>5. \A i \in 1 .. Len(url) : (k + 1) + i \in 1 .. Len(x)
  BY <1>1, <1>2
<1>6. z[k] = tag /\ z[k + 1] = Len(url)
  BY <1>3, <1>4 DEF Stands
<1>7. \A i \in 1 .. Len(url) : z[(k + 1) + i] = url[i]
  BY <1>3, <1>5 DEF Stands
<1>8. k + 1 + Len(url) <= Len(z)
  BY <1>1, <1>2, <1>3
<1> QED BY <1>1, <1>3, <1>6, <1>7, <1>8 DEF Stands

LEMMA StandsBehind ==
  ASSUME NEW x \in Seq(Nat), NEW y, NEW z, z = x \o y, NEW tag,
         NEW url, Stands(y, 1, tag, url)
  PROVE  Stands(z, Len(x) + 1, tag, url)
<1> DEFINE k == Len(x) + 1
<1>1. y \in Seq(Nat) /\ 1 + 1 + Len(url) <= Len(y) /\ url \in Seq(Nat)
  BY DEF Stands
<1>2. Len(url) \in Nat /\ Len(x) \in Nat /\ Len(y) \in Nat
  BY <1>1
<1>3. /\ z \in Seq(Nat) /\ Len(z) = Len(x) + Len(y)
      /\ \A i \in 1 .. Len(y) : z[Len(x) + i] = y[i]
  BY <1>1, Behind
<1>4. y[1] = tag /\ y[2] = Len(url) /\ \A i \in 1 .. Len(url) : y[2 + i] = url[i]
  BY DEF Stands
<1>5. 1 \in 1 .. Len(y) /\ 2 \in 1 .. Len(y) /\ k + 1 = Len(x) + 2
  BY <1>1, <1>2
<1>6. z[k] = tag /\ z[k + 1] = Len(url)
  BY <1>3, <1>4, <1>5
<1>7. ASSUME NEW i \in 1 .. Len(url) PROVE z[(k + 1) + i] = url[i]
  <2>1. 2 + i \in 1 .. Len(y) /\ (k + 1) + i = Len(x) + (2 + i)
    BY <1>1, <1>2
  <2> QED BY <1>3, <1>4, <2>1
<1>8. k \in Nat \ {0} /\ k + 1 + Len(url) <= Len(z)
  BY <1>1, <1>2, <1>3
<1> QED BY <1>3, <1>6, <1>7, <1>8 DEF Stands

\* The part of a sequence after its first c members.
LEMMA Part ==
  ASSUME NEW S, NEW s \in Seq(S), NEW c \in Nat, NEW k \in Nat, c + k <= Len(s)
  PROVE  /\ SubSeq(s, c + 1, c + k) \in Seq(S)
         /\ Len(SubSeq(s, c + 1, c + k)) = k
         /\ \A j \in 1 .. k : SubSeq(s, c + 1, c + k)[j] = s[c + j]
<1>1. \A j \in c + 1 .. c + k : s[j] \in S
  OBVIOUS
<1> QED BY <1>1

\* What stands is read.
LEMMA StandsShows ==
  ASSUME NEW a, NEW k, NEW tag, NEW url, Stands(a, k, tag, url)
  PROVE  Shows(a, k, tag, url) /\ After(a, k) = k + 2 + Len(url)
<1>1. /\ a \in Seq(Nat) /\ k \in Nat \ {0} /\ k + 1 + Len(url) <= Len(a)
      /\ a[k] = tag /\ a[k + 1] = Len(url) /\ Len(url) \in Nat /\ Len(a) \in Nat
      /\ url \in Seq(Nat)
      /\ \A i \in 1 .. Len(url) : a[(k + 1) + i] = url[i]
  BY DEF Stands
<1> DEFINE u == SubSeq(a, (k + 1) + 1, (k + 1) + Len(url))
<1>2. u = url
  <2>1. /\ u \in Seq(Nat) /\ Len(u) = Len(url)
        /\ \A i \in 1 .. Len(url) : u[i] = a[(k + 1) + i]
    <3>1. k + 1 \in Nat /\ (k + 1) + Len(url) <= Len(a)
      BY <1>1
    <3>2. a \in Seq(Nat) /\ Len(url) \in Nat
      BY <1>1
    <3> QED BY <3>1, <3>2, Part
  <2> HIDE DEF u
  <2>2. \A i \in 1 .. Len(u) : u[i] = url[i]
    BY <1>1, <2>1
  <2>3. url \in Seq(Nat) /\ u \in Seq(Nat) /\ Len(u) = Len(url)
    BY <1>1, <2>1
  <2> QED BY <2>2, <2>3, SeqEqual
<1>3. u = SubSeq(a, k + 2, k + 1 + a[k + 1])
  <2>1. (k + 1) + 1 = k + 2 /\ (k + 1) + Len(url) = k + 1 + a[k + 1]
    BY <1>1
  <2> QED BY <2>1
<1> HIDE DEF u
<1> QED BY <1>1, <1>2, <1>3 DEF Shows, TagAt, UrlAt, After

\* An answer is over behind its sections.
LEMMA EndRead ==
  ASSUME NEW x \in Seq(Nat), NEW a, a = x \o <<Nul>>, NEW k, k = Len(x) + 1
  PROVE  Finishes(a, k)
<1> DEFINE n == <<Nul>>
<1>1. n \in Seq(Nat) /\ Len(n) = 1 /\ n[1] = Nul /\ 1 \in 1 .. 1
  BY DEF Nul
<1>2. a = x \o n
  OBVIOUS
<1> HIDE DEF n
<1>3. Len(a) = Len(x) + Len(n) /\ \A i \in 1 .. Len(n) : a[Len(x) + i] = n[i]
  BY <1>1, <1>2, Behind
<1> QED BY <1>1, <1>3 DEF Finishes

\* A client that follows the tags and sizes of an answer finds the addresses of
\* its version, in order, and then the end, whatever bytes they are made of, when
\* each is shorter than a byte can say (BroadcastServer.cpp:113-138).
THEOREM AddressesRead ==
  ASSUME NEW version \in Nat,
         \A url \in {PullerUrl, PublisherUrl, ReplierUrl, AgentUrl} : Len(url) < Uint8
  PROVE  LET a == Answer(version)
             second == After(a, 1)
             third == After(a, second)
             fourth == After(a, third)
         IN  /\ Shows(a, 1, 160, PullerUrl)
             /\ Shows(a, second, 161, PublisherUrl)
             /\ IF version = 0 THEN Finishes(a, third)
                ELSE /\ Shows(a, third, 162, ReplierUrl)
                     /\ IF version = 1 THEN Finishes(a, fourth)
                        ELSE /\ Shows(a, fourth, 163, AgentUrl)
                             /\ Finishes(a, After(a, fourth))
<1> DEFINE A == Section(160, PullerUrl)
           B == Section(161, PublisherUrl)
           C == IF version >= 1 THEN Section(162, ReplierUrl) ELSE <<>>
           D == IF version >= 2 THEN Section(163, AgentUrl) ELSE <<>>
           N == <<Nul>>
           AB == A \o B
           ABC == AB \o C
           ABCD == ABC \o D
           a == Answer(version)
<1>1. a = ABCD \o N
  <2> DEFINE E == IF version >= 0 THEN AB ELSE <<>>
  <2>1. E = AB
    OBVIOUS
  <2>2. a = ((E \o C) \o D) \o N
    BY Zenon DEF Answer
  <2> QED BY <2>1, <2>2, Zenon
<1>2. /\ A \in Seq(Nat) /\ Stands(A, 1, 160, PullerUrl)
      /\ B \in Seq(Nat) /\ Stands(B, 1, 161, PublisherUrl)
  BY StandsInSection, UrlAssumption
<1>3. /\ C \in Seq(Nat) /\ (version = 0 => C = <<>> /\ Len(C) = 0)
      /\ (version >= 1 => Stands(C, 1, 162, ReplierUrl))
  <2>1. /\ Section(162, ReplierUrl) \in Seq(Nat)
        /\ Stands(Section(162, ReplierUrl), 1, 162, ReplierUrl)
    BY StandsInSection, UrlAssumption
  <2> QED BY <2>1
<1>4. /\ D \in Seq(Nat) /\ (version <= 1 => D = <<>> /\ Len(D) = 0)
      /\ (version >= 2 => Stands(D, 1, 163, AgentUrl))
  <2>1. /\ Section(163, AgentUrl) \in Seq(Nat)
        /\ Stands(Section(163, AgentUrl), 1, 163, AgentUrl)
    BY StandsInSection, UrlAssumption
  <2> QED BY <2>1
<1>5. N \in Seq(Nat)
  BY DEF Nul
<1>6. /\ Len(A) = 2 + Len(PullerUrl) /\ Len(B) = 2 + Len(PublisherUrl)
      /\ (version >= 1 => Len(C) = 2 + Len(ReplierUrl))
      /\ (version >= 2 => Len(D) = 2 + Len(AgentUrl))
  <2>1. ASSUME NEW tag, NEW url \in Seq(Nat) PROVE Len(Section(tag, url)) = 2 + Len(url)
    <3> DEFINE head == <<tag, Len(url) % Uint8>>
    <3>1. head \in Seq({tag, Len(url) % Uint8} \cup Nat) /\ Len(head) = 2
      OBVIOUS
    <3>2. url \in Seq({tag, Len(url) % Uint8} \cup Nat)
      OBVIOUS
    <3>3. Section(tag, url) = head \o url
      BY DEF Section
    <3> DEFINE S == {tag, Len(url) % Uint8} \cup Nat
    <3>4. head \in Seq(S) /\ url \in Seq(S)
      BY <3>1, <3>2
    <3> HIDE DEF head, S
    <3>5. Len(Section(tag, url)) = Len(head) + Len(url)
      BY <3>3, <3>4, Behind
    <3> QED BY <3>1, <3>5
  <2> QED BY <2>1, UrlAssumption
<1>7. /\ Len(PullerUrl) \in Nat /\ Len(PublisherUrl) \in Nat
      /\ Len(ReplierUrl) \in Nat /\ Len(AgentUrl) \in Nat
      /\ PullerUrl \in Seq(Nat) /\ PublisherUrl \in Seq(Nat)
      /\ ReplierUrl \in Seq(Nat) /\ AgentUrl \in Seq(Nat)
  BY UrlAssumption
<1> HIDE DEF A, B, C, D, N
<1>a. AB = A \o B
  OBVIOUS
<1> HIDE DEF AB
<1>b. ABC = AB \o C
  OBVIOUS
<1> HIDE DEF ABC
<1>c. ABCD = ABC \o D
  OBVIOUS
<1> HIDE DEF ABCD, a
<1>d. A \in Seq(Nat) /\ B \in Seq(Nat) /\ C \in Seq(Nat) /\ D \in Seq(Nat)
  BY <1>2, <1>3, <1>4
<1> DEFINE k2 == Len(A) + 1
           k3 == Len(AB) + 1
           k4 == Len(ABC) + 1
<1>e. k2 = Len(A) + 1 /\ k3 = Len(AB) + 1 /\ k4 = Len(ABC) + 1
  OBVIOUS
<1> HIDE DEF k2, k3, k4
<1>8. AB \in Seq(Nat) /\ Len(AB) = Len(A) + Len(B)
  BY <1>a, <1>d, Behind
<1>9. /\ Stands(AB, 1, 160, PullerUrl)
      /\ Stands(AB, k2, 161, PublisherUrl)
  <2>1. Stands(AB, 1, 160, PullerUrl)
    BY <1>2, <1>a, StandsBefore
  <2>2. Stands(AB, k2, 161, PublisherUrl)
    <3>1. A \in Seq(Nat) /\ AB = A \o B /\ k2 = Len(A) + 1
      BY <1>a, <1>d, <1>e
    <3>2. Stands(B, 1, 161, PublisherUrl)
      BY <1>2
    <3>3. Stands(AB, Len(A) + 1, 161, PublisherUrl)
      BY <3>1, <3>2, StandsBehind
    <3> QED BY <3>1, <3>3
  <2> QED BY <2>1, <2>2
<1>10. ABC \in Seq(Nat) /\ Len(ABC) = Len(AB) + Len(C)
  <2>1. AB \in Seq(Nat)
    BY <1>8
  <2> QED BY <1>b, <1>d, <2>1, Behind
<1>11. /\ Stands(ABC, 1, 160, PullerUrl)
       /\ Stands(ABC, k2, 161, PublisherUrl)
       /\ (version >= 1 => Stands(ABC, k3, 162, ReplierUrl))
  <2>1. Stands(ABC, 1, 160, PullerUrl)
    BY <1>9, <1>b, <1>d, StandsBefore
  <2>2. Stands(ABC, k2, 161, PublisherUrl)
    BY <1>9, <1>b, <1>d, StandsBefore
  <2>3. ASSUME version >= 1 PROVE Stands(ABC, k3, 162, ReplierUrl)
    <3>1. AB \in Seq(Nat) /\ ABC = AB \o C /\ k3 = Len(AB) + 1
      BY <1>8, <1>b, <1>e
    <3>2. Stands(C, 1, 162, ReplierUrl)
      BY <1>3, <2>3
    <3>3. Stands(ABC, Len(AB) + 1, 162, ReplierUrl)
      BY <3>1, <3>2, StandsBehind
    <3> QED BY <3>1, <3>3
  <2> QED BY <2>1, <2>2, <2>3
<1>12. ABCD \in Seq(Nat) /\ Len(ABCD) = Len(ABC) + Len(D)
  <2>1. ABC \in Seq(Nat)
    BY <1>10
  <2> QED BY <1>c, <1>d, <2>1, Behind
<1>13. /\ Stands(ABCD, 1, 160, PullerUrl)
       /\ Stands(ABCD, k2, 161, PublisherUrl)
       /\ (version >= 1 => Stands(ABCD, k3, 162, ReplierUrl))
       /\ (version >= 2 => Stands(ABCD, k4, 163, AgentUrl))
  <2>1. Stands(ABCD, 1, 160, PullerUrl)
    BY <1>11, <1>c, <1>d, StandsBefore
  <2>2. Stands(ABCD, k2, 161, PublisherUrl)
    BY <1>11, <1>c, <1>d, StandsBefore
  <2>3. ASSUME version >= 1 PROVE Stands(ABCD, k3, 162, ReplierUrl)
    BY <2>3, <1>11, <1>c, <1>d, StandsBefore
  <2>4. ASSUME version >= 2 PROVE Stands(ABCD, k4, 163, AgentUrl)
    <3>1. ABC \in Seq(Nat) /\ ABCD = ABC \o D /\ k4 = Len(ABC) + 1
      BY <1>10, <1>c, <1>e
    <3>2. Stands(D, 1, 163, AgentUrl)
      BY <1>4, <2>4
    <3>3. Stands(ABCD, Len(ABC) + 1, 163, AgentUrl)
      BY <3>1, <3>2, StandsBehind
    <3> QED BY <3>1, <3>3
  <2> QED BY <2>1, <2>2, <2>3, <2>4
<1>14. /\ Stands(a, 1, 160, PullerUrl)
       /\ Stands(a, k2, 161, PublisherUrl)
       /\ (version >= 1 => Stands(a, k3, 162, ReplierUrl))
       /\ (version >= 2 => Stands(a, k4, 163, AgentUrl))
  <2>1. Stands(a, 1, 160, PullerUrl)
    BY <1>1, <1>5, <1>13, StandsBefore
  <2>2. Stands(a, k2, 161, PublisherUrl)
    BY <1>1, <1>5, <1>13, StandsBefore
  <2>3. ASSUME version >= 1 PROVE Stands(a, k3, 162, ReplierUrl)
    BY <2>3, <1>1, <1>5, <1>13, StandsBefore
  <2>4. ASSUME version >= 2 PROVE Stands(a, k4, 163, AgentUrl)
    BY <2>4, <1>1, <1>5, <1>13, StandsBefore
  <2> QED BY <2>1, <2>2, <2>3, <2>4
<1>15. Finishes(a, Len(ABCD) + 1)
  BY <1>1, <1>12, EndRead DEF N
<1> DEFINE second == After(a, 1)
           third == After(a, second)
           fourth == After(a, third)
<1>16. Shows(a, 1, 160, PullerUrl) /\ second = Len(A) + 1
  BY <1>6, <1>7, <1>14, StandsShows
<1>17. Shows(a, second, 161, PublisherUrl) /\ third = Len(AB) + 1
  <2>1. /\ Shows(a, Len(A) + 1, 161, PublisherUrl)
        /\ After(a, Len(A) + 1) = Len(A) + 1 + 2 + Len(PublisherUrl)
    BY <1>14, <1>e, StandsShows
  <2> QED BY <1>6, <1>7, <1>8, <1>16, <2>1
<1> HIDE DEF second
<1>18. version >= 1 => Shows(a, third, 162, ReplierUrl) /\ fourth = Len(ABC) + 1
  <2> SUFFICES ASSUME version >= 1
               PROVE  Shows(a, third, 162, ReplierUrl) /\ fourth = Len(ABC) + 1
    OBVIOUS
  <2>1. /\ Shows(a, Len(AB) + 1, 162, ReplierUrl)
        /\ After(a, Len(AB) + 1) = Len(AB) + 1 + 2 + Len(ReplierUrl)
    BY <1>14, <1>e, StandsShows
  <2>2. Len(AB) + 1 + 2 + Len(ReplierUrl) = Len(ABC) + 1
    <3>1. Len(AB) \in Nat
      BY <1>8
    <3>2. Len(ReplierUrl) \in Nat /\ Len(ABC) = Len(AB) + (2 + Len(ReplierUrl))
      BY <1>6, <1>7, <1>10
    <3> QED BY <3>1, <3>2
  <2>3. fourth = After(a, Len(AB) + 1) /\ third = Len(AB) + 1
    BY <1>17
  <2> HIDE DEF third, fourth
  <2> QED BY <2>1, <2>2, <2>3
<1> HIDE DEF third
<1>19. version >= 2 => Shows(a, fourth, 163, AgentUrl) /\ After(a, fourth) = Len(ABCD) + 1
  <2> SUFFICES ASSUME version >= 2
               PROVE  Shows(a, fourth, 163, AgentUrl) /\ After(a, fourth) = Len(ABCD) + 1
    OBVIOUS
  <2>1. /\ Shows(a, Len(ABC) + 1, 163, AgentUrl)
        /\ After(a, Len(ABC) + 1) = Len(ABC) + 1 + 2 + Len(AgentUrl)
    BY <1>14, <1>e, StandsShows
  <2>2. Len(ABC) + 1 + 2 + Len(AgentUrl) = Len(ABCD) + 1
    <3>1. Len(ABC) \in Nat
      BY <1>10
    <3>2. Len(AgentUrl) \in Nat /\ Len(ABCD) = Len(ABC) + (2 + Len(AgentUrl))
      BY <1>6, <1>7, <1>12
    <3> QED BY <3>1, <3>2
  <2>3. fourth = Len(ABC) + 1
    BY <1>18
  <2> HIDE DEF fourth
  <2> QED BY <2>1, <2>2, <2>3
<1> HIDE DEF fourth
<1>20. version = 0 => Finishes(a, third)
  BY <1>3, <1>4, <1>6, <1>7, <1>8, <1>10, <1>12, <1>15, <1>17
<1>21. version = 1 => Finishes(a, fourth)
  BY <1>4, <1>6, <1>7, <1>8, <1>10, <1>12, <1>15, <1>18
<1>22. version >= 2 => Finishes(a, After(a, fourth))
  BY <1>15, <1>19
<1>23. version = 0 \/ version = 1 \/ version >= 2
  OBVIOUS
<1>24. IF version = 0 THEN Finishes(a, third)
       ELSE /\ Shows(a, third, 162, ReplierUrl)
            /\ IF version = 1 THEN Finishes(a, fourth)
               ELSE /\ Shows(a, fourth, 163, AgentUrl)
                    /\ Finishes(a, After(a, fourth))
  BY <1>18, <1>19, <1>20, <1>21, <1>22, <1>23
<1> QED BY <1>16, <1>17, <1>24 DEF a, second, third, fourth

=============================================================================
