------------------------- MODULE LocalAPIServerProofs -------------------------
(***************************************************************************)
(* Proofs about LocalAPIServer for every number of starts and probe        *)
(* attempts: its types, that the state shown is true of the server held,   *)
(* and that no server is lost but those the readiness probe gave up on.    *)
(***************************************************************************)
EXTENDS LocalAPIServer, TLAPS

USE ServersAssumption

\* A request in flight is one of the probe's attempts: without this the count
\* of attempts could pass its bound.
RequestsCounted ==
  \A s \in Servers : probe[s] = "request" => tries[s] < Attempts

TypeInvariant == TypeOK /\ RequestsCounted

\* A termination task is queued only for a process that has ended.
EndedAreExited ==
  \A s \in Servers, status \in Statuses :
    <<s, status>> \in ended => life[s] = "exited"

\* The two properties need each other: a start replaces the process only in
\* the states in which StateMatchesServer says that it is not needed any more.
Accounted ==
  /\ EndedAreExited
  /\ StateMatchesServer
  /\ OneServer

-------------------------------------------------------------------------------
(* Type correctness.                                                        *)

LEMMA InitTypes == Init => TypeInvariant
<1> SUFFICES ASSUME Init PROVE TypeInvariant
  OBVIOUS
<1>1. tries \in [Servers -> 0..Attempts]
  BY ServersAssumption DEF Init
<1>2. /\ life \in [Servers -> Lives]
      /\ probe \in [Servers -> Probes]
  BY DEF Init, Lives, Probes
<1>3. ended \subseteq Servers \X Statuses
  BY DEF Init
<1>4. QED
  BY <1>1, <1>2, <1>3 DEF Init, TypeInvariant, RequestsCounted, TypeOK, States

LEMMA StartTypes ==
  ASSUME TypeInvariant, StartServer, UNCHANGED section,
         chat' \in {"notLoaded", "loading", "ready", "unloading"},
         startAfterUnload' \in BOOLEAN
  PROVE  TypeInvariant'
<1> USE DEF TypeInvariant, RequestsCounted
<1>1. CASE UNCHANGED <<state, process, server, tasks, givenUp>>
  BY <1>1 DEF TypeOK, server, tasks
<1>2. ASSUME NEW s \in Servers, Launched(s) PROVE TypeInvariant'
  BY <1>2 DEF TypeOK, Launched, CancelReadiness, States, Lives, Probes
<1>3. CASE ExecutableMissing
  BY <1>3 DEF TypeOK, ExecutableMissing, server, tasks, States
<1>4. CASE RunThrows
  BY <1>4 DEF TypeOK, RunThrows, server, tasks, States
<1>5. QED
  BY <1>1, <1>2, <1>3, <1>4 DEF StartServer

LEMMA HandlerTypes ==
  ASSUME TypeInvariant, NEW s \in Servers, NEW status \in Statuses,
         Terminated(s, status) \/ LogReady(s)
  PROVE  TypeInvariant'
<1> USE DEF TypeInvariant, RequestsCounted
<1>1. CASE Terminated(s, status)
  BY <1>1 DEF TypeOK, Terminated, CancelReadiness, StateAfterExit, server,
              window, States
<1>2. CASE LogReady(s)
  BY <1>2 DEF TypeOK, LogReady, server, window, States
<1>3. QED
  BY <1>1, <1>2

LEMMA ProbeTypes ==
  ASSUME TypeInvariant, NEW s \in Servers,
         \/ ProbeAsks(s) \/ ProbeAnswered(s) \/ ProbeMisses(s)
         \/ ProbeResumes(s) \/ ProbeGivesUp(s)
  PROVE  TypeInvariant'
<1> USE DEF TypeInvariant, RequestsCounted
<1>1. ASSUME ProbeEnds(s)
      PROVE  /\ probe' \in [Servers -> Probes]
             /\ tries' \in [Servers -> 0..Attempts]
             /\ cancelled' \subseteq Servers
             /\ RequestsCounted'
  BY <1>1 DEF TypeOK, ProbeEnds, Probes
<1>2. CASE ProbeAsks(s)
  BY <1>1, <1>2 DEF TypeOK, ProbeAsks, AsksAgain, server, window, Probes
<1>3. CASE ProbeAnswered(s)
  BY <1>3 DEF TypeOK, ProbeAnswered, server, window, Probes
<1>4. CASE ProbeMisses(s)
  <2>1. tries[s] < Attempts
    BY <1>4 DEF ProbeMisses
  <2>2. QED
    BY <1>4, <2>1 DEF TypeOK, ProbeMisses, server, window, Probes
<1>5. CASE ProbeResumes(s)
  BY <1>1, <1>5 DEF TypeOK, ProbeResumes, server, window, States
<1>6. CASE ProbeGivesUp(s)
  BY <1>1, <1>6 DEF TypeOK, ProbeGivesUp, TimesOut, server, window, States
<1>7. QED
  BY <1>2, <1>3, <1>4, <1>5, <1>6

LEMMA ProcessTypes ==
  ASSUME TypeInvariant, NEW s \in Servers, Listens(s) \/ Exits(s)
  PROVE  TypeInvariant'
<1> USE DEF TypeInvariant, RequestsCounted
<1>1. CASE Listens(s)
  BY <1>1 DEF TypeOK, Listens, window, Lives
<1>2. CASE Exits(s)
  BY <1>2 DEF TypeOK, Exits, window, Lives, Statuses
<1>3. QED
  BY <1>1, <1>2

LEMMA WindowTypes ==
  ASSUME TypeInvariant,
         \/ Stop \/ PressStart \/ OpenChat \/ UnloadChat \/ ChatLoads
         \/ ChatUnloaded \/ ForeignLeaves
         \/ \E other \in {"developer", "other"} : OpenSection(other)
  PROVE  TypeInvariant'
<1>1. CASE Stop
  BY <1>1 DEF TypeInvariant, RequestsCounted, TypeOK, Stop, CancelReadiness,
              IsRunning, window, States
<1>2. CASE PressStart
  <2>1. CASE StartServer /\ UNCHANGED <<chat, startAfterUnload>>
    BY <1>2, <2>1, StartTypes DEF PressStart, TypeInvariant, TypeOK
  <2>2. CASE /\ startAfterUnload' = TRUE
             /\ chat' = "unloading"
             /\ UNCHANGED <<state, process, server, tasks, givenUp>>
    BY <1>2, <2>2
    DEF PressStart, TypeInvariant, RequestsCounted, TypeOK, server, tasks
  <2>3. QED
    BY <1>2, <2>1, <2>2 DEF PressStart
<1>3. CASE ChatUnloaded
  <2>1. CASE StartServer
    BY <1>3, <2>1, StartTypes DEF ChatUnloaded
  <2>2. CASE UNCHANGED <<state, process, server, tasks, givenUp>>
    BY <1>3, <2>2
    DEF ChatUnloaded, TypeInvariant, RequestsCounted, TypeOK, server, tasks
  <2>3. QED
    BY <1>3, <2>1, <2>2 DEF ChatUnloaded
<1>4. CASE OpenChat \/ UnloadChat \/ ChatLoads
  BY <1>4 DEF OpenChat, UnloadChat, ChatLoads, TypeInvariant, RequestsCounted,
              TypeOK, server, tasks
<1>5. CASE ForeignLeaves
  BY <1>5 DEF ForeignLeaves, TypeInvariant, RequestsCounted, TypeOK, tasks,
              window
<1>6. CASE \E other \in {"developer", "other"} : OpenSection(other)
  BY <1>6 DEF OpenSection, TypeInvariant, RequestsCounted, TypeOK, server,
              tasks
<1>7. QED
  BY <1>1, <1>2, <1>3, <1>4, <1>5, <1>6

LEMMA StepTypes == TypeInvariant /\ [Next]_vars => TypeInvariant'
<1> SUFFICES ASSUME TypeInvariant, [Next]_vars PROVE TypeInvariant'
  OBVIOUS
<1>1. CASE UNCHANGED vars
  BY <1>1 DEF TypeInvariant, RequestsCounted, TypeOK, vars, server, tasks,
              window
<1>2. ASSUME NEW s \in Servers, NEW status \in Statuses,
             Terminated(s, status) \/ LogReady(s)
      PROVE  TypeInvariant'
  BY <1>2, HandlerTypes
<1>3. ASSUME NEW s \in Servers,
             \/ ProbeAsks(s) \/ ProbeAnswered(s) \/ ProbeMisses(s)
             \/ ProbeResumes(s) \/ ProbeGivesUp(s)
      PROVE  TypeInvariant'
  BY <1>3, ProbeTypes
<1>4. ASSUME NEW s \in Servers, Listens(s) \/ Exits(s)
      PROVE  TypeInvariant'
  BY <1>4, ProcessTypes
<1>5. CASE \/ Stop \/ PressStart \/ OpenChat \/ UnloadChat \/ ChatLoads
           \/ ChatUnloaded \/ ForeignLeaves
           \/ \E other \in {"developer", "other"} : OpenSection(other)
  BY <1>5, WindowTypes
<1>6. "success" \in Statuses
  BY DEF Statuses
<1>7. QED
  BY <1>1, <1>2, <1>3, <1>4, <1>5, <1>6 DEF Next

\* The variables keep their types and the probe its bound on attempts, for
\* every number of starts: the type invariant of LocalAPIServerController.
THEOREM TypeCorrect == Spec => []TypeOK
<1>1. TypeInvariant => TypeOK
  BY DEF TypeInvariant
<1>2. QED
  BY InitTypes, StepTypes, <1>1, PTL DEF Spec

-------------------------------------------------------------------------------
(* No server is lost and the state shown is true.                           *)

LEMMA InitAccounted == Init => Accounted
BY DEF Init, Accounted, EndedAreExited, StateMatchesServer, OneServer, Alive,
       IsRunning, Statuses

\* A start happens only when the process held is not needed any more.
LEMMA StartAccounted ==
  ASSUME TypeInvariant, Accounted, StartServer
  PROVE  Accounted'
<1> USE DEF Accounted, EndedAreExited, StateMatchesServer, OneServer, Alive,
            IsRunning, TypeInvariant, TypeOK, Lives
<1>1. CASE UNCHANGED <<state, process, server, tasks, givenUp>>
  BY <1>1 DEF server, tasks
<1>2. ASSUME ~isActive
      PROVE  \A t \in Servers : Alive(t) => t \in givenUp
  BY <1>2 DEF isActive, States
<1>3. ASSUME ~isActive, NEW s \in Servers, life[s] = "unborn", Launched(s)
      PROVE  Accounted'
  BY <1>2, <1>3 DEF Launched
<1>4. CASE ~isActive /\ ExecutableMissing
  BY <1>2, <1>4 DEF ExecutableMissing, server, tasks
<1>5. CASE ~isActive /\ RunThrows
  BY <1>2, <1>5 DEF RunThrows, server, tasks
<1>6. QED
  BY <1>1, <1>3, <1>4, <1>5 DEF StartServer

LEMMA HandlerAccounted ==
  ASSUME TypeInvariant, Accounted, NEW s \in Servers, NEW status \in Statuses,
         Terminated(s, status) \/ LogReady(s)
  PROVE  Accounted'
<1> USE DEF Accounted, EndedAreExited, StateMatchesServer, OneServer, Alive,
            IsRunning, TypeInvariant, TypeOK
<1>1. CASE Terminated(s, status)
  <2>1. life[s] = "exited"
    BY <1>1 DEF Terminated
  <2>2. CASE OwnTermination(s)
    BY <1>1, <2>1, <2>2
    DEF Terminated, OwnTermination, StateAfterExit, server
  <2>3. CASE ~OwnTermination(s)
    BY <1>1, <2>1, <2>3 DEF Terminated, OwnTermination, server
  <2>4. QED
    BY <2>2, <2>3
<1>2. CASE LogReady(s)
  BY <1>2 DEF LogReady, server
<1>3. QED
  BY <1>1, <1>2

LEMMA ProbeAccounted ==
  ASSUME TypeInvariant, Accounted, NEW s \in Servers,
         \/ ProbeAsks(s) \/ ProbeAnswered(s) \/ ProbeMisses(s)
         \/ ProbeResumes(s) \/ ProbeGivesUp(s)
  PROVE  Accounted'
<1> USE DEF Accounted, EndedAreExited, StateMatchesServer, OneServer, Alive,
            IsRunning, TypeInvariant, TypeOK, server
<1>1. CASE ProbeAsks(s) \/ ProbeAnswered(s) \/ ProbeMisses(s)
  BY <1>1 DEF ProbeAsks, ProbeAnswered, ProbeMisses
<1>2. CASE ProbeResumes(s)
  BY <1>2 DEF ProbeResumes
<1>3. CASE ProbeGivesUp(s)
  BY <1>3 DEF ProbeGivesUp, TimesOut, StillWanted
<1>4. QED
  BY <1>1, <1>2, <1>3

LEMMA ProcessAccounted ==
  ASSUME TypeInvariant, Accounted, NEW s \in Servers, Listens(s) \/ Exits(s)
  PROVE  Accounted'
<1> USE DEF Accounted, EndedAreExited, StateMatchesServer, OneServer, Alive,
            IsRunning, TypeInvariant, TypeOK, Lives
<1>1. CASE Listens(s)
  BY <1>1 DEF Listens
<1>2. CASE Exits(s)
  BY <1>2 DEF Exits
<1>3. QED
  BY <1>1, <1>2

LEMMA WindowAccounted ==
  ASSUME TypeInvariant, Accounted,
         \/ Stop \/ PressStart \/ OpenChat \/ UnloadChat \/ ChatLoads
         \/ ChatUnloaded \/ ForeignLeaves
         \/ \E other \in {"developer", "other"} : OpenSection(other)
  PROVE  Accounted'
<1>1. CASE Stop
  BY <1>1 DEF Accounted, EndedAreExited, StateMatchesServer, OneServer, Alive,
              IsRunning, Stop
<1>2. CASE StartServer
  BY <1>2, StartAccounted
<1>3. CASE UNCHANGED <<state, process, life, ended, givenUp>>
  BY <1>3 DEF Accounted, EndedAreExited, StateMatchesServer, OneServer, Alive,
              IsRunning
<1>4. QED
  BY <1>1, <1>2, <1>3
  DEF PressStart, ChatUnloaded, OpenChat, UnloadChat, ChatLoads, ForeignLeaves,
      OpenSection, server, tasks

LEMMA StepAccounted ==
  TypeInvariant /\ Accounted /\ [Next]_vars => Accounted'
<1> SUFFICES ASSUME TypeInvariant, Accounted, [Next]_vars PROVE Accounted'
  OBVIOUS
<1>1. CASE UNCHANGED vars
  BY <1>1 DEF Accounted, EndedAreExited, StateMatchesServer, OneServer, Alive,
              IsRunning, vars, server, tasks
<1>2. ASSUME NEW s \in Servers, NEW status \in Statuses,
             Terminated(s, status) \/ LogReady(s)
      PROVE  Accounted'
  BY <1>2, HandlerAccounted
<1>3. ASSUME NEW s \in Servers,
             \/ ProbeAsks(s) \/ ProbeAnswered(s) \/ ProbeMisses(s)
             \/ ProbeResumes(s) \/ ProbeGivesUp(s)
      PROVE  Accounted'
  BY <1>3, ProbeAccounted
<1>4. ASSUME NEW s \in Servers, Listens(s) \/ Exits(s)
      PROVE  Accounted'
  BY <1>4, ProcessAccounted
<1>5. CASE \/ Stop \/ PressStart \/ OpenChat \/ UnloadChat \/ ChatLoads
           \/ ChatUnloaded \/ ForeignLeaves
           \/ \E other \in {"developer", "other"} : OpenSection(other)
  BY <1>5, WindowAccounted
<1>6. "success" \in Statuses
  BY DEF Statuses
<1>7. QED
  BY <1>1, <1>2, <1>3, <1>4, <1>5, <1>6 DEF Next

LEMMA AccountedAlways == Spec => [](TypeInvariant /\ Accounted)
BY InitTypes, StepTypes, InitAccounted, StepAccounted, PTL DEF Spec

\* The state the Developer section shows is true of the process the
\* controller holds, whatever order its queued tasks run in.
THEOREM StateIsTrue == Spec => []StateMatchesServer
<1>1. Accounted => StateMatchesServer
  BY DEF Accounted
<1>2. QED
  BY AccountedAlways, <1>1, PTL

\* The controller holds every live server except those its readiness probe
\* timed out on, for every number of starts and probe attempts.
THEOREM NoServerLost == Spec => []OneServer
<1>1. Accounted => OneServer
  BY DEF Accounted
<1>2. QED
  BY AccountedAlways, <1>1, PTL
===============================================================================
