---------------------------- MODULE LocalAPIServer ----------------------------
(***************************************************************************)
(* The Developer section of the Mac app: LocalAPIServerController, which   *)
(* keeps one slipstream-server child process, and the part of              *)
(* ServerControlView and ChatHomeView that hands the model from the chat   *)
(* worker to that server.                                                  *)
(*                                                                         *)
(* Everything the controller does runs on the main actor, but in separate  *)
(* tasks: a button press, the task queued by a termination handler, the    *)
(* task queued when output arrives, and the readiness probe, which leaves  *)
(* the main actor at each await.  They run in any order.  Each Start is a  *)
(* member of Servers of its own, so Servers bounds the number of starts.   *)
(***************************************************************************)
EXTENDS Naturals, FiniteSets

CONSTANTS
  Servers,    \* the server processes one session of the app may start
  Attempts,   \* how often the readiness probe asks /health
  NoServer,   \* a nil process, a nil task, an unused port
  Foreign     \* a program of somebody else that listens on the port

ASSUME ServersAssumption ==
  /\ IsFiniteSet(Servers)
  /\ Attempts \in Nat \ {0}
  /\ NoServer \notin Servers \cup {Foreign}
  /\ Foreign \notin Servers

VARIABLES
  state,             \* the controller's state
  process,           \* the controller's process
  readinessTask,     \* the server whose probe is the controller's task
  life,              \* what each server process is doing
  interrupted,       \* the servers that were sent SIGINT
  port,              \* who listens on port 8080
  ended,             \* servers whose termination task is queued, with status
  logs,              \* servers whose "ready at" text is queued
  probe,             \* where the readiness task of each server is
  tries,             \* how often it has asked
  cancelled,         \* the readiness tasks that were cancelled
  givenUp,           \* history: servers the probe timed out on
  chat,              \* the load state of the chat model
  section,           \* the selected section of the window
  startAfterUnload   \* ServerControlView's flag

server == <<life, interrupted, port>>
tasks == <<ended, logs, probe, tries, cancelled, readinessTask>>
window == <<chat, section, startAfterUnload>>
vars == <<state, process, server, tasks, givenUp, window>>

States == {"stopped", "starting", "running", "stopping", "failed"}
Lives == {"unborn", "booting", "listening", "exited"}
Probes == {"none", "check", "request", "answered"}
Statuses == {"success", "error"}

TypeOK ==
  /\ state \in States
  /\ process \in Servers \cup {NoServer}
  /\ readinessTask \in Servers \cup {NoServer}
  /\ life \in [Servers -> Lives]
  /\ interrupted \subseteq Servers
  /\ port \in Servers \cup {NoServer, Foreign}
  /\ ended \subseteq Servers \X Statuses
  /\ logs \subseteq Servers
  /\ probe \in [Servers -> Probes]
  /\ tries \in [Servers -> 0..Attempts]
  /\ cancelled \subseteq Servers
  /\ givenUp \subseteq Servers
  /\ chat \in {"notLoaded", "loading", "ready", "unloading"}
  /\ section \in {"chat", "developer", "other"}
  /\ startAfterUnload \in BOOLEAN

\* The app opens on the chat section of an installed model and loads it.
Init ==
  /\ state = "stopped"
  /\ process = NoServer
  /\ readinessTask = NoServer
  /\ life = [s \in Servers |-> "unborn"]
  /\ interrupted = {}
  /\ port \in {NoServer, Foreign}
  /\ ended = {}
  /\ logs = {}
  /\ probe = [s \in Servers |-> "none"]
  /\ tries = [s \in Servers |-> 0]
  /\ cancelled = {}
  /\ givenUp = {}
  /\ chat = "loading"
  /\ section = "chat"
  /\ startAfterUnload = FALSE

Alive(s) == life[s] \in {"booting", "listening"}

\* process.isRunning of the controller's process
IsRunning == process \in Servers /\ Alive(process)

isActiveUntilStop == state \in {"starting", "running"}
isActive == state \in {"starting", "running", "stopping"}

\* Cancelling a task that has returned does nothing.
CancelReadiness ==
  cancelled' = cancelled \cup {s \in {readinessTask} \cap Servers : probe[s] # "none"}

-----------------------------------------------------------------------------
(* LocalAPIServerController.start and stop. *)

Launched(s) ==
  /\ state' = "starting"
  /\ process' = s
  /\ life' = [life EXCEPT ![s] = "booting"]
  /\ CancelReadiness
  /\ readinessTask' = s
  /\ probe' = [probe EXCEPT ![s] = "check"]
  /\ UNCHANGED <<interrupted, port, ended, logs, tries, givenUp>>

ExecutableMissing ==
  /\ state' = "failed"
  /\ UNCHANGED <<process, server, tasks, givenUp>>

RunThrows ==
  /\ state' = "failed"
  /\ process' = NoServer
  /\ UNCHANGED <<server, tasks, givenUp>>

\* startServer clears a failure and calls start, which gives up when active.
StartServer ==
  \/ isActive /\ UNCHANGED <<state, process, server, tasks, givenUp>>
  \/ /\ ~isActive
     /\ \/ \E s \in Servers : life[s] = "unborn" /\ Launched(s)
        \/ ExecutableMissing
        \/ RunThrows

\* The Stop button is shown while the server starts or runs.
Stop ==
  /\ section = "developer"
  /\ state \in {"starting", "running"}
  /\ CancelReadiness
  /\ readinessTask' = NoServer
  /\ state' = IF IsRunning THEN "stopping" ELSE "stopped"
  /\ interrupted' =
       IF IsRunning THEN interrupted \cup {process} ELSE interrupted
  /\ UNCHANGED <<process, life, port, ended, logs, probe, tries, givenUp,
                 window>>

-----------------------------------------------------------------------------
(* The termination handler and the output handler of a server process. *)

\* The handler's guard: self.process === process.
AnyTermination(s) == TRUE
UnrequestedTermination(s) == process = s /\ state # "stopping"
OwnTermination(s) == process = s

StateAfterExit(status) ==
  IF state = "stopping" \/ status = "success" THEN "stopped" ELSE "failed"

Terminated(s, status) ==
  /\ <<s, status>> \in ended
  /\ ended' = ended \ {<<s, status>>}
  /\ IF OwnTermination(s)
     THEN /\ CancelReadiness
          /\ readinessTask' = NoServer
          /\ process' = NoServer
          /\ state' = StateAfterExit(status)
          \* output that was not read yet stays unread
          /\ logs' \in {logs, logs \ {s}}
     ELSE UNCHANGED <<cancelled, readinessTask, process, state, logs>>
  /\ UNCHANGED <<server, probe, tries, givenUp, window>>

\* The output handler does not ask whose output it is.
LogReady(s) ==
  /\ s \in logs
  /\ logs' = logs \ {s}
  /\ state' = "running"
  /\ UNCHANGED <<process, readinessTask, server, ended, probe, tries,
                 cancelled, givenUp, window>>

-----------------------------------------------------------------------------
(* The readiness probe of one server: beginReadinessProbe. *)

StillWanted(s) == s \notin cancelled /\ process = s

ProbeEnds(s) ==
  /\ probe' = [probe EXCEPT ![s] = "none"]
  /\ tries' = [tries EXCEPT ![s] = 0]
  /\ cancelled' = cancelled \ {s}

\* for _ in 0..<240
AsksAgainInclusive(s) == tries[s] <= Attempts
AsksAgain(s) == tries[s] < Attempts

ProbeAsks(s) ==
  /\ probe[s] = "check" /\ AsksAgain(s)
  /\ IF StillWanted(s) /\ Alive(s)
     THEN probe' = [probe EXCEPT ![s] = "request"] /\ UNCHANGED <<tries, cancelled>>
     ELSE ProbeEnds(s)
  /\ UNCHANGED <<state, process, readinessTask, server, ended, logs, givenUp,
                 window>>

\* Whoever listens on the port answers with a status of 200 or above.
ProbeAnswered(s) ==
  /\ probe[s] = "request" /\ s \notin cancelled
  /\ port # NoServer
  /\ probe' = [probe EXCEPT ![s] = "answered"]
  /\ UNCHANGED <<state, process, readinessTask, server, ended, logs, tries,
                 cancelled, givenUp, window>>

\* The request fails, is cancelled or times out; the task sleeps 250 ms.
ProbeMisses(s) ==
  /\ probe[s] = "request"
  /\ probe' = [probe EXCEPT ![s] = "check"]
  /\ tries' = [tries EXCEPT ![s] = @ + 1]
  /\ UNCHANGED <<state, process, readinessTask, server, ended, logs,
                 cancelled, givenUp, window>>

\* After the await neither the cancellation nor the process is read again.
ProbeResumes(s) ==
  /\ probe[s] = "answered"
  /\ ProbeEnds(s)
  /\ state' = IF state = "starting" THEN "running" ELSE state
  /\ readinessTask' = NoServer
  /\ UNCHANGED <<process, server, ended, logs, givenUp, window>>

TimesOutSilently(s) == UNCHANGED <<state, readinessTask, givenUp>>

\* The failure message of the timeout.  The process is left running.
TimesOut(s) ==
  IF StillWanted(s) /\ state = "starting"
  THEN /\ state' = "failed"
       /\ readinessTask' = NoServer
       /\ givenUp' = givenUp \cup {s}
  ELSE UNCHANGED <<state, readinessTask, givenUp>>

ProbeGivesUp(s) ==
  /\ probe[s] = "check" /\ ~AsksAgain(s)
  /\ ProbeEnds(s)
  /\ TimesOut(s)
  /\ UNCHANGED <<process, server, ended, logs, window>>

-----------------------------------------------------------------------------
(* The server process, as the app sees it. *)

\* It binds the port and prints "ready at".
Listens(s) ==
  /\ life[s] = "booting" /\ port = NoServer /\ s \notin interrupted
  /\ life' = [life EXCEPT ![s] = "listening"]
  /\ port' = s
  /\ logs' = logs \cup {s}
  /\ UNCHANGED <<state, process, readinessTask, interrupted, ended, probe,
                 tries, cancelled, givenUp, window>>

\* It ends: on SIGINT, because the port is taken, or by a fault.
Exits(s) ==
  /\ Alive(s)
  /\ life' = [life EXCEPT ![s] = "exited"]
  /\ port' = IF port = s THEN NoServer ELSE port
  /\ interrupted' = interrupted \ {s}
  /\ \E status \in Statuses : ended' = ended \cup {<<s, status>>}
  /\ UNCHANGED <<state, process, readinessTask, logs, probe, tries, cancelled,
                 givenUp, window>>

ForeignLeaves ==
  /\ port = Foreign
  /\ port' = NoServer
  /\ UNCHANGED <<state, process, tasks, life, interrupted, givenUp, window>>

-----------------------------------------------------------------------------
(* The window: sections, the chat model and the handover. *)

\* "Start Local API": unload the chat model first when it is loaded.
PressStart ==
  /\ section = "developer"
  /\ state \in {"stopped", "failed"}
  /\ IF chat = "ready"
     THEN /\ startAfterUnload' = TRUE
          /\ chat' = "unloading"
          /\ UNCHANGED <<state, process, server, tasks, givenUp>>
     ELSE /\ StartServer
          /\ UNCHANGED <<chat, startAfterUnload>>
  /\ UNCHANGED section

\* The chat section loads its model when it appears, whatever the server does.
OpenChat ==
  /\ section # "chat"
  /\ section' = "chat"
  /\ chat' = IF chat = "notLoaded" THEN "loading" ELSE chat
  \* the flag is state of the view that disappears
  /\ startAfterUnload' = FALSE
  /\ UNCHANGED <<state, process, server, tasks, givenUp>>

OpenSection(other) ==
  /\ section # other /\ other # "chat"
  /\ section' = other
  /\ startAfterUnload' = FALSE
  /\ UNCHANGED <<state, process, server, tasks, givenUp, chat>>

\* "Unload model" in the chat toolbar.
UnloadChat ==
  /\ section = "chat" /\ chat = "ready"
  /\ chat' = "unloading"
  /\ UNCHANGED <<state, process, server, tasks, givenUp, section,
                 startAfterUnload>>

\* A failed load leaves a model that can be loaded again.
ChatLoads ==
  /\ chat = "loading"
  /\ chat' \in {"ready", "notLoaded"}
  /\ UNCHANGED <<state, process, server, tasks, givenUp, section,
                 startAfterUnload>>

\* The onChange handler of ServerControlView starts the server.
ChatUnloaded ==
  /\ chat = "unloading"
  /\ chat' = "notLoaded"
  /\ IF startAfterUnload
     THEN StartServer
     ELSE UNCHANGED <<state, process, server, tasks, givenUp>>
  /\ startAfterUnload' = FALSE
  /\ UNCHANGED section

-----------------------------------------------------------------------------
Next ==
  \/ PressStart
  \/ Stop
  \/ OpenChat
  \/ \E other \in {"developer", "other"} : OpenSection(other)
  \/ UnloadChat
  \/ ChatLoads
  \/ ChatUnloaded
  \/ ForeignLeaves
  \/ \E s \in Servers :
       \/ \E status \in Statuses : Terminated(s, status)
       \/ LogReady(s)
       \/ ProbeAsks(s)
       \/ ProbeAnswered(s)
       \/ ProbeMisses(s)
       \/ ProbeResumes(s)
       \/ ProbeGivesUp(s)
       \/ Listens(s)
       \/ Exits(s)

Spec == Init /\ [][Next]_vars

\* A queued main-actor task runs, a request ends, and SIGINT ends a server.
Fairness ==
  \A s \in Servers :
    /\ WF_vars(\E status \in Statuses : Terminated(s, status))
    /\ WF_vars(ProbeAsks(s))
    /\ WF_vars(ProbeMisses(s) \/ ProbeAnswered(s))
    /\ WF_vars(ProbeResumes(s))
    /\ WF_vars(ProbeGivesUp(s))
    /\ WF_vars(s \in interrupted /\ Exits(s))

FairSpec == Spec /\ Fairness

-----------------------------------------------------------------------------
(* Properties. *)

\* What the controller shows is true of the process it holds: "off" means
\* that it has ended, a start or a stop in progress still has a process to
\* wait for or its exit to be told of, and a failure leaves a live process
\* only when the readiness probe timed out on it.
StateMatchesServer ==
  /\ state = "stopped" => ~IsRunning
  /\ state \in {"starting", "stopping"} =>
       /\ process \in Servers
       /\ Alive(process) \/ \E status \in Statuses : <<process, status>> \in ended
  /\ state = "failed" => (IsRunning => process \in givenUp)

\* The controller never loses a server: every live server process is the one
\* it holds, except those it reported as not ready within 60 seconds.
OneServer ==
  \A s \in Servers : Alive(s) => s = process \/ s \in givenUp

\* A start comes to an end: the server is seen to run, it has stopped, or a
\* failure is shown, even when a stale probe or stale output interferes.
StartingEnds == state = "starting" ~> state # "starting"

\* A stop comes to an end once the server honours SIGINT.
StoppingEnds == state = "stopping" ~> state # "stopping"

\* What docs/app.md says: the app pauses its chat worker while the server
\* owns the model.
OneOwner ==
  (\E s \in Servers : Alive(s)) => chat # "ready"
===============================================================================
