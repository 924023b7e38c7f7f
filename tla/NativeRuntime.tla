---------------------------- MODULE NativeRuntime -----------------------------
(***************************************************************************)
(* The native runtime that every command shares: the Git checkout that     *)
(* bootstrap_candidate_runtime.sh reconstructs and builds, runtime_status, *)
(* which says whether it may be used, and the commands that use it: runtime*)
(* install, app build, app open, serve, run, and the SDK's managed server  *)
(* and one-shot generation.                                                *)
(*                                                                         *)
(* Nothing locks the checkout as a whole.  Several shells run commands on  *)
(* it, Git and SwiftPM take their own locks, a developer may edit the      *)
(* tree, and any command may be interrupted.  The contents of a tree are   *)
(* one of a few values: what matters is whether it is exactly the pinned   *)
(* commit with both patches.  setup() reaches the runtime the way build_app*)
(* does and is not repeated here.                                          *)
(***************************************************************************)
EXTENDS Naturals, Sequences

CONSTANTS
  Shells,         \* terminals and Python programs, each running one command
  Products,       \* the release binaries
  InstallOrder,   \* the products the bootstrap script builds, in its order
  PackageOrder,   \* the products package_macos_app.sh builds
  Server, Cli,    \* slipstream-server and slipstream
  CommandsOf,     \* the commands each shell may run, any number of times
  MaxUpsets,      \* bound on the interruptions and the developer's changes
  Free, Stale     \* a lock nobody holds, a lock file whose Git is dead

AppGoals  == {"app", "open"}    \* those that may build the app
ExecGoals == {"serve", "run"}   \* those that become the process they launch
Goals == {"install", "start_server", "generate"} \cup AppGoals \cup ExecGoals

ASSUME RuntimeAssumption ==
  /\ InstallOrder \in Seq(Products) /\ PackageOrder \in Seq(Products)
  /\ InstallOrder # <<>> /\ PackageOrder # <<>>
  /\ Server \in Products /\ Cli \in Products
  /\ CommandsOf \in [Shells -> SUBSET Goals] /\ MaxUpsets \in Nat
  /\ Free \notin Shells /\ Stale \notin Shells \cup {Free}

VARIABLES
  head,        \* where HEAD is: no checkout, unborn, the branch tip, the pin
  index,       \* what is staged
  files,       \* what is in the working tree
  lock,        \* .git/index.lock
  built,       \* the source each release binary was built from
  buildLock,   \* SwiftPM's lock on .build
  app,         \* the source of ElasticUMA.app
  server,      \* the source of the binary of the process each shell spawned
  pc,          \* where each shell is
  goal,        \* the command it runs
  ok,          \* what runtime_status has seen so far
  installed,   \* whether the command has been through the bootstrap script
  patch,       \* the patch it is applying
  next,        \* the product it builds
  source,      \* the source the build read, or the bundle staged
  raced,       \* history: the tree was changed between a check and a build
  abandoned,   \* history: shells that died, or gave up, with a process alive
  upsets       \* history: interruptions and changes so far

tree == <<head, index, files, lock>>
builds == <<built, buildLock, app>>
servers == <<server, abandoned>>
locals == <<goal, ok, installed, patch, next, source>>
history == <<raced, upsets>>
vars == <<tree, builds, servers, pc, locals, history>>

Contents == {"empty", "partial", "base", "mechanism", "patched", "edited"}
Absent == "none"

StatusSteps == {"staged", "tree", "binaries"}
ScriptSteps == {"locate", "clone", "cloning", "checkout", "checkingOut", "cached",
                "worktree", "check", "apply", "applying", "verify", "sha", "build",
                "building"}
PackageSteps == {"pack", "packing", "stage", "remove", "move"}
OpenSteps == {"find", "open"}
ProcessSteps == {"waiting", "serving", "generating", "int", "term", "kill"}
LaunchSteps == {"pgrep", "spawn"} \cup ProcessSteps
BuildSteps == {"build", "building", "pack", "packing"}
Steps == {"idle"} \cup StatusSteps \cup ScriptSteps \cup PackageSteps \cup OpenSteps
         \cup LaunchSteps

\* The packager builds its own list of products.
Packaging(s) == pc[s] \in PackageSteps
Order(s) == IF Packaging(s) THEN PackageOrder ELSE InstallOrder

TypeOK ==
  /\ head \in {Absent, "unborn", "tip", "pinned"}
  /\ index \in Contents \ {"partial"} /\ files \in Contents
  /\ lock \in Shells \cup {Free, Stale}
  /\ built \in [Products -> Contents \cup {Absent}]
  /\ buildLock \in Shells \cup {Free}
  /\ app \in Contents \cup {Absent, "nested"}
  /\ server \in [Shells -> Contents \cup {Absent}]
  /\ pc \in [Shells -> Steps] /\ goal \in [Shells -> Goals]
  /\ ok \in [Shells -> BOOLEAN] /\ installed \in [Shells -> BOOLEAN]
  /\ patch \in [Shells -> {"mechanism", "patched"}]
  /\ next \in [Shells -> Nat]
  /\ \A s \in Shells : next[s] \in IF pc[s] \in BuildSteps THEN 1..Len(Order(s)) ELSE {1}
  /\ source \in [Shells -> Contents \cup {Absent}]
  /\ raced \in BOOLEAN /\ abandoned \subseteq Shells /\ upsets \in 0..MaxUpsets

Init ==
  /\ head = Absent /\ index = "empty" /\ files = "empty" /\ lock = Free
  /\ built = [p \in Products |-> Absent] /\ buildLock = Free /\ app = Absent
  /\ server = [s \in Shells |-> Absent]
  /\ pc = [s \in Shells |-> "idle"] /\ goal = [s \in Shells |-> "install"]
  /\ ok = [s \in Shells |-> FALSE] /\ installed = [s \in Shells |-> FALSE]
  /\ patch = [s \in Shells |-> "mechanism"] /\ next = [s \in Shells |-> 1]
  /\ source = [s \in Shells |-> Absent]
  /\ raced = FALSE /\ abandoned = {} /\ upsets = 0

-------------------------------------------------------------------------------
(* Helpers.                                                                 *)

Goto(s, step) == pc' = [pc EXCEPT ![s] = step]

\* The command ends, well or with an error; its locals are forgotten.
Leave(s) ==
  /\ Goto(s, "idle")
  /\ ok' = [ok EXCEPT ![s] = FALSE] /\ installed' = [installed EXCEPT ![s] = FALSE]
  /\ patch' = [patch EXCEPT ![s] = "mechanism"] /\ next' = [next EXCEPT ![s] = 1]
  /\ source' = [source EXCEPT ![s] = Absent]
  /\ goal' = [goal EXCEPT ![s] = "install"]

Proceed(s, step) == Goto(s, step) /\ UNCHANGED locals

\* git diff --quiet succeeds and git ls-files --others prints nothing.
Clean == files = index

Alive(s) == server[s] # Absent

\* The commands; install_runtime runs the script first, open_app looks for the
\* app, and the others ask for the status.
FirstStep(g) ==
  CASE g = "install" -> "locate"
    [] g = "open"    -> "find"
    [] OTHER         -> "staged"

Start(s) ==
  /\ pc[s] = "idle"
  /\ \E g \in CommandsOf[s] :
       /\ Goto(s, FirstStep(g))
       /\ goal' = [goal EXCEPT ![s] = g]
       /\ installed' = [installed EXCEPT ![s] = (g = "install")]
  /\ UNCHANGED <<tree, builds, servers, ok, patch, next, source, history>>

-------------------------------------------------------------------------------
(* The bootstrap script.                                                    *)

\* Mutant of Located: an existing checkout is checked out again.
LocatedAnew ==
  CASE head = Absent   -> "clone"
    [] head = "pinned" -> "checkout"
    [] OTHER           -> "refuse"

\* A checkout at any other revision is refused, one at the pin is kept.
Located ==
  CASE head = Absent   -> "clone"
    [] head = "pinned" -> "cached"
    [] OTHER           -> "refuse"

Locate(s) ==
  /\ pc[s] = "locate"
  /\ IF Located = "refuse" THEN Leave(s) ELSE Proceed(s, Located)
  /\ UNCHANGED <<tree, builds, servers, history>>

\* git clone refuses a directory that another shell has made meanwhile.
CloneBegins(s) ==
  /\ pc[s] = "clone"
  /\ IF head = Absent THEN head' = "unborn" /\ Proceed(s, "cloning")
                      ELSE UNCHANGED head /\ Leave(s)
  /\ UNCHANGED <<index, files, lock, builds, servers, history>>

\* The upstream branch may or may not end at the pinned commit.
CloneEnds(s) ==
  /\ pc[s] = "cloning"
  /\ head' \in {"tip", "pinned"}
  /\ Proceed(s, "checkout")
  /\ UNCHANGED <<index, files, lock, builds, servers, history>>

\* A clone that fails removes what it has made.
CloneFails(s) ==
  /\ pc[s] = "cloning"
  /\ head' = Absent
  /\ Leave(s)
  /\ UNCHANGED <<index, files, lock, builds, servers, history>>

CheckoutBegins(s) ==
  /\ pc[s] = "checkout" /\ lock = Free
  /\ lock' = s /\ files' = "partial"
  /\ Proceed(s, "checkingOut")
  /\ UNCHANGED <<head, index, builds, servers, history>>

CheckoutEnds(s) ==
  /\ pc[s] = "checkingOut"
  /\ head' = "pinned" /\ index' = "base" /\ files' = "base" /\ lock' = Free
  /\ Proceed(s, "cached")
  /\ UNCHANGED <<builds, servers, history>>

\* The patches go on a clean pinned tree only; the test is two reads.
ReadsIndex(s) ==
  /\ pc[s] = "cached"
  /\ Proceed(s, IF index = "base" THEN "worktree" ELSE "verify")
  /\ UNCHANGED <<tree, builds, servers, history>>

ReadsWorktree(s) ==
  /\ pc[s] = "worktree"
  /\ Proceed(s, IF Clean THEN "check" ELSE "verify")
  /\ UNCHANGED <<tree, builds, servers, history>>

\* What the tree must be for a patch to apply.
Below(p) == IF p = "mechanism" THEN "base" ELSE "mechanism"

\* git apply --check looks at the working tree.  An edited one may or may not
\* conflict with the patch.
ChecksPatch(s) ==
  /\ pc[s] = "check"
  /\ \/ files \in {Below(patch[s]), "edited"} /\ Proceed(s, "apply")
     \/ files # Below(patch[s]) /\ Leave(s)
  /\ UNCHANGED <<tree, builds, servers, history>>

\* Mutant of Applies: the patch is written without asking the index.
AppliesBlindly(s) == lock = Free

\* git apply --index wants the index lock, and index and tree below the patch.
Applies(s) ==
  /\ lock = Free /\ index = Below(patch[s])
  /\ files \in {Below(patch[s]), "edited"}

ApplyBegins(s) ==
  /\ pc[s] = "apply"
  /\ \/ /\ Applies(s)
        /\ lock' = s
        /\ files' = IF files = "edited" THEN files ELSE "partial"
        /\ Proceed(s, "applying")
     \/ /\ ~Applies(s) \/ files = "edited"
        /\ Leave(s)
        /\ UNCHANGED <<lock, files>>
  /\ UNCHANGED <<head, index, builds, servers, history>>

ApplyEnds(s) ==
  /\ pc[s] = "applying"
  /\ index' = patch[s] /\ lock' = Free
  /\ files' = IF files = "edited" THEN files ELSE patch[s]
  /\ patch' = [patch EXCEPT ![s] = "patched"]
  /\ Goto(s, IF patch[s] = "mechanism" THEN "check" ELSE "verify")
  /\ UNCHANGED <<head, builds, servers, goal, ok, installed, next, source, history>>

VerifiesTree(s) ==
  /\ pc[s] = "verify"
  /\ IF Clean THEN Proceed(s, "sha") ELSE Leave(s)
  /\ UNCHANGED <<tree, builds, servers, history>>

\* Mutant of StagedIsExact: any staged patch will do.
StagedIsAny == index \in {"mechanism", "patched", "edited"}

\* The hash of git diff --cached is the pinned PATCHSET_SHA256.
StagedIsExact == head = "pinned" /\ index = "patched"

VerifiesStaged(s) ==
  /\ pc[s] = "sha"
  /\ IF StagedIsExact THEN Proceed(s, "build") ELSE Leave(s)
  /\ UNCHANGED <<tree, builds, servers, history>>

-------------------------------------------------------------------------------
(* swift build, for the script and for the packager.                        *)

Product(s) == Order(s)[next[s]]

\* SwiftPM waits for another build in the same tree.
BuildBegins(s) ==
  /\ pc[s] \in {"build", "pack"} /\ buildLock = Free
  /\ buildLock' = s
  /\ source' = [source EXCEPT ![s] = files]
  /\ Goto(s, IF Packaging(s) THEN "packing" ELSE "building")
  /\ UNCHANGED <<tree, built, app, servers, goal, ok, installed, patch, next, history>>

\* The script ends with `test -x` on each product, and install_runtime with
\* another runtime_status; the packager goes on to stage the bundle.
AfterBuild(s) ==
  CASE next[s] < Len(Order(s)) -> IF Packaging(s) THEN "pack" ELSE "build"
    [] OTHER                   -> IF Packaging(s) THEN "stage" ELSE "staged"

\* Mutant of NextProduct: the list is not started again.
NextProductUnbounded(s) == next[s] + 1

NextProduct(s) == IF next[s] < Len(Order(s)) THEN next[s] + 1 ELSE 1

BuildEnds(s) ==
  /\ pc[s] \in {"building", "packing"}
  /\ built' = [built EXCEPT ![Product(s)] = source[s]] /\ buildLock' = Free
  /\ IF AfterBuild(s) = "staged" /\ \E p \in Products : built'[p] = Absent
     THEN Leave(s)
     ELSE /\ Goto(s, AfterBuild(s))
          /\ next' = [next EXCEPT ![s] = NextProduct(s)]
          /\ source' = [source EXCEPT ![s] = Absent]
          /\ UNCHANGED <<goal, ok, installed, patch>>
  /\ UNCHANGED <<tree, app, servers, history>>

BuildFails(s) ==
  /\ pc[s] \in {"building", "packing"}
  /\ buildLock' = Free
  /\ Leave(s)
  /\ UNCHANGED <<tree, built, app, servers, history>>

-------------------------------------------------------------------------------
(* runtime_status: three groups of reads, with nothing held between them.   *)

StatusStaged(s) ==
  /\ pc[s] = "staged"
  /\ ok' = [ok EXCEPT ![s] = StagedIsExact]
  /\ Goto(s, "tree")
  /\ UNCHANGED <<tree, builds, servers, goal, installed, patch, next, source, history>>

StatusTree(s) ==
  /\ pc[s] = "tree"
  /\ ok' = [ok EXCEPT ![s] = @ /\ head = "pinned" /\ Clean]
  /\ Goto(s, "binaries")
  /\ UNCHANGED <<tree, builds, servers, goal, installed, patch, next, source, history>>

BinariesReady == \A p \in Products : built[p] # Absent

\* What each command does with the answer.
AfterStatus(s) ==
  IF ok[s] /\ BinariesReady
  THEN CASE goal[s] = "install"    -> "idle"
         [] goal[s] \in AppGoals  -> "pack"
         [] OTHER                  -> "pgrep"
  ELSE IF goal[s] \in AppGoals /\ ~installed[s] THEN "locate" ELSE "idle"

StatusBinaries(s) ==
  /\ pc[s] = "binaries"
  /\ IF AfterStatus(s) = "idle"
     THEN Leave(s)
     ELSE /\ Goto(s, AfterStatus(s))
          /\ ok' = [ok EXCEPT ![s] = FALSE]
          /\ installed' = [installed EXCEPT ![s] = TRUE]
          /\ UNCHANGED <<goal, patch, next, source>>
  /\ UNCHANGED <<tree, builds, servers, history>>

-------------------------------------------------------------------------------
(* package_macos_app.sh, after its builds.                                  *)

StageBundle(s) ==
  /\ pc[s] = "stage"
  /\ IF built[Server] = Absent
     THEN Leave(s)
     ELSE /\ Goto(s, "remove")
          /\ source' = [source EXCEPT ![s] = built[Server]]
          /\ UNCHANGED <<goal, ok, installed, patch, next>>
  /\ UNCHANGED <<tree, builds, servers, history>>

RemoveOldApp(s) ==
  /\ pc[s] = "remove"
  /\ app' = Absent
  /\ Proceed(s, "move")
  /\ UNCHANGED <<tree, built, buildLock, servers, history>>

\* mv into a bundle that another packager has put there meanwhile nests.
MoveApp(s) ==
  /\ pc[s] = "move"
  /\ app' = IF app = Absent THEN source[s] ELSE "nested"
  /\ IF goal[s] = "open" THEN Proceed(s, "open") ELSE Leave(s)
  /\ UNCHANGED <<tree, built, buildLock, servers, history>>

\* open_app takes an app that is there as it is; without one it builds it, or
\* refuses if it was told --no-build.
FindApp(s) ==
  /\ pc[s] = "find"
  /\ \/ app # Absent /\ Proceed(s, "open")
     \/ app = Absent /\ (Proceed(s, "staged") \/ Leave(s))
  /\ UNCHANGED <<tree, builds, servers, history>>

\* /usr/bin/open, which fails if a packager has just removed the app.
OpenApp(s) ==
  /\ pc[s] = "open"
  /\ Leave(s)
  /\ UNCHANGED <<tree, builds, servers, history>>

-------------------------------------------------------------------------------
(* Launching: pgrep, then exec or Popen; the SDK's server and its handle,   *)
(* and its one-shot generation.                                             *)

Pgrep(s) ==
  /\ pc[s] = "pgrep"
  /\ IF \E t \in Shells : Alive(t) THEN Leave(s) ELSE Proceed(s, "spawn")
  /\ UNCHANGED <<tree, builds, servers, history>>

Binary(s) == IF goal[s] \in {"generate", "run"} THEN Cli ELSE Server

AfterSpawn(s) ==
  CASE goal[s] = "start_server" -> "waiting"
    [] goal[s] = "generate"     -> "generating"
    [] OTHER                    -> "serving"

Spawn(s) ==
  /\ pc[s] = "spawn"
  /\ IF built[Binary(s)] = Absent
     THEN UNCHANGED servers /\ Leave(s)
     ELSE /\ server' = [server EXCEPT ![s] = built[Binary(s)]]
          /\ Proceed(s, AfterSpawn(s))
          /\ UNCHANGED abandoned
  /\ UNCHANGED <<tree, builds, history>>

SeesExit(s) ==
  /\ pc[s] \in {"waiting", "generating", "int", "term", "kill"} /\ ~Alive(s)
  /\ Leave(s)
  /\ UNCHANGED <<tree, builds, servers, history>>

\* A live server listens sooner or later, or never; create_connection succeeds
\* whoever it is that listens on the port.
Connects(s) ==
  /\ pc[s] = "waiting" /\ \E t \in Shells : Alive(t)
  /\ Proceed(s, "serving")
  /\ UNCHANGED <<tree, builds, servers, history>>

\* Mutant of StepAfterTimeout: the error is raised without stopping the server.
StepAfterTimeoutRaise == "idle"

\* The deadline has passed: stop the server, then raise.
StepAfterTimeout == "int"

ReadyTimesOut(s) ==
  /\ pc[s] = "waiting"
  /\ Proceed(s, StepAfterTimeout)
  /\ UNCHANGED <<tree, builds, servers, history>>

\* subprocess.run kills its child at the timeout, if there is one.
GenerateTimesOut(s) ==
  /\ pc[s] = "generating"
  /\ Proceed(s, "kill")
  /\ UNCHANGED <<tree, builds, servers, history>>

\* ServerHandle.stop, or the end of a process this one was replaced by.
StopBegins(s) ==
  /\ pc[s] = "serving"
  /\ IF Alive(s) THEN goal[s] = "start_server" /\ Proceed(s, "int") ELSE Leave(s)
  /\ UNCHANGED <<tree, builds, servers, history>>

\* Mutant of NextSignal: SIGTERM is the last one.
NextSignalMild(step) == "term"

\* SIGINT, SIGTERM, SIGKILL, each with its timeout.
NextSignal(step) == IF step = "int" THEN "term" ELSE "kill"

StopEscalates(s) ==
  /\ pc[s] \in {"int", "term"}
  /\ Proceed(s, NextSignal(pc[s]))
  /\ UNCHANGED <<tree, builds, servers, history>>

\* The last wait of stop may time out too: TimeoutExpired is raised.
StopGivesUp(s) ==
  /\ pc[s] = "kill" /\ Alive(s) /\ goal[s] = "start_server"
  /\ abandoned' = abandoned \cup {s}
  /\ Leave(s)
  /\ UNCHANGED <<tree, builds, server, history>>

\* Told to, for want of the port, or for reasons of its own.
ServerExits(s) ==
  /\ Alive(s)
  /\ server' = [server EXCEPT ![s] = Absent]
  /\ abandoned' = abandoned \ {s}
  /\ UNCHANGED <<tree, builds, pc, locals, history>>

-------------------------------------------------------------------------------
(* Interruptions, and the developer.                                        *)

\* Bounds what happens to the commands; the commands themselves repeat freely.
Upset == upsets < MaxUpsets /\ upsets' = upsets + 1

\* A process that the command waits for, in its own process group.
RunsChild(s) == goal[s] = "generate" /\ pc[s] \in {"generating", "kill"}

\* The command dies with the tools it runs.  Git may or may not clean up after
\* itself; a server is in a session of its own and goes on.
Interrupted(s) ==
  /\ pc[s] # "idle" /\ ~(pc[s] = "serving" /\ goal[s] \in ExecGoals)
  /\ Upset
  /\ lock' \in IF lock = s THEN {Free, Stale} ELSE {lock}
  /\ head' \in IF pc[s] = "cloning" THEN {Absent, head} ELSE {head}
  /\ built' \in IF buildLock = s THEN {built, [built EXCEPT ![Product(s)] = Absent]}
                                 ELSE {built}
  /\ buildLock' = IF buildLock = s THEN Free ELSE buildLock
  /\ server' = IF RunsChild(s) THEN [server EXCEPT ![s] = Absent] ELSE server
  /\ abandoned' = IF Alive(s) /\ ~RunsChild(s) THEN abandoned \cup {s} ELSE abandoned
  /\ Leave(s)
  /\ UNCHANGED <<index, files, app, raced>>

\* A shell that has found the tree clean and has yet to build from it.
PastTreeCheck(s) ==
  \/ pc[s] \in {"sha", "build", "building", "pack", "packing"}
  \/ pc[s] = "binaries" /\ goal[s] \in AppGoals /\ ok[s]

\* A packager whose status has found the patches staged and not yet asked
\* whether the tree is clean.
PastStagedCheck(s) == pc[s] = "tree" /\ goal[s] \in AppGoals /\ ok[s]

Edits ==
  /\ files \in {"base", "mechanism", "patched"}
  /\ Upset
  /\ files' = "edited"
  /\ raced' = (raced \/ \E s \in Shells : PastTreeCheck(s))
  /\ UNCHANGED <<head, index, lock, builds, servers, pc, locals>>

\* Staging between the two reads of a status hides the edit from the second.
StagesEdit ==
  /\ files = "edited" /\ index # "edited" /\ lock = Free
  /\ index' = "edited"
  /\ raced' = (raced \/ \E s \in Shells : PastStagedCheck(s))
  /\ UNCHANGED <<head, files, lock, builds, servers, pc, locals, upsets>>

RevertsEdit ==
  /\ files = "edited" /\ index # "edited" /\ lock = Free
  /\ files' = index
  /\ UNCHANGED <<head, index, lock, builds, servers, pc, locals, history>>

\* git reset --hard
Resets ==
  /\ head = "pinned" /\ lock = Free /\ index # "empty"
  /\ index # "base" \/ files # "base"
  /\ Upset
  /\ index' = "base" /\ files' = "base"
  /\ raced' = (raced \/ \E s \in Shells : PastTreeCheck(s) \/ PastStagedCheck(s))
  /\ UNCHANGED <<head, lock, builds, servers, pc, locals>>

\* The remedy of docs/install.md: move the checkout away and run install again.
MovesAside ==
  /\ head # Absent /\ \A s \in Shells : pc[s] = "idle"
  /\ head' = Absent /\ index' = "empty" /\ files' = "empty" /\ lock' = Free
  /\ built' = [p \in Products |-> Absent]
  /\ UNCHANGED <<buildLock, app, servers, pc, locals, history>>

Developer == Edits \/ StagesEdit \/ RevertsEdit \/ Resets \/ MovesAside

Script(s) ==
  \/ Locate(s) \/ CloneBegins(s) \/ CloneEnds(s) \/ CheckoutBegins(s) \/ CheckoutEnds(s)
  \/ ReadsIndex(s) \/ ReadsWorktree(s) \/ ChecksPatch(s) \/ ApplyBegins(s) \/ ApplyEnds(s)
  \/ VerifiesTree(s) \/ VerifiesStaged(s) \/ BuildBegins(s) \/ BuildEnds(s)

Status(s) == StatusStaged(s) \/ StatusTree(s) \/ StatusBinaries(s)
Package(s) == FindApp(s) \/ StageBundle(s) \/ RemoveOldApp(s) \/ MoveApp(s) \/ OpenApp(s)
Launch(s) ==
  \/ Pgrep(s) \/ Spawn(s) \/ SeesExit(s) \/ Connects(s) \/ ReadyTimesOut(s)
  \/ StopEscalates(s) \/ StopGivesUp(s)

\* SIGKILL is not ignored.
KilledExits(s) == pc[s] = "kill" /\ ServerExits(s)

Command(s) == Script(s) \/ Status(s) \/ Package(s) \/ Launch(s)

Next ==
  \/ \E s \in Shells :
       \/ Command(s) \/ Start(s) \/ StopBegins(s) \/ GenerateTimesOut(s)
       \/ CloneFails(s) \/ BuildFails(s) \/ Interrupted(s)
       \/ ServerExits(s)
  \/ Developer

Spec == Init /\ [][Next]_vars

\* A command goes on as long as it can; a build that waits for SwiftPM's lock
\* gets it; SIGKILL ends a process.  Nobody has to start or stop anything, no
\* server has to listen, and a generation may take for ever.
FairSpec ==
  /\ Spec
  /\ \A s \in Shells :
       WF_vars(Command(s)) /\ SF_vars(BuildBegins(s)) /\ WF_vars(KilledExits(s))

-------------------------------------------------------------------------------
(* Properties.                                                              *)

\* Everything built, packaged or running comes from the pinned commit with both
\* patches: what the script and runtime_status refuse is never built, in no
\* order of two installs, packagers and interruptions.  The one exception is a
\* tree that is changed after a check and before the build the check was for.
OnlyPatchedIsUsed ==
  raced \/ /\ \A p \in Products : built[p] \in {Absent, "patched"}
           /\ \A s \in Shells : server[s] \in {Absent, "patched"}
           /\ app \in {Absent, "nested", "patched"}

\* start_server that raises, stop that returns, and generate, however it ends,
\* leave no process: one without its command belongs to a start_server that was
\* interrupted, or to a stop that gave up after SIGKILL.
NoServerLeft == \A s \in Shells : pc[s] = "idle" /\ Alive(s) => s \in abandoned

\* "ElasticUMA refuses to overwrite an altered runtime tree": only the developer
\* undoes an edit, whatever commands run, also those that began before it.
EditsKept == [][files = "edited" /\ files' # "edited" => Developer]_vars

Ready == StagedIsExact /\ Clean /\ BinariesReady

\* A runtime that is ready stays ready while commands run, also one that began
\* when it was not: a second install neither unpatches nor unbuilds it.
ReadyIsStable == [][Ready /\ ~Ready' => Developer \/ \E s \in Shells : Interrupted(s)]_vars

\* The inductive invariant of the properties above, in parts; NativeRuntimeProofs
\* shows what follows from it.
\* A clone is one shell's alone, and nothing is staged before it is done.
CloneSteps == {"cloning", "checkout", "checkingOut"}
OneCloner ==
  /\ head = Absent => index = "empty" /\ files = "empty"
  /\ \A s \in Shells : pc[s] \in CloneSteps =>
       /\ head # Absent /\ index = "empty"
       /\ files = IF pc[s] = "checkingOut" THEN "partial" ELSE "empty"
       /\ \A t \in Shells : pc[t] \in CloneSteps => s = t

\* A patch is written under the index lock, on the tree it belongs on.
PatchesInOrder ==
  \A s \in Shells : pc[s] = "applying" =>
    lock = s /\ index = Below(patch[s]) /\ files \in {"partial", "edited"}

\* Until the tree is changed under it, a check is still true when it is relied on.
ChecksHold ==
  raced \/ \A s \in Shells :
    /\ pc[s] = "sha" => files = index \/ (files = "partial" /\ index # "patched")
    /\ PastTreeCheck(s) /\ pc[s] # "sha" => files = "patched" /\ index = "patched"
    /\ PastStagedCheck(s) => index = "patched"
    /\ pc[s] \in {"building", "packing", "remove", "move"} => source[s] = "patched"

\* A live process has the command that spawned it, or is known to be left over.
ServersOwned ==
  \A s \in Shells :
    /\ Alive(s) => s \in abandoned \/ pc[s] \in ProcessSteps
    /\ pc[s] = "spawn" => ~Alive(s)

BuildsHaveSource ==
  \A s \in Shells : pc[s] \in {"building", "packing"} => source[s] # Absent

RuntimeInvariant ==
  /\ TypeOK /\ OneCloner /\ PatchesInOrder /\ BuildsHaveSource /\ ChecksHold
  /\ ServersOwned /\ OnlyPatchedIsUsed

\* Every command comes to its end, or to a model process that is running.
CommandEnds ==
  \A s \in Shells : pc[s] # "idle" ~> pc[s] \in {"idle", "serving", "generating"}

===============================================================================
