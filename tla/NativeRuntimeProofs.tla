-------------------------- MODULE NativeRuntimeProofs -------------------------
(***************************************************************************)
(* Proofs about NativeRuntime for every number of shells, every assignment *)
(* of commands to them, all lists of products and every number of          *)
(* interruptions: RuntimeInvariant is inductive, and from it follow the    *)
(* safety and the action properties of the module.                         *)
(*                                                                         *)
(* Each lemma shows that one part of the invariant is kept, from the parts *)
(* it rests on; its steps are the groups of actions of Next.               *)
(***************************************************************************)
EXTENDS NativeRuntime, TLAPS

-------------------------------------------------------------------------------
(* Types.  The conjuncts of TypeOK, by what they rest on.                   *)

TreeTyped ==
  /\ head \in {Absent, "unborn", "tip", "pinned"}
  /\ index \in Contents \ {"partial"} /\ files \in Contents
  /\ lock \in Shells \cup {Free, Stale}

BuildsTyped ==
  /\ built \in [Products -> Contents \cup {Absent}]
  /\ buildLock \in Shells \cup {Free}
  /\ app \in Contents \cup {Absent, "nested"}

ServersTyped == server \in [Shells -> Contents \cup {Absent}] /\ abandoned \subseteq Shells

CommandsTyped == pc \in [Shells -> Steps] /\ goal \in [Shells -> Goals]

FlagsTyped ==
  /\ ok \in [Shells -> BOOLEAN] /\ installed \in [Shells -> BOOLEAN]
  /\ patch \in [Shells -> {"mechanism", "patched"}]

SourceTyped == source \in [Shells -> Contents \cup {Absent}]

HistoryTyped == raced \in BOOLEAN /\ upsets \in 0..MaxUpsets

\* The products a shell at a step may be at.
Range(step) ==
  IF step \in BuildSteps
  THEN 1..Len(IF step \in PackageSteps THEN PackageOrder ELSE InstallOrder)
  ELSE {1}

NextTyped == next \in [Shells -> Nat] /\ \A s \in Shells : next[s] \in Range(pc[s])

\* TypeOK is the conjunction of its parts.
LEMMA TypeParts ==
  TypeOK <=> /\ TreeTyped /\ BuildsTyped /\ ServersTyped /\ CommandsTyped
             /\ FlagsTyped /\ SourceTyped /\ HistoryTyped /\ NextTyped
<1>1. \A s \in Shells :
        Range(pc[s]) = IF pc[s] \in BuildSteps THEN 1..Len(Order(s)) ELSE {1}
  BY DEF Range, Order, Packaging
<1> QED
  BY <1>1 DEF TypeOK, TreeTyped, BuildsTyped, ServersTyped, CommandsTyped, FlagsTyped,
              SourceTyped, HistoryTyped, NextTyped

\* The checkout and its lock keep their types.
LEMMA TreeTypesKept ==
  ASSUME TreeTyped, pc \in [Shells -> Steps],
         patch \in [Shells -> {"mechanism", "patched"}], [Next]_vars
  PROVE  TreeTyped'
<1> USE DEF Goto, Proceed, Leave, tree, builds, servers, locals, history, Absent,
            TreeTyped, Contents
<1>1. ASSUME NEW s \in Shells, Script(s) PROVE TreeTyped'
  BY <1>1 DEF Script, Locate, Located, CloneBegins, CloneEnds, CheckoutBegins,
              CheckoutEnds, ReadsIndex, ReadsWorktree, ChecksPatch, ApplyBegins,
              Applies, ApplyEnds, Below, VerifiesTree, VerifiesStaged, BuildBegins,
              BuildEnds
<1>2. ASSUME NEW s \in Shells, CloneFails(s) \/ BuildFails(s) PROVE TreeTyped'
  BY <1>2 DEF CloneFails, BuildFails
<1>3. ASSUME NEW s \in Shells, Status(s) \/ Package(s) \/ Start(s)
      PROVE  TreeTyped'
  BY <1>3 DEF Status, StatusStaged, StatusTree, StatusBinaries, AfterStatus, Package,
              StageBundle, RemoveOldApp, MoveApp, FindApp, OpenApp, AppGoals, Start,
              FirstStep
<1>4. ASSUME NEW s \in Shells, \/ Launch(s) \/ StopBegins(s)
             \/ GenerateTimesOut(s) \/ ServerExits(s)
      PROVE  TreeTyped'
  BY <1>4 DEF Launch, Pgrep, Binary, AfterSpawn, Spawn, GenerateTimesOut, SeesExit,
              Connects, ReadyTimesOut, StepAfterTimeout, StopBegins, StopEscalates,
              NextSignal, StopGivesUp, ServerExits
<1>5. ASSUME NEW s \in Shells, Interrupted(s) PROVE TreeTyped'
  BY <1>5 DEF Interrupted
<1>6. CASE Developer
  BY <1>6 DEF Developer, Edits, StagesEdit, RevertsEdit, Resets, MovesAside
<1>7. CASE UNCHANGED vars
  BY <1>7 DEF vars
<1>8. QED
  BY <1>1, <1>2, <1>3, <1>4, <1>5, <1>6, <1>7 DEF Next, Command

\* So do the products, the SwiftPM lock and the application: a build writes
\* the source it read, a packager the bundle it staged.
LEMMA BuildTypesKept ==
  ASSUME BuildsTyped, SourceTyped, [Next]_vars
  PROVE  BuildsTyped'
<1> USE DEF Goto, Proceed, Leave, tree, builds, servers, locals, history, Absent,
            BuildsTyped, SourceTyped, Contents
<1>1. ASSUME NEW s \in Shells, Script(s) PROVE BuildsTyped'
  BY <1>1 DEF Script, Locate, Located, CloneBegins, CloneEnds, CheckoutBegins,
              CheckoutEnds, ReadsIndex, ReadsWorktree, ChecksPatch, ApplyBegins,
              Applies, ApplyEnds, Below, VerifiesTree, VerifiesStaged, BuildBegins,
              BuildEnds
<1>2. ASSUME NEW s \in Shells, CloneFails(s) \/ BuildFails(s) PROVE BuildsTyped'
  BY <1>2 DEF CloneFails, BuildFails
<1>3. ASSUME NEW s \in Shells, Status(s) \/ Package(s) \/ Start(s)
      PROVE  BuildsTyped'
  BY <1>3 DEF Status, StatusStaged, StatusTree, StatusBinaries, AfterStatus, Package,
              StageBundle, RemoveOldApp, MoveApp, FindApp, OpenApp, AppGoals, Start,
              FirstStep
<1>4. ASSUME NEW s \in Shells, \/ Launch(s) \/ StopBegins(s)
             \/ GenerateTimesOut(s) \/ ServerExits(s)
      PROVE  BuildsTyped'
  BY <1>4 DEF Launch, Pgrep, Binary, AfterSpawn, Spawn, GenerateTimesOut, SeesExit,
              Connects, ReadyTimesOut, StepAfterTimeout, StopBegins, StopEscalates,
              NextSignal, StopGivesUp, ServerExits
<1>5. ASSUME NEW s \in Shells, Interrupted(s) PROVE BuildsTyped'
  BY <1>5 DEF Interrupted
<1>6. CASE Developer
  BY <1>6 DEF Developer, Edits, StagesEdit, RevertsEdit, Resets, MovesAside
<1>7. CASE UNCHANGED vars
  BY <1>7 DEF vars
<1>8. QED
  BY <1>1, <1>2, <1>3, <1>4, <1>5, <1>6, <1>7 DEF Next, Command

\* So do the processes: a spawned one runs what was built.
LEMMA ServerTypesKept ==
  ASSUME ServersTyped, BuildsTyped, Server \in Products, Cli \in Products,
         [Next]_vars
  PROVE  ServersTyped'
<1> USE DEF Goto, Proceed, Leave, tree, builds, servers, locals, history, Absent,
            ServersTyped, BuildsTyped, Contents
<1>1. ASSUME NEW s \in Shells, Script(s) PROVE ServersTyped'
  BY <1>1 DEF Script, Locate, Located, CloneBegins, CloneEnds, CheckoutBegins,
              CheckoutEnds, ReadsIndex, ReadsWorktree, ChecksPatch, ApplyBegins,
              Applies, ApplyEnds, Below, VerifiesTree, VerifiesStaged, BuildBegins,
              BuildEnds
<1>2. ASSUME NEW s \in Shells, CloneFails(s) \/ BuildFails(s) PROVE ServersTyped'
  BY <1>2 DEF CloneFails, BuildFails
<1>3. ASSUME NEW s \in Shells, Status(s) \/ Package(s) \/ Start(s)
      PROVE  ServersTyped'
  BY <1>3 DEF Status, StatusStaged, StatusTree, StatusBinaries, AfterStatus, Package,
              StageBundle, RemoveOldApp, MoveApp, FindApp, OpenApp, AppGoals, Start,
              FirstStep
<1>4. ASSUME NEW s \in Shells, \/ Launch(s) \/ StopBegins(s)
             \/ GenerateTimesOut(s) \/ ServerExits(s)
      PROVE  ServersTyped'
  BY <1>4 DEF Launch, Pgrep, Binary, AfterSpawn, Spawn, GenerateTimesOut, SeesExit,
              Connects, ReadyTimesOut, StepAfterTimeout, StopBegins, StopEscalates,
              NextSignal, StopGivesUp, ServerExits
<1>5. ASSUME NEW s \in Shells, Interrupted(s) PROVE ServersTyped'
  BY <1>5 DEF Interrupted
<1>6. CASE Developer
  BY <1>6 DEF Developer, Edits, StagesEdit, RevertsEdit, Resets, MovesAside
<1>7. CASE UNCHANGED vars
  BY <1>7 DEF vars
<1>8. QED
  BY <1>1, <1>2, <1>3, <1>4, <1>5, <1>6, <1>7 DEF Next, Command

\* So do the places and the commands of the shells.
LEMMA CommandTypesKept ==
  ASSUME CommandsTyped, CommandsOf \in [Shells -> SUBSET Goals], [Next]_vars
  PROVE  CommandsTyped'
<1> USE DEF Goto, Proceed, Leave, tree, builds, servers, locals, history, Absent,
            CommandsTyped, Goals, AppGoals, ExecGoals, Steps, StatusSteps,
            ScriptSteps, PackageSteps, OpenSteps, LaunchSteps, ProcessSteps
<1>1. ASSUME NEW s \in Shells, Script(s) PROVE CommandsTyped'
  BY <1>1 DEF Script, Locate, Located, CloneBegins, CloneEnds, CheckoutBegins,
              CheckoutEnds, ReadsIndex, ReadsWorktree, ChecksPatch, ApplyBegins,
              Applies, ApplyEnds, Below, VerifiesTree, VerifiesStaged, BuildBegins,
              BuildEnds, Packaging, AfterBuild, Clean, StagedIsExact
<1>2. ASSUME NEW s \in Shells, CloneFails(s) \/ BuildFails(s) PROVE CommandsTyped'
  BY <1>2 DEF CloneFails, BuildFails
<1>3. ASSUME NEW s \in Shells, Status(s) \/ Package(s) \/ Start(s)
      PROVE  CommandsTyped'
  BY <1>3 DEF Status, StatusStaged, StatusTree, StatusBinaries, AfterStatus, Package,
              StageBundle, RemoveOldApp, MoveApp, FindApp, OpenApp, AppGoals, Start,
              FirstStep
<1>4. ASSUME NEW s \in Shells, \/ Launch(s) \/ StopBegins(s)
             \/ GenerateTimesOut(s) \/ ServerExits(s)
      PROVE  CommandsTyped'
  BY <1>4 DEF Launch, Pgrep, Binary, AfterSpawn, Spawn, GenerateTimesOut, SeesExit,
              Connects, ReadyTimesOut, StepAfterTimeout, StopBegins, StopEscalates,
              NextSignal, StopGivesUp, ServerExits
<1>5. ASSUME NEW s \in Shells, Interrupted(s) PROVE CommandsTyped'
  BY <1>5 DEF Interrupted
<1>6. CASE Developer
  BY <1>6 DEF Developer, Edits, StagesEdit, RevertsEdit, Resets, MovesAside
<1>7. CASE UNCHANGED vars
  BY <1>7 DEF vars
<1>8. QED
  BY <1>1, <1>2, <1>3, <1>4, <1>5, <1>6, <1>7 DEF Next, Command

\* So do what a shell has seen of the status, and its patch.
LEMMA FlagTypesKept ==
  ASSUME FlagsTyped, [Next]_vars
  PROVE  FlagsTyped'
<1> USE DEF Goto, Proceed, Leave, tree, builds, servers, locals, history, Absent,
            FlagsTyped
<1>1. ASSUME NEW s \in Shells, Script(s) PROVE FlagsTyped'
  BY <1>1 DEF Script, Locate, Located, CloneBegins, CloneEnds, CheckoutBegins,
              CheckoutEnds, ReadsIndex, ReadsWorktree, ChecksPatch, ApplyBegins,
              Applies, ApplyEnds, Below, VerifiesTree, VerifiesStaged, BuildBegins,
              BuildEnds
<1>2. ASSUME NEW s \in Shells, CloneFails(s) \/ BuildFails(s) PROVE FlagsTyped'
  BY <1>2 DEF CloneFails, BuildFails
<1>3. ASSUME NEW s \in Shells, Status(s) \/ Package(s) \/ Start(s)
      PROVE  FlagsTyped'
  BY <1>3 DEF Status, StatusStaged, StatusTree, StatusBinaries, AfterStatus, Package,
              StageBundle, RemoveOldApp, MoveApp, FindApp, OpenApp, AppGoals, Start,
              FirstStep, Clean, StagedIsExact
<1>4. ASSUME NEW s \in Shells, \/ Launch(s) \/ StopBegins(s)
             \/ GenerateTimesOut(s) \/ ServerExits(s)
      PROVE  FlagsTyped'
  BY <1>4 DEF Launch, Pgrep, Binary, AfterSpawn, Spawn, GenerateTimesOut, SeesExit,
              Connects, ReadyTimesOut, StepAfterTimeout, StopBegins, StopEscalates,
              NextSignal, StopGivesUp, ServerExits
<1>5. ASSUME NEW s \in Shells, Interrupted(s) PROVE FlagsTyped'
  BY <1>5 DEF Interrupted
<1>6. CASE Developer
  BY <1>6 DEF Developer, Edits, StagesEdit, RevertsEdit, Resets, MovesAside
<1>7. CASE UNCHANGED vars
  BY <1>7 DEF vars
<1>8. QED
  BY <1>1, <1>2, <1>3, <1>4, <1>5, <1>6, <1>7 DEF Next, Command

\* So does the source a shell builds from or has staged.
LEMMA SourceTypesKept ==
  ASSUME SourceTyped, TreeTyped, BuildsTyped, Server \in Products, Cli \in Products,
         [Next]_vars
  PROVE  SourceTyped'
<1> USE DEF Goto, Proceed, Leave, tree, builds, servers, locals, history, Absent,
            SourceTyped, TreeTyped, BuildsTyped, Contents
<1>1. ASSUME NEW s \in Shells, Script(s) PROVE SourceTyped'
  BY <1>1 DEF Script, Locate, Located, CloneBegins, CloneEnds, CheckoutBegins,
              CheckoutEnds, ReadsIndex, ReadsWorktree, ChecksPatch, ApplyBegins,
              Applies, ApplyEnds, Below, VerifiesTree, VerifiesStaged, BuildBegins,
              BuildEnds
<1>2. ASSUME NEW s \in Shells, CloneFails(s) \/ BuildFails(s) PROVE SourceTyped'
  BY <1>2 DEF CloneFails, BuildFails
<1>3. ASSUME NEW s \in Shells, Status(s) \/ Package(s) \/ Start(s)
      PROVE  SourceTyped'
  BY <1>3 DEF Status, StatusStaged, StatusTree, StatusBinaries, AfterStatus, Package,
              StageBundle, RemoveOldApp, MoveApp, FindApp, OpenApp, AppGoals, Start,
              FirstStep
<1>4. ASSUME NEW s \in Shells, \/ Launch(s) \/ StopBegins(s)
             \/ GenerateTimesOut(s) \/ ServerExits(s)
      PROVE  SourceTyped'
  BY <1>4 DEF Launch, Pgrep, Binary, AfterSpawn, Spawn, GenerateTimesOut, SeesExit,
              Connects, ReadyTimesOut, StepAfterTimeout, StopBegins, StopEscalates,
              NextSignal, StopGivesUp, ServerExits
<1>5. ASSUME NEW s \in Shells, Interrupted(s) PROVE SourceTyped'
  BY <1>5 DEF Interrupted
<1>6. CASE Developer
  BY <1>6 DEF Developer, Edits, StagesEdit, RevertsEdit, Resets, MovesAside
<1>7. CASE UNCHANGED vars
  BY <1>7 DEF vars
<1>8. QED
  BY <1>1, <1>2, <1>3, <1>4, <1>5, <1>6, <1>7 DEF Next, Command

\* So does the history: no more interruptions and changes than the bound.
LEMMA HistoryTypesKept ==
  ASSUME HistoryTyped, MaxUpsets \in Nat, [Next]_vars
  PROVE  HistoryTyped'
<1> USE DEF Goto, Proceed, Leave, tree, builds, servers, locals, history, Absent,
            HistoryTyped
<1>1. ASSUME NEW s \in Shells, Script(s) PROVE HistoryTyped'
  BY <1>1 DEF Script, Locate, Located, CloneBegins, CloneEnds, CheckoutBegins,
              CheckoutEnds, ReadsIndex, ReadsWorktree, ChecksPatch, ApplyBegins,
              Applies, ApplyEnds, Below, VerifiesTree, VerifiesStaged, BuildBegins,
              BuildEnds
<1>2. ASSUME NEW s \in Shells, CloneFails(s) \/ BuildFails(s) PROVE HistoryTyped'
  BY <1>2 DEF CloneFails, BuildFails
<1>3. ASSUME NEW s \in Shells, Status(s) \/ Package(s) \/ Start(s)
      PROVE  HistoryTyped'
  BY <1>3 DEF Status, StatusStaged, StatusTree, StatusBinaries, AfterStatus, Package,
              StageBundle, RemoveOldApp, MoveApp, FindApp, OpenApp, AppGoals, Start,
              FirstStep
<1>4. ASSUME NEW s \in Shells, \/ Launch(s) \/ StopBegins(s)
             \/ GenerateTimesOut(s) \/ ServerExits(s)
      PROVE  HistoryTyped'
  BY <1>4 DEF Launch, Pgrep, Binary, AfterSpawn, Spawn, GenerateTimesOut, SeesExit,
              Connects, ReadyTimesOut, StepAfterTimeout, StopBegins, StopEscalates,
              NextSignal, StopGivesUp, ServerExits
<1>5. ASSUME NEW s \in Shells, Interrupted(s) PROVE HistoryTyped'
  BY <1>5 DEF Interrupted, Upset
<1>6. CASE Developer
  <2>1. raced' \in BOOLEAN
    BY <1>6, Zenon DEF Developer, Edits, StagesEdit, RevertsEdit, Resets, MovesAside
  <2>2. upsets' \in 0..MaxUpsets
    BY <1>6 DEF Developer, Edits, StagesEdit, RevertsEdit, Resets, MovesAside, Upset
  <2>3. QED
    BY <2>1, <2>2
<1>7. CASE UNCHANGED vars
  BY <1>7 DEF vars
<1>8. QED
  BY <1>1, <1>2, <1>3, <1>4, <1>5, <1>6, <1>7 DEF Next, Command

\* The lists of products are not empty.
LEMMA FirstInRange ==
  ASSUME RuntimeAssumption, NEW step PROVE 1 \in Range(step)
<1>1. Len(InstallOrder) \in Nat /\ Len(PackageOrder) \in Nat
  BY DEF RuntimeAssumption
<1>2. Len(InstallOrder) # 0 /\ Len(PackageOrder) # 0
  BY DEF RuntimeAssumption
<1> QED
  BY <1>1, <1>2 DEF Range

\* A shell that moves on, with a product that is in range where it goes.
LEMMA MovesInRange ==
  ASSUME pc \in [Shells -> Steps], NextTyped, NEW s \in Shells, NEW step, NEW n \in Nat,
         Goto(s, step), next' = [next EXCEPT ![s] = n], n \in Range(step)
  PROVE  NextTyped'
BY DEF NextTyped, Goto, Range

\* A shell that moves on with the product it had.
LEMMA StaysInRange ==
  ASSUME pc \in [Shells -> Steps], NextTyped, NEW s \in Shells, NEW step,
         Goto(s, step), UNCHANGED next, next[s] \in Range(step)
  PROVE  NextTyped'
BY DEF NextTyped, Goto, Range

\* A shell that ends its command.
LEMMA LeavesInRange ==
  ASSUME pc \in [Shells -> Steps], NextTyped, NEW s \in Shells, Leave(s)
  PROVE  NextTyped'
<1>1. 1 \in Range("idle")
  BY DEF Range, BuildSteps
<1> QED
  BY <1>1, MovesInRange DEF Leave

\* Every shell that builds is at a product of its list, every other at the
\* first: a build either takes the next of the list or ends it.
LEMMA NextTypesKept ==
  ASSUME RuntimeAssumption, pc \in [Shells -> Steps], NextTyped, [Next]_vars
  PROVE  NextTyped'
<1>1. ASSUME NEW s \in Shells, pc[s] \notin BuildSteps, NEW step, Goto(s, step),
             UNCHANGED next
      PROVE  NextTyped'
  BY <1>1, FirstInRange, StaysInRange DEF NextTyped, Range
<1> USE DEF Proceed, locals
<1>2. ASSUME NEW s \in Shells, Script(s) PROVE NextTyped'
  <2>1. CASE BuildBegins(s)
    BY <2>1, StaysInRange
       DEF BuildBegins, NextTyped, Range, Packaging, PackageSteps, BuildSteps
  <2>2. CASE BuildEnds(s)
    <3>1. CASE Leave(s)
      BY <3>1, LeavesInRange
    <3>2. CASE Goto(s, AfterBuild(s)) /\ next' = [next EXCEPT ![s] = NextProduct(s)]
      <4>1. NextProduct(s) \in Range(AfterBuild(s))
        BY <2>2, FirstInRange
           DEF BuildEnds, AfterBuild, NextProduct, NextTyped, Range, Order, Packaging,
               PackageSteps, BuildSteps, RuntimeAssumption
      <4>2. NextProduct(s) \in Nat
        BY DEF NextProduct, NextTyped
      <4> QED
        BY <3>2, <4>1, <4>2, MovesInRange
    <3> QED
      BY <2>2, <3>1, <3>2 DEF BuildEnds
  <2>3. CASE Leave(s)
    BY <2>3, LeavesInRange
  <2> QED
    BY <1>1, <1>2, <2>1, <2>2, <2>3
       DEF Script, Locate, Located, CloneBegins, CloneEnds, CheckoutBegins, CheckoutEnds,
           ReadsIndex, ReadsWorktree, ChecksPatch, ApplyBegins, ApplyEnds, VerifiesTree,
           VerifiesStaged, BuildSteps
<1>3. ASSUME NEW s \in Shells,
             CloneFails(s) \/ BuildFails(s) \/ Interrupted(s) PROVE NextTyped'
  BY <1>3, LeavesInRange DEF CloneFails, BuildFails, Interrupted
<1>4. ASSUME NEW s \in Shells, Status(s) \/ Package(s) \/ Start(s) PROVE NextTyped'
  BY <1>1, <1>4, LeavesInRange
     DEF Status, StatusStaged, StatusTree, StatusBinaries, Package, FindApp, StageBundle,
         RemoveOldApp, MoveApp, OpenApp, Start, BuildSteps
<1>5. ASSUME NEW s \in Shells, Launch(s) \/ StopBegins(s) \/ GenerateTimesOut(s)
      PROVE  NextTyped'
  BY <1>1, <1>5, LeavesInRange
     DEF Launch, Pgrep, Spawn, AfterSpawn, SeesExit, Connects, ReadyTimesOut,
         StepAfterTimeout, NextSignal, GenerateTimesOut, StopBegins,
         StopEscalates, StopGivesUp, BuildSteps
<1>6. CASE Developer \/ (\E s \in Shells : ServerExits(s)) \/ UNCHANGED vars
  BY <1>6 DEF Developer, Edits, StagesEdit, RevertsEdit, Resets, MovesAside, ServerExits,
              vars, NextTyped
<1> QED
  BY <1>2, <1>3, <1>4, <1>5, <1>6 DEF Next, Command

-------------------------------------------------------------------------------
(* The parts of RuntimeInvariant.                                           *)

\* A build that is running read some source.
LEMMA SourcesKept ==
  ASSUME pc \in [Shells -> Steps], source \in [Shells -> Contents \cup {Absent}],
         files \in Contents, BuildsHaveSource, [Next]_vars
  PROVE  BuildsHaveSource'
<1> USE DEF Goto, Proceed, Leave, tree, builds, servers, locals, history, Absent,
            BuildsHaveSource, Contents
<1>1. ASSUME NEW s \in Shells, Script(s) PROVE BuildsHaveSource'
  BY <1>1 DEF Script, Locate, Located, CloneBegins, CloneEnds, CheckoutBegins,
              CheckoutEnds, ReadsIndex, ReadsWorktree, ChecksPatch, ApplyBegins,
              Applies, ApplyEnds, Below, VerifiesTree, VerifiesStaged, BuildBegins,
              BuildEnds, Packaging, PackageSteps, AfterBuild
<1>2. ASSUME NEW s \in Shells, CloneFails(s) \/ BuildFails(s) PROVE BuildsHaveSource'
  BY <1>2 DEF CloneFails, BuildFails
<1>3. ASSUME NEW s \in Shells, Status(s) \/ Package(s) \/ Start(s)
      PROVE  BuildsHaveSource'
  BY <1>3 DEF Status, StatusStaged, StatusTree, StatusBinaries, AfterStatus, Package,
              StageBundle, RemoveOldApp, MoveApp, FindApp, OpenApp, AppGoals, Start,
              FirstStep
<1>4. ASSUME NEW s \in Shells, \/ Launch(s) \/ StopBegins(s)
             \/ GenerateTimesOut(s) \/ ServerExits(s)
      PROVE  BuildsHaveSource'
  BY <1>4 DEF Launch, Pgrep, Binary, AfterSpawn, Spawn, GenerateTimesOut, SeesExit,
              Connects, ReadyTimesOut, StepAfterTimeout, StopBegins, StopEscalates,
              NextSignal, StopGivesUp, ServerExits
<1>5. ASSUME NEW s \in Shells, Interrupted(s) PROVE BuildsHaveSource'
  BY <1>5 DEF Interrupted
<1>6. CASE Developer
  BY <1>6 DEF Developer, Edits, StagesEdit, RevertsEdit, Resets, MovesAside
<1>7. CASE UNCHANGED vars
  BY <1>7 DEF vars
<1>8. QED
  BY <1>1, <1>2, <1>3, <1>4, <1>5, <1>6, <1>7 DEF Next, Command

\* A command leaves its process only by stopping it or by giving up; an
\* interrupted one kills its child, or leaves the server to the history.
LEMMA OwnersKept ==
  ASSUME pc \in [Shells -> Steps], server \in [Shells -> Contents \cup {Absent}],
         ServersOwned, [Next]_vars
  PROVE  ServersOwned'
<1> USE DEF Goto, Proceed, Leave, tree, builds, servers, locals, history, Absent,
            ServersOwned, ProcessSteps, Alive, Contents
<1>1. ASSUME NEW s \in Shells, Script(s) PROVE ServersOwned'
  BY <1>1 DEF Script, Locate, Located, CloneBegins, CloneEnds, CheckoutBegins,
              CheckoutEnds, ReadsIndex, ReadsWorktree, ChecksPatch, ApplyBegins,
              Applies, ApplyEnds, Below, VerifiesTree, VerifiesStaged, BuildBegins,
              BuildEnds, Packaging, PackageSteps, AfterBuild
<1>2. ASSUME NEW s \in Shells, CloneFails(s) \/ BuildFails(s) PROVE ServersOwned'
  BY <1>2 DEF CloneFails, BuildFails
<1>3. ASSUME NEW s \in Shells, Status(s) \/ Package(s) \/ Start(s)
      PROVE  ServersOwned'
  BY <1>3 DEF Status, StatusStaged, StatusTree, StatusBinaries, AfterStatus, Package,
              StageBundle, RemoveOldApp, MoveApp, FindApp, OpenApp, AppGoals, Start,
              FirstStep
<1>4. ASSUME NEW s \in Shells, \/ Launch(s) \/ StopBegins(s)
             \/ GenerateTimesOut(s) \/ ServerExits(s)
      PROVE  ServersOwned'
  BY <1>4 DEF Launch, Pgrep, Binary, AfterSpawn, Spawn, GenerateTimesOut, SeesExit,
              Connects, ReadyTimesOut, StepAfterTimeout, StopBegins, StopEscalates,
              NextSignal, StopGivesUp, ServerExits
<1>5. ASSUME NEW s \in Shells, Interrupted(s) PROVE ServersOwned'
  BY <1>5 DEF Interrupted, RunsChild
<1>6. CASE Developer
  BY <1>6 DEF Developer, Edits, StagesEdit, RevertsEdit, Resets, MovesAside
<1>7. CASE UNCHANGED vars
  BY <1>7 DEF vars
<1>8. QED
  BY <1>1, <1>2, <1>3, <1>4, <1>5, <1>6, <1>7 DEF Next, Command

\* Only a shell that finds no checkout begins to clone, and whoever comes
\* meanwhile is refused; no patch and no edit comes before it is done.
LEMMA ClonerKept ==
  ASSUME pc \in [Shells -> Steps], OneCloner, PatchesInOrder, [Next]_vars
  PROVE  OneCloner'
<1> USE DEF Goto, Proceed, Leave, tree, builds, servers, locals, history, Absent,
            OneCloner, PatchesInOrder, CloneSteps, Below
<1>1. ASSUME NEW s \in Shells, Script(s) PROVE OneCloner'
  BY <1>1 DEF Script, Locate, Located, CloneBegins, CloneEnds, CheckoutBegins,
              CheckoutEnds, ReadsIndex, ReadsWorktree, ChecksPatch, ApplyBegins,
              Applies, ApplyEnds, Below, VerifiesTree, VerifiesStaged, BuildBegins,
              BuildEnds, Packaging, PackageSteps, AfterBuild
<1>2. ASSUME NEW s \in Shells, CloneFails(s) \/ BuildFails(s) PROVE OneCloner'
  BY <1>2 DEF CloneFails, BuildFails
<1>3. ASSUME NEW s \in Shells, Status(s) \/ Package(s) \/ Start(s)
      PROVE  OneCloner'
  BY <1>3 DEF Status, StatusStaged, StatusTree, StatusBinaries, AfterStatus, Package,
              StageBundle, RemoveOldApp, MoveApp, FindApp, OpenApp, AppGoals, Start,
              FirstStep
<1>4. ASSUME NEW s \in Shells, \/ Launch(s) \/ StopBegins(s)
             \/ GenerateTimesOut(s) \/ ServerExits(s)
      PROVE  OneCloner'
  BY <1>4 DEF Launch, Pgrep, Binary, AfterSpawn, Spawn, GenerateTimesOut, SeesExit,
              Connects, ReadyTimesOut, StepAfterTimeout, StopBegins, StopEscalates,
              NextSignal, StopGivesUp, ServerExits
<1>5. ASSUME NEW s \in Shells, Interrupted(s) PROVE OneCloner'
  BY <1>5 DEF Interrupted
<1>6. CASE Developer
  BY <1>6 DEF Developer, Edits, StagesEdit, RevertsEdit, Resets, MovesAside
<1>7. CASE UNCHANGED vars
  BY <1>7 DEF vars
<1>8. QED
  BY <1>1, <1>2, <1>3, <1>4, <1>5, <1>6, <1>7 DEF Next, Command

\* The index lock keeps every other writer of the index out while a patch is
\* written, and the clone is over by then.
LEMMA PatchesKept ==
  ASSUME pc \in [Shells -> Steps], patch \in [Shells -> {"mechanism", "patched"}],
         Stale \notin Shells, Free \notin Shells, OneCloner, PatchesInOrder,
         [Next]_vars
  PROVE  PatchesInOrder'
<1> USE DEF Goto, Proceed, Leave, tree, builds, servers, locals, history, Absent,
            OneCloner, PatchesInOrder, CloneSteps, Below
<1>1. ASSUME NEW s \in Shells, Script(s) PROVE PatchesInOrder'
  BY <1>1 DEF Script, Locate, Located, CloneBegins, CloneEnds, CheckoutBegins,
              CheckoutEnds, ReadsIndex, ReadsWorktree, ChecksPatch, ApplyBegins,
              Applies, ApplyEnds, Below, VerifiesTree, VerifiesStaged, BuildBegins,
              BuildEnds, Packaging, PackageSteps, AfterBuild
<1>2. ASSUME NEW s \in Shells, CloneFails(s) \/ BuildFails(s) PROVE PatchesInOrder'
  BY <1>2 DEF CloneFails, BuildFails
<1>3. ASSUME NEW s \in Shells, Status(s) \/ Package(s) \/ Start(s)
      PROVE  PatchesInOrder'
  BY <1>3 DEF Status, StatusStaged, StatusTree, StatusBinaries, AfterStatus, Package,
              StageBundle, RemoveOldApp, MoveApp, FindApp, OpenApp, AppGoals, Start,
              FirstStep
<1>4. ASSUME NEW s \in Shells, \/ Launch(s) \/ StopBegins(s)
             \/ GenerateTimesOut(s) \/ ServerExits(s)
      PROVE  PatchesInOrder'
  BY <1>4 DEF Launch, Pgrep, Binary, AfterSpawn, Spawn, GenerateTimesOut, SeesExit,
              Connects, ReadyTimesOut, StepAfterTimeout, StopBegins, StopEscalates,
              NextSignal, StopGivesUp, ServerExits
<1>5. ASSUME NEW s \in Shells, Interrupted(s) PROVE PatchesInOrder'
  BY <1>5 DEF Interrupted
<1>6. CASE Developer
  BY <1>6 DEF Developer, Edits, StagesEdit, RevertsEdit, Resets, MovesAside
<1>7. CASE UNCHANGED vars
  BY <1>7 DEF vars
<1>8. QED
  BY <1>1, <1>2, <1>3, <1>4, <1>5, <1>6, <1>7 DEF Next, Command

\* No command changes a tree that another has found patched and clean: the
\* cloner needs an empty index, and a patch does not go on the patched tree.
\* What a check has seen is therefore still there for the build.
LEMMA ChecksKept ==
  ASSUME pc \in [Shells -> Steps], patch \in [Shells -> {"mechanism", "patched"}],
         ok \in [Shells -> BOOLEAN], goal \in [Shells -> Goals],
         source \in [Shells -> Contents \cup {Absent}],
         built \in [Products -> Contents \cup {Absent}], raced \in BOOLEAN,
         OneCloner, PatchesInOrder, ChecksHold, OnlyPatchedIsUsed,
         Server \in Products, Cli \in Products, [Next]_vars
  PROVE  ChecksHold'
<1> USE DEF Goto, Proceed, Leave, tree, builds, servers, locals, history, Absent,
            OneCloner, PatchesInOrder, CloneSteps, ChecksHold, PastTreeCheck,
            PastStagedCheck, AppGoals, Contents
<1>1. ASSUME NEW s \in Shells, Script(s) PROVE ChecksHold'
  BY <1>1 DEF Script, Locate, Located, CloneBegins, CloneEnds, CheckoutBegins,
              CheckoutEnds, ReadsIndex, ReadsWorktree, ChecksPatch, ApplyBegins,
              Applies, ApplyEnds, Below, VerifiesTree, VerifiesStaged, BuildBegins,
              BuildEnds, Packaging, PackageSteps, AfterBuild, Clean, StagedIsExact
<1>2. ASSUME NEW s \in Shells, CloneFails(s) \/ BuildFails(s) PROVE ChecksHold'
  BY <1>2 DEF CloneFails, BuildFails
<1>3. ASSUME NEW s \in Shells, Status(s) \/ Package(s) \/ Start(s)
      PROVE  ChecksHold'
  BY <1>3 DEF Status, StatusStaged, StatusTree, StatusBinaries, AfterStatus, Package,
              StageBundle, RemoveOldApp, MoveApp, FindApp, OpenApp, AppGoals, Start,
              FirstStep, Clean, StagedIsExact, OnlyPatchedIsUsed, BinariesReady
<1>4. ASSUME NEW s \in Shells, \/ Launch(s) \/ StopBegins(s)
             \/ GenerateTimesOut(s) \/ ServerExits(s)
      PROVE  ChecksHold'
  BY <1>4 DEF Launch, Pgrep, Binary, AfterSpawn, Spawn, GenerateTimesOut, SeesExit,
              Connects, ReadyTimesOut, StepAfterTimeout, StopBegins, StopEscalates,
              NextSignal, StopGivesUp, ServerExits
<1>5. ASSUME NEW s \in Shells, Interrupted(s) PROVE ChecksHold'
  BY <1>5 DEF Interrupted
<1>6. CASE Developer
  BY <1>6 DEF Developer, Edits, StagesEdit, RevertsEdit, Resets, MovesAside
<1>7. CASE UNCHANGED vars
  BY <1>7 DEF vars
<1>8. QED
  BY <1>1, <1>2, <1>3, <1>4, <1>5, <1>6, <1>7 DEF Next, Command

\* What is built is what was checked, and what runs or is packaged is what was
\* built.
LEMMA PatchedKept ==
  ASSUME pc \in [Shells -> Steps], source \in [Shells -> Contents \cup {Absent}],
         built \in [Products -> Contents \cup {Absent}],
         server \in [Shells -> Contents \cup {Absent}], ChecksHold,
         OnlyPatchedIsUsed, Server \in Products, Cli \in Products,
         raced \in BOOLEAN, [Next]_vars
  PROVE  OnlyPatchedIsUsed'
<1> USE DEF Goto, Proceed, Leave, tree, builds, servers, locals, history, Absent,
            ChecksHold, OnlyPatchedIsUsed
<1>1. ASSUME NEW s \in Shells, Script(s) PROVE OnlyPatchedIsUsed'
  BY <1>1 DEF Script, Locate, Located, CloneBegins, CloneEnds, CheckoutBegins,
              CheckoutEnds, ReadsIndex, ReadsWorktree, ChecksPatch, ApplyBegins,
              Applies, ApplyEnds, Below, VerifiesTree, VerifiesStaged, BuildBegins,
              BuildEnds
<1>2. ASSUME NEW s \in Shells, CloneFails(s) \/ BuildFails(s) PROVE OnlyPatchedIsUsed'
  BY <1>2 DEF CloneFails, BuildFails
<1>3. ASSUME NEW s \in Shells, Status(s) \/ Package(s) \/ Start(s)
      PROVE  OnlyPatchedIsUsed'
  BY <1>3 DEF Status, StatusStaged, StatusTree, StatusBinaries, AfterStatus, Package,
              StageBundle, RemoveOldApp, MoveApp, FindApp, OpenApp, AppGoals, Start,
              FirstStep
<1>4. ASSUME NEW s \in Shells, \/ Launch(s) \/ StopBegins(s)
             \/ GenerateTimesOut(s) \/ ServerExits(s)
      PROVE  OnlyPatchedIsUsed'
  BY <1>4 DEF Launch, Pgrep, Binary, AfterSpawn, Spawn, GenerateTimesOut, SeesExit,
              Connects, ReadyTimesOut, StepAfterTimeout, StopBegins, StopEscalates,
              NextSignal, StopGivesUp, ServerExits
<1>5. ASSUME NEW s \in Shells, Interrupted(s) PROVE OnlyPatchedIsUsed'
  BY <1>5 DEF Interrupted
<1>6. CASE Developer
  BY <1>6 DEF Developer, Edits, StagesEdit, RevertsEdit, Resets, MovesAside
<1>7. CASE UNCHANGED vars
  BY <1>7 DEF vars
<1>8. QED
  BY <1>1, <1>2, <1>3, <1>4, <1>5, <1>6, <1>7 DEF Next, Command

-------------------------------------------------------------------------------
(* The theorems.                                                            *)

\* It holds before the first command.
LEMMA InitInvariant == RuntimeAssumption /\ Init => RuntimeInvariant
<1> SUFFICES ASSUME RuntimeAssumption, Init PROVE RuntimeInvariant
  OBVIOUS
<1> USE DEF Init, Absent
<1>1. TypeOK
  <2>1. NextTyped
    BY DEF NextTyped, Range, BuildSteps
  <2>2. TreeTyped /\ BuildsTyped /\ ServersTyped /\ SourceTyped
    BY DEF TreeTyped, BuildsTyped, ServersTyped, SourceTyped, Contents
  <2>3. CommandsTyped /\ FlagsTyped
    BY DEF CommandsTyped, FlagsTyped, Goals, Steps
  <2>4. HistoryTyped
    <3>1. MaxUpsets \in Nat => 0 \in 0..MaxUpsets
      OBVIOUS
    <3>2. QED
      BY <3>1, Zenon DEF HistoryTyped, RuntimeAssumption
  <2>5. QED
    BY <2>1, <2>2, <2>3, <2>4, TypeParts
<1>2. OneCloner /\ PatchesInOrder /\ BuildsHaveSource
  BY DEF OneCloner, CloneSteps, PatchesInOrder, BuildsHaveSource
<1>3. ChecksHold /\ ServersOwned /\ OnlyPatchedIsUsed
  BY DEF ChecksHold, PastTreeCheck, PastStagedCheck, ServersOwned, Alive, OnlyPatchedIsUsed
<1>4. QED
  BY <1>1, <1>2, <1>3 DEF RuntimeInvariant

\* Every step keeps the types.
LEMMA StepTypes ==
  ASSUME RuntimeAssumption, TypeOK, [Next]_vars
  PROVE  TypeOK'
<1>1. /\ TreeTyped /\ BuildsTyped /\ ServersTyped /\ CommandsTyped
      /\ FlagsTyped /\ SourceTyped /\ HistoryTyped /\ NextTyped
  BY TypeParts
<1>2. /\ CommandsOf \in [Shells -> SUBSET Goals]
      /\ Server \in Products /\ Cli \in Products /\ MaxUpsets \in Nat
  BY DEF RuntimeAssumption
<1>3. pc \in [Shells -> Steps] /\ patch \in [Shells -> {"mechanism", "patched"}]
  BY <1>1 DEF CommandsTyped, FlagsTyped
<1>4. TreeTyped' /\ BuildsTyped' /\ ServersTyped' /\ CommandsTyped'
  BY <1>1, <1>2, <1>3, TreeTypesKept, BuildTypesKept, ServerTypesKept, CommandTypesKept
<1>5. FlagsTyped' /\ SourceTyped' /\ HistoryTyped' /\ NextTyped'
  BY <1>1, <1>2, <1>3, FlagTypesKept, SourceTypesKept, HistoryTypesKept, NextTypesKept
<1>6. (TreeTyped /\ BuildsTyped /\ ServersTyped /\ CommandsTyped
       /\ FlagsTyped /\ SourceTyped /\ HistoryTyped /\ NextTyped => TypeOK)'
  BY TypeParts, PTL
<1>7. QED
  BY <1>4, <1>5, <1>6

\* Every step keeps the invariant.
LEMMA StepInvariant ==
  ASSUME RuntimeAssumption, RuntimeInvariant, [Next]_vars
  PROVE  RuntimeInvariant'
<1>1. /\ TypeOK /\ OneCloner /\ PatchesInOrder /\ BuildsHaveSource /\ ChecksHold
      /\ ServersOwned /\ OnlyPatchedIsUsed
  BY DEF RuntimeInvariant
<1>2. Server \in Products /\ Cli \in Products /\ Stale \notin Shells /\ Free \notin Shells
  BY DEF RuntimeAssumption
<1>3. /\ pc \in [Shells -> Steps] /\ goal \in [Shells -> Goals]
      /\ patch \in [Shells -> {"mechanism", "patched"}] /\ ok \in [Shells -> BOOLEAN]
      /\ files \in Contents /\ raced \in BOOLEAN
  BY <1>1 DEF TypeOK
<1>4. /\ source \in [Shells -> Contents \cup {Absent}]
      /\ built \in [Products -> Contents \cup {Absent}]
      /\ server \in [Shells -> Contents \cup {Absent}]
  BY <1>1 DEF TypeOK
<1>5. TypeOK'
  BY <1>1, StepTypes
<1>6. OneCloner' /\ PatchesInOrder'
  BY <1>1, <1>2, <1>3, ClonerKept, PatchesKept
<1>7. BuildsHaveSource' /\ ServersOwned'
  BY <1>1, <1>3, <1>4, SourcesKept, OwnersKept
<1>8. ChecksHold' /\ OnlyPatchedIsUsed'
  BY <1>1, <1>2, <1>3, <1>4, ChecksKept, PatchedKept
<1>9. QED
  BY <1>5, <1>6, <1>7, <1>8 DEF RuntimeInvariant

\* The invariant holds of every behaviour of the commands on one checkout.
THEOREM RuntimeInvariantHolds == Spec => []RuntimeInvariant
BY RuntimeAssumption, InitInvariant, StepInvariant, PTL DEF Spec

\* Every variable keeps its type, and every build is of a product on its list.
THEOREM TypesHold == Spec => []TypeOK
<1>1. RuntimeInvariant => TypeOK
  BY DEF RuntimeInvariant
<1>2. QED
  BY RuntimeInvariantHolds, <1>1, PTL

\* Whatever shells install, package, serve and are interrupted, what is built,
\* packaged or running comes from the pinned commit with both patches, unless
\* the tree is changed between a check and the build the check was for.
THEOREM OnlyPatchedSourceIsUsed == Spec => []OnlyPatchedIsUsed
<1>1. RuntimeInvariant => OnlyPatchedIsUsed
  BY DEF RuntimeInvariant
<1>2. QED
  BY RuntimeInvariantHolds, <1>1, PTL

\* A command that ends leaves no process, unless it is a start_server that was
\* interrupted or a stop that gave up after SIGKILL; a generation never does.
THEOREM NoServerIsLeft == Spec => []NoServerLeft
<1>1. RuntimeInvariant => NoServerLeft
  BY DEF RuntimeInvariant, ServersOwned, ProcessSteps, NoServerLeft
<1>2. QED
  BY RuntimeInvariantHolds, <1>1, PTL

\* No command, and no part of one that is still running, undoes a developer's
\* edit.
THEOREM EditsAreKept == Spec => EditsKept
<1>1. ASSUME RuntimeInvariant, [Next]_vars, files = "edited", files' # "edited"
      PROVE  Developer
  <2>1. OneCloner /\ PatchesInOrder
    BY <1>1 DEF RuntimeInvariant
  <2>2. ASSUME NEW s \in Shells, Script(s) PROVE FALSE
    BY <1>1, <2>1, <2>2
       DEF Script, Locate, CloneBegins, CloneEnds, CheckoutBegins, CheckoutEnds, ReadsIndex,
           ReadsWorktree, ChecksPatch, ApplyBegins, ApplyEnds, VerifiesTree, VerifiesStaged,
           BuildBegins, BuildEnds, OneCloner, CloneSteps, tree
  <2>3. ASSUME NEW s \in Shells,
               \/ CloneFails(s) \/ BuildFails(s) \/ Interrupted(s)
               \/ Status(s) \/ Package(s) \/ Start(s)
        PROVE  FALSE
    BY <1>1, <2>3
       DEF CloneFails, BuildFails, Interrupted, Status, StatusStaged, StatusTree,
           StatusBinaries, Package, FindApp, StageBundle, RemoveOldApp, MoveApp, OpenApp, Start, tree
  <2>4. ASSUME NEW s \in Shells,
               \/ Launch(s) \/ StopBegins(s) \/ GenerateTimesOut(s) \/ ServerExits(s)
        PROVE  FALSE
    BY <1>1, <2>4
       DEF Launch, Pgrep, Spawn, SeesExit, Connects, ReadyTimesOut, GenerateTimesOut,
           StopBegins, StopEscalates, StopGivesUp, ServerExits, tree
  <2>5. ~UNCHANGED vars
    BY <1>1 DEF vars, tree
  <2>6. QED
    BY <1>1, <2>2, <2>3, <2>4, <2>5 DEF Next, Command
<1>2. QED
  BY RuntimeInvariantHolds, <1>1, PTL DEF Spec, EditsKept

\* A ready runtime stays ready while any commands run on it, also a second
\* install that began before it was ready.
THEOREM ReadyStays == Spec => ReadyIsStable
<1>1. ASSUME RuntimeInvariant, [Next]_vars, Ready, ~Ready'
      PROVE  Developer \/ \E s \in Shells : Interrupted(s)
  <2>1. /\ OneCloner /\ PatchesInOrder /\ BuildsHaveSource
        /\ pc \in [Shells -> Steps] /\ patch \in [Shells -> {"mechanism", "patched"}]
        /\ built \in [Products -> Contents \cup {Absent}]
    BY <1>1 DEF RuntimeInvariant, TypeOK
  <2> USE DEF Ready, StagedIsExact, Clean, BinariesReady
  <2>2. ASSUME NEW s \in Shells, Script(s) PROVE FALSE
    BY <1>1, <2>1, <2>2
       DEF Script, Locate, CloneBegins, CloneEnds, CheckoutBegins, CheckoutEnds, ReadsIndex,
           ReadsWorktree, ChecksPatch, ApplyBegins, Applies, ApplyEnds, VerifiesTree,
           VerifiesStaged, BuildBegins, BuildEnds, OneCloner, CloneSteps, PatchesInOrder,
           BuildsHaveSource, Below, Absent, tree, builds
  <2>3. ASSUME NEW s \in Shells,
               \/ CloneFails(s) \/ BuildFails(s)
               \/ Status(s) \/ Package(s) \/ Start(s)
        PROVE  FALSE
    BY <1>1, <2>1, <2>3
       DEF CloneFails, BuildFails, Status, StatusStaged, StatusTree, StatusBinaries,
           Package, FindApp, StageBundle, RemoveOldApp, MoveApp, OpenApp, Start, OneCloner, CloneSteps,
           tree, builds
  <2>4. ASSUME NEW s \in Shells,
               \/ Launch(s) \/ StopBegins(s) \/ GenerateTimesOut(s) \/ ServerExits(s)
        PROVE  FALSE
    BY <1>1, <2>4
       DEF Launch, Pgrep, Spawn, SeesExit, Connects, ReadyTimesOut, GenerateTimesOut,
           StopBegins, StopEscalates, StopGivesUp, ServerExits, tree, builds
  <2>5. ~UNCHANGED vars
    BY <1>1 DEF vars, tree, builds
  <2>6. QED
    BY <1>1, <2>2, <2>3, <2>4, <2>5 DEF Next, Command
<1>2. QED
  BY RuntimeInvariantHolds, <1>1, PTL DEF Spec, ReadyIsStable
===============================================================================
