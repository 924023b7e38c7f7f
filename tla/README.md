# TLA+ verification of ElasticUMA

ElasticUMA runs mixture-of-experts language models on one Mac. A patched Swift
runtime keeps a pool of routed-expert slots per layer and lets macOS reclaim
the cold ones; Python tools around it install models, run experiments and start
servers; a Mac app offers chat and one local API server.

This directory holds TLA+ modules of the parts whose correctness depends on
order, failure or concurrency, TLC configurations that check them on small
instances, and TLAPS proofs of the results that should hold for every instance.
`PROJECT.json` lists components, runs, hazards, theorems, and, for every
definition that models code, the source lines it stands for.

    tlc -workers 2 -config MCExpertCache.cfg MCExpertCache
    tlapm ExpertCacheProofs.tla

Paths below are relative to the repository root.

## 1. Inventory

### Expert cache residency (`runtime/patches/elasticuma-purgeable.patch`)

- *State*: per layer, a pool of Metal buffers; for each slot the published
  expert, recency stamp and tracked residency (nonvolatile, volatile, empty);
  LFU counts; the statistics receipt.
- *Operations*: `planExpertsCached` relocks every published slot a hit might
  use before it looks for hits, picks victims for the misses and reads them
  with positional reads; `makeColdSlotsVolatile` at GPU-safe points keeps the
  hot set and offers the rest to macOS; `discardColdSlots` empties cold slots
  between passes.
- *Interaction*: the forward runner drives one layer after the other; GPU
  commands read the bound slots asynchronously; macOS empties a volatile buffer
  at any moment.
- *Hard*: identity in the tracker against bytes in the buffer; a failed read
  into a relocked victim; a failed command buffer that skips the safe point;
  ties at the edge of the hot set.
- *Correct when*: the GPU only reads nonvolatile slots that hold exactly the
  requested expert, survivors are not read again, cold slots are offered in
  time, fixed mode never touches purgeability, and the receipt balances.

### Experiment runner (`src/elasticuma/runner.py`, `locks.py`, `admission.py`, `pressure.py`, `native_pressure.py`)

- *State*: the model-worker lock, the processes of a run (native monitor,
  pressure worker, wrapper and model), record files, the admission artifact.
- *Operations*: refuse to append, take the lock, wait for recovery, check for
  other workers, start the three workers, sample, terminate, reap, write the
  record, decide to stop, admit.
- *Hard*: exceptions that skip a step, a wrapper that leaves its child behind,
  SIGKILL of the runner while its workers live in sessions of their own, a
  recovery gate that may flap.
- *Correct when*: one model worker at a time, rows are serial and retained,
  nothing stays behind, a run under critical pressure is never admitted, and an
  invocation ends.

### Model store (`model_store.py`, `runtime_store.py`, `sdk.py` setup)

- *State*: snapshot cache, packed directories, project manifests, the download
  lock.
- *Operations*: preflight, fetch, packed preflight, packed install, register,
  setup with consent, which the command asks for at a terminal.
- *Interaction*: several shells, SDK programs and the app share one cache; the
  Hub moves branches; `slipstream-repack` is a child process.
- *Hard*: plans that are out of date when used, interrupted transfers and their
  resumption, limits computed from a moving disk.
- *Correct when*: limits hold, no byte is transferred twice or without consent,
  and every operation ends.

### Local API of the Mac app (`runtime/patches/elasticuma-app.patch`, LocalAPIServerController, ServerControlView, ChatHomeView)

- *State*: controller state, child process, readiness task, log pipe; the chat
  model's load state, the selected section and a start-after-unload flag.
- *Operations*: start, stop, the termination handler's task, the output
  handler's task, the readiness probe, and the handover from chat to server.
- *Hard*: all of these are main-actor tasks that run in any order, and a task
  of an earlier server may meet a later one.
- *Correct when*: what is shown is true of the process held, no server is lost,
  starts and stops end, and one of chat and server owns the model.

### Native runtime (`scripts/bootstrap_candidate_runtime.sh`, `scripts/package_macos_app.sh`, `serving.py`, `sdk.py`)

- *State*: a Git checkout under the cache root (HEAD, index, working tree,
  `index.lock`), the release binaries and SwiftPM's lock, the packaged
  application, the server processes.
- *Operations*: reconstruct the pinned commit with two patches, build five
  products, say whether the runtime is ready, package and open the app, look for
  model processes and start one, wait for its port, stop it, or generate once.
- *Interaction*: several shells and SDK programs share the checkout, and nothing
  locks it as a whole; developers work in it; `launch` replaces the command by
  the server, `start_server` keeps a handle.
- *Hard*: a status is several reads with nothing held between them and the build
  that follows; two commands patch at once; interrupted Git commands; a server
  in a session of its own whose caller fails.
- *Correct when*: only the patched commit is ever built, packaged or run; edits
  and a ready runtime survive every command; no server is left; commands end.

### Analysis (`config.py`, `admission.py`, `analysis.py`, `cli.py`)

- *State*: the measured rows of one experiment, the admitted artifact, the files
  under `artifacts/figures`.
- *Operations*: take the rows in the balanced order, admit them, write the gate 1
  analysis, its summary table and its report, compare a purgeable arm with a
  baseline.
- *Hard*: numbers that a row did not report, which pass through filters, medians
  and `or 0` before they meet a threshold; medians of an arm and medians of
  paired repetitions, taken from different rows; a report that formats a median
  that may not exist, after two of three files were written; sorts that depend on
  the order of the rows.
- *Correct when*: the order favours no arm, what is admitted can be reported and
  lacks no evidence, and a verdict follows the repetitions it is about.

### Not modelled

| Part | Where | Why |
| --- | --- | --- |
| Decode service outbox and client, structured output decoding | app patch | the patch shows only the hunks that changed in these files; the queue, its condition variable and the decoder's callers are upstream code outside the repository |
| Catalog and schema | `catalog.py`, `schema.py` | a read-only table with lookups by alias, and record types; no state |
| Telemetry parsing | `macos.py`, `slipstream.py`, `native_pressure.py` | text to numbers; the runner model takes one bit per sample, the analysis model the numbers of a row |
| Argument parser, printing, report wording | `cli.py`, `analysis.py` | layout; no property is about it |
| Floating point, bootstrap intervals, process footprints | `analysis.py` | the model computes exactly; intervals and footprints are reported and decide nothing |
| Experiment files | `config.py` | TOML and ranges of settings; the analysis model starts from what `load_experiment` lets through |
| Lookup of registered snapshots and model paths | `model_store.py`, `sdk.py` | `resolve_registered` reads manifests and changes nothing; it refuses when a branch that moved was fetched twice (`model_store.py:228`), which no document speaks of |

The hazards of `PROJECT.json` are the places in this code a test hardly
reaches. Each names the properties that would notice; five have none, and their
notes say why.

## 2. Modules and plan

| Module | Models | Extends or instantiates |
| --- | --- | --- |
| `ExactStore` | what the cache promises: the GPU gets exactly the bytes it asked for | |
| `ExpertCache` | the slot pools, the forward pass, the GPU and macOS | `INSTANCE ExactStore` as refinement |
| `ExpertCacheProofs` | theorems about both | `ExpertCache` |
| `ExperimentRunner` | invocations of `experiment run` and their workers | |
| `ExperimentRunnerProofs` | theorems about it | `ExperimentRunner` |
| `ModelStore` | fetch, install, setup, repackers, failures | |
| `ModelStoreProofs` | theorems about it | `ModelStore` |
| `LocalAPIServer` | the app's server controller and the ownership of the model | |
| `LocalAPIServerProofs` | theorems about it | `LocalAPIServer` |
| `NativeRuntime` | bootstrap, status, packaging and opening of the app, launch, managed servers and generation on one checkout | |
| `NativeRuntimeProofs` | theorems about it | `NativeRuntime` |
| `Analysis` | the rows of an experiment from their schedule to the verdicts and files | |
| `AnalysisProofs` | theorems about it | `Analysis` |
| `MC*` | instances for TLC | the module they instantiate |

The order was by importance: the exactness of the cache first, since every
published number rests on it; then the runner, whose records are the numbers;
then the store; then the app; then the runtime they all use; then the analysis,
which turns the records into verdicts. Proofs came in the same order. Every safety
property that a passing run checks is now a theorem; what remains is to state more
about what exists:

1. an abstract specification of the store (complete or absent snapshots, each
   shard paid for once) that `ModelStore` implements, as `ExactStore` is for the
   cache;
2. the row of an experiment as one operation that is admitted or refused, and
   `ExperimentRunner` shown to implement it.

## 3. Expert cache

**Correspondence.** A slot index names a slot of any layer; `LayerOf` gives the
layer. `slotResidency` is the tracked state, `contents` the physical one; they
differ from the moment macOS empties a buffer (`OsReclaims`) to the relock that
notices. `Plan` is `planExpertsCached`: relock the candidates, find hits, take
victims. `BeginRead` and `FinishRead` bracket one positional read, so that a
failed read (`ReadFails`) finds a victim already relocked, cleared and partly
overwritten. `Encode`, `GpuCompletes` and `GpuFails` are one command buffer.
`LayerDone` runs the safe point as part of its step, in decode for all layers
at the end, in prefill for each layer.

Three choices need a reason. A plan is made only when no command is in flight,
because the router's readback waits for the command buffers before it
(`paper/latex/sections/design.tex`, lines 157 to 167). A layer has one plan per
pass: the tiles of a prefill are merged. Victim choice, LFU and recency updates,
and publication after a read are upstream code outside the repository; victims
are chosen nondeterministically, the rest follows the lookup table of
`design.tex`. Return values and `reclaimedBytes`, which is a multiple of a
counter that is modelled, are left out.

**Run** `expert_cache`: a layer of two slots and a layer of one, three experts,
plans of up to two experts, fixed mode and hot sets of 0, 1 and 2, two passes
(746,844 states). Two layers tell prefill safe points from decode safe points; a
plan of two experts on two slots can be a hit and a victim, two victims, or two
hits of which one was reclaimed; three experts on two slots force evictions and
ties; a hot set of 2 is larger than what the second layer holds.

| Property | Says | Run | Proved |
| --- | --- | --- | --- |
| `TypeOK` | types | yes | yes |
| `BoundExact` | a running GPU command reads only nonvolatile slots with exactly the expert it was bound for | yes | yes |
| `PublishedExact` | a published identity never lies, and no expert is published twice in a layer | as a part of `ExactnessInvariant` | yes |
| `SurvivorsAreHits` | bytes that survived are never read again | yes | yes |
| `FixedBypassesPurgeability` | fixed mode never enters the purgeability path | yes | yes |
| `ImplementsExactStore` | refinement of `ExactStore` | yes | yes |
| `ExactnessInvariant` | the inductive invariant | yes | yes |
| `ReceiptBalances` | every relock was retained or an empty recovery; relocks and slots still off account for every volatile transition, and for nothing but transitions and discards; invalidated slots are empty recoveries, made or pending | yes | yes |
| `ColdSlotsOffered` | a completed layer keeps at most its hot set committed | yes | yes |
| `PassEnds` | a pass ends | yes | liveness |

**Fairness.** Weak fairness of the runner's steps and of the GPU: the inference
thread is never blocked but by its command buffers, and Metal completes or fails
a command buffer. macOS owes nothing.

**Proof.** `PublishedExact` is not inductive: a plan that has relocked a slot
relies on it staying locked until the command that reads it is done. The
invariant `ExactnessInvariant` therefore adds that tracked residency is truthful
(a nonvolatile slot was never emptied), that the stages are coherent (reads
happen only while filling, bindings exist only on the GPU stage), and that the
plan of the current layer names distinct nonvolatile slots of that layer, each
published unless it is still to be read. Each step preserves it by a lemma of
its own; the relock is a lemma shared by all of them. The refinement maps the
expert numbers asked for and those delivered to the GPU to the variables of
`ExactStore`; `StepRefines` shows that every step is a step of it or a stutter.

`ReceiptBalances` is inductive beside the exactness invariant, but not obvious: a
relock or an offer changes the residency of a set of slots and the counters by its
cardinality. `RelockBalances`, `OfferBalances` and `DiscardBalances` state the
balance of each sweep over an arbitrary set of slots.

`ColdSlotsOffered` needs three facts. The hot set has at most as many slots as the
policy says (`HotSetIsBounded`): a slot is hot if fewer slots than that are hotter,
and `HotterIsStrictTotalOrder` makes that a prefix, ties included. A layer that was
offered commits nothing until it is planned again (`CommitsNoMore`). And every layer
that was planned waits for a safe point that is still to come (`OffersDue`).
Assumptions: finite slots, experts and layers are natural numbers, as indices
are in the code.

## 4. Experiment runner

**Correspondence.** One program counter per invocation, whose labels are the
places where `run_experiment` and `run_one` call out of Python. Every process
of a run is a record `[owner, row, kind]`; a model whose wrapper died is still a
process. `Terminate` is one step, since nothing else reads the group in between:
SIGTERM may end the leader alone or the group, SIGKILL ends the group, a leader
that survives both raises. `Killed` is SIGKILL of the invocation: its lock goes,
its workers stay, since each has a session of its own. Deadlines may pass at any
moment. Samples carry two bits: pressure was critical; an exception was thrown,
caught or not. The monitor never dies by itself, and model processes of other
tools are not modelled.

**Run** `experiment_runner`: two invocations of a two-row schedule with and
without pressure, two stable samples (484,437 states). Two invocations give
every interleaving of check and lock; two rows give "the row before" and "the
row after".

| Property | Says | Proved |
| --- | --- | --- |
| `TypeOK` | types | yes |
| `OneModelWorker` | two models started under live invocations are never resident together | yes |
| `RowsAreSerial` | a later row starts only after every earlier one has its record and is gone | yes |
| `NothingLeftBehind` | an invocation that ends leaves no worker behind, unless it lost the handle | yes |
| `CriticalNeverAdmitted` | a row that saw critical pressure is never in an artifact | yes |
| `InvocationEnds` | every invocation ends | liveness |

Fairness: a live invocation takes its next step and its deadlines pass, because
each loop of the code is bounded by a monotonic deadline. Workers owe nothing.

**Disagreements found.** `runner_append`: the check for existing records is made
before the lock and not repeated, so two invocations can both record.
`runner_unrecorded`: `TelemetryError` is a `RuntimeError`, which the sampling
clause does not catch, so a failed row leaves no record. `runner_orphan`:
`_terminate` does nothing once the wrapper has exited, so its model may still be
resident when the record is written.

A pressure worker that stops by its own 14% guard leaves the run admissible;
that is part of the model, and no document says otherwise.

**Proof.** All invariants are stated for one invocation, and `OnlyOwn` says that a
step of an invocation touches its own workers, records and flags only; what is left
is the invocation that takes the step. `Ownership` is the base: whoever is past the
lock holds it, whoever has not got it has done nothing, and every worker is one that
its invocation still has in hand, or has lost. It gives `NothingLeftBehind`.
`OneModelWorker` adds that from the check for other workers, which is made under the
lock, to the end of the run there is no model but that of the run (`ModelsBelong`).
`RowsAreSerial` is the invariant `Serial`: every earlier row is over (`RowOver`), and
stays so because nothing but the row's own start brings its workers into being. `CriticalNeverAdmitted` follows a
critical sample through three places (`Monitored`): the monitor of a run is alive as
long as its wrapper, so that it has seen what turned critical; a row gets its record
only when its wrapper is gone, so that nothing turns critical after it; and the
record says so still when the artifact is made. The constants
are what `ScheduleAssumption` and its neighbours say; invocations, rows and samples
are any number.

## 5. Model store

**Correspondence.** A commit has `Size` shards, the unit of bytes. A client
walks through waiting for the lock, planning, transferring and registering;
`packed` and `shards` are what is on disk, `repackers` the child processes. A
failure, Ctrl-C, SIGKILL of the client and power loss may come at any step. The
provenance checks of the packed preflight and the integrity inventory of a
packed model are left out: they refuse, and never change the store. `setup` plans
without the lock (`PlanSetup`). Without `allow_download` the SDK raises, and so
does the command, unless it is at a terminal: there it asks (`asking`), and after
a yes (`Confirms`) calls `setup` again from the beginning with `allowed` set; any
other answer, or an end of the call, is `Declines`. Disk use by
other programs is not modelled, and all clients share one project's manifests.

**Run** `model_store`: three clients that fetch a moving branch, install one
model, or set up another without consent, at a terminal or not; two models of two
shards; a disk with room for both but for the reserve, a store limit below both
(1,048,507 states). One and a half models make both limits matter; three clients
give a holder, a waiter and a latecomer, and one who answers the prompt after the
others have changed the store.

| Property | Says | Proved |
| --- | --- | --- |
| `TypeOK` | types | yes |
| `LimitsKept` | reserve and store limit hold, whoever plans when | yes |
| `NothingStreamedTwice` | an interrupted pack resumes | yes |
| `TransfersConsented` | nothing is transferred for a setup that was neither given consent nor answered yes, though consent is judged before the lock | yes |
| `NoSecondTransfer` | no pack is streamed when a snapshot is found | yes |
| `OperationEnds` | every operation ends, or stays at its own prompt, which keeps nobody else waiting | liveness |

The safety properties except `TransfersConsented` are conditional on no repacker
having outlived its client. That does happen: a Python file descriptor is not
inheritable, so SIGKILL of the client frees the lock while `slipstream-repack`
streams on, which the comment at `runtime_store.py:239` does not foresee.

Fairness: a transfer progresses or fails, and the lock reaches a waiter, since
each client runs a single operation. Nobody need answer a prompt.

**Disagreements found.** `store_resume`: a partial pack counts in full beside a
whole new copy, so a resumption that fits may be refused. `store_partial`: a
snapshot with `config.json` and any weights file is taken for complete.

Two more, seen but not runs: the packed install counts only the packed
directory against a limit that `docs/install.md` describes for the whole store,
and never the single-model limit; and a fetch after an install of the same
commit makes a second copy under the same manifest name.

**Proof.** `LockHeld` says that the lock is held by whoever is between taking and
releasing it, and by nobody else. Beside it, three invariants follow a transfer
from its plan to its end. `Consent`: who waits for the lock, plans or transfers has
consent, or has nothing to transfer. `Watched`: while no client was
killed beside its repacker, a repacker has a client that waits for it and holds the
lock, so there is at most one. `Streaming` and `Room`: what is still missing is what the
plan has counted, and the free disk and the store limit have room for it; each
shard takes one unit of room and one of what is missing, and failures,
interruptions and the end of others only give room back. `LimitsKept`,
`NothingStreamedTwice` and `NoSecondTransfer` are read off these.

The bytes of a store are a sum over models, a fold of the community modules, which
the prover can neither evaluate nor do induction over. `BytesCountsUnits` shows the
sum equal to the number of elements of a set, the shards present (`Units`), so that
the library's theorems about cardinality apply. The induction in it is replaced by a
least counterexample: among the sets of models for which the fold and the count
differ there would be a minimal one, and taking a model away from it makes a smaller
one.

## 6. Local API server

**Correspondence.** Each start has a member of `Servers`. `life` and `port` are
the child processes as the system knows them, `process` what the controller
holds. `ended` and `logs` are main-actor tasks queued by the two handlers, and
`probe` is the position of the readiness task at its awaits: about to check,
waiting for a request, resumed with an answer. Tasks run in any order.
`StartServer` is `startServer` with `clearFailure` and `start`, all its early
returns included; `Terminated`, `LogReady` and the `Probe` actions are the
closures. A failed chat load and a model that was not loaded are one value:
either can be loaded again. Selecting another model, which makes a new
`AppModel`, and quitting the app are left out.

**Run** `local_api`: two starts, a probe of two attempts in place of 240, and a
port that may be taken by a foreign program (637,533 states). Two servers are
what a stale task needs; more attempts only repeat the loop.

| Property | Says | Proved |
| --- | --- | --- |
| `TypeOK` | types, and the probe's bound | yes |
| `StateMatchesServer` | stopped: nothing held is alive; starting or stopping: there is something to wait for; failed: nothing held is alive but a server that was given up | yes |
| `OneServer` | every live server is held, or was given up by the probe | yes |
| `StartingEnds`, `StoppingEnds` | the transient states end | liveness |

`running` is left out of `StateMatchesServer` on purpose: ready text of a server
that was stopped or has ended may still set it, because the output handler does
not ask whose text it is. Likewise a probe that resumes with an answer does not
look again whether it was cancelled, and takes the answer of any program on the
port. The model has these behaviours; the properties hold despite them. The
servers excused by `OneServer` are those of the 60-second timeout, which shows a
failure and leaves the process running: the next start runs beside it, and no
button stops the first one.

Fairness: the queued tasks and the probe's loop go on, a request ends within its
one-second timeout, and a server that was sent SIGINT exits. The last is an
assumption about upstream code, used by `StoppingEnds` alone.

**Disagreement found.** `local_api_owner`: the chat section loads its model when
it appears, whatever the server does, and a start during a chat load does not
wait for it, while `docs/app.md:65` says chat pauses while the server owns the
model.

**Proof.** `StateMatchesServer` and `OneServer` need each other: a start may
replace the held process only because the state then says nobody needs it, and
the state stays true only because a process that was replaced can no longer
change it (the identity guard of the termination handler). The third conjunct of
`Accounted` says that a termination task is queued only for a process that has
ended. The type invariant is not inductive either: it needs that a request in
flight is one of the probe's attempts. The constants are only assumed to be
distinct, and the number of attempts positive.

## 7. Native runtime

**Correspondence.** Each shell runs one command at a time, again and again, and
`pc` is the place where it is. The script's steps follow its lines: `Locate` is
the test on `RUNTIME_ROOT`, `ReadsIndex` and `ReadsWorktree` the three
conditions of line 57, `ChecksPatch`, `ApplyBegins` and `ApplyEnds` the four
`git apply`, `VerifiesTree` and `VerifiesStaged` the checks before the builds.
`Leave` is `set -eu`, or an exception: the command is over. `StatusStaged`,
`StatusTree` and `StatusBinaries` are `runtime_status`, in the order it reads;
what it has seen stays in `ok` while the tree may change. `install_runtime` is
the script and then the status, `build_app` the status, the script if it has to,
and the packager; `open_app` is `build_app` only if there is no application
(`FindApp`), and then `OpenApp`. `launch` and `start_server` are the status,
`Pgrep` and `Spawn`; `launch` is `serve` for the server and `run` for the command
line tool (`ExecGoals`), and becomes that process. The handle's `stop` is the
steps `int`, `term` and `kill`. `generate` is the same up to `Spawn`, for the
command line tool; its child is in the group of the command, and is killed when
the timeout passes or the command is interrupted.

`files` and `index` hold one of a few contents, as Git would tell them apart:
the pinned commit, with one patch, with both, edited, or half written. Git
writes a tree under `index.lock` and leaves the lock behind if it is killed, so
a checkout and an `apply --index` have a beginning and an end. An edited tree
may or may not conflict with a patch.

A developer may edit, stage, revert, reset, or move the checkout aside (the
remedy of `docs/install.md`, which names `.runtime/elasticuma` where the scripts
use `runtime` under the cache root). Any command may be interrupted at any place;
its children go with it, except a server, which has a session of its own.

Left out: hashes of the bundled patch files, `git diff --cached --check`, the
checks of the host and signing. An interruption reaches the whole process group, as
Ctrl-C does.

**Run** `native_runtime`: a shell that installs and runs a model in its place, and
one that builds and opens the app, starts servers and generates, any number of
times; two products, one of which only the script builds; one interruption, edit
or reset (625,943 states). Two shells are what a check that has become untrue
takes. Only one of them packages, so a bundle moved into another
(`nested`) does not occur here; the theorems cover it, and `serve`, too.

| Property | Says | Proved |
| --- | --- | --- |
| `TypeOK` | types, and that builds stay on their list | yes |
| `OnlyPatchedIsUsed` | what is built, packaged or running comes from the pinned commit with both patches, unless the tree was changed after a check and before its build | yes |
| `NoServerLeft` | a server that fails to start, a stop and a generation leave no process, unless `start_server` was interrupted or `stop` gave up after SIGKILL | yes |
| `EditsKept` | only the developer undoes an edit | yes |
| `ReadyIsStable` | a ready runtime stays ready while commands run | yes |
| `CommandEnds` | a command ends, or comes to a model process that runs | liveness |

The exception of `OnlyPatchedIsUsed` (`raced`) is a real gap: neither the script
nor the packager looks at the tree again once it builds, and the readiness test
of a binary is that the file is executable. The exception covers the developer
only; commands never endanger each other, since a patch does not apply where one
has been applied and a clone does not go where one has begun.

The model also shows what no property forbids: two shells that find no model
process both start one; `start_server` takes any listener for its own server; a
second packager moves its bundle into the first one's; an install that was
interrupted is refused by all later ones until somebody moves the checkout.

Fairness: a shell takes its next step, because each is a system call or a tool
that ends; strong fairness of `BuildBegins`, because SwiftPM waits for the lock
and gets it; weak fairness of `KilledExits`, because SIGKILL cannot be ignored.
Starting a command, failing, listening and ending a server or a generation are
owed by nobody; a server that ignores SIGINT and SIGTERM is stopped by SIGKILL,
or given up.

**Proof.** `OnlyPatchedIsUsed` rests on `ChecksHold`: from the check of the tree to
the end of the build, index and tree hold both patches, unless somebody changed
the tree. That in turn needs `OneCloner` (whoever is cloning or checking out is
alone, with nothing staged, so a checkout cannot overwrite a checked tree) and
`PatchesInOrder` (a patch is written under the lock, on the tree below it, so it
cannot be written to a checked tree). `NoServerLeft` follows from `ServersOwned`.
The two action properties are shown for each group of actions from the same
parts. The theorems hold for all shells, commands, lists of products and numbers
of interruptions; the constants are assumed to be what `RuntimeAssumption` says.

## 8. Analysis

**Correspondence.** A behaviour is one experiment from its first row to its
verdicts. `MeasureRow` appends the row that `balanced_schedule` has next, with any
of the given observations; `Admit` is the admission of the whole artifact, with
the reasons of `decide_run` that the analysis can tell apart; `WriteAnalysis`,
`WriteSummary` and `WriteReport` are the three files of `write_analysis` in their
order, and `ComparePurgeable` is `analyze-purgeable`, which may be run for any two
arms before the analysis. `Refuse` is every error before a file is written.
`Interrupted` is Ctrl-C between two files. The operators above the actions are the
functions of `analysis.py`: `Measure` reads one row, `Summary` is an entry of
`summarize`, `PairedGaps` and `IsRepeated` are the paired evidence, `IsTradeoff`
the causal one, and `Candidates` the verdict.

Admission has more reasons to refuse a row than the model: an exit code, a hash that
is missing, a thermal warning. Their effect is that of the modelled ones, and the
analysis reads none of them. Which rows an invocation leaves behind is the matter
of Section 4.

Numbers are exact. The code computes in floating point, so a gap of exactly the
threshold may fall on either side there; nothing is claimed about that. A missing
number is `None` until the place where the code writes `or 0`, which the model has
too (`OrZero`). Percent, doubled medians and the common multiple `Scale` replace
fractions.

**Run** `analysis`: three experiments, none with its arms listed by cache size (two
arms and three repetitions with expert telemetry; three arms under two pressures;
two arms with equal caches), and seven kinds of rows: fast, slow with more hits and
swap, fast with more hits and swap, slow under memory pressure, and three with a
number missing or zero, of which admission refuses two always and one when the
experiment requires telemetry. Every sequence of rows is tried (1,971,006 states).
The gap of 15 percent and the free memory of 12 are the code's. Its minimum of five
repetitions, four of them with a gap, is scaled to two and two, of two or three
repetitions: three are the least at which a median can hide a repetition and one
repetition can disagree with the majority. Swap and compressor growth are in
units of their own. The run and the analysis end, so deadlock is not checked.

| Property | Says | Proved |
| --- | --- | --- |
| `TypeOK` | types | yes |
| `OrderIsBalanced` | every arm has one row in each repetition, and no arm runs before another more than one time oftener | yes |
| `ReportsComplete` | what admission lets through can be reported: only Ctrl-C leaves a verdict without its report | yes |
| `EvidenceIsMeasured` | no number that gate 1 would replace by zero is missing from an analysed artifact | yes |
| `VerdictIgnoresOrder` | the verdict is that of the rows in the reverse order, if the caches differ | yes |
| `UnanimousGapPasses` | a pair whose every repetition shows the gap, the hits and the swap is a candidate | yes |
| `PassNeedsHalf` | at least half of the repetitions of a candidate show the whole gap, and the hit gain was seen | yes |
| `UnanimousWinIsReported` | an arm that wins or loses every repetition is reported so, in the pair and in the aggregate | yes |

`ReportsComplete` is the one that joins two files of the source: the report of gate
1 would raise a `TypeError` for a pair without paired gaps, and it is admission
(a positive throughput in every row) that rules such a pair out. `VerdictIgnoresOrder` has
to except equal caches: among them the arm whose rows come first counts as the
smaller one, since the sorts are stable.

**Proof.** The code takes a median by sorting. A sort is recursive, so the model
takes it by rank: `Smallest(values, k)` is the value at place `k` of the sorted
list, the one with fewer than `k` values below it and at least `k` not above it.
That it exists (`SmallestIs`) rests on the greatest and the least element of a
finite set, for which the well-foundedness of the strict subset ordering replaces
induction. Everything else about medians is counting:

- `SmallestWitness`, by the pigeonhole principle: of two functions on one set some
  place is at most the `k`-th smallest of the one and at least that of the other.
  If one arm beats the other in every repetition, its median is therefore
  greater, although the medians are of different repetitions (`MedianWitness`).
- `MedianReindexed`: a median does not depend on where its values stand.
- `UpperHalf`: at least half of the values reach a number that is at least the
  median.

The invariant `Inv` has, beside the types, that the rows measured so far are the first
ones of the schedule (`Measured`), that the artifact has the admissible ones
of all rows (`Admitted`), and that verdict and gains are functions of a complete
artifact (`Written`). Division with remainder makes the schedule a bijection
between places and pairs of an arm and a repetition, so a complete artifact is
`Whole`: one admitted row of each arm in each repetition. From there on places are
forgotten. `SummaryIs` and `GapsAre` rewrite summaries and paired gaps as functions
of the repetitions, which is why the order of the rows is irrelevant, and
`GapSign` clears the division of a gap by its baseline.

Assumptions: specs and observations are what `load_experiment` and the telemetry let
through, `Scale` is a multiple of every throughput, thresholds are positive (the
swap limit may be zero), and `MinimumSupport` is at most `MinimumRepetitions`. The
gap and the two minima are parameters of `gate1_verdict`, but its only
caller passes none and their defaults are 15 percent, 5 and 4 (`analysis.py:336`
to 338 and 479). More support than repetitions would make `UnanimousGapPasses`
false, since a unanimous pair could not have enough.

## 9. What is proved and what is only checked

Every safety property of a passing run, invariant or action property, and the
refinement of `ExactStore` are theorems. They hold for every number of slots,
layers, experts, passes, invocations, rows, clients, models, shards, servers,
attempts, shells, interruptions, arms and repetitions; `PROJECT.json` lists them.

Only model-checked are the liveness properties (`PassEnds`, `InvocationEnds`,
`OperationEnds`, `StartingEnds`, `StoppingEnds`, `CommandEnds`): the prover has no
rules for fairness and `ENABLED`. The runs that expect a violation are
counterexamples, which need no proof. No module of the project declares a
recursive operator; where an argument asks for induction over data (the bytes of
a store, the elements of a finite set), it takes a minimal counterexample by the
well-foundedness of the strict subset ordering, a theorem of the library.

Every checked property has a mutant in `PROJECT.json`: a small change of a
modelled definition, of the kind a plausible mistake in the code would make,
under which TLC finds the property violated. The mutated forms stand just before
the definitions they replace and are used nowhere else.
