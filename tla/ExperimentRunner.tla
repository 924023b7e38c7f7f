--------------------------- MODULE ExperimentRunner ---------------------------
(***************************************************************************)
(* Invocations of `elasticuma experiment run` for one experiment name      *)
(* (runner.py, locks.py, admission.py): the refusal to append, the model-  *)
(* worker lock, the recovery gate, and one run of the schedule after the   *)
(* other, each with a native pressure monitor, a pressure worker and a     *)
(* runtime wrapper that spawns the model process.                          *)
(*                                                                         *)
(* Invocations interleave with each other, with their workers (which exit, *)
(* or stay, when they like) and with SIGKILL and Ctrl-C of an invocation.  *)
(* Clocks are abstracted: a deadline may pass at any moment.               *)
(***************************************************************************)
EXTENDS Integers, FiniteSets

CONSTANTS
  Invocations,      \* invocations of the command over time
  Schedule,         \* balanced_schedule: row -> [pressure, warmup]
  StableSamples,    \* recovery_stable_samples
  NamedWorker,      \* worker_process_name is set
  MonitorRequired,  \* require_native_pressure_monitor
  FailFast          \* fail_fast

NumRows == Cardinality(DOMAIN Schedule)
Rows == 1..NumRows

ASSUME ScheduleAssumption ==
  /\ IsFiniteSet(DOMAIN Schedule) /\ DOMAIN Schedule = Rows /\ NumRows > 0
  /\ Schedule \in [Rows -> [pressure : BOOLEAN, warmup : BOOLEAN]]
ASSUME OptionsAssumption ==
  /\ StableSamples \in Nat \ {0}
  /\ NamedWorker \in BOOLEAN /\ MonitorRequired \in BOOLEAN /\ FailFast \in BOOLEAN

Nobody == "nobody"
ASSUME NobodyAssumption == Nobody \notin Invocations

VARIABLES
  pc,          \* where each invocation is in run_experiment / run_one
  lock,        \* holder of .locks/model-worker.lock
  local,       \* local variables of each invocation, see Locals
  procs,       \* live processes
  events,      \* runs whose native-pressure-events.jsonl holds a critical event
  records,     \* record.json files
  artifact,    \* artifacts/admitted/<name>.json
  spawned,     \* history: runs whose runtime was started
  critical,    \* history: runs whose wrapper was alive when pressure was critical
  leaked       \* history: invocations that lost a worker's handle

vars == <<pc, lock, local, procs, events, records, artifact,
          spawned, critical, leaked>>

Kinds == {"monitor", "pressure", "wrapper", "model", "orphan"}
Handles == {"monitor", "pressure", "wrapper"}
Runs == Invocations \X Rows
Ended == {"idle", "done", "failed", "dead"}
Reaping == {"reapRuntime", "reapPressure", "reapMonitor"}
RunOne == {"monitor", "pressure", "pressureWait", "runtime", "running"}
PC == Ended \cup Reaping \cup RunOne
      \cup {"checked", "recover", "overlap", "record", "postcheck", "finished"}

\* row: schedule position. stable: consecutive good samples in the recovery
\* gate. held: workers it has a process handle of. errors: the current run has
\* an error or a nonzero return code. raising: an exception is leaving run_one.
Locals == [row : Rows, stable : 0..(StableSamples - 1), held : SUBSET Handles,
           errors : BOOLEAN, raising : BOOLEAN]
Fresh == [row |-> 1, stable |-> 0, held |-> {}, errors |-> FALSE, raising |-> FALSE]

NoArtifact == [owner |-> Nobody, rows |-> {}, complete |-> FALSE]
Process(i, k) == [owner |-> i, row |-> local[i].row, kind |-> k]
ThisRun(i) == <<i, local[i].row>>

TypeOK ==
  /\ pc \in [Invocations -> PC]
  /\ lock \in Invocations \cup {Nobody}
  /\ local \in [Invocations -> Locals]
  /\ procs \subseteq [owner : Invocations, row : Rows, kind : Kinds]
  /\ events \subseteq Runs
  /\ records \subseteq [owner : Invocations, row : Rows, failed : BOOLEAN, critical : BOOLEAN]
  /\ artifact \in [owner : Invocations \cup {Nobody}, rows : SUBSET Rows, complete : BOOLEAN]
  /\ spawned \subseteq Runs
  /\ critical \subseteq Runs
  /\ leaked \subseteq Invocations

Init ==
  /\ pc = [i \in Invocations |-> "idle"]
  /\ lock = Nobody
  /\ local = [i \in Invocations |-> Fresh]
  /\ procs = {} /\ events = {} /\ records = {} /\ artifact = NoArtifact
  /\ spawned = {} /\ critical = {} /\ leaked = {}

histVars == <<spawned, critical, leaked>>
diskVars == <<events, records, artifact>>

Goto(i, label) == pc' = [pc EXCEPT ![i] = label]

\* The invocation is over: its frames are gone, and so is its lock, which the
\* with statement or the kernel releases.
Leave(i, label) ==
  /\ Goto(i, label)
  /\ local' = [local EXCEPT ![i] = Fresh]
  /\ lock' = IF lock = i THEN Nobody ELSE lock

\* An exception leaves run_experiment.
Fail(i) == Leave(i, "failed")

\* An exception inside run_one's try: the finally block reaps what is held.
Raise(i) ==
  /\ local' = [local EXCEPT ![i].raising = TRUE]
  /\ Goto(i, "reapRuntime")

-------------------------------------------------------------------------------
(* run_experiment up to the first run.                                      *)

\* The refusal to append is decided here, before the lock is taken.
CheckUnused(i) ==
  /\ pc[i] = "idle"
  /\ Goto(i, IF artifact # NoArtifact \/ records # {} THEN "failed" ELSE "checked")
  /\ UNCHANGED <<lock, local, procs, diskVars, histVars>>

\* Mutant of Acquire: the lock file is opened but not locked.
AcquireUnlocked(i) ==
  /\ pc[i] = "checked"
  /\ Goto(i, "recover") /\ lock' = i
  /\ UNCHANGED <<local, procs, diskVars, histVars>>

\* flock(LOCK_EX | LOCK_NB): taken, or the invocation gives up at once.
Acquire(i) ==
  /\ pc[i] = "checked"
  /\ \/ lock = Nobody /\ lock' = i /\ Goto(i, "recover") /\ UNCHANGED local
     \/ lock # Nobody /\ Fail(i)
  /\ UNCHANGED <<procs, diskVars, histVars>>

PowerGuardFails(i) ==
  /\ pc[i] \in {"idle", "recover", "postcheck"}
  /\ Fail(i)
  /\ UNCHANGED <<procs, diskVars, histVars>>

\* One bad sample starts the count of consecutive good ones again.
RecoverySample(i) ==
  /\ pc[i] = "recover"
  /\ \E n \in {0, local[i].stable + 1} :
       /\ local' = [local EXCEPT ![i].stable = n % StableSamples]
       /\ Goto(i, IF n = StableSamples THEN "overlap" ELSE "recover")
  /\ UNCHANGED <<lock, procs, diskVars, histVars>>

\* Mutant of RecoveryTimesOut: the deadline is looked at only after a bad sample.
RecoveryTimesOutIfBad(i) ==
  /\ pc[i] = "recover" /\ local[i].stable = 0
  /\ Fail(i)
  /\ UNCHANGED <<procs, diskVars, histVars>>

RecoveryTimesOut(i) ==
  /\ pc[i] = "recover"
  /\ Fail(i)
  /\ UNCHANGED <<procs, diskVars, histVars>>

\* Mutant of WorkersSeen: nobody looks for a resident model process.
WorkersUnseen == FALSE

\* pids_named(worker_process_name): the model process, not its wrapper.
WorkersSeen == NamedWorker /\ \E p \in procs : p.kind \in {"model", "orphan"}

OverlapCheck(i) ==
  /\ pc[i] = "overlap"
  /\ \/ WorkersSeen /\ Fail(i)
     \/ ~WorkersSeen /\ Goto(i, "monitor") /\ UNCHANGED <<lock, local>>
  /\ UNCHANGED <<procs, diskVars, histVars>>

-------------------------------------------------------------------------------
(* run_one: starting the workers.                                           *)

Spawn(i, k) == procs' = procs \cup {Process(i, k)}
Hold(i, k)  == local' = [local EXCEPT ![i].held = @ \cup {k}]

\* A monitor that is not ready within 5 s was terminated by its starter.
StartMonitor(i) ==
  /\ pc[i] = "monitor"
  /\ \/ ~MonitorRequired /\ Goto(i, "pressure") /\ UNCHANGED <<local, procs>>
     \/ /\ MonitorRequired
        /\ \/ Spawn(i, "monitor") /\ Hold(i, "monitor") /\ Goto(i, "pressure")
           \/ Raise(i) /\ UNCHANGED procs
  /\ UNCHANGED <<lock, diskVars, histVars>>

\* The last case: allow_live_pressure is false.
StartPressure(i) ==
  /\ pc[i] = "pressure"
  /\ \/ ~Schedule[local[i].row].pressure /\ Goto(i, "runtime") /\ UNCHANGED procs
        /\ UNCHANGED local
     \/ Schedule[local[i].row].pressure /\ Spawn(i, "pressure") /\ Goto(i, "pressureWait")
        /\ UNCHANGED local
     \/ Schedule[local[i].row].pressure /\ Raise(i) /\ UNCHANGED procs
  /\ UNCHANGED <<lock, diskVars, histVars>>

PressureReady(i) ==
  /\ pc[i] = "pressureWait"
  /\ Process(i, "pressure") \in procs
  /\ Hold(i, "pressure") /\ Goto(i, "runtime")
  /\ UNCHANGED <<lock, procs, diskVars, histVars>>

\* It exited before it was ready, or 30 s passed and it was terminated.
PressureNotReady(i) ==
  /\ pc[i] = "pressureWait"
  /\ procs' = procs \ {Process(i, "pressure")}
  /\ Raise(i)
  /\ UNCHANGED <<lock, diskVars, histVars>>

StartRuntime(i) ==
  /\ pc[i] = "runtime"
  /\ Spawn(i, "wrapper") /\ Hold(i, "wrapper") /\ Goto(i, "running")
  /\ spawned' = spawned \cup {ThisRun(i)}
  /\ UNCHANGED <<lock, diskVars, critical, leaked>>

\* Ctrl-C, or an OSError of Popen, in the try block. _start_pressure has no handler: a worker
\* it was still waiting for is not assigned yet, and nobody terminates it.
Interrupted(i) ==
  /\ pc[i] \in RunOne
  /\ Raise(i)
  /\ leaked' = IF pc[i] = "pressureWait" THEN leaked \cup {i} ELSE leaked
  /\ UNCHANGED <<lock, procs, diskVars, spawned, critical>>

-------------------------------------------------------------------------------
(* run_one: watching and reaping.                                           *)

\* The process group of a worker: the wrapper's group holds its model child.
Group(i, k) ==
  {p \in procs : /\ p.owner = i /\ p.row = local[i].row
                 /\ p.kind = k \/ (k = "wrapper" /\ p.kind = "model")}

\* _terminate: nothing is signalled once the leader has exited; otherwise the
\* leader dies of SIGTERM, perhaps alone, or the whole group of SIGKILL.
Survivors(i, k) ==
  IF Process(i, k) \in procs
    THEN {procs \ S : S \in {S \in SUBSET Group(i, k) : Process(i, k) \in S}}
    ELSE {procs}

\* A deadline, a guard, a critical event or a telemetry error stops the run.
\* A leader that outlives SIGKILL by 8 s makes _terminate raise.
StopRuntime(i) ==
  /\ pc[i] = "running" /\ Process(i, "wrapper") \in procs
  /\ \/ /\ procs' \in Survivors(i, "wrapper")
        /\ local' = [local EXCEPT ![i].errors = TRUE]
        /\ Goto(i, "reapRuntime")
     \/ Raise(i) /\ UNCHANGED procs
  /\ UNCHANGED <<lock, diskVars, histVars>>

\* TelemetryError is a RuntimeError: the sampling loop does not catch it.
TelemetryEscapes(i) ==
  /\ pc[i] = "running" /\ Process(i, "wrapper") \in procs
  /\ Raise(i)
  /\ UNCHANGED <<lock, procs, diskVars, histVars>>

\* The wrapper is seen to have exited; its result is parsed if it returned 0.
RuntimeExited(i) ==
  /\ pc[i] = "running" /\ Process(i, "wrapper") \notin procs
  /\ \E bad \in BOOLEAN : local' = [local EXCEPT ![i].errors = bad]
  /\ Goto(i, "reapRuntime")
  /\ UNCHANGED <<lock, procs, diskVars, histVars>>

\* The finally block: one _terminate per handle, in this order.
ReapedHere(i) ==
  CASE pc[i] = "reapRuntime" -> "wrapper"
    [] pc[i] = "reapPressure" -> "pressure"
    [] pc[i] = "reapMonitor" -> "monitor"

\* Mutant of AfterReap: the pressure worker is forgotten.
AfterReapNoPressure(i) ==
  CASE pc[i] = "reapRuntime" -> "reapMonitor"
    [] OTHER -> "record"

AfterReap(i) ==
  CASE pc[i] = "reapRuntime" -> "reapPressure"
    [] pc[i] = "reapPressure" -> "reapMonitor"
    [] pc[i] = "reapMonitor" -> "record"

Reap(i) ==
  /\ pc[i] \in Reaping
  /\ procs' \in IF ReapedHere(i) \in local[i].held THEN Survivors(i, ReapedHere(i)) ELSE {procs}
  /\ IF AfterReap(i) = "record" /\ local[i].raising
       THEN Fail(i) ELSE Goto(i, AfterReap(i)) /\ UNCHANGED <<lock, local>>
  /\ UNCHANGED <<diskVars, histVars>>

\* _terminate raises inside finally: the remaining workers are not reaped.
ReapStuck(i) ==
  /\ pc[i] \in Reaping /\ ReapedHere(i) \in local[i].held
  /\ Process(i, ReapedHere(i)) \in procs
  /\ Fail(i)
  /\ leaked' = leaked \cup {i}
  /\ UNCHANGED <<procs, diskVars, spawned, critical>>

\* The monitor's events are read after it was reaped; a stream that does not
\* parse is one more error.
WriteRecord(i) ==
  /\ pc[i] = "record"
  /\ \E bad \in BOOLEAN :
       LET failed == local[i].errors \/ (MonitorRequired /\ bad)
       IN /\ local' = [local EXCEPT ![i].errors = failed]
          /\ records' = records \cup {[owner |-> i, row |-> local[i].row, failed |-> failed,
                                       critical |-> ThisRun(i) \in events]}
  /\ Goto(i, "postcheck")
  /\ UNCHANGED <<lock, procs, events, artifact, histVars>>

\* memory_snapshot or power_snapshot raises after the run: no record.json.
RecordFails(i) ==
  /\ pc[i] = "record"
  /\ Fail(i)
  /\ UNCHANGED <<procs, diskVars, histVars>>

-------------------------------------------------------------------------------
(* Between runs, and after the last.                                        *)

\* Mutant of IsLastRow: one row too many.
IsLastRowOffByOne(i) == local[i].row > NumRows

IsLastRow(i) == local[i].row = NumRows

\* Mutant of StopsHere: fail_fast is ignored.
StopsOnOverlapOnly(i) == WorkersSeen

StopsHere(i) == WorkersSeen \/ (FailFast /\ local[i].errors)

PostCheck(i) ==
  /\ pc[i] = "postcheck"
  /\ \/ StopsHere(i) /\ Fail(i)
     \/ ~StopsHere(i) /\ IsLastRow(i) /\ Leave(i, "finished")
     \/ /\ ~StopsHere(i) /\ ~IsLastRow(i)
        /\ local' = [local EXCEPT ![i] = [Fresh EXCEPT !.row = local[i].row + 1]]
        /\ Goto(i, "recover") /\ UNCHANGED lock
  /\ UNCHANGED <<procs, diskVars, histVars>>

Measured == {r \in Rows : ~Schedule[r].warmup}

\* Mutant of Admissible: critical events of the record are not looked at.
AdmissibleIfClean(rec) == ~rec.failed

\* decide_run, of what the model keeps of a record.
Admissible(rec) == ~rec.failed /\ ~(MonitorRequired /\ rec.critical)

\* admit_experiment on this invocation's records, after the lock was released.
\* A row may also be refused for its telemetry, power or swap receipts, and all
\* are when the outputs differ.
Admit(i) ==
  /\ pc[i] = "finished"
  /\ \E refused \in SUBSET Measured :
       LET rows == {rec.row : rec \in {rec \in records : rec.owner = i /\ Admissible(rec)}}
                     \cap (Measured \ refused)
       IN artifact' = [owner |-> i, rows |-> rows, complete |-> rows = Measured]
  /\ Goto(i, "done")
  /\ UNCHANGED <<lock, local, procs, events, records, histVars>>

\* SIGKILL: the kernel drops the lock, the workers (sessions of their own) stay.
Killed(i) ==
  /\ pc[i] \notin Ended
  /\ Leave(i, "dead")
  /\ UNCHANGED <<procs, diskVars, histVars>>

-------------------------------------------------------------------------------
(* The workers.                                                             *)

\* A wrapper whose invocation is gone may still start its model process.
WrapperStartsModel(p) ==
  /\ p.kind = "wrapper"
  /\ \A q \in procs : q.kind \in {"model", "orphan"} => <<q.owner, q.row>> # <<p.owner, p.row>>
  /\ procs' = procs \cup {[p EXCEPT !.kind = IF pc[p.owner] \in Ended THEN "orphan" ELSE "model"]}
  /\ UNCHANGED <<pc, lock, local, diskVars, histVars>>

\* Any worker but the monitor may exit by itself: the runtime when it is done or
\* crashes, in any order with its child, the pressure worker at its 14% guard.
WorkerExits(p) ==
  /\ p.kind # "monitor"
  /\ procs' = procs \ {p}
  /\ UNCHANGED <<pc, lock, local, diskVars, histVars>>

\* Memory pressure turns critical: live monitors append the event.
TurnsCritical ==
  LET seen(k) == {<<p.owner, p.row>> : p \in {p \in procs : p.kind = k}}
  IN /\ seen("monitor") \cup seen("wrapper") # {}
     /\ events' = events \cup seen("monitor")
     /\ critical' = critical \cup seen("wrapper")
     /\ UNCHANGED <<pc, lock, local, procs, records, artifact, spawned, leaked>>

-------------------------------------------------------------------------------
\* What an invocation that is running goes on to do.
Step(i) ==
  \/ Acquire(i) \/ OverlapCheck(i)
  \/ StartMonitor(i) \/ StartPressure(i) \/ PressureReady(i) \/ StartRuntime(i)
  \/ RuntimeExited(i) \/ Reap(i) \/ WriteRecord(i) \/ PostCheck(i) \/ Admit(i)

\* What the passing of time makes it do.
Deadline(i) == RecoveryTimesOut(i) \/ PressureNotReady(i) \/ StopRuntime(i)

Next ==
  \/ \E i \in Invocations :
       \/ CheckUnused(i)
       \/ PowerGuardFails(i)
       \/ RecoverySample(i)
       \/ TelemetryEscapes(i)
       \/ Step(i)
       \/ Deadline(i)
       \/ Interrupted(i)
       \/ ReapStuck(i)
       \/ RecordFails(i)
       \/ Killed(i)
  \/ \E p \in procs : WrapperStartsModel(p) \/ WorkerExits(p)
  \/ TurnsCritical

Spec == Init /\ [][Next]_vars

\* A live invocation takes its next step, and its deadlines come. Samples, the
\* workers, signals and new invocations are not owed.
FairSpec == Spec /\ \A i \in Invocations : WF_vars(Step(i)) /\ WF_vars(Deadline(i))

-------------------------------------------------------------------------------
(* Properties.                                                              *)

\* With a worker name configured, measurements never overlap: two model
\* processes started under live invocations are never resident together, even
\* after an invocation was killed and left its model running. (A wrapper
\* orphaned before it started its model is out of the overlap check's sight.)
OneModelWorker ==
  NamedWorker =>
    \A p, q \in procs : p.kind = "model" /\ q.kind = "model" => p = q

\* Runs are isolated: when a run's runtime has been started, every earlier run
\* of its invocation has its record on disk, free of errors under fail_fast, and
\* nothing of it is alive but perhaps an unnamed model.
RowsAreSerial ==
  \A run \in spawned : \A r \in 1..(run[2] - 1) :
    /\ \E rec \in records : rec.owner = run[1] /\ rec.row = r /\ (FailFast => ~rec.failed)
    /\ \A p \in procs : p.owner = run[1] /\ p.row = r => ~NamedWorker /\ p.kind = "model"

\* An invocation that ended other than by SIGKILL left no monitor, pressure
\* worker or wrapper behind, unless it lost a handle: Ctrl-C while the pressure
\* worker was getting ready, or a worker that outlived SIGKILL by 8 s.
NothingLeftBehind ==
  \A p \in procs :
    pc[p.owner] \in {"done", "failed"} /\ p.owner \notin leaked => p.kind \notin Handles

\* With the monitor required, a run during which pressure turned critical is
\* never admitted, whether or not the sampling loop noticed in time.
CriticalNeverAdmitted ==
  MonitorRequired =>
    \A r \in artifact.rows : <<artifact.owner, r>> \notin critical

\* Every invocation ends, whatever the memory, the workers and the lock do.
InvocationEnds ==
  \A i \in Invocations : pc[i] \notin Ended ~> pc[i] \in Ended

\* runner.py:408, "refusing to append or retry experiment": records of two
\* invocations never stand side by side.
NeverAppends == \A a, b \in records : a.owner = b.owner

\* methodology.tex:79, "Failed rows are retained": an invocation that ended by
\* itself, and never lost a handle, has a record for every run it started.
FailedRowsRetained ==
  \A run \in spawned : pc[run[1]] \in {"done", "failed"} /\ run[1] \notin leaked =>
    \E rec \in records : rec.owner = run[1] /\ rec.row = run[2]

\* runner.py:69, "a wrapper cannot exit while leaving its native model child
\* resident": once the runtime was terminated its model is gone.
NoChildOutlivesWrapper ==
  \A i \in Invocations : pc[i] \in {"record", "postcheck"} =>
    Process(i, "model") \notin procs
===============================================================================
