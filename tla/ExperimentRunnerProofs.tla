------------------------ MODULE ExperimentRunnerProofs ------------------------
(***************************************************************************)
(* Proofs about ExperimentRunner for every number of invocations, every    *)
(* schedule and all options: its types, that measurements never overlap,   *)
(* that rows are serial and leave nothing behind, and that a row that saw  *)
(* critical pressure is never admitted.                                    *)
(*                                                                         *)
(* The invariants are about one invocation each.  A step of an invocation  *)
(* touches what is its own (OnlyOwn), so what holds of the others stays,   *)
(* and the work is with the invocation that takes the step.                *)
(***************************************************************************)
EXTENDS ExperimentRunner, FiniteSetTheorems, TLAPS

\* Where an invocation is under the lock, and where it is past the check for
\* other workers.
Holding == {"recover", "overlap", "record", "postcheck"} \cup RunOne \cup Reaping
Measuring == Holding \ {"recover", "overlap"}
Over == {"done", "failed", "dead"}

-------------------------------------------------------------------------------
(* What an invocation owns.                                                 *)

LockHeld(i) == pc[i] \in Holding => lock = i

\* What has not got the lock has not done anything.
NotStarted(i) ==
  pc[i] \in {"idle", "checked"} =>
    /\ local[i] = Fresh /\ i \notin leaked
    /\ \A p \in procs : p.owner # i
    /\ \A rec \in records : rec.owner # i
    /\ \A run \in spawned : run[1] # i

\* An invocation that lost a handle goes on to nothing but the end.
LeakedIsLeaving(i) ==
  i \in leaked =>
    \/ pc[i] \in Over
    \/ /\ pc[i] \in Reaping /\ local[i].raising
       /\ \A p \in procs : p.owner = i => p.kind # "wrapper"

\* The places from which the worker p of i is reaped.
InHand(p, i) ==
  \/ p.kind = "wrapper" /\ pc[i] \in {"running", "reapRuntime"}
  \/ p.kind = "pressure" /\ pc[i] \in {"runtime", "running", "reapRuntime", "reapPressure"}
  \/ p.kind = "monitor"
     /\ pc[i] \in {"pressure", "pressureWait", "runtime", "running"} \cup Reaping

\* A worker belongs to the present run of its invocation, and is held or waited
\* for, unless the invocation was killed or lost a handle.
WorkersHeld(i) ==
  pc[i] # "dead" /\ i \notin leaked =>
    \A p \in procs : p.owner = i /\ p.kind \in Handles =>
      /\ p.row = local[i].row
      /\ \/ InHand(p, i) /\ p.kind \in local[i].held
         \/ p.kind = "pressure" /\ pc[i] = "pressureWait"

OrphansOver(i) == \A p \in procs : p.owner = i /\ p.kind = "orphan" => pc[i] \in Over

Owned(i) ==
  LockHeld(i) /\ NotStarted(i) /\ LeakedIsLeaving(i) /\ WorkersHeld(i) /\ OrphansOver(i)
Ownership == \A i \in Invocations : Owned(i)

-------------------------------------------------------------------------------
(* What each property rests on.                                             *)

\* From the overlap check to the end of a run, a model is the model of that run.
ModelsBelong(i) ==
  NamedWorker /\ pc[i] \in Measuring =>
    \A p \in procs : p.kind = "model" => p.owner = i /\ p.row = local[i].row

\* What RowsAreSerial says of each earlier run.
RowOver(i, r) ==
  /\ \E rec \in records : rec.owner = i /\ rec.row = r /\ (FailFast => ~rec.failed)
  /\ \A p \in procs : p.owner = i /\ p.row = r => ~NamedWorker /\ p.kind = "model"

EarlierRows(i) == pc[i] \in Holding => \A r \in 1..(local[i].row - 1) : RowOver(i, r)

SpawnedRows(i) ==
  \A run \in spawned : run[1] = i =>
    /\ \A r \in 1..(run[2] - 1) : RowOver(i, r)
    /\ pc[i] \in Holding => run[2] <= local[i].row

\* After the record of a run was written its errors are those of the invocation.
JustRecorded(i) ==
  pc[i] = "postcheck" =>
    \E rec \in records : /\ rec.owner = i /\ rec.row = local[i].row
                         /\ rec.failed = local[i].errors

Ordered(i) == EarlierRows(i) /\ SpawnedRows(i) /\ JustRecorded(i)
Serial == \A i \in Invocations : Ordered(i)

\* A wrapper never runs without the monitor of its run.
MonitorAlive(i) ==
  MonitorRequired =>
    /\ \A p \in procs : p.owner = i /\ p.kind = "wrapper" =>
         [owner |-> i, row |-> p.row, kind |-> "monitor"] \in procs
    /\ pc[i] \in {"pressure", "pressureWait", "runtime"} => Process(i, "monitor") \in procs

\* A run has its record only when its wrapper is gone.
RecordsEarlier(i) ==
  \A rec \in records : rec.owner = i =>
    /\ pc[i] \in Holding => rec.row < local[i].row
                            \/ (rec.row = local[i].row /\ pc[i] = "postcheck")
    /\ \A p \in procs : p.owner = i /\ p.kind = "wrapper" => p.row # rec.row

\* So a record knows of all critical pressure of its run.
CriticalRecorded(i) ==
  MonitorRequired =>
    /\ \A run \in critical : run[1] = i => run \in events
    /\ \A rec \in records : rec.owner = i /\ <<i, rec.row>> \in critical => rec.critical

Watched(i) == MonitorAlive(i) /\ RecordsEarlier(i) /\ CriticalRecorded(i)
Monitored == \A i \in Invocations : Watched(i)

AdmittedRecords ==
  \A r \in artifact.rows : \E rec \in records :
    rec.owner = artifact.owner /\ rec.row = r /\ (MonitorRequired => ~rec.critical)

-------------------------------------------------------------------------------
(* Type correctness.                                                        *)

USE DEF Holding, Measuring, Over, Ended, Reaping, RunOne, Handles, Kinds

LEMMA RowCount == NumRows \in Nat \ {0}
BY ScheduleAssumption, FS_CardinalityType DEF NumRows

LEMMA FreshIsLocal == Fresh \in Locals
BY RowCount, OptionsAssumption DEF Fresh, Locals, Rows

\* The four ways in which the frames of an invocation change.
LEMMA LeaveTypes ==
  ASSUME TypeOK, NEW i \in Invocations, NEW label \in PC, Leave(i, label)
  PROVE  /\ pc' \in [Invocations -> PC] /\ local' \in [Invocations -> Locals]
         /\ lock' \in Invocations \cup {Nobody}
BY FreshIsLocal DEF TypeOK, Leave, Goto

LEMMA FlagTypes ==
  ASSUME TypeOK, NEW i \in Invocations, NEW flag \in BOOLEAN
  PROVE  /\ [local EXCEPT ![i].raising = flag] \in [Invocations -> Locals]
         /\ [local EXCEPT ![i].errors = flag] \in [Invocations -> Locals]
BY DEF TypeOK, Locals

LEMMA RaiseTypes ==
  ASSUME TypeOK, NEW i \in Invocations, Raise(i)
  PROVE  pc' \in [Invocations -> PC] /\ local' \in [Invocations -> Locals]
<1>1. local' \in [Invocations -> Locals]
  BY FlagTypes, TRUE \in BOOLEAN DEF Raise
<1>2. pc' \in [Invocations -> PC]
  BY DEF TypeOK, Raise, Goto, PC
<1>3. QED
  BY <1>1, <1>2

LEMMA HoldTypes ==
  ASSUME TypeOK, NEW i \in Invocations, NEW k \in Handles, Hold(i, k)
  PROVE  local' \in [Invocations -> Locals]
BY DEF TypeOK, Hold, Locals

LEMMA SpawnTypes ==
  ASSUME TypeOK, NEW i \in Invocations, NEW k \in Kinds, Spawn(i, k)
  PROVE  procs' \subseteq [owner : Invocations, row : Rows, kind : Kinds]
BY DEF TypeOK, Spawn, Process, Locals

\* _terminate ends the leader, and of other processes only its child.
LEMMA SurvivorsLemma ==
  ASSUME NEW i \in Invocations, NEW k \in Handles, NEW rest \in Survivors(i, k)
  PROVE  /\ rest \subseteq procs
         /\ Process(i, k) \notin rest
         /\ \A p \in procs \ rest :
              /\ p.owner = i /\ p.row = local[i].row
              /\ p.kind = k \/ (k = "wrapper" /\ p.kind = "model")
BY DEF Survivors, Group

LEMMA InitTypes == Init => TypeOK
BY FreshIsLocal DEF Init, TypeOK, PC, NoArtifact

LEMMA BeforeRunTypes ==
  ASSUME TypeOK, NEW i \in Invocations,
         \/ CheckUnused(i) \/ Acquire(i) \/ PowerGuardFails(i) \/ RecoverySample(i)
         \/ RecoveryTimesOut(i) \/ OverlapCheck(i)
  PROVE  TypeOK'
<1>1. ASSUME NEW label \in PC, Leave(i, label), UNCHANGED <<procs, diskVars, histVars>>
      PROVE  TypeOK'
  BY <1>1, LeaveTypes DEF TypeOK, diskVars, histVars
<1>2. CASE CheckUnused(i)
  BY <1>2 DEF CheckUnused, TypeOK, Goto, PC, diskVars, histVars
<1>3. CASE Acquire(i)
  BY <1>1, <1>3 DEF Acquire, Fail, TypeOK, Goto, PC, diskVars, histVars
<1>4. CASE PowerGuardFails(i) \/ RecoveryTimesOut(i)
  BY <1>1, <1>4 DEF PowerGuardFails, RecoveryTimesOut, Fail, PC
<1>5. CASE RecoverySample(i)
  <2>1. \A n \in Nat : n % StableSamples \in 0..(StableSamples - 1)
    BY OptionsAssumption
  <2>2. local[i].stable + 1 \in Nat
    BY OptionsAssumption DEF TypeOK, Locals
  <2>3. local' \in [Invocations -> Locals]
    BY <1>5, <2>1, <2>2 DEF RecoverySample, TypeOK, Locals
  <2>4. QED
    BY <1>5, <2>3 DEF RecoverySample, TypeOK, Goto, PC, diskVars, histVars
<1>6. CASE OverlapCheck(i)
  BY <1>1, <1>6 DEF OverlapCheck, Fail, TypeOK, Goto, PC, diskVars, histVars
<1>7. QED
  BY <1>2, <1>3, <1>4, <1>5, <1>6

LEMMA StartingTypes ==
  ASSUME TypeOK, NEW i \in Invocations,
         \/ StartMonitor(i) \/ StartPressure(i) \/ PressureReady(i) \/ PressureNotReady(i)
         \/ StartRuntime(i) \/ Interrupted(i)
  PROVE  TypeOK'
<1>1. CASE StartMonitor(i)
  BY <1>1, SpawnTypes, HoldTypes, RaiseTypes
  DEF StartMonitor, TypeOK, Goto, PC, diskVars, histVars
<1>2. CASE StartPressure(i)
  BY <1>2, SpawnTypes, RaiseTypes DEF StartPressure, TypeOK, Goto, PC, diskVars, histVars
<1>3. CASE PressureReady(i)
  BY <1>3, HoldTypes DEF PressureReady, TypeOK, Goto, PC, diskVars, histVars
<1>4. CASE PressureNotReady(i)
  BY <1>4, RaiseTypes DEF PressureNotReady, TypeOK, diskVars, histVars
<1>5. CASE StartRuntime(i)
  <2>1. ThisRun(i) \in Runs
    BY DEF TypeOK, ThisRun, Runs, Locals
  <2>2. QED
    BY <1>5, <2>1, SpawnTypes, HoldTypes DEF StartRuntime, TypeOK, Goto, PC, diskVars
<1>6. CASE Interrupted(i)
  BY <1>6, RaiseTypes DEF Interrupted, TypeOK, diskVars
<1>7. QED
  BY <1>1, <1>2, <1>3, <1>4, <1>5, <1>6

LEMMA ReapingTypes ==
  ASSUME TypeOK, NEW i \in Invocations,
         \/ StopRuntime(i) \/ TelemetryEscapes(i) \/ RuntimeExited(i) \/ Reap(i) \/ ReapStuck(i)
  PROVE  TypeOK'
<1>1. CASE StopRuntime(i)
  <2>1. CASE Raise(i) /\ UNCHANGED procs
    BY <1>1, <2>1, RaiseTypes DEF StopRuntime, TypeOK, diskVars, histVars
  <2>2. CASE /\ procs' \in Survivors(i, "wrapper")
             /\ local' = [local EXCEPT ![i].errors = TRUE]
             /\ Goto(i, "reapRuntime")
    <3>1. procs' \subseteq procs
      BY <2>2, SurvivorsLemma
    <3>2. local' \in [Invocations -> Locals]
      BY <2>2, FlagTypes, TRUE \in BOOLEAN
    <3>3. QED
      BY <1>1, <2>2, <3>1, <3>2 DEF StopRuntime, TypeOK, Goto, PC, diskVars, histVars
  <2>3. QED
    BY <1>1, <2>1, <2>2 DEF StopRuntime
<1>2. CASE TelemetryEscapes(i)
  BY <1>2, RaiseTypes DEF TelemetryEscapes, TypeOK, diskVars, histVars
<1>3. CASE RuntimeExited(i)
  BY <1>3 DEF RuntimeExited, TypeOK, Goto, PC, Locals, diskVars, histVars
<1>4. CASE Reap(i)
  <2>1. ReapedHere(i) \in Handles /\ AfterReap(i) \in PC
    BY <1>4 DEF Reap, ReapedHere, AfterReap, PC
  <2>2. procs' \subseteq procs
    BY <1>4, <2>1, SurvivorsLemma DEF Reap
  <2>3. QED
    BY <1>4, <2>1, <2>2, LeaveTypes DEF Reap, Fail, TypeOK, Goto, PC, diskVars, histVars
<1>5. CASE ReapStuck(i)
  BY <1>5, LeaveTypes DEF ReapStuck, Fail, TypeOK, PC, diskVars
<1>6. QED
  BY <1>1, <1>2, <1>3, <1>4, <1>5

\* A record and its invocation agree on the errors of the run.
LEMMA WritesRecord ==
  ASSUME NEW i \in Invocations, WriteRecord(i)
  PROVE  \E failed \in BOOLEAN, seen \in BOOLEAN :
           /\ seen <=> ThisRun(i) \in events
           /\ local' = [local EXCEPT ![i].errors = failed]
           /\ records' = records \cup {[owner |-> i, row |-> local[i].row, failed |-> failed,
                                        critical |-> seen]}
<1>1. PICK bad \in BOOLEAN :
        LET failed == local[i].errors \/ (MonitorRequired /\ bad)
        IN /\ local' = [local EXCEPT ![i].errors = failed]
           /\ records' = records \cup {[owner |-> i, row |-> local[i].row, failed |-> failed,
                                        critical |-> ThisRun(i) \in events]}
  BY DEF WriteRecord
<1>2. WITNESS (local[i].errors \/ (MonitorRequired /\ bad)) \in BOOLEAN,
              (ThisRun(i) \in events) \in BOOLEAN
<1>3. QED
  BY <1>1

LEMMA AfterRunTypes ==
  ASSUME TypeOK, NEW i \in Invocations,
         WriteRecord(i) \/ RecordFails(i) \/ PostCheck(i) \/ Admit(i) \/ Killed(i)
  PROVE  TypeOK'
<1>1. ASSUME NEW label \in PC, Leave(i, label), UNCHANGED <<procs, diskVars, histVars>>
      PROVE  TypeOK'
  BY <1>1, LeaveTypes DEF TypeOK, diskVars, histVars
<1>2. CASE WriteRecord(i)
  <2>1. PICK failed \in BOOLEAN, seen \in BOOLEAN :
          /\ local' = [local EXCEPT ![i].errors = failed]
          /\ records' = records \cup {[owner |-> i, row |-> local[i].row, failed |-> failed,
                                       critical |-> seen]}
    BY <1>2, WritesRecord
  <2>2. local[i].row \in Rows
    BY DEF TypeOK, Locals
  <2>3. local' \in [Invocations -> Locals]
    BY <2>1, FlagTypes
  <2>4. records' \subseteq [owner : Invocations, row : Rows, failed : BOOLEAN, critical : BOOLEAN]
    BY <2>1, <2>2 DEF TypeOK
  <2>5. QED
    BY <1>2, <2>3, <2>4 DEF WriteRecord, TypeOK, Goto, PC, histVars
<1>3. CASE RecordFails(i) \/ Killed(i)
  BY <1>1, <1>3 DEF RecordFails, Killed, Fail, PC
<1>4. CASE PostCheck(i)
  <2>1. CASE StopsHere(i) \/ IsLastRow(i)
    BY <1>1, <1>4, <2>1 DEF PostCheck, Fail, PC
  <2>2. CASE ~StopsHere(i) /\ ~IsLastRow(i)
    <3>1. local[i].row + 1 \in Rows
      BY <2>2, RowCount DEF IsLastRow, TypeOK, Locals, Rows
    <3>2. [Fresh EXCEPT !.row = local[i].row + 1] \in Locals
      BY <3>1, FreshIsLocal DEF Locals
    <3>3. QED
      BY <1>4, <2>2, <3>2 DEF PostCheck, TypeOK, Goto, PC, diskVars, histVars
  <2>3. QED
    BY <2>1, <2>2
<1>5. CASE Admit(i)
  BY <1>5 DEF Admit, TypeOK, Goto, PC, Measured, histVars
<1>6. QED
  BY <1>2, <1>3, <1>4, <1>5

LEMMA WorkerTypes ==
  ASSUME TypeOK,
         \/ \E p \in procs : WrapperStartsModel(p) \/ WorkerExits(p)
         \/ TurnsCritical
  PROVE  TypeOK'
<1>1. ASSUME NEW p \in procs, WrapperStartsModel(p) PROVE TypeOK'
  BY <1>1 DEF WrapperStartsModel, TypeOK, diskVars, histVars
<1>2. ASSUME NEW p \in procs, WorkerExits(p) PROVE TypeOK'
  BY <1>2 DEF WorkerExits, TypeOK, diskVars, histVars
<1>3. CASE TurnsCritical
  BY <1>3 DEF TurnsCritical, TypeOK, Runs
<1>4. QED
  BY <1>1, <1>2, <1>3

\* The types are preserved: the state is what run_experiment and run_one keep.
THEOREM TypeCorrect == Spec => []TypeOK
<1>1. TypeOK /\ [Next]_vars => TypeOK'
  <2>1. ASSUME TypeOK, Next PROVE TypeOK'
    BY <2>1, BeforeRunTypes, StartingTypes, ReapingTypes, AfterRunTypes, WorkerTypes
    DEF Next, Step, Deadline
  <2>2. ASSUME TypeOK, UNCHANGED vars PROVE TypeOK'
    BY <2>2 DEF TypeOK, vars
  <2>3. QED
    BY <2>1, <2>2
<1>2. QED
  BY <1>1, InitTypes, PTL DEF Spec

-------------------------------------------------------------------------------
(* The steps of one invocation.                                             *)

InvocationStep(i) ==
  \/ CheckUnused(i)
  \/ PowerGuardFails(i)
  \/ RecoverySample(i)
  \/ TelemetryEscapes(i)
  \/ Step(i)
  \/ Deadline(i)
  \/ Interrupted(i)
  \/ ReapStuck(i)
  \/ RecordFails(i)
  \/ Killed(i)

\* What a step of i leaves alone.
Own(i) ==
  /\ \A j \in Invocations \ {i} : pc'[j] = pc[j] /\ local'[j] = local[j]
  /\ \A p \in procs : p.owner # i => p \in procs'
  /\ \A p \in procs' \ procs : /\ p.owner = i /\ p.kind \in Handles
                               /\ p.row = local[i].row /\ pc[i] \in RunOne
  /\ records \subseteq records' /\ \A rec \in records' \ records : rec.owner = i
  /\ spawned \subseteq spawned' /\ \A run \in spawned' \ spawned : run[1] = i
  /\ leaked \subseteq leaked' /\ leaked' \subseteq leaked \cup {i}
  /\ \A j \in Invocations \ {i} : lock = j => lock' = j
  /\ UNCHANGED <<events, critical>>

LEMMA ReapSurvivors ==
  ASSUME NEW i \in Invocations, Reap(i)
  PROVE  /\ procs' \subseteq procs
         /\ \A p \in procs \ procs' :
              /\ p.owner = i /\ p.row = local[i].row
              /\ \/ p.kind = ReapedHere(i)
                 \/ ReapedHere(i) = "wrapper" /\ p.kind = "model"
         /\ ReapedHere(i) \in local[i].held => Process(i, ReapedHere(i)) \notin procs'
<1>1. ReapedHere(i) \in Handles
  BY DEF Reap, ReapedHere
<1>2. QED
  BY <1>1, SurvivorsLemma DEF Reap

\* However a run is stopped, its invocation keeps its row and its handles.
LEMMA StopEffect ==
  ASSUME TypeOK, NEW i \in Invocations, StopRuntime(i)
  PROVE  /\ procs' \subseteq procs
         /\ \A p \in procs \ procs' :
              p.owner = i /\ p.row = local[i].row /\ p.kind \in {"wrapper", "model"}
         /\ pc[i] = "running" /\ pc' = [pc EXCEPT ![i] = "reapRuntime"]
         /\ \A j \in Invocations \ {i} : local'[j] = local[j]
         /\ local'[i].row = local[i].row /\ local'[i].held = local[i].held
         /\ UNCHANGED <<lock, events, records, artifact, spawned, critical, leaked>>
<1> USE DEF TypeOK, Locals, Goto, Raise, diskVars, histVars
<1>1. CASE Raise(i) /\ UNCHANGED procs
  BY <1>1 DEF StopRuntime
<1>2. CASE /\ procs' \in Survivors(i, "wrapper")
           /\ local' = [local EXCEPT ![i].errors = TRUE]
           /\ Goto(i, "reapRuntime")
  <2>1. /\ procs' \subseteq procs
        /\ \A p \in procs \ procs' :
             p.owner = i /\ p.row = local[i].row /\ p.kind \in {"wrapper", "model"}
    BY <1>2, SurvivorsLemma
  <2>2. QED
    BY <1>2, <2>1 DEF StopRuntime
<1>3. QED
  BY <1>1, <1>2 DEF StopRuntime

LEMMA OnlyOwn ==
  ASSUME TypeOK, NEW i \in Invocations, InvocationStep(i)
  PROVE  Own(i)
<1> USE DEF Own, TypeOK, diskVars, histVars, Goto, Leave, Fail, Raise, Hold, Spawn, Process,
            ThisRun
<1>1. CASE CheckUnused(i) \/ Acquire(i) \/ PowerGuardFails(i) \/ RecoverySample(i)
           \/ RecoveryTimesOut(i) \/ OverlapCheck(i)
  BY <1>1, NobodyAssumption
  DEF CheckUnused, Acquire, PowerGuardFails, RecoverySample, RecoveryTimesOut, OverlapCheck
<1>2. CASE StartMonitor(i) \/ StartPressure(i) \/ PressureReady(i) \/ PressureNotReady(i)
           \/ StartRuntime(i) \/ Interrupted(i)
  BY <1>2
  DEF StartMonitor, StartPressure, PressureReady, PressureNotReady, StartRuntime, Interrupted
<1>3. CASE StopRuntime(i)
  BY <1>3, StopEffect
<1>4. CASE Reap(i)
  <2>1. /\ procs' \subseteq procs
        /\ \A p \in procs \ procs' : p.owner = i
    BY <1>4, ReapSurvivors
  <2>2. /\ \A j \in Invocations \ {i} : pc'[j] = pc[j] /\ local'[j] = local[j]
        /\ \A j \in Invocations \ {i} : lock = j => lock' = j
    BY <1>4 DEF Reap
  <2>3. QED
    BY <1>4, <2>1, <2>2 DEF Reap
<1>5. CASE TelemetryEscapes(i) \/ RuntimeExited(i) \/ ReapStuck(i)
  BY <1>5 DEF TelemetryEscapes, RuntimeExited, ReapStuck
<1>6. CASE WriteRecord(i)
  BY <1>6 DEF WriteRecord
<1>7. CASE RecordFails(i) \/ PostCheck(i) \/ Admit(i) \/ Killed(i)
  BY <1>7 DEF RecordFails, PostCheck, Admit, Killed
<1>8. QED
  BY <1>1, <1>2, <1>3, <1>4, <1>5, <1>6, <1>7 DEF InvocationStep, Step, Deadline

-------------------------------------------------------------------------------
(* Ownership is preserved.                                                  *)

LEMMA OthersOwn ==
  ASSUME TypeOK, NEW i \in Invocations, Own(i), NEW j \in Invocations \ {i}, Owned(j)
  PROVE  Owned(j)'
<1> USE DEF Own, Owned, TypeOK
<1>1. LockHeld(j)'
  BY DEF LockHeld
<1>2. NotStarted(j)'
  <2>1. SUFFICES ASSUME pc[j] \in {"idle", "checked"} PROVE NotStarted(j)'
    BY DEF NotStarted
  <2>2. local'[j] = Fresh /\ j \notin leaked'
    BY <2>1 DEF NotStarted
  <2>3. /\ \A p \in procs' : p.owner # j
        /\ \A rec \in records' : rec.owner # j
        /\ \A run \in spawned' : run[1] # j
    BY <2>1 DEF NotStarted
  <2>4. QED
    BY <2>2, <2>3 DEF NotStarted, Fresh
<1>3. LeakedIsLeaving(j)'
  BY DEF LeakedIsLeaving
<1>4. WorkersHeld(j)'
  <2>1. SUFFICES ASSUME pc'[j] # "dead", j \notin leaked',
                        NEW p \in procs', p.owner = j, p.kind \in Handles
                 PROVE  /\ p.row = local'[j].row
                        /\ \/ InHand(p, j)' /\ p.kind \in local'[j].held
                           \/ p.kind = "pressure" /\ pc'[j] = "pressureWait"
    BY DEF WorkersHeld
  <2>2. p \in procs /\ pc[j] # "dead" /\ j \notin leaked
    BY <2>1
  <2>3. QED
    BY <2>1, <2>2 DEF WorkersHeld, InHand
<1>5. OrphansOver(j)'
  BY DEF OrphansOver
<1>6. QED
  BY <1>1, <1>2, <1>3, <1>4, <1>5

LEMMA BeforeRunOwned ==
  ASSUME TypeOK, NEW i \in Invocations, Owned(i),
         \/ CheckUnused(i) \/ Acquire(i) \/ PowerGuardFails(i) \/ RecoverySample(i)
         \/ RecoveryTimesOut(i) \/ OverlapCheck(i)
  PROVE  Owned(i)'
<1> USE DEF TypeOK, Owned, LockHeld, NotStarted, LeakedIsLeaving, InHand, WorkersHeld,
            OrphansOver, diskVars, histVars, Goto, Leave, Fail
<1>1. CASE CheckUnused(i)
  BY <1>1 DEF CheckUnused
<1>2. CASE Acquire(i)
  BY <1>2 DEF Acquire
<1>3. CASE PowerGuardFails(i) \/ RecoveryTimesOut(i)
  BY <1>3 DEF PowerGuardFails, RecoveryTimesOut
<1>4. CASE RecoverySample(i)
  BY <1>4 DEF RecoverySample
<1>5. CASE OverlapCheck(i)
  BY <1>5 DEF OverlapCheck
<1>6. QED
  BY <1>1, <1>2, <1>3, <1>4, <1>5

LEMMA StartingOwned ==
  ASSUME TypeOK, NEW i \in Invocations, Owned(i),
         \/ StartMonitor(i) \/ StartPressure(i) \/ PressureReady(i) \/ PressureNotReady(i)
         \/ StartRuntime(i) \/ Interrupted(i)
  PROVE  Owned(i)'
<1> USE DEF TypeOK, Locals, Owned, LockHeld, NotStarted, LeakedIsLeaving, InHand, WorkersHeld,
            OrphansOver, diskVars, histVars, Goto, Raise, Hold, Spawn, Process
<1>1. CASE StartMonitor(i)
  BY <1>1 DEF StartMonitor
<1>2. CASE StartPressure(i)
  BY <1>2 DEF StartPressure
<1>3. CASE PressureReady(i)
  BY <1>3 DEF PressureReady
<1>4. CASE PressureNotReady(i)
  BY <1>4 DEF PressureNotReady
<1>5. CASE StartRuntime(i)
  BY <1>5 DEF StartRuntime
<1>6. CASE Interrupted(i)
  BY <1>6 DEF Interrupted
<1>7. QED
  BY <1>1, <1>2, <1>3, <1>4, <1>5, <1>6

LEMMA ReapingOwned ==
  ASSUME TypeOK, NEW i \in Invocations, Owned(i),
         \/ StopRuntime(i) \/ TelemetryEscapes(i) \/ RuntimeExited(i) \/ Reap(i) \/ ReapStuck(i)
  PROVE  Owned(i)'
<1> USE DEF TypeOK, Locals, Owned, LockHeld, NotStarted, LeakedIsLeaving, InHand, WorkersHeld,
            OrphansOver, diskVars, histVars, Goto, Leave, Fail, Raise, Process
<1>1. CASE StopRuntime(i)
  BY <1>1, StopEffect
<1>2. CASE TelemetryEscapes(i)
  BY <1>2 DEF TelemetryEscapes
<1>3. CASE RuntimeExited(i)
  BY <1>3 DEF RuntimeExited
<1>4. CASE Reap(i)
  <2>1. /\ procs' \subseteq procs
        /\ ReapedHere(i) \in local[i].held => Process(i, ReapedHere(i)) \notin procs'
    BY <1>4, ReapSurvivors
  <2>2. CASE pc[i] = "reapRuntime"
    BY <1>4, <2>1, <2>2 DEF Reap, ReapedHere, AfterReap
  <2>3. CASE pc[i] = "reapPressure"
    BY <1>4, <2>1, <2>3 DEF Reap, ReapedHere, AfterReap
  <2>4. CASE pc[i] = "reapMonitor"
    BY <1>4, <2>1, <2>4 DEF Reap, ReapedHere, AfterReap
  <2>5. QED
    BY <1>4, <2>2, <2>3, <2>4 DEF Reap
<1>5. CASE ReapStuck(i)
  BY <1>5 DEF ReapStuck
<1>6. QED
  BY <1>1, <1>2, <1>3, <1>4, <1>5

LEMMA AfterRunOwned ==
  ASSUME TypeOK, NEW i \in Invocations, Owned(i),
         WriteRecord(i) \/ RecordFails(i) \/ PostCheck(i) \/ Admit(i) \/ Killed(i)
  PROVE  Owned(i)'
<1> USE DEF TypeOK, Locals, Owned, LockHeld, NotStarted, LeakedIsLeaving, InHand, WorkersHeld,
            OrphansOver, diskVars, histVars, Goto, Leave, Fail
<1>1. CASE WriteRecord(i)
  BY <1>1, WritesRecord DEF WriteRecord
<1>2. CASE RecordFails(i)
  BY <1>2 DEF RecordFails
<1>3. CASE PostCheck(i)
  BY <1>3 DEF PostCheck
<1>4. CASE Admit(i)
  BY <1>4 DEF Admit
<1>5. CASE Killed(i)
  BY <1>5 DEF Killed
<1>6. QED
  BY <1>1, <1>2, <1>3, <1>4, <1>5

LEMMA WorkerOwned ==
  ASSUME TypeOK, NEW i \in Invocations, Owned(i),
         \/ \E p \in procs : WrapperStartsModel(p) \/ WorkerExits(p)
         \/ TurnsCritical
  PROVE  Owned(i)'
<1> USE DEF TypeOK, Owned, LockHeld, NotStarted, LeakedIsLeaving, InHand, WorkersHeld,
            OrphansOver, diskVars, histVars
<1>1. ASSUME NEW p \in procs, WrapperStartsModel(p) PROVE Owned(i)'
  BY <1>1 DEF WrapperStartsModel
<1>2. ASSUME NEW p \in procs, WorkerExits(p) PROVE Owned(i)'
  BY <1>2 DEF WorkerExits
<1>3. CASE TurnsCritical
  BY <1>3 DEF TurnsCritical
<1>4. QED
  BY <1>1, <1>2, <1>3

LEMMA InitOwned == Init => Ownership
BY DEF Init, Ownership, Owned, LockHeld, NotStarted, LeakedIsLeaving, WorkersHeld, OrphansOver

LEMMA NextOwned == TypeOK /\ Ownership /\ [Next]_vars => Ownership'
<1>1. ASSUME TypeOK, Ownership, NEW i \in Invocations, InvocationStep(i) PROVE Ownership'
  <2>1. Owned(i)'
    BY <1>1, BeforeRunOwned, StartingOwned, ReapingOwned, AfterRunOwned
    DEF Ownership, InvocationStep, Step, Deadline
  <2>2. ASSUME NEW j \in Invocations \ {i} PROVE Owned(j)'
    BY <1>1, OnlyOwn, OthersOwn DEF Ownership
  <2>3. QED
    BY <2>1, <2>2 DEF Ownership
<1>2. ASSUME TypeOK, Ownership,
             (\E p \in procs : WrapperStartsModel(p) \/ WorkerExits(p)) \/ TurnsCritical
      PROVE  Ownership'
  BY <1>2, WorkerOwned DEF Ownership
<1>3. ASSUME Ownership, UNCHANGED vars PROVE Ownership'
  BY <1>3 DEF Ownership, Owned, LockHeld, NotStarted, LeakedIsLeaving, InHand, WorkersHeld,
              OrphansOver, vars
<1>4. QED
  BY <1>1, <1>2, <1>3 DEF Next, InvocationStep

\* Who measures holds the lock, who never got it has started nothing, and every
\* worker is of its invocation's present run and in a handle that run_one will
\* reap, unless the invocation was killed or lost the handle.
THEOREM OwnershipHolds == Spec => []Ownership
BY InitOwned, NextOwned, TypeCorrect, PTL DEF Spec

\* An invocation that ends leaves no worker that it still holds: the finally
\* block of run_one reaps every handle, in whatever state the workers are.
THEOREM NothingIsLeftBehind == Spec => []NothingLeftBehind
<1>1. TypeOK /\ Ownership => NothingLeftBehind
  BY DEF TypeOK, Ownership, Owned, WorkersHeld, InHand, NothingLeftBehind
<1>2. QED
  BY <1>1, OwnershipHolds, TypeCorrect, PTL

-------------------------------------------------------------------------------
(* Measurements do not overlap.                                             *)

\* How an invocation moves: within a run, from its start to the lock, from one
\* run to the next, or out.
Moves(i) ==
  \/ /\ pc[i] \in Holding /\ pc'[i] \in Holding /\ local'[i].row = local[i].row
     /\ pc'[i] \in Measuring => pc[i] \in Measuring \/ ~WorkersSeen
  \/ pc[i] = "checked" /\ pc'[i] = "recover" /\ local' = local
  \/ /\ pc[i] = "postcheck" /\ ~StopsHere(i)
     /\ pc'[i] = "recover" /\ local'[i].row = local[i].row + 1
  \/ pc'[i] \notin Holding

LEMMA InvocationMoves ==
  ASSUME TypeOK, NEW i \in Invocations, InvocationStep(i)
  PROVE  Moves(i)
<1> USE DEF Moves, TypeOK, Locals, Goto, Leave, Fail, Raise, Hold
<1>1. CASE CheckUnused(i) \/ Acquire(i) \/ PowerGuardFails(i) \/ RecoverySample(i)
           \/ RecoveryTimesOut(i) \/ OverlapCheck(i)
  BY <1>1
  DEF CheckUnused, Acquire, PowerGuardFails, RecoverySample, RecoveryTimesOut, OverlapCheck
<1>2. CASE StartMonitor(i) \/ StartPressure(i) \/ PressureReady(i) \/ PressureNotReady(i)
           \/ StartRuntime(i) \/ Interrupted(i)
  BY <1>2
  DEF StartMonitor, StartPressure, PressureReady, PressureNotReady, StartRuntime, Interrupted
<1>3. CASE StopRuntime(i)
  BY <1>3, StopEffect
<1>4. CASE Reap(i)
  BY <1>4 DEF Reap, AfterReap
<1>5. CASE TelemetryEscapes(i) \/ RuntimeExited(i) \/ ReapStuck(i)
  BY <1>5 DEF TelemetryEscapes, RuntimeExited, ReapStuck
<1>6. CASE WriteRecord(i)
  BY <1>6, WritesRecord DEF WriteRecord
<1>7. CASE PostCheck(i)
  BY <1>7 DEF PostCheck, Fresh
<1>8. CASE RecordFails(i) \/ Admit(i) \/ Killed(i)
  BY <1>8 DEF RecordFails, Admit, Killed
<1>9. QED
  BY <1>1, <1>2, <1>3, <1>4, <1>5, <1>6, <1>7, <1>8 DEF InvocationStep, Step, Deadline

\* A wrapper that starts a model starts it for the run that holds the lock.
LEMMA LiveWrapper ==
  ASSUME TypeOK, Ownership, NEW p \in procs, p.kind = "wrapper", pc[p.owner] \notin Ended
  PROVE  /\ pc[p.owner] \in {"running", "reapRuntime"} /\ lock = p.owner
         /\ p.row = local[p.owner].row
<1>1. p.owner \in Invocations /\ Owned(p.owner)
  BY DEF TypeOK, Ownership
<1>2. p.owner \notin leaked
  BY <1>1 DEF Owned, LeakedIsLeaving
<1>3. QED
  BY <1>1, <1>2 DEF Owned, WorkersHeld, InHand, LockHeld

Exclusive == OneModelWorker /\ \A i \in Invocations : ModelsBelong(i)

LEMMA InvocationExclusive ==
  ASSUME TypeOK, Exclusive, NEW i \in Invocations, InvocationStep(i)
  PROVE  Exclusive'
<1>1. Own(i) /\ Moves(i)
  BY OnlyOwn, InvocationMoves
<1>2. \A p \in procs' : p.kind = "model" => p \in procs
  BY <1>1 DEF Own
<1>3. OneModelWorker'
  BY <1>2 DEF Exclusive, OneModelWorker
<1>4. ASSUME NEW j \in Invocations \ {i} PROVE ModelsBelong(j)'
  BY <1>1, <1>2 DEF Exclusive, ModelsBelong, Own
<1>5. ModelsBelong(i)'
  BY <1>1, <1>2 DEF Exclusive, ModelsBelong, Moves, WorkersSeen
<1>6. QED
  BY <1>3, <1>4, <1>5 DEF Exclusive

LEMMA WorkerExclusive ==
  ASSUME TypeOK, Ownership, Exclusive,
         (\E p \in procs : WrapperStartsModel(p) \/ WorkerExits(p)) \/ TurnsCritical
  PROVE  Exclusive'
<1>1. ASSUME NEW w \in procs, WrapperStartsModel(w), pc[w.owner] \notin Ended, NamedWorker
      PROVE  Exclusive'
  <2>1. /\ w.kind = "wrapper" /\ w.owner \in Invocations
        /\ procs' = procs \cup {[w EXCEPT !.kind = "model"]} /\ UNCHANGED <<pc, local>>
    BY <1>1 DEF WrapperStartsModel, TypeOK
  <2>2. /\ pc[w.owner] \in Measuring /\ lock = w.owner /\ w.row = local[w.owner].row
    BY <1>1, <2>1, LiveWrapper
  \* Any other model would belong to the same run, which has none yet.
  <2>3. \A p \in procs : p.kind # "model"
    BY <1>1, <2>1, <2>2 DEF Exclusive, ModelsBelong, WrapperStartsModel
  <2>4. \A i \in Invocations : pc[i] \in Measuring => i = w.owner
    BY <2>2 DEF Ownership, Owned, LockHeld
  <2>5. \A p \in procs' : p.kind = "model" => /\ p = [w EXCEPT !.kind = "model"]
                                              /\ p.owner = w.owner /\ p.row = w.row
    BY <2>1, <2>3 DEF TypeOK
  <2>6. QED
    BY <2>1, <2>2, <2>4, <2>5 DEF Exclusive, OneModelWorker, ModelsBelong
<1>2. ASSUME NEW w \in procs, WrapperStartsModel(w), pc[w.owner] \in Ended
      PROVE  Exclusive'
  <2>1. \A p \in procs' : p.kind = "model" => p \in procs
    BY <1>2 DEF WrapperStartsModel, TypeOK
  <2>2. QED
    BY <1>2, <2>1 DEF WrapperStartsModel, Exclusive, OneModelWorker, ModelsBelong
<1>3. ASSUME NEW w \in procs, WorkerExits(w) PROVE Exclusive'
  BY <1>3 DEF WorkerExits, Exclusive, OneModelWorker, ModelsBelong
<1>4. CASE TurnsCritical
  BY <1>4 DEF TurnsCritical, Exclusive, OneModelWorker, ModelsBelong
<1>5. CASE ~NamedWorker
  BY <1>5 DEF Exclusive, OneModelWorker, ModelsBelong
<1>6. QED
  BY <1>1, <1>2, <1>3, <1>4, <1>5

\* Two measurements never run together: a model process that was started for a
\* run is the only one, also next to what a killed invocation left running.
THEOREM MeasurementsNeverOverlap == Spec => []OneModelWorker
<1>1. Init => Exclusive
  BY DEF Init, Exclusive, OneModelWorker, ModelsBelong
<1>2. TypeOK /\ Ownership /\ Exclusive /\ [Next]_vars => Exclusive'
  <2>1. ASSUME TypeOK, Ownership, Exclusive, Next PROVE Exclusive'
    BY <2>1, InvocationExclusive, WorkerExclusive DEF Next, InvocationStep
  <2>2. ASSUME Exclusive, UNCHANGED vars PROVE Exclusive'
    BY <2>2 DEF Exclusive, OneModelWorker, ModelsBelong, vars
  <2>3. QED
    BY <2>1, <2>2
<1>3. Exclusive => OneModelWorker
  BY DEF Exclusive
<1>4. QED
  BY <1>1, <1>2, <1>3, TypeCorrect, OwnershipHolds, PTL DEF Spec

-------------------------------------------------------------------------------
(* Rows are serial.                                                         *)

\* A run that is over stays over: its record is kept, and no step starts a
\* worker for it.
LEMMA StaysOver ==
  ASSUME NEW i, NEW r, RowOver(i, r), records \subseteq records',
         \A p \in procs' \ procs : p.owner = i => p.row # r
  PROVE  RowOver(i, r)'
BY DEF RowOver

\* When an invocation goes on to the next row, nothing is left of the last one
\* but perhaps a model that has no name to look for.
LEMMA NextRow ==
  ASSUME TypeOK, NEW i \in Invocations, Owned(i), Ordered(i),
         pc[i] = "postcheck", ~StopsHere(i)
  PROVE  RowOver(i, local[i].row)
<1>1. i \notin leaked
  BY DEF Owned, LeakedIsLeaving
<1>2. \E rec \in records : /\ rec.owner = i /\ rec.row = local[i].row
                           /\ FailFast => ~rec.failed
  BY DEF Ordered, JustRecorded, StopsHere
<1>3. ASSUME NEW p \in procs, p.owner = i
      PROVE  ~NamedWorker /\ p.kind = "model"
  <2>1. p.kind \notin Handles
    BY <1>1, <1>3 DEF Owned, WorkersHeld, InHand
  <2>2. p.kind # "orphan"
    BY <1>3 DEF Owned, OrphansOver
  <2>3. p.kind = "model"
    BY <2>1, <2>2 DEF TypeOK
  <2>4. QED
    BY <2>3 DEF StopsHere, WorkersSeen
<1>4. QED
  BY <1>2, <1>3 DEF RowOver

\* What a step adds to the runs that were started and to the records.
LEMMA StepRecords ==
  ASSUME TypeOK, NEW i \in Invocations, InvocationStep(i)
  PROVE  /\ \A run \in spawned' \ spawned :
              /\ run = <<i, local[i].row>> /\ pc[i] = "runtime" /\ pc'[i] = "running"
              /\ local'[i].row = local[i].row
         /\ pc'[i] = "postcheck" =>
              \E rec \in records' : /\ rec.owner = i /\ rec.row = local'[i].row
                                    /\ rec.failed = local'[i].errors
<1> USE DEF TypeOK, Locals, diskVars, histVars, Goto, Leave, Fail, Raise, Hold, ThisRun
<1>1. CASE CheckUnused(i) \/ Acquire(i) \/ PowerGuardFails(i) \/ RecoverySample(i)
           \/ RecoveryTimesOut(i) \/ OverlapCheck(i)
  BY <1>1
  DEF CheckUnused, Acquire, PowerGuardFails, RecoverySample, RecoveryTimesOut, OverlapCheck
<1>2. CASE StartMonitor(i) \/ StartPressure(i) \/ PressureReady(i) \/ PressureNotReady(i)
           \/ StartRuntime(i) \/ Interrupted(i)
  BY <1>2
  DEF StartMonitor, StartPressure, PressureReady, PressureNotReady, StartRuntime, Interrupted
<1>3. CASE StopRuntime(i)
  BY <1>3, StopEffect
<1>4. CASE Reap(i)
  BY <1>4 DEF Reap, AfterReap
<1>5. CASE TelemetryEscapes(i) \/ RuntimeExited(i) \/ ReapStuck(i)
  BY <1>5 DEF TelemetryEscapes, RuntimeExited, ReapStuck
<1>6. CASE WriteRecord(i)
  <2>1. PICK failed \in BOOLEAN, seen \in BOOLEAN :
          /\ local' = [local EXCEPT ![i].errors = failed]
          /\ records' = records \cup {[owner |-> i, row |-> local[i].row, failed |-> failed,
                                       critical |-> seen]}
    BY <1>6, WritesRecord
  <2>2. local'[i].row = local[i].row /\ local'[i].errors = failed
    BY <2>1
  <2>3. \E rec \in records' : /\ rec.owner = i /\ rec.row = local'[i].row
                              /\ rec.failed = local'[i].errors
    <3> DEFINE rec == [owner |-> i, row |-> local[i].row, failed |-> failed, critical |-> seen]
    <3>1. rec \in records'
      BY <2>1
    <3>2. rec.owner = i /\ rec.row = local[i].row /\ rec.failed = failed
      OBVIOUS
    <3>3. QED
      BY <2>2, <3>1, <3>2
  <2>4. UNCHANGED spawned
    BY <1>6 DEF WriteRecord
  <2>5. QED
    BY <2>3, <2>4
<1>7. CASE RecordFails(i) \/ PostCheck(i) \/ Admit(i) \/ Killed(i)
  BY <1>7 DEF RecordFails, PostCheck, Admit, Killed
<1>8. QED
  BY <1>1, <1>2, <1>3, <1>4, <1>5, <1>6, <1>7 DEF InvocationStep, Step, Deadline

LEMMA InvocationOrdered ==
  ASSUME TypeOK, NEW i \in Invocations, Owned(i), Ordered(i), InvocationStep(i)
  PROVE  Ordered(i)'
<1>1. Own(i) /\ Moves(i)
  BY OnlyOwn, InvocationMoves
<1>2. /\ local[i].row \in Nat \ {0} /\ local'[i].row \in Nat \ {0}
      /\ \A run \in spawned : run[2] \in Nat
  <2>1. TypeOK'
    BY BeforeRunTypes, StartingTypes, ReapingTypes, AfterRunTypes
    DEF InvocationStep, Step, Deadline
  <2>2. QED
    BY <2>1, RowCount DEF TypeOK, Locals, Rows, Runs
<1>3. ASSUME NEW r \in Nat, RowOver(i, r), pc[i] \in Holding => r < local[i].row
      PROVE  RowOver(i, r)'
  BY <1>1, <1>2, <1>3, StaysOver DEF Own
<1>4. EarlierRows(i)'
  <2>1. SUFFICES ASSUME pc'[i] \in Holding, NEW r \in 1..(local'[i].row - 1)
                 PROVE  RowOver(i, r)'
    BY DEF EarlierRows
  <2>2. CASE pc[i] \in Holding /\ local'[i].row = local[i].row
    BY <1>2, <1>3, <2>2 DEF Ordered, EarlierRows
  <2>3. CASE pc[i] = "checked" /\ local' = local
    BY <1>2, <2>3 DEF Owned, NotStarted, Fresh
  <2>4. CASE /\ pc[i] = "postcheck" /\ ~StopsHere(i)
             /\ local'[i].row = local[i].row + 1
    <3>1. CASE r < local[i].row
      BY <1>2, <1>3, <2>4, <3>1 DEF Ordered, EarlierRows
    <3>2. CASE r = local[i].row
      <4>1. RowOver(i, r)
        BY <2>4, <3>2, NextRow
      <4>2. QED
        BY <1>1, <2>4, <4>1, StaysOver DEF Own
    <3>3. QED
      BY <1>2, <2>4, <3>1, <3>2
  <2>5. QED
    BY <1>1, <2>1, <2>2, <2>3, <2>4 DEF Moves
<1>5. SpawnedRows(i)'
  <2>1. SUFFICES ASSUME NEW run \in spawned', run[1] = i
                 PROVE  /\ \A r \in 1..(run[2] - 1) : RowOver(i, r)'
                        /\ pc'[i] \in Holding => run[2] <= local'[i].row
    BY DEF SpawnedRows
  <2>2. CASE run \in spawned
    <3>1. \A r \in 1..(run[2] - 1) : RowOver(i, r)'
      BY <1>2, <1>3, <2>1, <2>2 DEF Ordered, SpawnedRows
    <3>2. pc'[i] \in Holding => run[2] <= local'[i].row
      BY <1>1, <1>2, <2>1, <2>2 DEF Ordered, SpawnedRows, Moves, Owned, NotStarted
    <3>3. QED
      BY <3>1, <3>2
  <2>3. CASE run \notin spawned
    <3>1. run[2] = local[i].row /\ pc[i] \in Holding /\ local'[i].row = local[i].row
      BY <2>1, <2>3, StepRecords
    <3>2. \A r \in 1..(run[2] - 1) : RowOver(i, r)'
      BY <1>2, <1>3, <3>1 DEF Ordered, EarlierRows
    <3>3. QED
      BY <1>2, <3>1, <3>2
  <2>4. QED
    BY <2>2, <2>3
<1>6. JustRecorded(i)'
  BY StepRecords DEF JustRecorded
<1>7. QED
  BY <1>4, <1>5, <1>6 DEF Ordered

LEMMA OthersOrdered ==
  ASSUME NEW i \in Invocations, Own(i), NEW j \in Invocations \ {i}, Ordered(j)
  PROVE  Ordered(j)'
<1>1. ASSUME NEW r, RowOver(j, r) PROVE RowOver(j, r)'
  BY <1>1, StaysOver DEF Own
<1>2. EarlierRows(j)'
  BY <1>1 DEF Ordered, EarlierRows, Own
<1>3. SpawnedRows(j)'
  BY <1>1 DEF Ordered, SpawnedRows, Own
<1>4. JustRecorded(j)'
  BY DEF Ordered, JustRecorded, Own
<1>5. QED
  BY <1>2, <1>3, <1>4 DEF Ordered

LEMMA WorkerOrdered ==
  ASSUME TypeOK, Ownership, NEW i \in Invocations, Ordered(i),
         (\E p \in procs : WrapperStartsModel(p) \/ WorkerExits(p)) \/ TurnsCritical
  PROVE  Ordered(i)'
<1>1. ASSUME NEW r, RowOver(i, r) PROVE RowOver(i, r)'
  \* The wrapper of a run that is over is gone, so it starts no model.
  <2>1. ASSUME NEW w \in procs, WrapperStartsModel(w) PROVE RowOver(i, r)'
    <3>1. w.kind = "wrapper"
      BY <2>1 DEF WrapperStartsModel
    <3>2. ~(w.owner = i /\ w.row = r)
      BY <1>1, <3>1 DEF RowOver
    <3>3. \A p \in procs' \ procs : p.owner = w.owner /\ p.row = w.row
      BY <2>1 DEF WrapperStartsModel, TypeOK
    <3>4. QED
      BY <1>1, <2>1, <3>2, <3>3, StaysOver DEF WrapperStartsModel, diskVars
  <2>2. ASSUME NEW w \in procs, WorkerExits(w) PROVE RowOver(i, r)'
    BY <1>1, <2>2, StaysOver DEF WorkerExits, diskVars
  <2>3. CASE TurnsCritical
    BY <1>1, <2>3, StaysOver DEF TurnsCritical
  <2>4. QED
    BY <2>1, <2>2, <2>3
<1>2. UNCHANGED <<pc, local, records, spawned>>
  BY DEF WrapperStartsModel, WorkerExits, TurnsCritical, diskVars, histVars
<1>3. QED
  BY <1>1, <1>2 DEF Ordered, EarlierRows, SpawnedRows, JustRecorded

LEMMA NextSerial == TypeOK /\ Ownership /\ Serial /\ [Next]_vars => Serial'
<1>1. ASSUME TypeOK, Ownership, Serial, NEW i \in Invocations, InvocationStep(i)
      PROVE  Serial'
  BY <1>1, OnlyOwn, InvocationOrdered, OthersOrdered DEF Serial, Ownership
<1>2. ASSUME TypeOK, Ownership, Serial,
             (\E p \in procs : WrapperStartsModel(p) \/ WorkerExits(p)) \/ TurnsCritical
      PROVE  Serial'
  BY <1>2, WorkerOrdered DEF Serial
<1>3. ASSUME Serial, UNCHANGED vars PROVE Serial'
  BY <1>3 DEF Serial, Ordered, EarlierRows, SpawnedRows, JustRecorded, RowOver, vars
<1>4. QED
  BY <1>1, <1>2, <1>3 DEF Next, InvocationStep

\* A run starts its runtime only when every earlier run of its invocation has
\* its record, without errors under fail_fast, and its workers are gone.
THEOREM RunsAreSerial == Spec => []RowsAreSerial
<1>1. Init => Serial
  BY DEF Init, Serial, Ordered, EarlierRows, SpawnedRows, JustRecorded
<1>2. TypeOK /\ Serial => RowsAreSerial
  BY DEF TypeOK, Runs, Serial, Ordered, SpawnedRows, RowOver, RowsAreSerial
<1>3. QED
  BY <1>1, <1>2, NextSerial, TypeCorrect, OwnershipHolds, PTL DEF Spec

-------------------------------------------------------------------------------
(* Critical pressure is never admitted.                                     *)

LEMMA InvocationMonitor ==
  ASSUME TypeOK, NEW i \in Invocations, Owned(i), MonitorAlive(i), InvocationStep(i)
  PROVE  MonitorAlive(i)'
<1> USE DEF TypeOK, Locals, Goto, Leave, Fail, Raise, Hold, Spawn, Process, diskVars, histVars
<1> SUFFICES ASSUME MonitorRequired PROVE MonitorAlive(i)'
  BY DEF MonitorAlive
<1>1. CASE CheckUnused(i) \/ Acquire(i) \/ PowerGuardFails(i) \/ RecoverySample(i)
           \/ RecoveryTimesOut(i) \/ OverlapCheck(i)
  BY <1>1
  DEF CheckUnused, Acquire, PowerGuardFails, RecoverySample, RecoveryTimesOut, OverlapCheck,
      MonitorAlive
<1>2. CASE StartMonitor(i) \/ StartPressure(i) \/ PressureReady(i) \/ PressureNotReady(i)
  BY <1>2
  DEF StartMonitor, StartPressure, PressureReady, PressureNotReady, MonitorAlive
<1>3. CASE StartRuntime(i) \/ Interrupted(i)
  BY <1>3 DEF StartRuntime, Interrupted, MonitorAlive
<1>4. CASE StopRuntime(i)
  BY <1>4, StopEffect DEF MonitorAlive
<1>5. CASE Reap(i)
  <2>1. /\ procs' \subseteq procs
        /\ \A p \in procs \ procs' :
             /\ p.owner = i
             /\ p.kind = ReapedHere(i) \/ (ReapedHere(i) = "wrapper" /\ p.kind = "model")
    BY <1>5, ReapSurvivors
  <2>2. ReapedHere(i) = "monitor" => pc[i] = "reapMonitor"
    BY <1>5 DEF Reap, ReapedHere
  <2>3. pc'[i] \notin {"pressure", "pressureWait", "runtime"}
    BY <1>5 DEF Reap, AfterReap
  \* The monitor is reaped last, when no wrapper of its invocation is left.
  <2>4. pc[i] = "reapMonitor" => \A p \in procs : p.owner = i => p.kind # "wrapper"
    BY DEF Owned, LeakedIsLeaving, WorkersHeld, InHand
  <2>5. QED
    BY <2>1, <2>2, <2>3, <2>4 DEF MonitorAlive
<1>6. CASE TelemetryEscapes(i) \/ RuntimeExited(i) \/ ReapStuck(i)
  BY <1>6 DEF TelemetryEscapes, RuntimeExited, ReapStuck, MonitorAlive
<1>7. CASE WriteRecord(i) \/ RecordFails(i) \/ PostCheck(i) \/ Admit(i) \/ Killed(i)
  BY <1>7 DEF WriteRecord, RecordFails, PostCheck, Admit, Killed, MonitorAlive
<1>8. QED
  BY <1>1, <1>2, <1>3, <1>4, <1>5, <1>6, <1>7 DEF InvocationStep, Step, Deadline

\* Where a record comes from, and a wrapper.
LEMMA StepWrites ==
  ASSUME TypeOK, NEW i \in Invocations, InvocationStep(i)
  PROVE  /\ \A rec \in records' \ records :
              /\ pc[i] = "record" /\ pc'[i] = "postcheck" /\ local'[i].row = local[i].row
              /\ rec.row = local[i].row
         /\ \A p \in procs' \ procs : p.kind = "wrapper" => pc[i] = "runtime"
<1> USE DEF TypeOK, Locals, diskVars, histVars, Goto, Leave, Fail, Raise, Spawn, Process
<1>1. CASE CheckUnused(i) \/ Acquire(i) \/ PowerGuardFails(i) \/ RecoverySample(i)
           \/ RecoveryTimesOut(i) \/ OverlapCheck(i)
  BY <1>1
  DEF CheckUnused, Acquire, PowerGuardFails, RecoverySample, RecoveryTimesOut, OverlapCheck
<1>2. CASE StartMonitor(i) \/ StartPressure(i) \/ PressureReady(i) \/ PressureNotReady(i)
           \/ StartRuntime(i) \/ Interrupted(i)
  BY <1>2
  DEF StartMonitor, StartPressure, PressureReady, PressureNotReady, StartRuntime, Interrupted
<1>3. CASE StopRuntime(i)
  BY <1>3, StopEffect
<1>4. CASE Reap(i)
  BY <1>4, ReapSurvivors DEF Reap
<1>5. CASE TelemetryEscapes(i) \/ RuntimeExited(i) \/ ReapStuck(i)
  BY <1>5 DEF TelemetryEscapes, RuntimeExited, ReapStuck
<1>6. CASE WriteRecord(i)
  BY <1>6, WritesRecord DEF WriteRecord
<1>7. CASE RecordFails(i) \/ PostCheck(i) \/ Admit(i) \/ Killed(i)
  BY <1>7 DEF RecordFails, PostCheck, Admit, Killed
<1>8. QED
  BY <1>1, <1>2, <1>3, <1>4, <1>5, <1>6, <1>7 DEF InvocationStep, Step, Deadline

LEMMA RecordKnows ==
  ASSUME TypeOK, NEW i \in Invocations, InvocationStep(i), NEW rec \in records' \ records,
         <<i, rec.row>> \in events
  PROVE  rec.critical
<1>1. pc[i] = "record"
  BY StepWrites
<1>2. WriteRecord(i)
  BY <1>1 DEF InvocationStep, Step, Deadline, CheckUnused, Acquire, PowerGuardFails,
              RecoverySample, RecoveryTimesOut, OverlapCheck, StartMonitor, StartPressure,
              PressureReady, PressureNotReady, StartRuntime, Interrupted, StopRuntime,
              TelemetryEscapes, RuntimeExited, Reap, ReapStuck, RecordFails, PostCheck, Admit,
              Killed, diskVars
<1>3. PICK failed \in BOOLEAN, seen \in BOOLEAN :
        /\ seen <=> ThisRun(i) \in events
        /\ local' = [local EXCEPT ![i].errors = failed]
        /\ records' = records \cup {[owner |-> i, row |-> local[i].row, failed |-> failed,
                                     critical |-> seen]}
  BY <1>2, WritesRecord
<1>4. rec.row = local[i].row /\ rec.critical = seen
  BY <1>3
<1>5. QED
  BY <1>3, <1>4 DEF ThisRun

LEMMA PostCheckMoves ==
  ASSUME TypeOK, NEW i \in Invocations, InvocationStep(i), pc[i] = "postcheck"
  PROVE  pc'[i] \notin Holding \/ local'[i].row = local[i].row + 1
<1>1. PowerGuardFails(i) \/ PostCheck(i) \/ Killed(i)
  BY DEF InvocationStep, Step, Deadline, CheckUnused, Acquire, RecoverySample,
         RecoveryTimesOut, OverlapCheck, StartMonitor, StartPressure, PressureReady,
         PressureNotReady, StartRuntime, Interrupted, StopRuntime, TelemetryEscapes,
         RuntimeExited, Reap, ReapStuck, WriteRecord, RecordFails, Admit
<1>2. QED
  BY <1>1 DEF PowerGuardFails, PostCheck, Killed, Fail, Leave, Goto, Fresh, TypeOK

LEMMA InvocationWatched ==
  ASSUME TypeOK, NEW i \in Invocations, Owned(i), Watched(i), InvocationStep(i)
  PROVE  Watched(i)'
<1>1. Own(i) /\ Moves(i)
  BY OnlyOwn, InvocationMoves
<1>2. /\ local[i].row \in Nat /\ local'[i].row \in Nat
      /\ \A rec \in records : rec.row \in Nat
  <2>1. TypeOK'
    BY BeforeRunTypes, StartingTypes, ReapingTypes, AfterRunTypes
    DEF InvocationStep, Step, Deadline
  <2>2. QED
    BY <2>1, RowCount DEF TypeOK, Locals, Rows
<1>3. RecordsEarlier(i)'
  <2>1. SUFFICES ASSUME NEW rec \in records', rec.owner = i
                 PROVE  /\ pc'[i] \in Holding =>
                             \/ rec.row < local'[i].row
                             \/ rec.row = local'[i].row /\ pc'[i] = "postcheck"
                        /\ \A p \in procs' : p.owner = i /\ p.kind = "wrapper" =>
                             p.row # rec.row
    BY DEF RecordsEarlier
  <2>2. CASE rec \in records
    <3>1. /\ pc[i] \in Holding => \/ rec.row < local[i].row
                                  \/ rec.row = local[i].row /\ pc[i] = "postcheck"
          /\ \A p \in procs : p.owner = i /\ p.kind = "wrapper" => p.row # rec.row
      BY <2>1, <2>2 DEF Watched, RecordsEarlier
    <3>2. \A p \in procs' : p.owner = i /\ p.kind = "wrapper" => p.row # rec.row
      BY <1>1, <1>2, <2>2, <3>1, StepWrites DEF Own
    <3>3. CASE pc'[i] \notin Holding
      BY <3>2, <3>3
    <3>4. CASE pc[i] = "checked"
      BY <2>1, <2>2, <3>4 DEF Owned, NotStarted
    <3>5. CASE pc[i] = "postcheck" /\ pc'[i] = "recover" /\ local'[i].row = local[i].row + 1
      BY <1>2, <2>2, <3>1, <3>2, <3>5
    <3>6. CASE pc[i] \in Holding /\ pc'[i] \in Holding /\ local'[i].row = local[i].row
      <4>1. pc[i] = "postcheck" => pc'[i] \notin Holding \/ local'[i].row = local[i].row + 1
        BY PostCheckMoves
      <4>2. QED
        BY <1>2, <2>2, <3>1, <3>2, <3>6, <4>1
    <3>7. QED
      BY <1>1, <3>3, <3>4, <3>5, <3>6 DEF Moves
  <2>3. CASE rec \notin records
    <3>1. /\ pc[i] = "record" /\ pc'[i] = "postcheck" /\ local'[i].row = local[i].row
          /\ rec.row = local[i].row
      BY <2>1, <2>3, StepWrites
    <3>2. \A p \in procs' : p.owner = i => p.kind # "wrapper"
      BY <1>1, <3>1, StepWrites DEF Own, Owned, LeakedIsLeaving, WorkersHeld, InHand
    <3>3. QED
      BY <3>1, <3>2
  <2>4. QED
    BY <2>2, <2>3
<1>4. CriticalRecorded(i)'
  <2>1. ASSUME NEW rec \in records', rec.owner = i, <<i, rec.row>> \in critical,
               MonitorRequired
        PROVE  rec.critical
    <3>1. <<i, rec.row>> \in events
      BY <2>1 DEF Watched, CriticalRecorded
    <3>2. QED
      BY <2>1, <3>1, RecordKnows DEF Watched, CriticalRecorded
  <2>2. QED
    BY <1>1, <2>1 DEF Watched, CriticalRecorded, Own
<1>5. QED
  BY <1>3, <1>4, InvocationMonitor DEF Watched

LEMMA OthersWatched ==
  ASSUME NEW i \in Invocations, Own(i), NEW j \in Invocations \ {i}, Watched(j)
  PROVE  Watched(j)'
<1>1. MonitorAlive(j)'
  BY DEF Watched, MonitorAlive, Process, Own
<1>2. RecordsEarlier(j)'
  BY DEF Watched, RecordsEarlier, Own
<1>3. CriticalRecorded(j)'
  BY DEF Watched, CriticalRecorded, Own
<1>4. QED
  BY <1>1, <1>2, <1>3 DEF Watched

LEMMA WorkerWatched ==
  ASSUME TypeOK, NEW i \in Invocations, Watched(i),
         (\E p \in procs : WrapperStartsModel(p) \/ WorkerExits(p)) \/ TurnsCritical
  PROVE  Watched(i)'
<1>1. CASE \E p \in procs : WrapperStartsModel(p) \/ WorkerExits(p)
  <2>1. /\ \A p \in procs' : p.kind = "wrapper" => p \in procs
        /\ \A p \in procs : p.kind = "monitor" => p \in procs'
        /\ UNCHANGED <<pc, local, records, critical, events>>
    BY <1>1 DEF WrapperStartsModel, WorkerExits, TypeOK, diskVars, histVars
  <2>2. MonitorAlive(i)'
    BY <2>1 DEF Watched, MonitorAlive, Process
  <2>3. QED
    BY <2>1, <2>2 DEF Watched, RecordsEarlier, CriticalRecorded
\* Who has a wrapper has a monitor, which writes the event, and no record yet.
<1>2. CASE TurnsCritical
  <2>1. /\ events' = events \cup {<<p.owner, p.row>> : p \in {p \in procs : p.kind = "monitor"}}
        /\ critical' = critical \cup {<<p.owner, p.row>> : p \in {p \in procs : p.kind = "wrapper"}}
        /\ UNCHANGED <<pc, local, procs, records>>
    BY <1>2 DEF TurnsCritical
  <2>2. MonitorAlive(i)' /\ RecordsEarlier(i)'
    BY <2>1 DEF Watched, MonitorAlive, RecordsEarlier, Process
  <2>3. ASSUME MonitorRequired, NEW run \in critical', run[1] = i PROVE run \in events'
    <3>1. CASE run \in critical
      BY <2>1, <2>3, <3>1 DEF Watched, CriticalRecorded
    <3>2. CASE run \notin critical
      <4>1. PICK p \in procs : p.kind = "wrapper" /\ run = <<p.owner, p.row>>
        BY <2>1, <2>3, <3>2
      <4>2. [owner |-> i, row |-> p.row, kind |-> "monitor"] \in procs
        BY <2>3, <4>1 DEF Watched, MonitorAlive
      <4>3. QED
        BY <2>1, <2>3, <4>1, <4>2
    <3>3. QED
      BY <3>1, <3>2
  <2>4. ASSUME MonitorRequired, NEW rec \in records', rec.owner = i,
               <<i, rec.row>> \in critical'
        PROVE  rec.critical
    <3>1. <<i, rec.row>> \in critical
      BY <2>1, <2>4 DEF Watched, RecordsEarlier
    <3>2. QED
      BY <2>1, <2>4, <3>1 DEF Watched, CriticalRecorded
  <2>5. QED
    BY <2>2, <2>3, <2>4 DEF Watched, CriticalRecorded
<1>3. QED
  BY <1>1, <1>2

LEMMA NextMonitored == TypeOK /\ Ownership /\ Monitored /\ [Next]_vars => Monitored'
<1>1. ASSUME TypeOK, Ownership, Monitored, NEW i \in Invocations, InvocationStep(i)
      PROVE  Monitored'
  BY <1>1, OnlyOwn, InvocationWatched, OthersWatched DEF Monitored, Ownership
<1>2. ASSUME TypeOK, Monitored,
             (\E p \in procs : WrapperStartsModel(p) \/ WorkerExits(p)) \/ TurnsCritical
      PROVE  Monitored'
  BY <1>2, WorkerWatched DEF Monitored
<1>3. ASSUME Monitored, UNCHANGED vars PROVE Monitored'
  BY <1>3 DEF Monitored, Watched, MonitorAlive, RecordsEarlier, CriticalRecorded, Process, vars
<1>4. QED
  BY <1>1, <1>2, <1>3 DEF Next, InvocationStep

LEMMA NextAdmitted == AdmittedRecords /\ [Next]_vars => AdmittedRecords'
<1>1. ASSUME AdmittedRecords, records \subseteq records', UNCHANGED artifact
      PROVE  AdmittedRecords'
  BY <1>1 DEF AdmittedRecords
<1>2. ASSUME NEW i \in Invocations, Admit(i) PROVE AdmittedRecords'
  <2>1. PICK refused \in SUBSET Measured :
          LET rows == {rec.row : rec \in {rec \in records : rec.owner = i /\ Admissible(rec)}}
                        \cap (Measured \ refused)
          IN artifact' = [owner |-> i, rows |-> rows, complete |-> rows = Measured]
    BY <1>2 DEF Admit
  <2>2. artifact'.owner = i
    BY <2>1
  <2>3. \A r \in artifact'.rows :
          \E rec \in records : rec.owner = i /\ rec.row = r /\ Admissible(rec)
    BY <2>1
  <2>4. records' = records
    BY <1>2 DEF Admit
  <2>5. QED
    BY <2>2, <2>3, <2>4 DEF AdmittedRecords, Admissible
<1>3. ASSUME Next, \A i \in Invocations : ~Admit(i)
      PROVE  records \subseteq records' /\ UNCHANGED artifact
  BY <1>3
  DEF Next, Step, Deadline, CheckUnused, Acquire, PowerGuardFails, RecoverySample,
      RecoveryTimesOut, OverlapCheck, StartMonitor, StartPressure, PressureReady,
      PressureNotReady, StartRuntime, Interrupted, StopRuntime, TelemetryEscapes,
      RuntimeExited, Reap, ReapStuck, WriteRecord, RecordFails, PostCheck, Killed,
      WrapperStartsModel, WorkerExits, TurnsCritical, diskVars
<1>4. QED
  BY <1>1, <1>2, <1>3 DEF vars

\* A measured row during which pressure turned critical is never admitted: its
\* monitor outlives its runtime, and its record is written when both are gone.
THEOREM CriticalIsNeverAdmitted == Spec => []CriticalNeverAdmitted
<1>1. Init => Monitored /\ AdmittedRecords
  BY DEF Init, Monitored, Watched, MonitorAlive, RecordsEarlier, CriticalRecorded,
         AdmittedRecords, NoArtifact
<1>2. TypeOK /\ Monitored /\ AdmittedRecords => CriticalNeverAdmitted
  BY DEF TypeOK, Monitored, Watched, CriticalRecorded, AdmittedRecords, CriticalNeverAdmitted
<1>3. QED
  BY <1>1, <1>2, NextMonitored, NextAdmitted, TypeCorrect, OwnershipHolds, PTL DEF Spec
===============================================================================
