------------------------------ MODULE ModelStore ------------------------------
(***************************************************************************)
(* The canonical model store (model_store.py, runtime_store.py, the setup  *)
(* method of sdk.py and the setup command of cli.py): `model fetch`        *)
(* downloads a Hugging Face snapshot, `model install` and setup run the    *)
(* repacker, which streams a model into its packed directory. Both plan    *)
(* against the disk reserve and the store limits, and do so under one      *)
(* blocking download lock.                                                 *)
(*                                                                         *)
(* Every client runs one operation. Clients, the repackers they start, the *)
(* Hub, failures, Ctrl-C, SIGKILL and power loss interleave. A shard is the *)
(* unit of bytes.                                                          *)
(***************************************************************************)
EXTENDS Integers, FiniteSets, FiniteSetsExt

CONSTANTS
  Clients,      \* operations over time
  Requests,     \* what they may be asked to do, see Jobs
  Commits,      \* resolved revisions, of any repository
  Branches,     \* other revisions one may request
  Newest,       \* bound: the commit a branch moves to, once
  Pinned,       \* commits the catalog has a profile of
  Elsewhere,    \* commits with a complete snapshot in another Hugging Face cache
  Size,         \* commit -> published shards
  Disk,         \* bytes the store and the reserve can have together
  Reserve, StoreLimit, MaxModel

ASSUME SetsAssumption ==
  /\ IsFiniteSet(Commits) /\ Pinned \subseteq Commits /\ Elsewhere \subseteq Commits
  /\ Branches \cap Commits = {} /\ Newest \in Commits
ASSUME BytesAssumption ==
  /\ Size \in [Commits -> Nat \ {0}]
  /\ {Disk, Reserve, StoreLimit, MaxModel} \subseteq Nat /\ Reserve <= Disk

Jobs == [kind : {"fetch"}, ref : Commits \cup Branches, consent : {TRUE}]
        \cup [kind : {"install"}, ref : Pinned, consent : {TRUE}]
        \cup [kind : {"setup"}, ref : Pinned, consent : BOOLEAN, terminal : BOOLEAN]
ASSUME RequestsAssumption == Requests \subseteq Jobs

Nobody == "nobody"
ASSUME NobodyAssumption == Nobody \notin Clients \cup Commits \cup Branches

VARIABLES
  hub,        \* branch -> the commit it points at
  job,        \* what each client was asked to do
  pc,         \* where each client is
  allowed,    \* allow_download of each client: passed, or granted when asked
  target,     \* the commit each client has resolved its request to
  lock,       \* holder of download.lock
  config,     \* commits whose snapshot holds config.json
  shards,     \* commit -> shards its snapshot holds
  packed,     \* commit -> shards its packed directory holds; 0: no directory
  verified,   \* commits whose packed directory holds its three final files
  repackers,  \* live slipstream-repack processes
  manifests,  \* commit -> the format its manifest registers
  streamed,   \* history: commit -> shards repackers transferred
  orphaned    \* history: a repacker has outlived its client

localVars == <<job, pc, allowed, target, lock>>
snapVars  == <<config, shards>>
packVars  == <<packed, verified, repackers, streamed, orphaned>>
vars == <<hub, localVars, snapVars, packVars, manifests>>

Ended == {"done", "refused", "failed", "dead"}
PC == Ended \cup {"start", "asking", "waiting", "locked", "resolved", "download", "repack",
                  "register"}

MaxSize == Max({Size[m] : m \in Commits})
Repackers == [owner : Clients, model : Commits, at : 0..MaxSize]

TypeOK ==
  /\ hub \in [Branches -> Commits]
  /\ job \in [Clients -> Requests]
  /\ pc \in [Clients -> PC]
  /\ allowed \in [Clients -> BOOLEAN]
  /\ target \in [Clients -> Commits \cup {Nobody}]
  /\ lock \in Clients \cup {Nobody}
  /\ config \subseteq Commits
  /\ shards \in [Commits -> 0..MaxSize]
  /\ packed \in [Commits -> 0..MaxSize]
  /\ verified \subseteq Commits
  /\ repackers \subseteq Repackers
  /\ manifests \in [Commits -> {"none", "snapshot", "gturbo"}]
  /\ streamed \in [Commits -> Nat]
  /\ orphaned \in BOOLEAN

Init ==
  /\ hub \in [Branches -> Commits]
  /\ job \in [Clients -> Requests]
  /\ pc = [c \in Clients |-> IF job[c].kind = "setup" THEN "start" ELSE "waiting"]
  /\ allowed = [c \in Clients |-> job[c].consent]
  /\ target = [c \in Clients |-> Nobody]
  /\ lock = Nobody
  /\ config = {} /\ verified = {} /\ repackers = {} /\ orphaned = FALSE
  /\ shards = [m \in Commits |-> 0]
  /\ packed = [m \in Commits |-> 0]
  /\ streamed = [m \in Commits |-> 0]
  /\ manifests = [m \in Commits |-> "none"]

-------------------------------------------------------------------------------
(* What the preflights read.                                                *)

Bytes(f) == MapThenSumSet(LAMBDA m : f[m], Commits)
StoreBytes == Bytes(shards) + Bytes(packed)
Free == Disk - StoreBytes

\* _snapshot_if_complete: the snapshot directory, config.json and any weights
\* file; which weights the model should have is not looked at.
LooksComplete(m) == m \in config /\ shards[m] > 0

SnapshotExists(m) == LooksComplete(m) \/ m \in Elsewhere

\* preflight: no reason to refuse a download.
DownloadFits(m) ==
  /\ Size[m] <= MaxModel
  /\ Free - Size[m] >= Reserve
  /\ StoreBytes + Size[m] <= StoreLimit

\* packed_preflight, for a model that is not verified yet.
PackFits(m) ==
  /\ ~SnapshotExists(m)
  /\ Free - Size[m] >= Reserve
  /\ Bytes(packed) + Size[m] <= StoreLimit

\* A snapshot elsewhere is no obstacle to what is already verified.
PackAllowed(m) == m \in verified \/ PackFits(m)

-------------------------------------------------------------------------------
(* Steps of one client.                                                     *)

Goto(c, label) == pc' = [pc EXCEPT ![c] = label]

\* Mutant of End: an operation that is refused keeps the lock.
EndUnlessRefused(c, label) ==
  /\ Goto(c, label)
  /\ lock' = IF lock = c /\ label # "refused" THEN Nobody ELSE lock

\* The operation is over, and the lock with it.
End(c, label) ==
  /\ Goto(c, label)
  /\ lock' = IF lock = c THEN Nobody ELSE lock

\* Mutant of NeedsConfirmation: an interrupted install counts as consented to.
NeedsConfirmationIfNew(m) == packed[m] = 0

\* SetupPlan.needs_confirmation
NeedsConfirmation(m) == m \notin verified

\* setup first plans, without the lock; the other operations start waiting for it.
PlanSetup(c) ==
  LET m == job[c].ref
      agreed == allowed[c] \/ ~NeedsConfirmation(m)
  IN /\ pc[c] = "start"
     /\ Goto(c, CASE ~PackAllowed(m) -> "refused"
                  [] PackAllowed(m) /\ agreed -> "waiting"
                  [] OTHER -> "asking")
     /\ UNCHANGED <<hub, job, allowed, target, lock, snapVars, packVars, manifests>>

\* DownloadConfirmationRequired ends a call of the SDK, and the command when it
\* is not at a terminal, as does any answer but yes.
Declines(c) ==
  /\ pc[c] = "asking"
  /\ Goto(c, "refused")
  /\ UNCHANGED <<hub, job, allowed, target, lock, snapVars, packVars, manifests>>

\* After a yes, setup is called again from its beginning.
Confirms(c) ==
  /\ pc[c] = "asking" /\ job[c].terminal
  /\ allowed' = [allowed EXCEPT ![c] = TRUE]
  /\ Goto(c, "start")
  /\ UNCHANGED <<hub, job, target, lock, snapVars, packVars, manifests>>

\* Mutant of Acquire: the lock file is opened but not locked.
AcquireShared(c) ==
  /\ pc[c] = "waiting"
  /\ lock' = c /\ Goto(c, "locked")
  /\ UNCHANGED <<hub, job, allowed, target, snapVars, packVars, manifests>>

\* flock(LOCK_EX) blocks.
Acquire(c) ==
  /\ pc[c] = "waiting" /\ lock = Nobody
  /\ lock' = c /\ Goto(c, "locked")
  /\ UNCHANGED <<hub, job, allowed, target, snapVars, packVars, manifests>>

\* Mutant of Resolve: the branch is used as if it were a commit.
ResolveLiterally(ref) == ref

\* HfApi().model_info(...).sha
Resolve(ref) == IF ref \in Branches THEN hub[ref] ELSE ref

ResolveRevision(c) ==
  /\ pc[c] = "locked"
  /\ target' = [target EXCEPT ![c] = Resolve(job[c].ref)]
  /\ Goto(c, "resolved")
  /\ UNCHANGED <<hub, job, allowed, lock, snapVars, packVars, manifests>>

\* fetch: reuse what looks like a complete snapshot, refuse, or download.
PlanFetch(c) ==
  LET m == target[c]
  IN /\ pc[c] = "resolved" /\ job[c].kind = "fetch"
     /\ \/ SnapshotExists(m) /\ Goto(c, "register") /\ UNCHANGED lock
        \/ ~SnapshotExists(m) /\ DownloadFits(m) /\ Goto(c, "download") /\ UNCHANGED lock
        \/ ~SnapshotExists(m) /\ ~DownloadFits(m) /\ End(c, "refused")
     /\ UNCHANGED <<hub, job, allowed, target, snapVars, packVars, manifests>>

\* snapshot_download: four workers, so the files arrive in any order.
DownloadFile(c) ==
  LET m == target[c]
  IN /\ pc[c] = "download"
     /\ \/ m \notin config /\ config' = config \cup {m} /\ UNCHANGED shards
        \/ /\ shards[m] < Size[m]
           /\ shards' = [shards EXCEPT ![m] = @ + 1]
           /\ UNCHANGED config
     /\ UNCHANGED <<hub, localVars, packVars, manifests>>

Downloaded(c) ==
  /\ pc[c] = "download" /\ target[c] \in config /\ shards[target[c]] = Size[target[c]]
  /\ Goto(c, "register")
  /\ UNCHANGED <<hub, job, allowed, target, lock, snapVars, packVars, manifests>>

\* Mutant of Resumes: --resume is never passed.
NeverResumes(m) == FALSE

\* `if model_path.exists(): command.append("--resume")`
Resumes(m) == packed[m] > 0

\* install_packed_model: the plan is made again, under the lock.
PlanInstall(c) ==
  LET m == target[c]
  IN /\ pc[c] = "resolved" /\ job[c].kind # "fetch"
     /\ \/ m \in verified /\ Goto(c, "register") /\ UNCHANGED <<lock, packed, repackers>>
        \/ /\ m \notin verified /\ PackFits(m)
           /\ packed' = IF Resumes(m) THEN packed ELSE [packed EXCEPT ![m] = 0]
           /\ repackers' = repackers \cup {[owner |-> c, model |-> m, at |-> packed'[m]]}
           /\ Goto(c, "repack") /\ UNCHANGED lock
        \/ ~PackAllowed(m) /\ End(c, "refused") /\ UNCHANGED <<packed, repackers>>
     /\ UNCHANGED <<hub, job, allowed, target, snapVars, verified, streamed, orphaned, manifests>>

\* The atomic write of the manifest; fetch and install use the same name. The
\* checks of _register on what the repacker left may fail.
Register(c) ==
  LET m == target[c]
      format == IF job[c].kind = "fetch" THEN "snapshot" ELSE "gturbo"
  IN /\ pc[c] = "register"
     /\ \/ manifests' = [manifests EXCEPT ![m] = format] /\ End(c, "done")
        \/ job[c].kind # "fetch" /\ End(c, "failed") /\ UNCHANGED manifests
     /\ UNCHANGED <<hub, job, allowed, target, snapVars, packVars>>

\* The Hub does not answer, or reports no size; a download fails.
NetworkFails(c) ==
  /\ pc[c] \in {"start", "locked", "download"}
  /\ End(c, "failed")
  /\ UNCHANGED <<hub, job, allowed, target, snapVars, packVars, manifests>>

-------------------------------------------------------------------------------
(* The repackers.                                                           *)

WaitedFor(r) == pc[r.owner] = "repack"

\* The owner of an orphan is gone: nobody notices how it ended.
OwnerSees(r, label) ==
  IF ~WaitedFor(r) THEN UNCHANGED <<pc, lock>>
  ELSE IF label = "register" THEN Goto(r.owner, label) /\ UNCHANGED lock
  ELSE End(r.owner, label)

RepackShard(r) ==
  LET next == [r EXCEPT !.at = @ + 1]
  IN /\ r.at < Size[r.model]
     /\ repackers' = (repackers \ {r}) \cup {next}
     /\ packed' = [packed EXCEPT ![r.model] = Max({@, next.at})]
     /\ streamed' = [streamed EXCEPT ![r.model] = @ + 1]
     /\ UNCHANGED <<hub, localVars, snapVars, verified, orphaned, manifests>>

RepackDone(r) ==
  /\ r.at = Size[r.model]
  /\ repackers' = repackers \ {r}
  /\ verified' = verified \cup {r.model}
  /\ OwnerSees(r, "register")
  /\ UNCHANGED <<hub, job, allowed, target, snapVars, packed, streamed, orphaned, manifests>>

RepackFails(r) ==
  /\ repackers' = repackers \ {r}
  /\ OwnerSees(r, "failed")
  /\ UNCHANGED <<hub, job, allowed, target, snapVars, packed, verified, streamed, orphaned,
                 manifests>>

-------------------------------------------------------------------------------
(* The environment.                                                         *)

HubMoves(b) ==
  /\ hub[b] # Newest
  /\ hub' = [hub EXCEPT ![b] = Newest]
  /\ UNCHANGED <<localVars, snapVars, packVars, manifests>>

\* Ctrl-C reaches the whole foreground group, the repacker too.
Interrupted(c) ==
  /\ pc[c] \notin Ended
  /\ End(c, "dead")
  /\ repackers' = {r \in repackers : r.owner # c}
  /\ UNCHANGED <<hub, job, allowed, target, snapVars, packed, verified, streamed, orphaned,
                 manifests>>

\* SIGKILL of the client: the kernel drops its lock, whose descriptor Python did
\* not let the repacker inherit; the repacker goes on.
Killed(c) ==
  /\ \E r \in repackers : r.owner = c /\ WaitedFor(r)
  /\ End(c, "dead")
  /\ orphaned' = TRUE
  /\ UNCHANGED <<hub, job, allowed, target, snapVars, packed, verified, repackers, streamed,
                 manifests>>

\* Power loss ends every process that has got the lock, and its repacker; who is
\* still waiting stands for a client that comes after it.
PowerLoss ==
  /\ lock # Nobody
  /\ pc' = [c \in Clients |->
              IF pc[c] \in Ended \cup {"start", "asking", "waiting"} THEN pc[c] ELSE "dead"]
  /\ lock' = Nobody
  /\ repackers' = {}
  /\ UNCHANGED <<hub, job, allowed, target, snapVars, packed, verified, streamed, orphaned,
                 manifests>>

Step(c) ==
  \/ PlanSetup(c)
  \/ Acquire(c)
  \/ ResolveRevision(c)
  \/ PlanFetch(c)
  \/ DownloadFile(c)
  \/ Downloaded(c)
  \/ PlanInstall(c)
  \/ Register(c)
  \/ NetworkFails(c)

Repack ==
  \E r \in repackers : RepackShard(r) \/ RepackDone(r) \/ RepackFails(r)

Next ==
  \/ \E c \in Clients : Step(c)
  \/ \E c \in Clients : Declines(c)
  \/ \E c \in Clients : Confirms(c)
  \/ Repack
  \/ \E b \in Branches : HubMoves(b)
  \/ \E c \in Clients : Interrupted(c)
  \/ \E c \in Clients : Killed(c)
  \/ PowerLoss

Spec == Init /\ [][Next]_vars

\* A transfer makes progress or fails; whoever is not blocked goes on. Nobody
\* need answer a prompt.
FairSpec == Spec /\ (\A c \in Clients : WF_vars(Step(c))) /\ WF_vars(Repack)

-------------------------------------------------------------------------------
(* Properties.                                                              *)

\* Whatever is planned, interrupted and resumed by whom, the store leaves the
\* disk reserve free, and neither its snapshots nor its packed models outgrow
\* the store limit: plans are made under the lock that also covers the transfer.
\* (A repacker that outlived its client is not covered by the lock any more.)
LimitsKept ==
  ~orphaned =>
    /\ Free >= Reserve
    /\ Bytes(packed) <= StoreLimit
    /\ Bytes(shards) <= StoreLimit

\* An interrupted install resumes: no byte of a model is streamed twice.
NothingStreamedTwice == ~orphaned => \A m \in Commits : streamed[m] <= Size[m]

\* Nothing is transferred by a setup that was neither given allow_download nor
\* answered yes at a terminal, although the check of consent reads the store
\* before the lock is taken and the transfer starts after.
TransfersConsented ==
  \A r \in repackers : allowed[r.owner]

\* No repacker streams a model of which a snapshot is found in a Hugging Face
\* cache, also if a fetch completed that snapshot while the install was waiting.
NoSecondTransfer ==
  [][\A m \in Commits :
       packed'[m] > packed[m] /\ ~orphaned => ~SnapshotExists(m)]_vars

\* Every operation ends, whoever held the lock and however it left, unless its
\* own prompt is never answered: that keeps nobody else waiting.
OperationEnds ==
  \A c \in Clients : <>(pc[c] \in Ended) \/ <>[](pc[c] = "asking")

\* What docs/quickstart.md says of resuming: an interrupted pack whose missing
\* part fits is resumed, not refused. The preflight charges it a whole copy more.
InterruptedPackResumes ==
  [][\A c \in Clients :
       LET m == target[c]
           missing == Size[m] - packed[m]
       IN /\ pc[c] = "resolved" /\ job[c].kind # "fetch"
          /\ packed[m] > 0 /\ ~SnapshotExists(m)
          /\ Free - missing >= Reserve /\ Bytes(packed) + missing <= StoreLimit
          => pc'[c] # "refused"]_vars

\* What docs/sdk.md says of reuse: what is registered and reused is complete.
ReuseIsOfCompleteModels ==
  \A m \in Commits \ Elsewhere : manifests[m] = "snapshot" => shards[m] = Size[m]
===============================================================================
