--------------------------- MODULE ModelStoreProofs ---------------------------
(***************************************************************************)
(* Theorems about ModelStore, for any number of clients, models, shards    *)
(* and bytes.                                                              *)
(***************************************************************************)
EXTENDS ModelStore, FiniteSetTheorems, TLAPS

-------------------------------------------------------------------------------
(* The sizes. MaxSize is the size of a model; Bytes(f) counts the shards that *)
(* f gives to the models, which makes it a natural number that grows by one   *)
(* with every shard.                                                          *)

LEMMA MaxSizeBounds ==
  /\ MaxSize \in Nat
  /\ \A m \in Commits : Size[m] \in 1..MaxSize
<1> DEFINE Larger(m) == {n \in Commits : Size[n] > Size[m]}
           T == {Larger(m) : m \in Commits}
<1>1. \E s \in T : \A t \in T : ~(<<t, s>> \in StrictSubsetOrdering(Commits))
  <2>1. IsWellFoundedOn(StrictSubsetOrdering(Commits), FiniteSubsetsOf(Commits))
    BY FS_StrictSubsetOrderingWellFounded
  <2>2. FiniteSubsetsOf(Commits) = SUBSET Commits
    BY FS_FiniteSubsetsOfFinite, SetsAssumption
  <2>3. T \subseteq SUBSET Commits /\ T # {}
    BY SetsAssumption
  <2> HIDE DEF T
  <2>4. QED
    BY <2>1, <2>2, <2>3, WFMin
<1>2. PICK m \in Commits :
        \A n \in Commits : ~(<<Larger(n), Larger(m)>> \in StrictSubsetOrdering(Commits))
  BY <1>1
<1>3. \A n \in Commits : Size[n] <= Size[m]
  <2>1. SUFFICES ASSUME NEW n \in Commits, ~(Size[n] <= Size[m]) PROVE FALSE
    OBVIOUS
  <2>2. Size[n] > Size[m]
    BY <2>1, BytesAssumption
  <2>3. Larger(n) \subseteq Larger(m)
    BY <2>2, BytesAssumption
  <2>4. n \in Larger(m) /\ n \notin Larger(n)
    BY <2>2, BytesAssumption
  <2>5. <<Larger(n), Larger(m)>> \in StrictSubsetOrdering(Commits)
    BY <2>3, <2>4 DEF StrictSubsetOrdering
  <2>6. QED
    BY <1>2, <2>5
<1> DEFINE Sizes == {Size[n] : n \in Commits}
<1>4. Size[m] \in Sizes /\ \A y \in Sizes : Size[m] >= y
  BY <1>3, BytesAssumption
<1>5. MaxSize \in Sizes /\ \A y \in Sizes : MaxSize >= y
  BY <1>4 DEF MaxSize, Max
<1>6. QED
  BY <1>5, BytesAssumption

Counts == [Commits -> 0..MaxSize]

\* The shards that f gives to the models of S, numbered from 0.
Units(f, S) == {u \in S \X (0..MaxSize) : u[2] < f[u[1]]}

LEMMA UnitsAreFinite ==
  ASSUME NEW f \in Counts, NEW S \in SUBSET Commits
  PROVE  IsFiniteSet(Units(f, S)) /\ Cardinality(Units(f, S)) \in Nat
<1>1. IsFiniteSet(S)
  BY FS_Subset, SetsAssumption
<1>2. IsFiniteSet(0..MaxSize)
  BY FS_Interval, MaxSizeBounds
<1>3. IsFiniteSet(S \X (0..MaxSize))
  BY <1>1, <1>2, FS_Product
<1>4. Units(f, S) \in SUBSET (S \X (0..MaxSize))
  BY DEF Units
<1>5. QED
  BY <1>3, <1>4, FS_Subset, FS_CardinalityType

\* Taking one model out takes its shards out.
LEMMA UnitsOfOneModel ==
  ASSUME NEW f \in Counts, NEW S \in SUBSET Commits, NEW m \in S
  PROVE  Cardinality(Units(f, S)) = f[m] + Cardinality(Units(f, S \ {m}))
<1> DEFINE Rest == Units(f, S \ {m})
           Own == {m} \X (0..(f[m] - 1))
<1>1. f[m] \in 0..MaxSize /\ MaxSize \in Nat
  BY MaxSizeBounds DEF Counts
<1>2. IsFiniteSet(Rest) /\ Cardinality(Rest) \in Nat
  BY UnitsAreFinite
<1>3. IsFiniteSet(0..(f[m] - 1)) /\ Cardinality(0..(f[m] - 1)) = f[m]
  <2>1. f[m] - 1 \in Int /\ f[m] \in Nat /\ 0 \in Int
    BY <1>1
  <2>2. /\ IsFiniteSet(0..(f[m] - 1))
        /\ Cardinality(0..(f[m] - 1)) = IF 0 > f[m] - 1 THEN 0 ELSE (f[m] - 1) - 0 + 1
    BY <2>1, FS_Interval
  <2>3. QED
    BY <2>1, <2>2
<1>4. IsFiniteSet(Own) /\ Cardinality(Own) = f[m]
  <2>1. IsFiniteSet({m}) /\ Cardinality({m}) = 1
    BY FS_Singleton
  <2>2. IsFiniteSet(Own) /\ Cardinality(Own) = 1 * f[m]
    BY <1>3, <2>1, FS_Product
  <2>3. QED
    BY <1>1, <2>2
<1>5. Units(f, S) = Rest \cup Own
  <2>1. ASSUME NEW u \in Units(f, S) PROVE u \in Rest \cup Own
    <3>1. u = <<u[1], u[2]>> /\ u[1] \in S /\ u[2] \in 0..MaxSize /\ u[2] < f[u[1]]
      BY DEF Units
    <3>2. CASE u[1] = m
      BY <3>1, <3>2, <1>1
    <3>3. CASE u[1] # m
      BY <3>1, <3>3 DEF Units
    <3>4. QED
      BY <3>2, <3>3
  <2>2. Rest \subseteq Units(f, S)
    BY DEF Units
  <2>3. Own \subseteq Units(f, S)
    BY <1>1 DEF Units
  <2>4. QED
    BY <2>1, <2>2, <2>3
<1>6. Rest \cap Own = {}
  BY DEF Units
<1>7. Cardinality(Units(f, S)) = Cardinality(Rest) + Cardinality(Own) - Cardinality({})
  <2> HIDE DEF Rest, Own
  <2>1. QED
    BY <1>2, <1>4, <1>5, <1>6, FS_Union
<1>8. QED
  BY <1>1, <1>2, <1>4, <1>7, FS_EmptySet

\* What the fold of Bytes computes at each set of models that it is applied to.
Fold(f, g, s) ==
  IF s = {} THEN 0 ELSE f[CHOOSE x \in s : TRUE] + g[s \ {CHOOSE x \in s : TRUE}]

LEMMA FoldCountsUnits ==
  ASSUME NEW f \in Counts, NEW g, g = [s \in SUBSET Commits |-> Fold(f, g, s)]
  PROVE  \A s \in SUBSET Commits : g[s] = Cardinality(Units(f, s))
<1> DEFINE Wrong == {s \in SUBSET Commits : g[s] # Cardinality(Units(f, s))}
<1>1. SUFFICES ASSUME Wrong # {} PROVE FALSE
  OBVIOUS
<1>2. PICK s \in Wrong : \A t \in Wrong : ~(<<t, s>> \in StrictSubsetOrdering(Commits))
  <2>1. IsWellFoundedOn(StrictSubsetOrdering(Commits), FiniteSubsetsOf(Commits))
    BY FS_StrictSubsetOrderingWellFounded
  <2>2. FiniteSubsetsOf(Commits) = SUBSET Commits
    BY FS_FiniteSubsetsOfFinite, SetsAssumption
  <2>3. Wrong \subseteq SUBSET Commits
    OBVIOUS
  <2> HIDE DEF Wrong
  <2>4. QED
    BY <1>1, <2>1, <2>2, <2>3, WFMin
<1>3. CASE s = {}
  <2>1. g[s] = 0
    BY <1>3 DEF Fold
  <2>2. Units(f, s) = {}
    BY <1>3 DEF Units
  <2>3. QED
    BY <2>1, <2>2, FS_EmptySet
<1>4. CASE s # {}
  <2> DEFINE x == CHOOSE x \in s : TRUE
             t == s \ {x}
  <2>1. x \in s
    BY <1>4
  <2>2. t \in SUBSET Commits /\ <<t, s>> \in StrictSubsetOrdering(Commits)
    BY <2>1 DEF StrictSubsetOrdering
  <2>3. g[t] = Cardinality(Units(f, t))
    BY <1>2, <2>2
  <2>4. g[s] = f[x] + g[t]
    BY <1>4 DEF Fold
  <2>5. Cardinality(Units(f, s)) = f[x] + Cardinality(Units(f, t))
    BY <2>1, UnitsOfOneModel
  <2>6. QED
    BY <2>3, <2>4, <2>5
<1>5. QED
  BY <1>3, <1>4

LEMMA FoldExists ==
  ASSUME NEW f \in Counts
  PROVE  \E g : g = [s \in SUBSET Commits |-> Fold(f, g, s)]
<1> DEFINE g == [s \in SUBSET Commits |-> Cardinality(Units(f, s))]
<1>1. ASSUME NEW s \in SUBSET Commits PROVE g[s] = Fold(f, g, s)
  <2>1. CASE s = {}
    <3>1. Units(f, s) = {}
      BY <2>1 DEF Units
    <3>2. QED
      BY <2>1, <3>1, FS_EmptySet DEF Fold
  <2>2. CASE s # {}
    <3> DEFINE x == CHOOSE x \in s : TRUE
    <3>1. x \in s
      BY <2>2
    <3>2. Cardinality(Units(f, s)) = f[x] + Cardinality(Units(f, s \ {x}))
      BY <3>1, UnitsOfOneModel
    <3>3. QED
      BY <2>2, <3>1, <3>2 DEF Fold
  <2>3. QED
    BY <2>1, <2>2
<1>2. g = [s \in SUBSET Commits |-> Fold(f, g, s)]
  BY <1>1
<1>3. QED
  BY <1>2

\* The bytes of a store are its shards, counted one by one.
LEMMA BytesCountsUnits ==
  ASSUME NEW f \in Counts
  PROVE  Bytes(f) = Cardinality(Units(f, Commits))
<1> DEFINE g == CHOOSE g : g = [s \in SUBSET Commits |-> Fold(f, g, s)]
<1>1. g = [s \in SUBSET Commits |-> Fold(f, g, s)]
  BY FoldExists
<1>2. Bytes(f) = g[Commits]
  BY DEF Bytes, MapThenSumSet, MapThenFoldSet, Fold
<1> HIDE DEF g
<1>3. QED
  BY <1>1, <1>2, FoldCountsUnits

LEMMA BytesType ==
  ASSUME NEW f \in Counts
  PROVE  Bytes(f) \in Nat
BY BytesCountsUnits, UnitsAreFinite

LEMMA BytesOfNothing == Bytes([m \in Commits |-> 0]) = 0
<1> DEFINE f == [m \in Commits |-> 0]
<1>1. f \in Counts
  BY MaxSizeBounds DEF Counts
<1>2. Units(f, Commits) = {}
  BY DEF Units
<1>3. QED
  BY <1>1, <1>2, BytesCountsUnits, FS_EmptySet

LEMMA BytesGrowByOne ==
  ASSUME NEW f \in Counts, NEW m \in Commits, f[m] < MaxSize
  PROVE  /\ [f EXCEPT ![m] = @ + 1] \in Counts
         /\ Bytes([f EXCEPT ![m] = @ + 1]) = Bytes(f) + 1
<1> DEFINE h == [f EXCEPT ![m] = @ + 1]
           u == <<m, f[m]>>
<1>1. f[m] \in 0..MaxSize /\ MaxSize \in Nat
  BY MaxSizeBounds DEF Counts
<1>2. h \in Counts
  BY <1>1 DEF Counts
<1>3. Units(h, Commits) = Units(f, Commits) \cup {u}
  BY <1>1 DEF Units, Counts
<1>4. u \notin Units(f, Commits)
  BY <1>1 DEF Units
<1>5. Cardinality(Units(h, Commits)) = Cardinality(Units(f, Commits)) + 1
  BY <1>3, <1>4, UnitsAreFinite, FS_AddElement
<1>6. QED
  BY <1>2, <1>5, BytesCountsUnits

-------------------------------------------------------------------------------
(* The inductive invariant, in parts that rest on each other.               *)

Holding == {"locked", "resolved", "download", "repack", "register"}

\* A client that has resolved its request knows a commit; an install and a setup
\* name theirs. No snapshot holds more shards than were published.
Targets ==
  /\ \A c \in Clients :
       pc[c] \in Holding \ {"locked"} =>
         /\ target[c] \in Commits
         /\ job[c].kind # "fetch" => target[c] = job[c].ref
  /\ \A m \in Commits : shards[m] <= Size[m]

\* download.lock is held from its acquisition to the end of the operation.
LockHeld == \A c \in Clients : lock = c <=> pc[c] \in Holding

\* Who may still start a transfer has consent, or will find nothing to transfer.
Consent ==
  /\ \A c \in Clients :
       /\ job[c].kind # "setup" => allowed[c]
       /\ pc[c] \in {"waiting", "locked", "resolved"} =>
            allowed[c] \/ job[c].ref \in verified
  /\ TransfersConsented

\* Unless a repacker has outlived its client, there is at most one: that of the
\* client which holds the lock and waits for it.
Watched ==
  ~orphaned =>
    /\ \A r \in repackers : WaitedFor(r) /\ target[r.owner] = r.model
    /\ \A r \in repackers, q \in repackers : r.owner = q.owner => r = q

\* What is packed was streamed, each shard once, and a repacker goes on where its
\* directory ends, while no snapshot of its model is found.
Streaming ==
  ~orphaned =>
    /\ \A m \in Commits : streamed[m] = packed[m] /\ packed[m] <= Size[m]
    /\ \A r \in repackers : r.at = packed[r.model] /\ ~SnapshotExists(r.model)

\* n more shards leave the reserve free, and bytes that count against the limit
\* within it.
RoomFor(n, bytes) == Free - n >= Reserve /\ bytes + n <= StoreLimit

\* There is room for what the transfer under way has still to bring.
Room ==
  ~orphaned =>
    /\ RoomFor(0, Bytes(packed)) /\ RoomFor(0, Bytes(shards))
    /\ \A c \in Clients : pc[c] = "download" =>
         RoomFor(Size[target[c]] - shards[target[c]], StoreBytes)
    /\ \A r \in repackers : RoomFor(Size[r.model] - r.at, Bytes(packed))

-------------------------------------------------------------------------------
(* Types.                                                                   *)

LEMMA MaxOfTwo ==
  ASSUME NEW a \in Nat, NEW b \in Nat
  PROVE  Max({a, b}) = IF a >= b THEN a ELSE b
<1>1. CASE a >= b
  BY <1>1 DEF Max
<1>2. CASE ~(a >= b)
  BY <1>2 DEF Max
<1>3. QED
  BY <1>1, <1>2

LEMMA JobFields ==
  ASSUME job \in [Clients -> Requests], NEW c \in Clients
  PROVE  /\ job[c].kind \in {"fetch", "install", "setup"}
         /\ job[c].ref \in Commits \cup Branches
         /\ job[c].consent \in BOOLEAN
         /\ job[c].kind # "fetch" => job[c].ref \in Commits /\ job[c].ref \notin Branches
         /\ job[c].kind # "setup" => job[c].consent = TRUE
<1>1. job[c] \in Jobs
  BY RequestsAssumption
<1>2. CASE job[c] \in [kind : {"fetch"}, ref : Commits \cup Branches, consent : {TRUE}]
  BY <1>2
<1>3. CASE job[c] \in [kind : {"install"}, ref : Pinned, consent : {TRUE}]
  BY <1>3, SetsAssumption
<1>4. CASE job[c] \in [kind : {"setup"}, ref : Pinned, consent : BOOLEAN,
                       terminal : BOOLEAN]
  BY <1>4, SetsAssumption
<1>5. QED
  BY <1>1, <1>2, <1>3, <1>4 DEF Jobs

Typed == TypeOK /\ Targets

LEMMA InitTyped == Init => Typed
<1> SUFFICES ASSUME Init PROVE Typed
  OBVIOUS
<1>1. \A c \in Clients : job[c].consent \in BOOLEAN
  BY JobFields DEF Init
<1>2. TypeOK
  <2>1. pc \in [Clients -> PC]
    BY DEF Init, PC, Ended
  <2>2. allowed \in [Clients -> BOOLEAN]
    BY <1>1, Zenon DEF Init
  <2>3. /\ shards \in [Commits -> 0..MaxSize]
        /\ packed \in [Commits -> 0..MaxSize]
        /\ streamed \in [Commits -> Nat]
    BY MaxSizeBounds DEF Init
  <2>4. manifests \in [Commits -> {"none", "snapshot", "gturbo"}]
    BY DEF Init
  <2>5. orphaned \in BOOLEAN
    BY DEF Init
  <2>6. /\ hub \in [Branches -> Commits] /\ job \in [Clients -> Requests]
        /\ target \in [Clients -> Commits \cup {Nobody}]
        /\ lock \in Clients \cup {Nobody}
        /\ config \subseteq Commits /\ verified \subseteq Commits
        /\ repackers \subseteq Repackers
    BY DEF Init
  <2>7. QED
    BY <2>1, <2>2, <2>3, <2>4, <2>5, <2>6 DEF TypeOK
<1>3. Targets
  BY BytesAssumption DEF Init, Targets, Holding
<1>4. QED
  BY <1>2, <1>3 DEF Typed

\* Moving one client to a place where it has resolved nothing, or stays as far.
LEMMA MovesAreTyped ==
  ASSUME Typed, NEW c \in Clients, NEW label \in PC, Goto(c, label),
         \/ label \notin Holding \ {"locked"}
         \/ pc[c] \in Holding \ {"locked"}
  PROVE  /\ pc' \in [Clients -> PC]
         /\ target' = target /\ job' = job =>
              \A b \in Clients : pc'[b] \in Holding \ {"locked"} =>
                /\ target'[b] \in Commits
                /\ job'[b].kind # "fetch" => target'[b] = job'[b].ref
BY DEF Typed, Targets, TypeOK, Goto

LEMMA EndIsTyped ==
  ASSUME Typed, NEW c \in Clients, NEW label \in Ended, End(c, label)
  PROVE  /\ pc' \in [Clients -> PC]
         /\ lock' \in Clients \cup {Nobody}
         /\ target' = target /\ job' = job =>
              \A b \in Clients : pc'[b] \in Holding \ {"locked"} =>
                /\ target'[b] \in Commits
                /\ job'[b].kind # "fetch" => target'[b] = job'[b].ref
<1>1. label \in PC /\ label \notin Holding
  BY DEF Ended, PC, Holding
<1>2. Goto(c, label)
  BY DEF End
<1>3. lock' \in Clients \cup {Nobody}
  BY DEF End, Typed, TypeOK
<1>4. QED
  BY <1>1, <1>2, <1>3, MovesAreTyped

LEMMA StepTyped ==
  ASSUME Typed, NEW c \in Clients, Step(c) \/ Declines(c) \/ Confirms(c)
  PROVE  Typed'
<1> USE DEF Typed
<1> DEFINE Label(l) == l \in PC /\ (l \in Holding \ {"locked"} => pc[c] \in Holding \ {"locked"})
<1>0. /\ {"start", "asking", "waiting", "locked", "resolved", "download", "repack",
          "register", "refused", "failed", "done", "dead"} \subseteq PC
      /\ {"start", "asking", "waiting", "locked", "refused", "failed", "done", "dead"}
            \cap (Holding \ {"locked"}) = {}
      /\ {"resolved", "download", "repack", "register"} \subseteq Holding \ {"locked"}
      /\ {"refused", "failed", "done", "dead"} \subseteq Ended
  BY DEF PC, Ended, Holding
<1>1. CASE PlanSetup(c)
  <2>1. PICK label \in {"refused", "waiting", "asking"} : Goto(c, label)
    BY <1>1 DEF PlanSetup
  <2>2. label \in PC /\ label \notin Holding \ {"locked"}
    BY <1>0
  <2>3. QED
    BY <1>1, <2>1, <2>2, MovesAreTyped DEF PlanSetup, TypeOK, Targets, snapVars, packVars
<1>2. CASE Acquire(c)
  <2>1. Goto(c, "locked") /\ lock' = c
    BY <1>2 DEF Acquire
  <2>2. QED
    BY <1>0, <1>2, <2>1, MovesAreTyped DEF Acquire, TypeOK, Targets, snapVars, packVars
<1>3. CASE ResolveRevision(c)
  <2>1. Resolve(job[c].ref) \in Commits
    BY JobFields DEF TypeOK, Resolve
  <2>2. job[c].kind # "fetch" => Resolve(job[c].ref) = job[c].ref
    BY JobFields DEF TypeOK, Resolve
  <2>3. pc' = [pc EXCEPT ![c] = "resolved"] /\ pc' \in [Clients -> PC]
    BY <1>0, <1>3 DEF ResolveRevision, Goto, TypeOK
  <2>4. target' = [target EXCEPT ![c] = Resolve(job[c].ref)]
    BY <1>3 DEF ResolveRevision
  <2>5. UNCHANGED <<hub, job, allowed, lock, snapVars, packVars, manifests>>
    BY <1>3 DEF ResolveRevision
  <2>6. TypeOK'
    BY <2>1, <2>3, <2>4, <2>5 DEF TypeOK, snapVars, packVars
  <2>7. Targets'
    BY <2>1, <2>2, <2>3, <2>4, <2>5 DEF TypeOK, Targets, snapVars
  <2>8. QED
    BY <2>6, <2>7
<1>4. CASE PlanFetch(c)
  <2>1. pc[c] \in Holding \ {"locked"}
    BY <1>0, <1>4 DEF PlanFetch
  <2>2. UNCHANGED <<hub, job, allowed, target, snapVars, packVars, manifests>>
    BY <1>4 DEF PlanFetch
  <2>3. CASE UNCHANGED lock /\ (Goto(c, "register") \/ Goto(c, "download"))
    <3>1. PICK label \in {"register", "download"} : Goto(c, label)
      BY <2>3
    <3>2. label \in PC
      BY <1>0
    <3>3. QED
      BY <2>1, <2>2, <2>3, <3>1, <3>2, MovesAreTyped DEF TypeOK, Targets, snapVars, packVars
  <2>4. CASE End(c, "refused")
    BY <1>0, <2>2, <2>4, EndIsTyped DEF TypeOK, Targets, snapVars, packVars
  <2>5. QED
    BY <1>4, <2>3, <2>4 DEF PlanFetch
<1>5. CASE DownloadFile(c)
  <2>1. target[c] \in Commits
    BY <1>0, <1>5 DEF DownloadFile, Targets
  <2>2. UNCHANGED <<hub, localVars, packVars, manifests>>
    BY <1>5 DEF DownloadFile
  <2>3. config' \subseteq Commits
    BY <1>5, <2>1 DEF DownloadFile, TypeOK
  <2>4. /\ shards' \in [Commits -> 0..MaxSize]
        /\ \A m \in Commits : shards'[m] <= Size[m]
    <3>1. CASE shards[target[c]] < Size[target[c]]
                 /\ shards' = [shards EXCEPT ![target[c]] = @ + 1]
      <4>1. Size[target[c]] \in 1..MaxSize /\ shards[target[c]] \in 0..MaxSize
              /\ MaxSize \in Nat
        BY <2>1, MaxSizeBounds DEF TypeOK
      <4>2. shards[target[c]] + 1 \in 0..MaxSize /\ shards[target[c]] + 1 <= Size[target[c]]
        BY <3>1, <4>1
      <4>3. QED
        BY <2>1, <3>1, <4>2 DEF TypeOK, Targets
    <3>2. CASE UNCHANGED shards
      BY <3>2 DEF TypeOK, Targets
    <3>3. QED
      BY <1>5, <3>1, <3>2 DEF DownloadFile
  <2>5. QED
    BY <2>2, <2>3, <2>4 DEF TypeOK, Targets, localVars, packVars
<1>6. CASE Downloaded(c)
  <2>1. Goto(c, "register") /\ pc[c] \in Holding \ {"locked"}
    BY <1>0, <1>6 DEF Downloaded
  <2>2. QED
    BY <1>0, <1>6, <2>1, MovesAreTyped DEF Downloaded, TypeOK, Targets, snapVars, packVars
<1>7. CASE PlanInstall(c)
  <2>1. pc[c] \in Holding \ {"locked"} /\ target[c] \in Commits
    BY <1>0, <1>7 DEF PlanInstall, Targets
  <2>2. UNCHANGED <<hub, job, allowed, target, snapVars, verified, streamed, orphaned,
                    manifests>>
    BY <1>7 DEF PlanInstall
  <2>3. CASE Goto(c, "register") /\ UNCHANGED <<lock, packed, repackers>>
    BY <1>0, <2>1, <2>2, <2>3, MovesAreTyped DEF TypeOK, Targets, snapVars
  <2>4. CASE End(c, "refused") /\ UNCHANGED <<packed, repackers>>
    BY <1>0, <2>2, <2>4, EndIsTyped DEF TypeOK, Targets, snapVars
  <2>5. ASSUME /\ packed' = IF Resumes(target[c]) THEN packed
                            ELSE [packed EXCEPT ![target[c]] = 0]
               /\ repackers' = repackers \cup
                    {[owner |-> c, model |-> target[c], at |-> packed'[target[c]]]}
               /\ Goto(c, "repack") /\ UNCHANGED lock
        PROVE  Typed'
    <3>1. packed' \in [Commits -> 0..MaxSize]
      <4>1. 0 \in 0..MaxSize
        BY MaxSizeBounds
      <4>2. CASE Resumes(target[c])
        BY <2>5, <4>2 DEF TypeOK
      <4>3. CASE ~Resumes(target[c])
        BY <2>1, <2>5, <4>1, <4>3 DEF TypeOK
      <4>4. QED
        BY <4>2, <4>3
    <3>2. [owner |-> c, model |-> target[c], at |-> packed'[target[c]]] \in Repackers
      BY <2>1, <3>1 DEF Repackers
    <3>3. repackers' \subseteq Repackers
      BY <2>5, <3>2 DEF TypeOK
    <3>4. QED
      BY <1>0, <2>1, <2>2, <2>5, <3>1, <3>3, MovesAreTyped DEF TypeOK, Targets, snapVars
  <2>6. QED
    BY <1>7, <2>3, <2>4, <2>5 DEF PlanInstall
<1>8. CASE Register(c)
  <2>1. UNCHANGED <<hub, job, allowed, target, snapVars, packVars>>
    BY <1>8 DEF Register
  <2>2. PICK label \in {"done", "failed"} : End(c, label)
    BY <1>8 DEF Register
  <2>3. manifests' \in [Commits -> {"none", "snapshot", "gturbo"}]
    BY <1>8 DEF Register, TypeOK
  <2>4. label \in Ended
    BY <1>0
  <2>5. QED
    BY <2>1, <2>2, <2>3, <2>4, EndIsTyped DEF TypeOK, Targets, snapVars, packVars
<1>9. CASE NetworkFails(c)
  BY <1>0, <1>9, EndIsTyped DEF NetworkFails, TypeOK, Targets, snapVars, packVars
<1>10. CASE Declines(c)
  <2>1. Goto(c, "refused")
    BY <1>10 DEF Declines
  <2>2. QED
    BY <1>0, <1>10, <2>1, MovesAreTyped DEF Declines, TypeOK, Targets, snapVars, packVars
<1>11. CASE Confirms(c)
  <2>1. Goto(c, "start") /\ allowed' \in [Clients -> BOOLEAN]
    BY <1>11 DEF Confirms, TypeOK
  <2>2. QED
    BY <1>0, <1>11, <2>1, MovesAreTyped DEF Confirms, TypeOK, Targets, snapVars, packVars
<1>12. QED
  BY <1>1, <1>2, <1>3, <1>4, <1>5, <1>6, <1>7, <1>8, <1>9, <1>10, <1>11 DEF Step

\* How a repacker ends leaves its owner somewhere it may be.
LEMMA OwnerSeesTyped ==
  ASSUME Typed, NEW r \in repackers, NEW label \in {"register", "failed"},
         OwnerSees(r, label), UNCHANGED <<job, target>>
  PROVE  /\ pc' \in [Clients -> PC]
         /\ lock' \in Clients \cup {Nobody}
         /\ \A b \in Clients : pc'[b] \in Holding \ {"locked"} =>
              /\ target'[b] \in Commits
              /\ job'[b].kind # "fetch" => target'[b] = job'[b].ref
<1>1. r.owner \in Clients
  BY DEF Typed, TypeOK, Repackers
<1>2. CASE ~WaitedFor(r)
  BY <1>2 DEF OwnerSees, Typed, TypeOK, Targets
<1>3. CASE WaitedFor(r) /\ label = "register"
  <2>1. Goto(r.owner, "register") /\ UNCHANGED lock
    BY <1>3 DEF OwnerSees
  <2>2. "register" \in PC /\ pc[r.owner] \in Holding \ {"locked"}
    BY <1>3 DEF PC, Holding, WaitedFor
  <2>3. QED
    BY <1>1, <2>1, <2>2, MovesAreTyped DEF Typed, TypeOK
<1>4. CASE WaitedFor(r) /\ label = "failed"
  <2>1. End(r.owner, "failed") /\ "failed" \in Ended
    BY <1>4 DEF OwnerSees, Ended
  <2>2. QED
    BY <1>1, <2>1, EndIsTyped
<1>5. QED
  BY <1>2, <1>3, <1>4

LEMMA RepackTyped ==
  ASSUME Typed, NEW r \in repackers, RepackShard(r) \/ RepackDone(r) \/ RepackFails(r)
  PROVE  Typed'
<1> USE DEF Typed
<1>0. r \in Repackers /\ r.owner \in Clients /\ r.model \in Commits /\ r.at \in 0..MaxSize
  BY DEF TypeOK, Repackers
<1>1. CASE RepackShard(r)
  <2> DEFINE next == [r EXCEPT !.at = @ + 1]
  <2>1. /\ Size[r.model] \in 1..MaxSize /\ MaxSize \in Nat
        /\ packed[r.model] \in 0..MaxSize /\ streamed[r.model] \in Nat
    BY <1>0, MaxSizeBounds DEF TypeOK
  <2>2. r.at + 1 \in 0..MaxSize
    BY <1>0, <1>1, <2>1 DEF RepackShard
  <2>3. next \in Repackers /\ next.at = r.at + 1
    BY <1>0, <2>2 DEF Repackers
  <2>4. Max({packed[r.model], next.at}) \in 0..MaxSize
    <3>1. packed[r.model] \in Nat /\ next.at \in Nat /\ next.at \in 0..MaxSize
      BY <2>1, <2>2, <2>3
    <3> HIDE DEF next
    <3>2. Max({packed[r.model], next.at}) \in {packed[r.model], next.at}
      BY <3>1, MaxOfTwo
    <3>3. QED
      BY <2>1, <3>1, <3>2
  <2>5. packed' \in [Commits -> 0..MaxSize] /\ repackers' \subseteq Repackers
    <3>1. repackers' = (repackers \ {r}) \cup {next}
      BY <1>1 DEF RepackShard
    <3>2. packed' = [packed EXCEPT ![r.model] = Max({packed[r.model], next.at})]
      BY <1>1 DEF RepackShard
    <3> HIDE DEF next
    <3>3. QED
      BY <2>3, <2>4, <3>1, <3>2 DEF TypeOK
  <2>6. streamed' \in [Commits -> Nat]
    <3>1. streamed' = [streamed EXCEPT ![r.model] = @ + 1]
      BY <1>1 DEF RepackShard
    <3>2. streamed[r.model] + 1 \in Nat
      BY <2>1
    <3>3. QED
      BY <1>0, <3>1, <3>2 DEF TypeOK
  <2>7. UNCHANGED <<hub, localVars, snapVars, verified, orphaned, manifests>>
    BY <1>1 DEF RepackShard
  <2>8. QED
    BY <2>5, <2>6, <2>7 DEF TypeOK, Targets, localVars, snapVars
<1>2. CASE RepackDone(r)
  <2>1. OwnerSees(r, "register")
          /\ UNCHANGED <<hub, job, allowed, target, snapVars, packed, streamed, orphaned,
                         manifests>>
    BY <1>2 DEF RepackDone
  <2>2. verified' \subseteq Commits /\ repackers' \subseteq Repackers
    BY <1>0, <1>2 DEF RepackDone, TypeOK
  <2>3. QED
    BY <2>1, <2>2, OwnerSeesTyped DEF TypeOK, Targets, snapVars
<1>3. CASE RepackFails(r)
  <2>1. OwnerSees(r, "failed")
          /\ UNCHANGED <<hub, job, allowed, target, snapVars, packed, verified, streamed,
                         orphaned, manifests>>
    BY <1>3 DEF RepackFails
  <2>2. repackers' \subseteq Repackers
    BY <1>3 DEF RepackFails, TypeOK
  <2>3. QED
    BY <2>1, <2>2, OwnerSeesTyped DEF TypeOK, Targets, snapVars
<1>4. QED
  BY <1>1, <1>2, <1>3

LEMMA EnvironmentTyped ==
  ASSUME Typed,
         \/ \E b \in Branches : HubMoves(b)
         \/ \E c \in Clients : Interrupted(c) \/ Killed(c)
         \/ PowerLoss
  PROVE  Typed'
<1> USE DEF Typed
<1>0. "dead" \in Ended
  BY DEF Ended
<1>1. ASSUME NEW b \in Branches, HubMoves(b) PROVE Typed'
  <2>1. hub' \in [Branches -> Commits]
    BY <1>1, SetsAssumption DEF HubMoves, TypeOK
  <2>2. QED
    BY <1>1, <2>1 DEF HubMoves, TypeOK, Targets, localVars, snapVars, packVars
<1>2. ASSUME NEW c \in Clients, Interrupted(c) PROVE Typed'
  <2>1. repackers' \subseteq Repackers
    BY <1>2 DEF Interrupted, TypeOK
  <2>2. QED
    BY <1>0, <1>2, <2>1, EndIsTyped DEF Interrupted, TypeOK, Targets, snapVars
<1>3. ASSUME NEW c \in Clients, Killed(c) PROVE Typed'
  BY <1>0, <1>3, EndIsTyped DEF Killed, TypeOK, Targets, snapVars
<1>4. CASE PowerLoss
  <2>1. \A c \in Clients : pc'[c] = pc[c] \/ pc'[c] = "dead"
    BY <1>4 DEF PowerLoss
  <2>2. pc' \in [Clients -> PC]
    BY <1>4 DEF PowerLoss, TypeOK, PC, Ended
  <2>3. repackers' = {} /\ lock' = Nobody
    BY <1>4 DEF PowerLoss
  <2>4. QED
    BY <1>4, <2>1, <2>2, <2>3 DEF PowerLoss, TypeOK, Targets, Holding, snapVars
<1>5. QED
  BY <1>1, <1>2, <1>3, <1>4

LEMMA NextTyped == Typed /\ [Next]_vars => Typed'
<1> SUFFICES ASSUME Typed, [Next]_vars PROVE Typed'
  OBVIOUS
<1>1. CASE UNCHANGED vars
  BY <1>1 DEF vars, localVars, snapVars, packVars, Typed, TypeOK, Targets
<1>2. CASE Next
  BY <1>2, StepTyped, RepackTyped, EnvironmentTyped DEF Next, Repack
<1>3. QED
  BY <1>1, <1>2

\* The types are preserved: a snapshot or a packed directory never holds more
\* than the largest model, and who works on a model has resolved it.
THEOREM TypeCorrect == Spec => []TypeOK
<1>1. Spec => []Typed
  BY InitTyped, NextTyped, PTL DEF Spec
<1>2. QED
  BY <1>1, PTL DEF Typed

LEMMA TypedHolds == Spec => []Typed
BY InitTyped, NextTyped, PTL DEF Spec

-------------------------------------------------------------------------------
(* The lock and the consent.                                                *)

LEMMA MovesKeepLock ==
  ASSUME Typed, LockHeld, NEW c \in Clients, NEW label, Goto(c, label), UNCHANGED lock,
         label \in Holding <=> pc[c] \in Holding
  PROVE  LockHeld'
BY DEF Typed, TypeOK, LockHeld, Goto

LEMMA EndKeepsLock ==
  ASSUME Typed, LockHeld, NEW c \in Clients, NEW label \in Ended, End(c, label)
  PROVE  LockHeld'
<1>1. label \notin Holding
  BY DEF Ended, Holding
<1>2. pc' = [pc EXCEPT ![c] = label] /\ lock' = IF lock = c THEN Nobody ELSE lock
  BY DEF End, Goto
<1>3. QED
  BY <1>1, <1>2, NobodyAssumption DEF Typed, TypeOK, LockHeld

LEMMA OwnerSeesKeepsLock ==
  ASSUME Typed, LockHeld, NEW r \in repackers, NEW label \in {"register", "failed"},
         OwnerSees(r, label)
  PROVE  LockHeld'
<1>1. r.owner \in Clients
  BY DEF Typed, TypeOK, Repackers
<1>2. CASE ~WaitedFor(r)
  BY <1>2 DEF OwnerSees, LockHeld
<1>3. CASE WaitedFor(r) /\ label = "register"
  <2>1. Goto(r.owner, "register") /\ UNCHANGED lock
    BY <1>3 DEF OwnerSees
  <2>2. "register" \in Holding /\ pc[r.owner] \in Holding
    BY <1>3 DEF Holding, WaitedFor
  <2>3. QED
    BY <1>1, <2>1, <2>2, MovesKeepLock
<1>4. CASE WaitedFor(r) /\ label = "failed"
  <2>1. End(r.owner, "failed") /\ "failed" \in Ended
    BY <1>4 DEF OwnerSees, Ended
  <2>2. QED
    BY <1>1, <2>1, EndKeepsLock
<1>5. QED
  BY <1>2, <1>3, <1>4

LEMMA InitLock == Init => LockHeld
BY NobodyAssumption DEF Init, LockHeld, Holding

LEMMA NextLock ==
  ASSUME Typed, LockHeld, [Next]_vars
  PROVE  LockHeld'
<1>0. /\ {"resolved", "download", "repack", "register", "locked"} \subseteq Holding
      /\ {"start", "asking", "waiting", "refused", "failed", "done", "dead"}
            \cap Holding = {}
      /\ {"refused", "failed", "done", "dead"} \subseteq Ended
  BY DEF Ended, Holding
<1>1. ASSUME NEW c \in Clients, PlanSetup(c) PROVE LockHeld'
  <2>1. PICK label \in {"refused", "waiting", "asking"} : Goto(c, label)
    BY <1>1 DEF PlanSetup
  <2>2. pc[c] \notin Holding /\ label \notin Holding
    BY <1>0, <1>1 DEF PlanSetup
  <2>3. QED
    BY <1>1, <2>1, <2>2, MovesKeepLock DEF PlanSetup
<1>2. ASSUME NEW c \in Clients, Acquire(c) PROVE LockHeld'
  BY <1>0, <1>2, NobodyAssumption DEF Acquire, Goto, Typed, TypeOK, LockHeld
<1>3. ASSUME NEW c \in Clients, ResolveRevision(c) PROVE LockHeld'
  BY <1>0, <1>3, MovesKeepLock DEF ResolveRevision
<1>4. ASSUME NEW c \in Clients, PlanFetch(c) PROVE LockHeld'
  BY <1>0, <1>4, MovesKeepLock, EndKeepsLock DEF PlanFetch
<1>5. ASSUME NEW c \in Clients, DownloadFile(c) PROVE LockHeld'
  BY <1>5 DEF DownloadFile, localVars, LockHeld
<1>6. ASSUME NEW c \in Clients, Downloaded(c) PROVE LockHeld'
  BY <1>0, <1>6, MovesKeepLock DEF Downloaded
<1>7. ASSUME NEW c \in Clients, PlanInstall(c) PROVE LockHeld'
  BY <1>0, <1>7, MovesKeepLock, EndKeepsLock DEF PlanInstall
<1>8. ASSUME NEW c \in Clients, Register(c) PROVE LockHeld'
  BY <1>0, <1>8, EndKeepsLock DEF Register
<1>9. ASSUME NEW c \in Clients, NetworkFails(c) PROVE LockHeld'
  BY <1>0, <1>9, EndKeepsLock DEF NetworkFails
<1>10. ASSUME NEW c \in Clients, Declines(c) PROVE LockHeld'
  BY <1>0, <1>10, MovesKeepLock DEF Declines
<1>11. ASSUME NEW c \in Clients, Confirms(c) PROVE LockHeld'
  BY <1>0, <1>11, MovesKeepLock DEF Confirms
<1>12. ASSUME NEW r \in repackers, RepackShard(r) PROVE LockHeld'
  BY <1>12 DEF RepackShard, localVars, LockHeld
<1>13. ASSUME NEW r \in repackers, RepackDone(r) PROVE LockHeld'
  BY <1>13, OwnerSeesKeepsLock DEF RepackDone
<1>14. ASSUME NEW r \in repackers, RepackFails(r) PROVE LockHeld'
  BY <1>14, OwnerSeesKeepsLock DEF RepackFails
<1>15. ASSUME NEW b \in Branches, HubMoves(b) PROVE LockHeld'
  BY <1>15 DEF HubMoves, localVars, LockHeld
<1>16. ASSUME NEW c \in Clients, Interrupted(c) PROVE LockHeld'
  BY <1>0, <1>16, EndKeepsLock DEF Interrupted
<1>17. ASSUME NEW c \in Clients, Killed(c) PROVE LockHeld'
  BY <1>0, <1>17, EndKeepsLock DEF Killed
<1>18. CASE PowerLoss
  <2>1. \A c \in Clients : pc[c] \in PC
    BY DEF Typed, TypeOK
  <2>2. \A c \in Clients : pc'[c] \notin Holding
    BY <1>18, <2>1 DEF PowerLoss, Holding, PC, Ended
  <2>3. QED
    BY <1>18, <2>2, NobodyAssumption DEF PowerLoss, LockHeld
<1>19. CASE UNCHANGED vars
  BY <1>19 DEF vars, localVars, LockHeld
<1>20. QED
  BY <1>1, <1>2, <1>3, <1>4, <1>5, <1>6, <1>7, <1>8, <1>9, <1>10, <1>11, <1>12, <1>13,
     <1>14, <1>15, <1>16, <1>17, <1>18, <1>19 DEF Next, Step, Repack

\* One client at a time is between taking the lock and its end.
LEMMA OneHolder ==
  ASSUME LockHeld, NEW c \in Clients, NEW b \in Clients,
         pc[c] \in Holding, pc[b] \in Holding
  PROVE  b = c
BY DEF LockHeld

\* What a step leaves of the consent: nobody's is taken back, and what was
\* verified stays so.
LEMMA ConsentIsKept ==
  ASSUME Typed, Next
  PROVE  /\ job' = job
         /\ \A c \in Clients : allowed[c] => allowed'[c]
         /\ verified \subseteq verified'
<1>1. ASSUME NEW c \in Clients, Step(c) \/ Declines(c)
      PROVE  job' = job /\ allowed' = allowed /\ verified' = verified
  BY <1>1 DEF Step, PlanSetup, Acquire, ResolveRevision, PlanFetch, DownloadFile,
      Downloaded, PlanInstall, Register, NetworkFails, Declines, localVars, packVars
<1>2. ASSUME NEW c \in Clients, Confirms(c)
      PROVE  /\ job' = job /\ verified' = verified
             /\ \A b \in Clients : allowed[b] => allowed'[b]
  BY <1>2 DEF Confirms, packVars, Typed, TypeOK
<1>3. ASSUME NEW r \in repackers, RepackShard(r) \/ RepackDone(r) \/ RepackFails(r)
      PROVE  job' = job /\ allowed' = allowed /\ verified \subseteq verified'
  BY <1>3 DEF RepackShard, RepackDone, RepackFails, localVars
<1>4. ASSUME \/ \E b \in Branches : HubMoves(b)
             \/ \E c \in Clients : Interrupted(c) \/ Killed(c)
             \/ PowerLoss
      PROVE  job' = job /\ allowed' = allowed /\ verified' = verified
  BY <1>4 DEF HubMoves, Interrupted, Killed, PowerLoss, localVars, packVars
<1>5. QED
  BY <1>1, <1>2, <1>3, <1>4 DEF Next, Repack

\* Only a setup that has consent, or whose model is verified, goes on to wait for
\* the lock.
LEMMA WaitingHasConsent ==
  ASSUME Typed, Consent, Next, NEW c \in Clients,
         pc'[c] \in {"waiting", "locked", "resolved"}
  PROVE  allowed[c] \/ job[c].ref \in verified
<1> DEFINE Before == {"waiting", "locked", "resolved"}
<1> USE DEF Typed
<1>0. {"waiting", "locked", "resolved"} \cap
        {"refused", "failed", "done", "dead", "asking", "start", "download", "repack",
         "register"} = {}
  OBVIOUS
<1>1. SUFFICES ASSUME pc[c] \notin Before PROVE allowed[c] \/ job[c].ref \in verified
  BY DEF Consent
<1>2. PlanSetup(c)
  <2>1. ASSUME NEW b \in Clients, NEW l, pc' = [pc EXCEPT ![b] = l], l \notin Before
        PROVE  FALSE
    BY <1>1, <2>1 DEF TypeOK
  <2>2. ASSUME NEW b \in Clients, Step(b) PROVE b = c /\ PlanSetup(c)
    <3>1. CASE PlanSetup(b)
      <4>1. pc' = [pc EXCEPT ![b] = pc'[b]]
        BY <3>1 DEF PlanSetup, Goto, TypeOK
      <4>2. QED
        BY <1>1, <3>1, <4>1 DEF TypeOK
    <3>2. CASE Acquire(b)
      BY <1>1, <3>2 DEF Acquire, Goto, TypeOK
    <3>3. CASE ResolveRevision(b)
      BY <1>1, <3>3 DEF ResolveRevision, Goto, TypeOK
    <3>4. CASE PlanFetch(b)
      BY <1>0, <2>1, <3>4 DEF PlanFetch, Goto, End
    <3>5. CASE DownloadFile(b)
      BY <1>1, <3>5 DEF DownloadFile, localVars
    <3>6. CASE Downloaded(b)
      BY <1>0, <2>1, <3>6 DEF Downloaded, Goto
    <3>7. CASE PlanInstall(b)
      BY <1>0, <2>1, <3>7 DEF PlanInstall, Goto, End
    <3>8. CASE Register(b)
      BY <1>0, <2>1, <3>8 DEF Register, Goto, End
    <3>9. CASE NetworkFails(b)
      BY <1>0, <2>1, <3>9 DEF NetworkFails, Goto, End
    <3>10. QED
      BY <2>2, <3>1, <3>2, <3>3, <3>4, <3>5, <3>6, <3>7, <3>8, <3>9 DEF Step
  <2>3. ASSUME NEW b \in Clients, Declines(b) \/ Confirms(b) PROVE FALSE
    BY <1>0, <2>1, <2>3 DEF Declines, Confirms, Goto
  <2>4. ASSUME NEW r \in repackers, RepackShard(r) \/ RepackDone(r) \/ RepackFails(r)
        PROVE  FALSE
    <3>1. r.owner \in Clients
      BY DEF TypeOK, Repackers
    <3>2. pc' = pc \/ pc' = [pc EXCEPT ![r.owner] = "register"]
            \/ pc' = [pc EXCEPT ![r.owner] = "failed"]
      BY <2>4 DEF RepackShard, RepackDone, RepackFails, OwnerSees, Goto, End, localVars
    <3>3. QED
      BY <1>0, <1>1, <2>1, <3>1, <3>2
  <2>5. ASSUME NEW b \in Branches, HubMoves(b) PROVE FALSE
    BY <1>1, <2>5 DEF HubMoves, localVars
  <2>6. ASSUME NEW b \in Clients, Interrupted(b) \/ Killed(b) PROVE FALSE
    BY <1>0, <2>1, <2>6 DEF Interrupted, Killed, Goto, End
  <2>7. ASSUME PowerLoss PROVE FALSE
    BY <1>1, <2>7 DEF PowerLoss
  <2>8. QED
    BY <2>2, <2>3, <2>4, <2>5, <2>6, <2>7 DEF Next, Repack
<1>3. QED
  BY <1>1, <1>2 DEF PlanSetup, Goto, TypeOK, NeedsConfirmation

\* A step adds a repacker only to install what is not verified, for a client that
\* went on to it with the lock.
LEMMA NewRepackers ==
  ASSUME Typed, Next, NEW q \in repackers'
  PROVE  \/ \E r \in repackers : q.owner = r.owner
         \/ /\ q.owner \in Clients /\ pc[q.owner] = "resolved"
            /\ job[q.owner].kind # "fetch" /\ target[q.owner] \notin verified
<1> USE DEF Typed
<1>1. ASSUME NEW c \in Clients, PlanInstall(c)
      PROVE  \/ q \in repackers
             \/ /\ q.owner = c /\ pc[c] = "resolved"
                /\ job[c].kind # "fetch" /\ target[c] \notin verified
  BY <1>1 DEF PlanInstall
<1>2. ASSUME NEW c \in Clients, Step(c) \/ Declines(c) \/ Confirms(c), ~PlanInstall(c)
      PROVE  q \in repackers
  BY <1>2 DEF Step, PlanSetup, Acquire, ResolveRevision, PlanFetch, DownloadFile,
      Downloaded, Register, NetworkFails, Declines, Confirms, packVars
<1>3. ASSUME NEW r \in repackers, RepackShard(r)
      PROVE  q \in repackers \/ q.owner = r.owner
  <2>1. [r EXCEPT !.at = @ + 1].owner = r.owner
    BY DEF TypeOK, Repackers
  <2>2. QED
    BY <1>3, <2>1 DEF RepackShard
<1>4. ASSUME NEW r \in repackers, RepackDone(r) \/ RepackFails(r)
      PROVE  q \in repackers
  BY <1>4 DEF RepackDone, RepackFails
<1>5. ASSUME \/ \E b \in Branches : HubMoves(b)
             \/ \E c \in Clients : Interrupted(c) \/ Killed(c)
             \/ PowerLoss
      PROVE  q \in repackers
  BY <1>5 DEF HubMoves, Interrupted, Killed, PowerLoss, packVars
<1>6. QED
  BY <1>1, <1>2, <1>3, <1>4, <1>5 DEF Next, Repack

LEMMA InitConsent == Init => Consent
<1> SUFFICES ASSUME Init PROVE Consent
  OBVIOUS
<1>1. \A c \in Clients : allowed[c] = job[c].consent
  BY DEF Init
<1>2. \A c \in Clients : job[c].kind # "setup" => allowed[c]
  BY <1>1, JobFields DEF Init
<1>3. \A c \in Clients : pc[c] \in {"waiting", "locked", "resolved"} => job[c].kind # "setup"
  BY DEF Init
<1>4. QED
  BY <1>2, <1>3 DEF Init, Consent, TransfersConsented

LEMMA NextConsent ==
  ASSUME Typed, Consent, [Next]_vars
  PROVE  Consent'
<1>1. CASE UNCHANGED vars
  BY <1>1 DEF vars, localVars, packVars, Consent, TransfersConsented
<1>2. CASE Next
  <2>1. /\ job' = job
        /\ \A c \in Clients : allowed[c] => allowed'[c]
        /\ verified \subseteq verified'
    BY <1>2, ConsentIsKept
  <2>2. ASSUME NEW c \in Clients, job'[c].kind # "setup" PROVE allowed'[c]
    BY <2>1, <2>2 DEF Consent
  <2>3. ASSUME NEW c \in Clients, pc'[c] \in {"waiting", "locked", "resolved"}
        PROVE  allowed'[c] \/ job'[c].ref \in verified'
    BY <1>2, <2>1, <2>3, WaitingHasConsent
  <2>4. ASSUME NEW q \in repackers' PROVE allowed'[q.owner]
    <3>1. CASE \E r \in repackers : q.owner = r.owner
      <4>1. PICK r \in repackers : q.owner = r.owner
        BY <3>1
      <4>2. r.owner \in Clients /\ allowed[r.owner]
        BY DEF Typed, TypeOK, Repackers, Consent, TransfersConsented
      <4>3. QED
        BY <2>1, <4>1, <4>2
    <3>2. CASE /\ q.owner \in Clients /\ pc[q.owner] = "resolved"
               /\ job[q.owner].kind # "fetch" /\ target[q.owner] \notin verified
      <4>1. target[q.owner] = job[q.owner].ref
        BY <3>2 DEF Typed, Targets, Holding
      <4>2. allowed[q.owner]
        BY <3>2, <4>1 DEF Consent
      <4>3. QED
        BY <2>1, <3>2, <4>2
    <3>3. QED
      BY <1>2, <3>1, <3>2, NewRepackers
  <2>5. QED
    BY <2>2, <2>3, <2>4 DEF Consent, TransfersConsented
<1>3. QED
  BY <1>1, <1>2

\* Nothing is transferred for a setup that was neither given allow_download nor
\* answered yes, although the plan that looked at the consent held no lock: what
\* it found verified then cannot have gone when the install is planned again.
THEOREM TransfersAreConsented == Spec => []TransfersConsented
<1>1. Spec => []Consent
  BY InitConsent, NextConsent, TypedHolds, PTL DEF Spec
<1>2. QED
  BY <1>1, PTL DEF Consent

-------------------------------------------------------------------------------
(* The transfers.                                                           *)

LEMMA OneRepacker ==
  ASSUME Typed, LockHeld, Watched, ~orphaned, NEW r \in repackers
  PROVE  /\ r.owner \in Clients /\ lock = r.owner /\ pc[r.owner] = "repack"
         /\ repackers = {r}
<1>1. \A q \in repackers : q.owner \in Clients /\ pc[q.owner] = "repack"
  BY DEF Typed, TypeOK, Repackers, Watched, WaitedFor
<1>2. \A q \in repackers : lock = q.owner
  BY <1>1 DEF LockHeld, Holding
<1>3. \A q \in repackers : q = r
  BY <1>2 DEF Watched
<1>4. QED
  BY <1>1, <1>2, <1>3

\* Who holds the lock for something else has no repacker beside it.
LEMMA NoRepacker ==
  ASSUME Typed, LockHeld, Watched, ~orphaned, NEW c \in Clients,
         pc[c] \in Holding, pc[c] # "repack"
  PROVE  repackers = {}
<1>1. SUFFICES ASSUME NEW r \in repackers PROVE FALSE
  OBVIOUS
<1>2. QED
  BY OneRepacker, OneHolder DEF Holding

\* What can happen to the bytes of the store: nothing, or one of four steps.
Quiet ==
  /\ UNCHANGED <<orphaned, packed, streamed, snapVars>>
  /\ repackers' \subseteq repackers
  /\ \A c \in Clients :
       pc'[c] = "download" => pc[c] = "download" /\ target'[c] = target[c]
  /\ \A r \in repackers' :
       pc'[r.owner] = pc[r.owner] /\ target'[r.owner] = target[r.owner]

StartsDownload(c) ==
  /\ pc[c] = "resolved" /\ DownloadFits(target[c])
  /\ pc' = [pc EXCEPT ![c] = "download"]
  /\ UNCHANGED <<target, lock, snapVars, packVars>>

StartsRepacker(c) ==
  LET m == target[c]
  IN /\ pc[c] = "resolved" /\ job[c].kind # "fetch"
     /\ m \notin verified /\ PackFits(m)
     /\ packed' = IF Resumes(m) THEN packed ELSE [packed EXCEPT ![m] = 0]
     /\ repackers' = repackers \cup {[owner |-> c, model |-> m, at |-> packed'[m]]}
     /\ pc' = [pc EXCEPT ![c] = "repack"]
     /\ UNCHANGED <<target, snapVars, streamed, orphaned>>

\* One client moves elsewhere than to a download, and its repackers stay.
LEMMA MoveIsQuiet ==
  ASSUME Typed, Watched, ~orphaned, NEW c \in Clients, pc[c] # "repack", NEW label,
         label # "download", pc' = [pc EXCEPT ![c] = label],
         \/ target' = target
         \/ \E m : target' = [target EXCEPT ![c] = m],
         UNCHANGED <<orphaned, packed, streamed, snapVars, repackers>>
  PROVE  Quiet
<1>1. \A r \in repackers : r.owner \in Clients /\ pc[r.owner] = "repack"
  BY DEF Typed, TypeOK, Repackers, Watched, WaitedFor
<1>2. \A b \in Clients : b # c => pc'[b] = pc[b] /\ target'[b] = target[b]
  BY DEF Typed, TypeOK
<1>3. pc'[c] = label
  BY DEF Typed, TypeOK
<1>4. QED
  BY <1>1, <1>2, <1>3 DEF Quiet

LEMMA StepTransfers ==
  ASSUME Typed, Watched, ~orphaned, NEW c \in Clients,
         Step(c) \/ Declines(c) \/ Confirms(c)
  PROVE  Quiet \/ StartsDownload(c) \/ DownloadFile(c) \/ StartsRepacker(c)
<1>1. CASE PlanSetup(c)
  <2>1. PICK label \in {"refused", "waiting", "asking"} : Goto(c, label)
    BY <1>1 DEF PlanSetup
  <2>2. QED
    BY <1>1, <2>1, MoveIsQuiet DEF PlanSetup, Goto, packVars
<1>2. CASE Acquire(c)
  BY <1>2, MoveIsQuiet DEF Acquire, Goto, packVars
<1>3. CASE ResolveRevision(c)
  BY <1>3, MoveIsQuiet DEF ResolveRevision, Goto, packVars
<1>4. CASE PlanFetch(c)
  <2>1. CASE Goto(c, "download") /\ DownloadFits(target[c]) /\ UNCHANGED lock
    BY <1>4, <2>1 DEF PlanFetch, StartsDownload, Goto
  <2>2. CASE Goto(c, "register") \/ End(c, "refused")
    BY <1>4, <2>2, MoveIsQuiet DEF PlanFetch, Goto, End, packVars
  <2>3. QED
    BY <1>4, <2>1, <2>2 DEF PlanFetch
<1>5. CASE DownloadFile(c)
  BY <1>5
<1>6. CASE Downloaded(c)
  BY <1>6, MoveIsQuiet DEF Downloaded, Goto, packVars
<1>7. CASE PlanInstall(c)
  <2>1. CASE (Goto(c, "register") \/ End(c, "refused")) /\ UNCHANGED <<packed, repackers>>
    BY <1>7, <2>1, MoveIsQuiet DEF PlanInstall, Goto, End
  <2>2. CASE Goto(c, "repack") /\ target[c] \notin verified /\ PackFits(target[c])
             /\ packed' = (IF Resumes(target[c]) THEN packed
                           ELSE [packed EXCEPT ![target[c]] = 0])
             /\ repackers' = repackers \cup
                  {[owner |-> c, model |-> target[c], at |-> packed'[target[c]]]}
    BY <1>7, <2>2 DEF PlanInstall, StartsRepacker, Goto
  <2>3. QED
    BY <1>7, <2>1, <2>2 DEF PlanInstall
<1>8. CASE Register(c)
  BY <1>8, MoveIsQuiet DEF Register, Goto, End, packVars
<1>9. CASE NetworkFails(c)
  BY <1>9, MoveIsQuiet DEF NetworkFails, Goto, End, packVars
<1>10. CASE Declines(c)
  BY <1>10, MoveIsQuiet DEF Declines, Goto, packVars
<1>11. CASE Confirms(c)
  BY <1>11, MoveIsQuiet DEF Confirms, Goto, packVars
<1>12. QED
  BY <1>1, <1>2, <1>3, <1>4, <1>5, <1>6, <1>7, <1>8, <1>9, <1>10, <1>11 DEF Step

LEMMA RepackEndsQuietly ==
  ASSUME Typed, LockHeld, Watched, ~orphaned, NEW r \in repackers,
         RepackDone(r) \/ RepackFails(r)
  PROVE  Quiet
<1>1. repackers' = {}
  BY OneRepacker DEF RepackDone, RepackFails
<1>2. r.owner \in Clients
  BY OneRepacker
<1>3. pc' = pc \/ \E label \in {"register", "failed"} : pc' = [pc EXCEPT ![r.owner] = label]
  BY DEF RepackDone, RepackFails, OwnerSees, Goto, End
<1>4. \A c \in Clients : pc'[c] = "download" => pc[c] = "download"
  BY <1>2, <1>3 DEF Typed, TypeOK
<1>5. QED
  BY <1>1, <1>4 DEF Quiet, RepackDone, RepackFails

LEMMA EnvironmentIsQuiet ==
  ASSUME Typed, Watched, ~orphaned,
         \/ \E b \in Branches : HubMoves(b)
         \/ \E c \in Clients : Interrupted(c)
         \/ PowerLoss
  PROVE  Quiet
<1>1. ASSUME NEW b \in Branches, HubMoves(b) PROVE Quiet
  BY <1>1 DEF HubMoves, Quiet, localVars, packVars
<1>2. ASSUME NEW c \in Clients, Interrupted(c) PROVE Quiet
  <2>1. pc' = [pc EXCEPT ![c] = "dead"]
    BY <1>2 DEF Interrupted, End, Goto
  <2>2. \A b \in Clients : b # c => pc'[b] = pc[b]
    BY <2>1 DEF Typed, TypeOK
  <2>3. \A r \in repackers : r.owner \in Clients
    BY DEF Typed, TypeOK, Repackers
  <2>4. pc'[c] = "dead"
    BY <2>1 DEF Typed, TypeOK
  <2>5. QED
    BY <1>2, <2>2, <2>3, <2>4 DEF Interrupted, Quiet
<1>3. CASE PowerLoss
  BY <1>3 DEF PowerLoss, Quiet
<1>4. QED
  BY <1>1, <1>2, <1>3

LEMMA NextTransfers ==
  ASSUME Typed, LockHeld, Watched, ~orphaned, Next
  PROVE  \/ Quiet
         \/ \E c \in Clients : StartsDownload(c) \/ DownloadFile(c) \/ StartsRepacker(c)
         \/ \E r \in repackers : RepackShard(r)
         \/ orphaned' /\ UNCHANGED <<packed, snapVars>>
<1>1. ASSUME NEW c \in Clients, Killed(c) PROVE orphaned' /\ UNCHANGED <<packed, snapVars>>
  BY <1>1 DEF Killed
<1>2. QED
  BY <1>1, StepTransfers, RepackEndsQuietly, EnvironmentIsQuiet DEF Next, Repack

\* The three parts of the invariant that a repacker without its client ends.
Transfers == Watched /\ Streaming /\ Room

LEMMA QuietTransfers ==
  ASSUME Typed, Transfers, ~orphaned, Quiet
  PROVE  Transfers'
<1> USE DEF Transfers, Quiet
<1>1. Watched'
  BY DEF Watched, WaitedFor
<1>2. Streaming'
  BY DEF Streaming, SnapshotExists, LooksComplete, snapVars
<1>3. Room'
  <2>1. UNCHANGED <<Bytes(packed), Bytes(shards), StoreBytes, Free>>
    BY DEF Free, StoreBytes, snapVars
  <2>2. RoomFor(0, Bytes(packed))' /\ RoomFor(0, Bytes(shards))'
    BY <2>1 DEF Room, RoomFor
  <2>3. ASSUME NEW c \in Clients, pc'[c] = "download"
        PROVE  RoomFor(Size[target[c]] - shards[target[c]], StoreBytes)'
    BY <2>1, <2>3 DEF Room, RoomFor, snapVars
  <2>4. ASSUME NEW r \in repackers'
        PROVE  RoomFor(Size[r.model] - r.at, Bytes(packed))'
    BY <2>1, <2>4 DEF Room, RoomFor
  <2>5. QED
    BY <2>2, <2>3, <2>4 DEF Room
<1>4. QED
  BY <1>1, <1>2, <1>3

LEMMA StartsDownloadTransfers ==
  ASSUME Typed, LockHeld, Transfers, ~orphaned, NEW c \in Clients, StartsDownload(c)
  PROVE  Transfers'
<1> USE DEF Transfers, Typed
<1>1. /\ repackers = {} /\ repackers' = {} /\ UNCHANGED <<packed, streamed, snapVars>>
      /\ target' = target
  BY NoRepacker DEF StartsDownload, packVars, Holding
<1>2. Watched'
  BY <1>1 DEF Watched
<1>3. Streaming'
  BY <1>1 DEF Streaming, StartsDownload, packVars
<1>4. \A b \in Clients : pc'[b] = "download" => b = c
  BY OneHolder DEF StartsDownload, TypeOK, Holding
<1>5. target[c] \in Commits
  BY DEF StartsDownload, Targets, Holding
<1>6. RoomFor(Size[target[c]] - shards[target[c]], StoreBytes)
  <2>1. shards[target[c]] \in Nat /\ Size[target[c]] \in Nat
    BY <1>5, BytesAssumption DEF TypeOK
  <2>2. Bytes(packed) \in Nat /\ Bytes(shards) \in Nat
    BY BytesType DEF TypeOK, Counts
  <2>3. DownloadFits(target[c])
    BY DEF StartsDownload
  <2>4. QED
    BY <2>1, <2>2, <2>3, BytesAssumption DEF DownloadFits, RoomFor, Free, StoreBytes
<1>7. UNCHANGED <<Bytes(packed), Bytes(shards), StoreBytes, Free>>
  BY <1>1 DEF Free, StoreBytes, snapVars
<1>8. Room'
  BY <1>1, <1>4, <1>6, <1>7 DEF Room, RoomFor, snapVars
<1>9. QED
  BY <1>2, <1>3, <1>8

LEMMA DownloadFileTransfers ==
  ASSUME Typed, LockHeld, Transfers, ~orphaned, NEW c \in Clients, DownloadFile(c)
  PROVE  Transfers'
<1> USE DEF Transfers, Typed
<1> DEFINE m == target[c]
<1>1. /\ repackers = {} /\ UNCHANGED <<orphaned, repackers, packed, streamed, pc, target>>
      /\ pc[c] = "download" /\ m \in Commits
  BY NoRepacker DEF DownloadFile, localVars, packVars, Holding, Targets
<1>2. Watched'
  BY <1>1 DEF Watched
<1>3. Streaming'
  BY <1>1 DEF Streaming
<1>4. \A b \in Clients : pc'[b] = "download" => b = c
  BY <1>1, OneHolder DEF Holding
<1>5. /\ Bytes(packed) \in Nat /\ Bytes(shards) \in Nat
      /\ shards[m] \in Nat /\ Size[m] \in Nat /\ Size[m] <= MaxSize /\ MaxSize \in Nat
  BY <1>1, BytesType, BytesAssumption, MaxSizeBounds DEF TypeOK, Counts
<1>6. RoomFor(Size[m] - shards[m], StoreBytes) /\ RoomFor(0, Bytes(shards))
        /\ RoomFor(0, Bytes(packed))
  BY <1>1 DEF Room
<1>7. CASE UNCHANGED shards
  <2>1. UNCHANGED <<Bytes(packed), Bytes(shards), StoreBytes, Free>>
    BY <1>1, <1>7 DEF Free, StoreBytes
  <2>2. Room'
    BY <1>1, <1>4, <1>6, <1>7, <2>1 DEF Room, RoomFor
  <2>3. QED
    BY <1>2, <1>3, <2>2
<1>8. CASE shards[m] < Size[m] /\ shards' = [shards EXCEPT ![m] = @ + 1]
  <2>1. Bytes(shards)' = Bytes(shards) + 1
    <3>1. shards[m] < MaxSize
      BY <1>5, <1>8
    <3>2. Bytes(shards') = Bytes(shards) + 1
      BY <1>1, <1>8, <3>1, BytesGrowByOne DEF TypeOK, Counts
    <3>3. QED
      BY <3>2
  <2>2. Bytes(packed)' = Bytes(packed)
    BY <1>1
  <2>3. shards'[m] = shards[m] + 1
    BY <1>1, <1>8 DEF TypeOK
  <2>4. Free' = Free - 1 /\ StoreBytes' = StoreBytes + 1
    BY <1>5, <2>1, <2>2, BytesAssumption DEF Free, StoreBytes
  <2>5. Free \in Int /\ StoreBytes \in Nat /\ Reserve \in Nat /\ StoreLimit \in Nat
    BY <1>5, BytesAssumption DEF Free, StoreBytes
  <2>6. RoomFor(0, Bytes(packed))' /\ RoomFor(0, Bytes(shards))'
    BY <1>5, <1>6, <1>8, <2>1, <2>2, <2>4, <2>5 DEF RoomFor, StoreBytes
  <2>7. RoomFor(Size[m] - shards[m], StoreBytes)'
    BY <1>1, <1>5, <1>6, <1>8, <2>3, <2>4, <2>5 DEF RoomFor
  <2>8. Room'
    BY <1>1, <1>4, <2>6, <2>7 DEF Room
  <2>9. QED
    BY <1>2, <1>3, <2>8
<1>9. QED
  BY <1>7, <1>8 DEF DownloadFile

LEMMA StartsRepackerTransfers ==
  ASSUME Typed, LockHeld, Transfers, ~orphaned, NEW c \in Clients, StartsRepacker(c)
  PROVE  Transfers'
<1> USE DEF Transfers, Typed
<1> DEFINE m == target[c]
           r == [owner |-> c, model |-> m, at |-> packed[m]]
<1>1. /\ repackers = {} /\ UNCHANGED <<orphaned, streamed, snapVars, target>>
      /\ pc[c] = "resolved" /\ m \in Commits
  BY NoRepacker DEF StartsRepacker, Holding, Targets
<1>2. packed[m] \in Nat /\ Size[m] \in Nat
  BY <1>1, BytesAssumption DEF TypeOK
<1>3. packed' = packed
  <2>1. CASE Resumes(m)
    BY <2>1 DEF StartsRepacker
  <2>2. CASE ~Resumes(m)
    <3>1. packed[m] = 0
      BY <1>2, <2>2 DEF Resumes
    <3>2. QED
      BY <2>2, <3>1 DEF StartsRepacker, TypeOK
  <2>3. QED
    BY <2>1, <2>2
<1>4. repackers' = {r}
  BY <1>1, <1>3 DEF StartsRepacker
<1>5. pc' = [pc EXCEPT ![c] = "repack"] /\ pc'[c] = "repack"
  BY DEF StartsRepacker, TypeOK
<1>6. Watched'
  BY <1>1, <1>4, <1>5 DEF Watched, WaitedFor
<1>7. PackFits(m)
  BY DEF StartsRepacker
<1>8. Streaming'
  BY <1>1, <1>3, <1>4, <1>7 DEF Streaming, PackFits, SnapshotExists, LooksComplete, snapVars
<1>9. \A b \in Clients : pc'[b] # "download"
  BY <1>1, <1>5, OneHolder DEF TypeOK, Holding
<1>10. UNCHANGED <<Bytes(packed), Bytes(shards), StoreBytes, Free>>
  BY <1>1, <1>3 DEF Free, StoreBytes, snapVars
<1>11. RoomFor(Size[m] - packed[m], Bytes(packed))
  <2>1. Bytes(packed) \in Nat /\ Bytes(shards) \in Nat
    BY BytesType DEF TypeOK, Counts
  <2>2. QED
    BY <1>2, <1>7, <2>1, BytesAssumption DEF PackFits, RoomFor, Free, StoreBytes
<1>12. Room'
  BY <1>1, <1>4, <1>9, <1>10, <1>11 DEF Room, RoomFor
<1>13. QED
  BY <1>6, <1>8, <1>12

LEMMA RepackShardTransfers ==
  ASSUME Typed, LockHeld, Transfers, ~orphaned, NEW r \in repackers, RepackShard(r)
  PROVE  Transfers'
<1> USE DEF Transfers, Typed
<1> DEFINE m == r.model
           next == [r EXCEPT !.at = @ + 1]
<1>1. /\ r \in Repackers /\ repackers = {r}
      /\ r.owner \in Clients /\ m \in Commits /\ r.at \in Nat
      /\ pc[r.owner] = "repack" /\ target[r.owner] = m
  BY OneRepacker DEF TypeOK, Repackers, Watched
<1>2. next.owner = r.owner /\ next.model = m /\ next.at = r.at + 1
  BY <1>1 DEF Repackers
<1>3. repackers' = {next} /\ UNCHANGED <<orphaned, snapVars, pc, target>>
  BY <1>1 DEF RepackShard, localVars
<1>4. Watched'
  <2> HIDE DEF next
  <2>1. QED
    BY <1>1, <1>2, <1>3 DEF Watched, WaitedFor
<1>5. /\ packed[m] = r.at /\ ~SnapshotExists(m) /\ r.at < Size[m]
      /\ streamed[m] = packed[m]
  BY <1>1 DEF Streaming, RepackShard
<1>6. packed' = [packed EXCEPT ![m] = @ + 1]
  <2>1. packed' = [packed EXCEPT ![m] = Max({packed[m], next.at})]
    BY DEF RepackShard
  <2>2. Max({packed[m], next.at}) = packed[m] + 1
    <3>1. packed[m] \in Nat /\ next.at \in Nat /\ next.at = packed[m] + 1
      BY <1>1, <1>2, <1>5
    <3> HIDE DEF next
    <3>2. QED
      BY <3>1, MaxOfTwo
  <2> HIDE DEF next
  <2>3. QED
    BY <2>1, <2>2
<1>7. streamed' = [streamed EXCEPT ![m] = @ + 1]
  BY DEF RepackShard
<1>8. /\ Bytes(packed) \in Nat /\ Bytes(shards) \in Nat /\ Size[m] \in Nat
      /\ Size[m] <= MaxSize /\ MaxSize \in Nat
  BY <1>1, BytesType, BytesAssumption, MaxSizeBounds DEF TypeOK, Counts
<1>9. packed'[m] = r.at + 1 /\ streamed'[m] = r.at + 1
        /\ \A n \in Commits \ {m} : packed'[n] = packed[n] /\ streamed'[n] = streamed[n]
  BY <1>1, <1>5, <1>6, <1>7 DEF TypeOK
<1>10. Streaming'
  <2>1. \A n \in Commits : streamed'[n] = packed'[n] /\ packed'[n] <= Size[n]
    BY <1>1, <1>5, <1>8, <1>9 DEF Streaming
  <2>2. ~SnapshotExists(m)'
    BY <1>3, <1>5 DEF SnapshotExists, LooksComplete, snapVars
  <2> HIDE DEF next
  <2>3. QED
    BY <1>2, <1>3, <1>9, <2>1, <2>2 DEF Streaming, SnapshotExists, LooksComplete
<1>11. Bytes(packed)' = Bytes(packed) + 1
  <2>1. packed[m] < MaxSize
    BY <1>1, <1>5, <1>8
  <2>2. Bytes(packed') = Bytes(packed) + 1
    BY <1>1, <1>6, <2>1, BytesGrowByOne DEF TypeOK, Counts
  <2>3. QED
    BY <2>2
<1>12. Bytes(shards)' = Bytes(shards)
  BY <1>3 DEF snapVars
<1>13. Free' = Free - 1 /\ Free \in Int /\ Reserve \in Nat /\ StoreLimit \in Nat
  BY <1>8, <1>11, <1>12, BytesAssumption DEF Free, StoreBytes
<1>14. RoomFor(Size[m] - r.at, Bytes(packed)) /\ RoomFor(0, Bytes(shards))
  BY <1>1 DEF Room
<1>15. \A c \in Clients : pc'[c] # "download"
  BY <1>1, <1>3, OneHolder DEF Holding
<1>16. RoomFor(0, Bytes(packed))' /\ RoomFor(0, Bytes(shards))'
  BY <1>1, <1>5, <1>8, <1>11, <1>12, <1>13, <1>14 DEF RoomFor
<1>17. RoomFor(Size[m] - (r.at + 1), Bytes(packed))'
  BY <1>1, <1>5, <1>8, <1>11, <1>13, <1>14 DEF RoomFor
<1>18. Room'
  <2> HIDE DEF next
  <2>1. QED
    BY <1>2, <1>3, <1>15, <1>16, <1>17 DEF Room, RoomFor
<1>19. QED
  BY <1>4, <1>10, <1>18

LEMMA InitTransfers == Init => Transfers
<1> SUFFICES ASSUME Init PROVE Transfers
  OBVIOUS
<1>1. repackers = {}
  BY DEF Init
<1>2. Watched
  BY <1>1 DEF Watched
<1>3. Streaming
  BY <1>1, BytesAssumption DEF Init, Streaming
<1>4. Bytes(packed) = 0 /\ Bytes(shards) = 0
  BY BytesOfNothing DEF Init
<1>5. \A c \in Clients : pc[c] # "download"
  BY DEF Init
<1>6. Room
  BY <1>1, <1>4, <1>5, BytesAssumption DEF Room, RoomFor, Free, StoreBytes
<1>7. QED
  BY <1>2, <1>3, <1>6 DEF Transfers

LEMMA OrphanStays ==
  ASSUME Typed, orphaned, [Next]_vars
  PROVE  orphaned'
BY DEF Next, Step, Repack, PlanSetup, Acquire, ResolveRevision, PlanFetch, DownloadFile,
   Downloaded, PlanInstall, Register, NetworkFails, Declines, Confirms, RepackShard,
   RepackDone, RepackFails, HubMoves, Interrupted, Killed, PowerLoss, packVars, vars

LEMMA NextTransfersHold ==
  ASSUME Typed, LockHeld, Transfers, [Next]_vars
  PROVE  Transfers'
<1>1. CASE orphaned'
  BY <1>1 DEF Transfers, Watched, Streaming, Room
<1>2. CASE ~orphaned' /\ UNCHANGED vars
  <2>1. Quiet /\ ~orphaned
    BY <1>2 DEF Quiet, vars, localVars, packVars
  <2>2. QED
    BY <2>1, QuietTransfers
<1>3. CASE ~orphaned' /\ Next
  <2>1. ~orphaned
    BY <1>3, OrphanStays
  <2>2. QED
    BY <1>3, <2>1, NextTransfers, QuietTransfers, StartsDownloadTransfers,
       DownloadFileTransfers, StartsRepackerTransfers, RepackShardTransfers DEF Transfers
<1>4. QED
  BY <1>1, <1>2, <1>3

LEMMA TransfersHold == Spec => [](Typed /\ LockHeld /\ Transfers)
<1>1. Init => Typed /\ LockHeld /\ Transfers
  BY InitTyped, InitLock, InitTransfers
<1>2. Typed /\ LockHeld /\ Transfers /\ [Next]_vars => (Typed /\ LockHeld /\ Transfers)'
  BY NextTyped, NextLock, NextTransfersHold
<1>3. QED
  BY <1>1, <1>2, PTL DEF Spec

\* The store leaves the disk reserve free and keeps to its limits, whoever plans,
\* is interrupted and resumes: plans are made under the lock that covers what
\* they start, so there is always room for what the transfer has still to bring.
THEOREM LimitsAreKept == Spec => []LimitsKept
<1>1. Typed /\ Transfers => LimitsKept
  <2>1. SUFFICES ASSUME Typed, Transfers, ~orphaned
                 PROVE  Free >= Reserve /\ Bytes(packed) <= StoreLimit
                          /\ Bytes(shards) <= StoreLimit
    BY DEF LimitsKept
  <2>2. Bytes(packed) \in Nat /\ Bytes(shards) \in Nat
    BY <2>1, BytesType DEF Typed, TypeOK, Counts
  <2>3. QED
    BY <2>1, <2>2, BytesAssumption DEF Transfers, Room, RoomFor, Free, StoreBytes
<1>2. QED
  BY <1>1, TransfersHold, PTL

\* No byte of a model is streamed twice: the repacker that resumes goes on where
\* the directory ends, and it is the only one.
THEOREM NothingIsStreamedTwice == Spec => []NothingStreamedTwice
<1>1. Transfers => NothingStreamedTwice
  BY DEF Transfers, Streaming, NothingStreamedTwice
<1>2. QED
  BY <1>1, TransfersHold, PTL

\* No repacker streams a model of which a snapshot is found: none can appear while
\* it works, since the fetch that would bring it needs the lock.
THEOREM NoTransferBesideASnapshot == Spec => NoSecondTransfer
<1> DEFINE Single == \A m \in Commits :
                       packed'[m] > packed[m] /\ ~orphaned => ~SnapshotExists(m)
<1>1. Typed /\ LockHeld /\ Transfers /\ [Next]_vars => [Single]_vars
  <2>1. SUFFICES ASSUME Typed, LockHeld, Transfers, Next, ~orphaned,
                        NEW m \in Commits, packed'[m] > packed[m]
                 PROVE  ~SnapshotExists(m)
    OBVIOUS
  <2>2. packed[m] \in Nat
    BY <2>1, MaxSizeBounds DEF Typed, TypeOK
  <2>3. ASSUME NEW c \in Clients, StartsRepacker(c) PROVE FALSE
    <3>1. packed' = packed \/ packed' = [packed EXCEPT ![target[c]] = 0]
      BY <2>3 DEF StartsRepacker
    <3>2. packed'[m] = packed[m] \/ packed'[m] = 0
      BY <2>1, <3>1 DEF Typed, TypeOK
    <3>3. QED
      BY <2>1, <2>2, <3>2
  <2>4. PICK r \in repackers : RepackShard(r)
    <3>1. packed' # packed
      BY <2>1, <2>2
    <3>2. QED
      BY <2>1, <2>3, <3>1, NextTransfers
        DEF Transfers, Quiet, StartsDownload, DownloadFile, packVars
  <2>5. m = r.model
    <3>1. \A n \in Commits : n # r.model => packed'[n] = packed[n]
      BY <2>1, <2>4 DEF RepackShard, Typed, TypeOK
    <3>2. QED
      BY <2>1, <2>2, <3>1
  <2>6. QED
    BY <2>1, <2>4, <2>5 DEF Transfers, Streaming
<1>2. Single <=> \A m \in Commits :
                   packed'[m] > packed[m] /\ ~orphaned => ~SnapshotExists(m)
  OBVIOUS
<1> HIDE DEF Single
<1>3. Spec => [][Single]_vars
  BY <1>1, TransfersHold, PTL DEF Spec
<1>4. QED
  BY <1>3 DEF NoSecondTransfer, Single
===============================================================================
