--------------------------- MODULE ExpertCacheProofs ---------------------------
(***************************************************************************)
(* Proofs about ExpertCache for every number of slots, layers and experts: *)
(* its types, that a published identity never lies and a GPU command only  *)
(* reads exact nonvolatile bytes, that the cache implements ExactStore,    *)
(* that its receipt adds up, and that cold slots are offered in time.      *)
(***************************************************************************)
EXTENDS ExpertCache, FiniteSetTheorems, TLAPS

USE SlotsAssumption, LayersAssumption, ExpertsAssumption, HotAssumption, BoundsAssumption

-------------------------------------------------------------------------------
(* What relocking a set of slots does.                                      *)

LEMMA CountsAreNatural ==
  ASSUME NEW S \in SUBSET Slots
  PROVE  Cardinality(S) \in Nat
BY FS_Subset, FS_CardinalityType

LEMMA RelockTypes ==
  ASSUME TypeOK, NEW R \in SUBSET Slots
  PROVE  /\ ResidencyRelocking(R) \in [Slots -> Residency]
         /\ ContentsRelocking(R) \in [Slots -> Experts \cup {Undefined, Emptied}]
         /\ ExpertRelocking(R) \in [Slots -> Experts \cup {None}]
         /\ LastUseRelocking(R) \in [Slots -> Nat]
         /\ StatsRelocking(R) \in [Counters -> Nat]
<1>1. /\ Cardinality(Off(R)) \in Nat
      /\ Cardinality(Recovered(R)) \in Nat
      /\ Cardinality(Off(R) \ Recovered(R)) \in Nat
      /\ Cardinality({s \in Recovered(R) : slotExpert[s] # None}) \in Nat
  BY CountsAreNatural DEF Off, Recovered
<1>2. StatsRelocking(R) \in [Counters -> Nat]
  <2>1. ASSUME NEW st \in [Counters -> Nat],
               NEW a \in Nat, NEW b \in Nat, NEW c \in Nat, NEW d \in Nat
        PROVE  [st EXCEPT !["revalidations"] = @ + a, !["emptyRecoveries"] = @ + b,
                          !["retainedRevalidations"] = @ + c, !["invalidatedSlots"] = @ + d]
                 \in [Counters -> Nat]
    BY DEF Counters
  <2>2. stats \in [Counters -> Nat]
    BY DEF TypeOK
  <2>3. QED
    BY <1>1, <2>1, <2>2 DEF StatsRelocking
<1>3. ResidencyRelocking(R) \in [Slots -> Residency]
  BY DEF TypeOK, ResidencyRelocking, Residency
<1>4. ContentsRelocking(R) \in [Slots -> Experts \cup {Undefined, Emptied}]
  BY DEF TypeOK, ContentsRelocking
<1>5. ExpertRelocking(R) \in [Slots -> Experts \cup {None}]
  BY DEF TypeOK, ExpertRelocking
<1>6. LastUseRelocking(R) \in [Slots -> Nat]
  BY DEF TypeOK, LastUseRelocking
<1>7. QED
  BY <1>2, <1>3, <1>4, <1>5, <1>6

LEMMA HotAndColdAreSlots ==
  ASSUME NEW Ls \in SUBSET Layers
  PROVE  HotSlots(Ls) \in SUBSET Slots /\ ColdSlots(Ls) \in SUBSET Slots
BY DEF HotSlots, ColdSlots, HotSet, Occupied, SlotsOf

-------------------------------------------------------------------------------
(* Type correctness.                                                        *)

LEMMA SafePointKeepsTypes ==
  ASSUME TypeOK, NEW Ls \in SUBSET Layers, SafePoint(Ls)
  PROVE  /\ slotExpert' \in [Slots -> Experts \cup {None}]
         /\ slotLastUse' \in [Slots -> Nat]
         /\ expertUseCount' \in [Layers \X Experts -> Nat]
         /\ useClock' \in [Layers -> Nat]
         /\ slotResidency' \in [Slots -> Residency]
         /\ contents' \in [Slots -> Experts \cup {Undefined, Emptied}]
         /\ stats' \in [Counters -> Nat]
<1>1. CASE MakeColdSlotsVolatile(Ls)
  <2> DEFINE hot == HotSlots(Ls)
             offered == {s \in ColdSlots(Ls) : slotResidency[s] = "nonVolatile"}
  <2>1. hot \in SUBSET Slots /\ offered \in SUBSET Slots
    BY HotAndColdAreSlots
  <2>2. Cardinality(offered) \in Nat
    BY <2>1, CountsAreNatural
  <2>3. stats' \in [Counters -> Nat]
    <3>1. StatsRelocking(hot) \in [Counters -> Nat]
      BY <2>1, RelockTypes
    <3>2. stats' = [StatsRelocking(hot) EXCEPT
                      !["volatileTransitions"] = @ + Cardinality(offered)]
      BY <1>1 DEF MakeColdSlotsVolatile
    <3>3. QED
      BY <2>2, <3>1, <3>2 DEF Counters
  <2>4. slotResidency' \in [Slots -> Residency]
    <3>1. ResidencyRelocking(hot) \in [Slots -> Residency]
      BY <2>1, RelockTypes
    <3>2. QED
      BY <1>1, <3>1 DEF MakeColdSlotsVolatile, Residency
  <2>5. /\ slotExpert' \in [Slots -> Experts \cup {None}]
        /\ slotLastUse' \in [Slots -> Nat]
        /\ contents' \in [Slots -> Experts \cup {Undefined, Emptied}]
    BY <1>1, <2>1, RelockTypes DEF MakeColdSlotsVolatile
  <2>6. QED
    BY <1>1, <2>3, <2>4, <2>5 DEF MakeColdSlotsVolatile, TypeOK
<1>2. CASE UNCHANGED <<cacheVars, stats>>
  BY <1>2 DEF TypeOK, cacheVars
<1>3. QED
  BY <1>1, <1>2 DEF SafePoint

LEMMA PlanKeepsTypes ==
  ASSUME TypeOK, NEW need \in SUBSET Experts, Plan(need)
  PROVE  TypeOK'
<1> DEFINE relocked == UNION {Candidates(e) : e \in need}
           hits     == {e \in need : \E s \in Candidates(e) : IsHit(s)}
           hitSlots == {s \in relocked : IsHit(s)}
<1>1. relocked \in SUBSET Slots
  BY DEF Candidates, SlotsOf
<1>2. /\ slotResidency' \in [Slots -> Residency]
      /\ contents' \in [Slots -> Experts \cup {Undefined, Emptied}]
      /\ stats' \in [Counters -> Nat]
  BY <1>1, RelockTypes DEF Plan
<1>3. slotExpert' \in [Slots -> Experts \cup {None}]
  <2>1. ExpertRelocking(relocked) \in [Slots -> Experts \cup {None}]
    BY <1>1, RelockTypes
  <2>2. QED
    BY <2>1 DEF Plan
<1>4. slotLastUse' \in [Slots -> Nat]
  <2>1. LastUseRelocking(relocked) \in [Slots -> Nat]
    BY <1>1, RelockTypes
  <2>2. useClock[layer] + 1 \in Nat
    BY DEF TypeOK
  <2>3. QED
    BY <2>1, <2>2 DEF Plan
<1>5. useClock' \in [Layers -> Nat]
  BY DEF Plan, TypeOK
<1>6. expertUseCount' \in [Layers \X Experts -> Nat]
  BY DEF Plan, TypeOK
<1>7. slotOf' \in [Experts -> Slots \cup {NoSlot}]
  BY DEF Plan, SlotsOf
<1>8. toRead' \subseteq Experts /\ stage' = "fill" /\ touched' \subseteq Layers
  BY DEF Plan, TypeOK
<1>9. UNCHANGED <<expertResidencyHotSlots, reading, phase, layer, inflight, passes>>
  BY DEF Plan
<1>10. QED
  BY <1>2, <1>3, <1>4, <1>5, <1>6, <1>7, <1>8, <1>9 DEF TypeOK

LEMMA BeginReadKeepsTypes ==
  ASSUME TypeOK, PlanCoherent, NEW e \in Experts, BeginRead(e)
  PROVE  TypeOK'
<1> DEFINE s == slotOf[e]
<1>1. {s} \in SUBSET Slots
  BY DEF BeginRead, PlanCoherent, Asked, NoSlot, TypeOK
<1>2. /\ ResidencyRelocking({s}) \in [Slots -> Residency]
      /\ LastUseRelocking({s}) \in [Slots -> Nat]
      /\ StatsRelocking({s}) \in [Counters -> Nat]
  BY <1>1, RelockTypes
<1>3. /\ slotResidency' \in [Slots -> Residency]
      /\ slotLastUse' \in [Slots -> Nat]
      /\ stats' \in [Counters -> Nat]
  BY <1>2 DEF BeginRead
<1>4. /\ contents' \in [Slots -> Experts \cup {Undefined, Emptied}]
      /\ slotExpert' \in [Slots -> Experts \cup {None}]
      /\ toRead' \subseteq Experts
      /\ reading' \in Experts \cup {None}
  BY DEF BeginRead, TypeOK
<1>5. QED
  BY <1>3, <1>4 DEF BeginRead, TypeOK, runVars

LEMMA FinishReadKeepsTypes ==
  ASSUME TypeOK, FinishRead
  PROVE  TypeOK'
<1>1. reading \in Experts
  BY DEF FinishRead, TypeOK
<1>2. expertUseCount' \in [Layers \X Experts -> Nat]
  BY <1>1 DEF FinishRead, TypeOK
<1>3. slotLastUse' \in [Slots -> Nat]
  BY DEF FinishRead, TypeOK
<1>4. /\ contents' \in [Slots -> Experts \cup {Undefined, Emptied}]
      /\ slotExpert' \in [Slots -> Experts \cup {None}]
  BY <1>1 DEF FinishRead, TypeOK
<1>5. QED
  BY <1>2, <1>3, <1>4 DEF FinishRead, TypeOK, runVars

LEMMA LayerDoneKeepsTypes ==
  ASSUME TypeOK, LayerDone
  PROVE  TypeOK'
<1>1. SafePointLayers \in SUBSET Layers
  BY DEF SafePointLayers, Layers, TypeOK
<1>2. layer' \in Layers /\ phase' \in {"idle", "prefill", "decode"}
  BY DEF LayerDone, NextLayer, NextPhase, Layers, TypeOK
<1>3. slotOf' \in [Experts -> Slots \cup {NoSlot}]
  BY DEF LayerDone
<1>4. SafePoint(SafePointLayers)
  BY DEF LayerDone
<1>5. touched' \subseteq Layers
  BY DEF LayerDone, StillTouched, TypeOK
<1>6. QED
  BY <1>1, <1>2, <1>3, <1>4, <1>5, SafePointKeepsTypes DEF LayerDone, TypeOK

LEMMA DiscardKeepsTypes ==
  ASSUME TypeOK, DiscardColdSlots
  PROVE  TypeOK'
<1> DEFINE cold == ColdSlots(Layers)
<1>1. Cardinality(cold) \in Nat
  BY HotAndColdAreSlots, CountsAreNatural
<1>2. stats' \in [Counters -> Nat]
  <2>1. ASSUME NEW st \in [Counters -> Nat], NEW a \in Nat
        PROVE  [st EXCEPT !["explicitDiscards"] = @ + a, !["invalidatedSlots"] = @ + a]
                 \in [Counters -> Nat]
    BY DEF Counters
  <2>2. stats \in [Counters -> Nat]
    BY DEF TypeOK
  <2>3. QED
    BY <1>1, <2>1, <2>2 DEF DiscardColdSlots
<1>3. /\ slotExpert' \in [Slots -> Experts \cup {None}]
      /\ slotLastUse' \in [Slots -> Nat]
      /\ slotResidency' \in [Slots -> Residency]
      /\ contents' \in [Slots -> Experts \cup {Undefined, Emptied}]
  BY DEF DiscardColdSlots, TypeOK, Residency
<1>4. QED
  BY <1>2, <1>3 DEF DiscardColdSlots, TypeOK, planVars, runVars

LEMMA AbortKeepsTypes ==
  ASSUME TypeOK, Abort
  PROVE  TypeOK'
BY DEF Abort, TypeOK, cacheVars

LEMMA EncodeKeepsTypes ==
  ASSUME TypeOK, Encode
  PROVE  TypeOK'
<1>1. inflight' \subseteq Binding
  BY DEF Encode, Binding, Asked, TypeOK
<1>2. QED
  BY <1>1 DEF Encode, TypeOK, cacheVars, planVars

-------------------------------------------------------------------------------
(* Type correctness needs the plan: a read must have a slot to go to.       *)

LEMMA InitTypes == Init => TypeOK
BY DEF Init, TypeOK, Layers, Residency

LEMMA StepKeepsTypes ==
  ASSUME TypeOK, PlanCoherent, [Next]_vars
  PROVE  TypeOK'
<1>1. CASE StartPass
  BY <1>1 DEF StartPass, TypeOK, Layers, cacheVars, planVars
<1>2. ASSUME NEW need \in SUBSET Experts, Plan(need) PROVE TypeOK'
  BY <1>2, PlanKeepsTypes
<1>3. ASSUME NEW e \in Experts, BeginRead(e) PROVE TypeOK'
  BY <1>3, BeginReadKeepsTypes
<1>4. CASE FinishRead
  BY <1>4, FinishReadKeepsTypes
<1>5. CASE Encode
  BY <1>5, EncodeKeepsTypes
<1>6. CASE GpuCompletes
  BY <1>6 DEF GpuCompletes, TypeOK, cacheVars, planVars
<1>7. CASE LayerDone
  BY <1>7, LayerDoneKeepsTypes
<1>8. CASE ReadFails \/ GpuFails
  BY <1>8, AbortKeepsTypes DEF ReadFails, GpuFails
<1>9. CASE DiscardColdSlots
  BY <1>9, DiscardKeepsTypes
<1>10. ASSUME NEW s \in Slots, OsReclaims(s) PROVE TypeOK'
  BY <1>10 DEF OsReclaims, TypeOK, planVars, runVars
<1>11. CASE UNCHANGED vars
  BY <1>11 DEF vars, cacheVars, planVars, runVars, TypeOK
<1>12. QED
  BY <1>1, <1>2, <1>3, <1>4, <1>5, <1>6, <1>7, <1>8, <1>9, <1>10, <1>11 DEF Next, Runner

-------------------------------------------------------------------------------
(* The exactness invariant.                                                 *)

\* Relocking any set of slots leaves identities truthful: what is lost loses
\* its name, what survived is nonvolatile and still holds its expert.
LEMMA RelockIsTruthful ==
  ASSUME TypeOK, PublishedExact, ResidencyTruthful, NEW R \in SUBSET Slots, NEW s \in Slots
  PROVE  /\ ExpertRelocking(R)[s] \in {slotExpert[s], None}
         /\ s \notin Recovered(R) => /\ ExpertRelocking(R)[s] = slotExpert[s]
                                     /\ ContentsRelocking(R)[s] = contents[s]
         /\ s \in R => ResidencyRelocking(R)[s] = "nonVolatile"
         /\ s \notin R => ResidencyRelocking(R)[s] = slotResidency[s]
         /\ ResidencyRelocking(R)[s] = "nonVolatile" => ContentsRelocking(R)[s] # Emptied
         /\ ResidencyRelocking(R)[s] = "empty" =>
              ContentsRelocking(R)[s] = Emptied /\ ExpertRelocking(R)[s] = None
         /\ ExpertRelocking(R)[s] # None =>
              /\ ResidencyRelocking(R)[s] = "nonVolatile" =>
                   ContentsRelocking(R)[s] = ExpertRelocking(R)[s]
              /\ ResidencyRelocking(R)[s] = "volatile" =>
                   ContentsRelocking(R)[s] \in {ExpertRelocking(R)[s], Emptied}
              /\ ResidencyRelocking(R)[s] # "empty"
<1>1. CASE s \in Recovered(R)
  BY <1>1 DEF Recovered, Off, ExpertRelocking, ContentsRelocking, ResidencyRelocking,
              Undefined, Emptied
<1>2. CASE s \notin Recovered(R)
  BY <1>2 DEF Recovered, Off, Lost, ExpertRelocking, ContentsRelocking, ResidencyRelocking,
              PublishedExact, ResidencyTruthful, TypeOK, Residency
<1>3. QED
  BY <1>1, <1>2

LEMMA InitExact == Init => ExactnessInvariant
BY DEF Init, ExactnessInvariant, PublishedExact, ResidencyTruthful, StagesCoherent,
       PlanCoherent, Asked, None, NoSlot, Undefined, Emptied

LEMMA PlanKeepsExact ==
  ASSUME TypeOK, ExactnessInvariant, NEW need \in SUBSET Experts, Plan(need)
  PROVE  ExactnessInvariant'
<1> DEFINE relocked == UNION {Candidates(e) : e \in need}
           hits     == {e \in need : \E s \in Candidates(e) : IsHit(s)}
           hitSlots == {s \in relocked : IsHit(s)}
           misses   == need \ hits
<1>1. relocked \in SUBSET Slots
  BY DEF Candidates, SlotsOf
<1>2. PICK assigned \in [need -> SlotsOf(layer)] :
        /\ \A e \in hits : assigned[e] \in Candidates(e) \cap hitSlots
        /\ \A e \in misses : assigned[e] \notin hitSlots
        /\ \A e, f \in need : assigned[e] = assigned[f] => e = f
        /\ slotOf' = [e \in Experts |-> IF e \in need THEN assigned[e] ELSE NoSlot]
        /\ \E cleared \in {{}, {assigned[e] : e \in misses}} :
             slotExpert' = [s \in Slots |->
                              IF s \in cleared THEN None ELSE ExpertRelocking(relocked)[s]]
  BY DEF Plan
<1>cl. PICK cleared \in {{}, {assigned[e] : e \in misses}} :
        slotExpert' = [s \in Slots |->
                         IF s \in cleared THEN None ELSE ExpertRelocking(relocked)[s]]
  BY <1>2
<1>3. /\ slotResidency' = ResidencyRelocking(relocked)
      /\ contents' = ContentsRelocking(relocked)
      /\ toRead' = misses /\ stage' = "fill"
      /\ reading' = reading /\ phase' = phase /\ layer' = layer /\ inflight' = inflight
      /\ phase # "idle" /\ stage = "route" /\ inflight = {} /\ need # {}
  BY DEF Plan, GpuQuiet
<1>4. reading = None
  BY <1>3 DEF ExactnessInvariant, StagesCoherent
<1>5. Asked' = need
  BY <1>2 DEF Asked, SlotsOf, NoSlot
<1>6. \A s \in Slots : slotExpert'[s] \in {slotExpert[s], None}
  BY <1>1, <1>cl, RelockIsTruthful DEF ExactnessInvariant
<1>7. PublishedExact'
  <2>1. ASSUME NEW s \in Slots, slotExpert'[s] # None
        PROVE  /\ slotResidency'[s] = "nonVolatile" => contents'[s] = slotExpert'[s]
               /\ slotResidency'[s] = "volatile" => contents'[s] \in {slotExpert'[s], Emptied}
               /\ slotResidency'[s] # "empty"
    <3>1. slotExpert'[s] = ExpertRelocking(relocked)[s]
      BY <1>cl, <2>1
    <3>2. QED
      BY <1>1, <1>3, <2>1, <3>1, RelockIsTruthful DEF ExactnessInvariant
  <2>2. ASSUME NEW s \in Slots, NEW t \in Slots, slotExpert'[s] # None,
               slotExpert'[s] = slotExpert'[t], LayerOf[s] = LayerOf[t]
        PROVE  s = t
    BY <1>6, <2>2 DEF ExactnessInvariant, PublishedExact
  <2>3. QED
    BY <2>1, <2>2 DEF PublishedExact
<1>8. ResidencyTruthful'
  BY <1>1, <1>3, <1>cl, RelockIsTruthful DEF ExactnessInvariant, ResidencyTruthful
<1>9. StagesCoherent'
  BY <1>3, <1>5 DEF StagesCoherent
<1>10. PlanCoherent'
  <2>1. toRead' \subseteq Asked' /\ reading' = None
    BY <1>3, <1>4, <1>5
  <2>2. /\ \A e \in Asked' : slotOf'[e] = assigned[e] /\ LayerOf[slotOf'[e]] = layer'
        /\ \A e, f \in Asked' : slotOf'[e] = slotOf'[f] => e = f
    BY <1>2, <1>3, <1>5 DEF SlotsOf
  <2>3. ASSUME NEW e \in Asked' \ toRead'
        PROVE  slotResidency'[slotOf'[e]] = "nonVolatile" /\ slotExpert'[slotOf'[e]] = e
    <3> DEFINE s == assigned[e]
    <3>1. e \in hits /\ s \in hitSlots /\ s \in Slots /\ slotExpert[s] = e /\ s \in relocked
      BY <1>2, <1>3, <1>5, <2>3 DEF Candidates, SlotsOf
    <3>2. s \notin cleared
      BY <1>2, <3>1
    <3>3. s \notin Recovered(relocked)
      BY <3>1 DEF IsHit, Recovered, Off
    <3>4. ResidencyRelocking(relocked)[s] = "nonVolatile" /\ ExpertRelocking(relocked)[s] = e
      BY <1>1, <3>1, <3>3, RelockIsTruthful DEF ExactnessInvariant
    <3>5. QED
      BY <1>cl, <1>3, <1>5, <2>2, <2>3, <3>1, <3>2, <3>4
  <2>4. ASSUME NEW e \in toRead', NEW s \in SlotsOf(layer), slotExpert'[s] = e
        PROVE  FALSE
    <3>1. s \in Slots /\ e \in need /\ e # None /\ e \notin hits
      BY <1>3, <2>4 DEF SlotsOf, None
    <3>2. slotExpert[s] = e
      BY <1>6, <2>4, <3>1
    <3>3. s \in Candidates(e) /\ ~IsHit(s)
      BY <2>4, <3>1, <3>2 DEF Candidates
    <3>4. s \in Recovered(relocked)
      BY <3>1, <3>3 DEF IsHit, Recovered, Off
    <3>5. slotExpert'[s] = None
      BY <1>cl, <3>1, <3>4 DEF ExpertRelocking
    <3>6. QED
      BY <2>4, <3>1, <3>5
  <2>5. SlotsOf(layer)' = SlotsOf(layer)
    BY <1>3 DEF SlotsOf
  <2>6. \A e \in Asked' : e \in Experts /\ e # None
    BY <1>5 DEF None
  <2>7. \A e \in Asked' \ toRead' :
          /\ slotResidency'[slotOf'[e]] = "nonVolatile"
          /\ slotExpert'[slotOf'[e]] = IF e = reading' THEN None ELSE e
    BY <2>1, <2>3, <2>6
  <2>8. \A e \in Asked' : e \in toRead' \/ e = reading' =>
          \A s \in SlotsOf(layer)' : slotExpert'[s] # e
    BY <2>1, <2>4, <2>5, <2>6
  <2>9. QED
    BY <2>1, <2>2, <2>7, <2>8 DEF PlanCoherent
<1>11. QED
  BY <1>7, <1>8, <1>9, <1>10 DEF ExactnessInvariant

LEMMA BeginReadKeepsExact ==
  ASSUME TypeOK, ExactnessInvariant, NEW e \in Experts, BeginRead(e)
  PROVE  ExactnessInvariant'
<1> DEFINE s == slotOf[e]
<1>1. e \in Asked /\ s \in Slots /\ e # None /\ LayerOf[s] = layer
  BY DEF BeginRead, ExactnessInvariant, PlanCoherent, Asked, NoSlot, None, TypeOK
<1>2. /\ slotResidency' = [slotResidency EXCEPT ![s] = "nonVolatile"]
      /\ slotExpert' = [slotExpert EXCEPT ![s] = None]
      /\ contents' = [contents EXCEPT ![s] = Undefined]
  BY <1>1 DEF BeginRead, ResidencyRelocking, TypeOK
<1>3. /\ reading = None /\ reading' = e /\ toRead' = toRead \ {e} /\ e \in toRead
      /\ stage = "fill"
      /\ UNCHANGED <<slotOf, phase, layer, stage, inflight>>
  BY DEF BeginRead, runVars
<1>4. Asked' = Asked /\ inflight = {}
  BY <1>3 DEF Asked, ExactnessInvariant, StagesCoherent
<1>5. PublishedExact'
  BY <1>1, <1>2 DEF ExactnessInvariant, PublishedExact, TypeOK
<1>6. ResidencyTruthful'
  BY <1>1, <1>2 DEF ExactnessInvariant, ResidencyTruthful, TypeOK, Undefined, Emptied
<1>7. StagesCoherent'
  BY <1>3, <1>4 DEF ExactnessInvariant, StagesCoherent
<1>8. PlanCoherent'
  <2>1. ASSUME NEW f \in Asked' \ toRead'
        PROVE  /\ slotResidency'[slotOf'[f]] = "nonVolatile"
               /\ slotExpert'[slotOf'[f]] = IF f = reading' THEN None ELSE f
    <3>1. CASE f = e
      BY <1>1, <1>2, <1>3, <3>1 DEF TypeOK
    <3>2. CASE f # e
      <4>1. f \in Asked \ toRead /\ f # None /\ slotOf[f] \in Slots /\ slotOf[f] # s
        BY <1>1, <1>3, <1>4, <2>1, <3>2
           DEF ExactnessInvariant, PlanCoherent, Asked, NoSlot, None, TypeOK
      <4>2. slotResidency[slotOf[f]] = "nonVolatile" /\ slotExpert[slotOf[f]] = f
        BY <1>3, <4>1 DEF ExactnessInvariant, PlanCoherent
      <4>3. QED
        BY <1>2, <1>3, <3>2, <4>1, <4>2 DEF TypeOK
    <3>3. QED
      BY <3>1, <3>2
  <2>2. ASSUME NEW f \in Asked', f \in toRead' \/ f = reading', NEW t \in SlotsOf(layer)'
        PROVE  slotExpert'[t] # f
    <3>1. f \in toRead /\ f \in Asked /\ f # None /\ t \in SlotsOf(layer) /\ t \in Slots
      BY <1>1, <1>3, <1>4, <2>2 DEF SlotsOf, Asked, None
    <3>2. slotExpert[t] # f
      BY <3>1 DEF ExactnessInvariant, PlanCoherent
    <3>3. QED
      BY <1>2, <3>1, <3>2 DEF TypeOK
  <2>3. /\ toRead' \subseteq Asked' /\ reading' \in Asked' \ toRead'
        /\ \A f \in Asked' : LayerOf[slotOf'[f]] = layer'
        /\ \A f, g \in Asked' : slotOf'[f] = slotOf'[g] => f = g
    BY <1>1, <1>3, <1>4 DEF ExactnessInvariant, PlanCoherent
  <2>4. QED
    BY <2>1, <2>2, <2>3 DEF PlanCoherent
<1>9. QED
  BY <1>5, <1>6, <1>7, <1>8 DEF ExactnessInvariant

LEMMA FinishReadKeepsExact ==
  ASSUME TypeOK, ExactnessInvariant, FinishRead
  PROVE  ExactnessInvariant'
<1> DEFINE s == slotOf[reading]
<1>1. /\ reading # None /\ reading \in Asked /\ reading \notin toRead /\ reading \in Experts
      /\ s \in Slots /\ LayerOf[s] = layer
      /\ slotResidency[s] = "nonVolatile"
  BY DEF FinishRead, ExactnessInvariant, PlanCoherent, Asked, NoSlot, None, TypeOK
<1>2. /\ contents' = [contents EXCEPT ![s] = reading]
      /\ slotExpert' = [slotExpert EXCEPT ![s] = reading]
      /\ slotResidency' = slotResidency /\ reading' = None
      /\ UNCHANGED <<slotOf, toRead, phase, layer, stage, inflight>>
  BY DEF FinishRead, runVars
<1>3. Asked' = Asked /\ SlotsOf(layer)' = SlotsOf(layer)
  BY <1>2 DEF Asked, SlotsOf
<1>4. \A t \in Slots : LayerOf[t] = layer => slotExpert[t] # reading
  BY <1>1 DEF ExactnessInvariant, PlanCoherent, SlotsOf
<1>5. PublishedExact'
  <2>1. ASSUME NEW t \in Slots, slotExpert'[t] # None
        PROVE  /\ slotResidency'[t] = "nonVolatile" => contents'[t] = slotExpert'[t]
               /\ slotResidency'[t] = "volatile" => contents'[t] \in {slotExpert'[t], Emptied}
               /\ slotResidency'[t] # "empty"
    BY <1>1, <1>2, <2>1 DEF ExactnessInvariant, PublishedExact, TypeOK
  <2>2. ASSUME NEW t \in Slots, NEW u \in Slots, slotExpert'[t] # None,
               slotExpert'[t] = slotExpert'[u], LayerOf[t] = LayerOf[u]
        PROVE  t = u
    BY <1>1, <1>2, <1>4, <2>2 DEF ExactnessInvariant, PublishedExact, TypeOK
  <2>3. QED
    BY <2>1, <2>2 DEF PublishedExact
<1>6. ResidencyTruthful'
  BY <1>1, <1>2 DEF ExactnessInvariant, ResidencyTruthful, TypeOK, Emptied
<1>7. StagesCoherent'
  BY <1>1, <1>2, <1>3 DEF ExactnessInvariant, StagesCoherent
<1>8. PlanCoherent'
  <2>1. ASSUME NEW f \in Asked' \ toRead'
        PROVE  /\ slotResidency'[slotOf'[f]] = "nonVolatile"
               /\ slotExpert'[slotOf'[f]] = IF f = reading' THEN None ELSE f
    <3>1. f \in Asked \ toRead /\ f # None /\ slotOf[f] \in Slots
      BY <1>2, <1>3, <2>1 DEF Asked, NoSlot, None, TypeOK
    <3>2. slotResidency[slotOf[f]] = "nonVolatile"
      BY <3>1 DEF ExactnessInvariant, PlanCoherent
    <3>3. slotExpert'[slotOf[f]] = f
      <4>1. CASE f = reading
        BY <1>1, <1>2, <4>1 DEF TypeOK
      <4>2. CASE f # reading
        BY <1>1, <1>2, <3>1, <4>2 DEF ExactnessInvariant, PlanCoherent, TypeOK
      <4>3. QED
        BY <4>1, <4>2
    <3>4. QED
      BY <1>2, <3>1, <3>2, <3>3
  <2>2. ASSUME NEW f \in Asked', f \in toRead' \/ f = reading', NEW t \in SlotsOf(layer)'
        PROVE  slotExpert'[t] # f
    <3>1. f \in toRead /\ f \in Asked /\ f # reading /\ t \in SlotsOf(layer) /\ t \in Slots
      BY <1>1, <1>2, <1>3, <2>2 DEF SlotsOf, Asked, None
    <3>2. slotExpert[t] # f
      BY <3>1 DEF ExactnessInvariant, PlanCoherent
    <3>3. QED
      BY <1>2, <3>1, <3>2 DEF TypeOK
  <2>3. /\ toRead' \subseteq Asked' /\ reading' = None
        /\ \A f \in Asked' : LayerOf[slotOf'[f]] = layer'
        /\ \A f, g \in Asked' : slotOf'[f] = slotOf'[g] => f = g
    BY <1>2, <1>3 DEF ExactnessInvariant, PlanCoherent
  <2>4. QED
    BY <2>1, <2>2, <2>3 DEF PlanCoherent
<1>9. QED
  BY <1>5, <1>6, <1>7, <1>8 DEF ExactnessInvariant

\* Between layers the plan is void, so a safe point disturbs identities only.
LEMMA SafePointKeepsTruth ==
  ASSUME TypeOK, ExactnessInvariant, NEW Ls \in SUBSET Layers, SafePoint(Ls)
  PROVE  PublishedExact' /\ ResidencyTruthful'
<1>1. CASE MakeColdSlotsVolatile(Ls)
  <2> DEFINE hot == HotSlots(Ls)
             offered == {s \in ColdSlots(Ls) : slotResidency[s] = "nonVolatile"}
  <2>1. hot \in SUBSET Slots
    BY HotAndColdAreSlots
  <2>2. /\ contents' = ContentsRelocking(hot)
        /\ slotExpert' = ExpertRelocking(hot)
        /\ slotResidency' = [s \in Slots |-> IF s \in offered THEN "volatile"
                                             ELSE ResidencyRelocking(hot)[s]]
    BY <1>1 DEF MakeColdSlotsVolatile
  <2>3. ASSUME NEW s \in offered, s \in Slots
        PROVE  contents'[s] = contents[s] /\ slotExpert'[s] = slotExpert[s]
    BY <2>1, <2>2, <2>3 DEF Recovered, Off, ContentsRelocking, ExpertRelocking
  <2>4. ASSUME NEW s \in Slots
        PROVE  /\ slotExpert'[s] \in {slotExpert[s], None}
               /\ slotExpert'[s] # None =>
                    /\ slotResidency'[s] = "nonVolatile" => contents'[s] = slotExpert'[s]
                    /\ slotResidency'[s] = "volatile" => contents'[s] \in {slotExpert'[s], Emptied}
                    /\ slotResidency'[s] # "empty"
               /\ slotResidency'[s] = "nonVolatile" => contents'[s] # Emptied
               /\ slotResidency'[s] = "empty" => contents'[s] = Emptied /\ slotExpert'[s] = None
    <3>1. CASE s \in offered
      BY <2>2, <2>3, <3>1 DEF ExactnessInvariant, PublishedExact
    <3>2. CASE s \notin offered
      BY <2>1, <2>2, <3>2, RelockIsTruthful DEF ExactnessInvariant
    <3>3. QED
      BY <3>1, <3>2
  <2>5. ASSUME NEW s \in Slots, NEW t \in Slots, slotExpert'[s] # None,
               slotExpert'[s] = slotExpert'[t], LayerOf[s] = LayerOf[t]
        PROVE  s = t
    BY <2>4, <2>5 DEF ExactnessInvariant, PublishedExact
  <2>6. QED
    BY <2>4, <2>5 DEF PublishedExact, ResidencyTruthful
<1>2. CASE UNCHANGED <<cacheVars, stats>>
  BY <1>2 DEF cacheVars, ExactnessInvariant, PublishedExact, ResidencyTruthful
<1>3. QED
  BY <1>1, <1>2 DEF SafePoint

LEMMA LayerDoneKeepsExact ==
  ASSUME TypeOK, ExactnessInvariant, LayerDone
  PROVE  ExactnessInvariant'
<1>1. SafePointLayers \in SUBSET Layers
  BY DEF SafePointLayers, Layers, TypeOK
<1>2. PublishedExact' /\ ResidencyTruthful'
  BY <1>1, SafePointKeepsTruth DEF LayerDone
<1>3. /\ Asked' = {} /\ toRead' = {} /\ reading' = None /\ inflight' = {}
      /\ stage' = "route"
  BY DEF LayerDone, GpuQuiet, Asked, ExactnessInvariant, StagesCoherent
<1>4. StagesCoherent' /\ PlanCoherent'
  BY <1>3 DEF StagesCoherent, PlanCoherent
<1>5. QED
  BY <1>2, <1>4 DEF ExactnessInvariant

LEMMA DiscardKeepsExact ==
  ASSUME TypeOK, ExactnessInvariant, DiscardColdSlots
  PROVE  ExactnessInvariant'
<1>1. stage = "route" /\ Asked = {} /\ Asked' = {}
  BY DEF DiscardColdSlots, ExactnessInvariant, StagesCoherent, TypeOK, Asked, planVars
<1>2. PublishedExact' /\ ResidencyTruthful'
  BY DEF DiscardColdSlots, ExactnessInvariant, PublishedExact, ResidencyTruthful, TypeOK
<1>3. StagesCoherent' /\ PlanCoherent'
  BY <1>1 DEF DiscardColdSlots, ExactnessInvariant, StagesCoherent, PlanCoherent,
              planVars, runVars
<1>4. QED
  BY <1>2, <1>3 DEF ExactnessInvariant

LEMMA OsReclaimsKeepsExact ==
  ASSUME TypeOK, ExactnessInvariant, NEW s \in Slots, OsReclaims(s)
  PROVE  ExactnessInvariant'
<1>1. PublishedExact' /\ ResidencyTruthful'
  BY DEF OsReclaims, ExactnessInvariant, PublishedExact, ResidencyTruthful, TypeOK
<1>2. StagesCoherent' /\ PlanCoherent'
  BY DEF OsReclaims, ExactnessInvariant, StagesCoherent, PlanCoherent, Asked, SlotsOf,
         planVars, runVars
<1>3. QED
  BY <1>1, <1>2 DEF ExactnessInvariant

LEMMA AbortKeepsExact ==
  ASSUME TypeOK, ExactnessInvariant, Abort
  PROVE  ExactnessInvariant'
<1>1. PublishedExact' /\ ResidencyTruthful'
  BY DEF Abort, cacheVars, ExactnessInvariant, PublishedExact, ResidencyTruthful
<1>2. Asked' = {}
  BY DEF Abort, Asked
<1>3. StagesCoherent' /\ PlanCoherent'
  BY <1>2 DEF Abort, StagesCoherent, PlanCoherent
<1>4. QED
  BY <1>1, <1>3 DEF ExactnessInvariant

LEMMA EncodeKeepsExact ==
  ASSUME TypeOK, ExactnessInvariant, Encode
  PROVE  ExactnessInvariant'
<1>1. PublishedExact' /\ ResidencyTruthful' /\ PlanCoherent'
  BY DEF Encode, cacheVars, planVars, ExactnessInvariant, PublishedExact, ResidencyTruthful,
         PlanCoherent, Asked, SlotsOf
<1>2. inflight' \subseteq {b \in Binding : slotOf[b.expert] = b.slot}
  BY DEF Encode, Binding, Asked, TypeOK
<1>3. StagesCoherent'
  BY <1>2 DEF Encode, planVars, ExactnessInvariant, StagesCoherent, Asked, Binding
<1>4. QED
  BY <1>1, <1>3 DEF ExactnessInvariant

LEMMA StepKeepsExact ==
  ASSUME TypeOK, ExactnessInvariant, [Next]_vars
  PROVE  ExactnessInvariant'
<1> USE DEF ExactnessInvariant
<1>1. CASE StartPass
  BY <1>1 DEF StartPass, cacheVars, planVars, PublishedExact, ResidencyTruthful,
              StagesCoherent, PlanCoherent, Asked, SlotsOf
<1>2. ASSUME NEW need \in SUBSET Experts, Plan(need) PROVE ExactnessInvariant'
  BY <1>2, PlanKeepsExact
<1>3. ASSUME NEW e \in Experts, BeginRead(e) PROVE ExactnessInvariant'
  BY <1>3, BeginReadKeepsExact
<1>4. CASE FinishRead
  BY <1>4, FinishReadKeepsExact
<1>5. CASE Encode
  BY <1>5, EncodeKeepsExact
<1>6. CASE GpuCompletes
  BY <1>6 DEF GpuCompletes, cacheVars, planVars, PublishedExact, ResidencyTruthful,
              StagesCoherent, PlanCoherent, Asked, SlotsOf
<1>7. CASE LayerDone
  BY <1>7, LayerDoneKeepsExact
<1>8. CASE ReadFails \/ GpuFails
  BY <1>8, AbortKeepsExact DEF ReadFails, GpuFails
<1>9. CASE DiscardColdSlots
  BY <1>9, DiscardKeepsExact
<1>10. ASSUME NEW s \in Slots, OsReclaims(s) PROVE ExactnessInvariant'
  BY <1>10, OsReclaimsKeepsExact
<1>11. CASE UNCHANGED vars
  BY <1>11 DEF vars, cacheVars, planVars, runVars, PublishedExact, ResidencyTruthful,
               StagesCoherent, PlanCoherent, Asked, SlotsOf
<1>12. QED
  BY <1>1, <1>2, <1>3, <1>4, <1>5, <1>6, <1>7, <1>8, <1>9, <1>10, <1>11 DEF Next, Runner

-------------------------------------------------------------------------------
(* Theorems.                                                                *)

\* Every reachable state is well typed and satisfies the inductive invariant
\* (the types alone are not inductive: a read goes to the slot its plan names).
THEOREM CacheInvariant == Spec => [](TypeOK /\ ExactnessInvariant)
<1>1. Init => TypeOK /\ ExactnessInvariant
  BY InitTypes, InitExact
<1>2. TypeOK /\ ExactnessInvariant /\ [Next]_vars => (TypeOK /\ ExactnessInvariant)'
  BY StepKeepsTypes, StepKeepsExact DEF ExactnessInvariant
<1>3. QED
  BY <1>1, <1>2, PTL DEF Spec

\* The variables always hold the values the code's declarations allow.
THEOREM TypeCorrect == Spec => []TypeOK
BY CacheInvariant, PTL

\* A published identity never lies, for any number of slots and layers.
THEOREM IdentitiesExact == Spec => []PublishedExact
<1>1. TypeOK /\ ExactnessInvariant => PublishedExact
  BY DEF ExactnessInvariant
<1>2. QED
  BY <1>1, CacheInvariant, PTL

\* What a planned slot holds once the plan is complete.
LEMMA InflightIsExact ==
  ASSUME TypeOK, ExactnessInvariant, NEW b \in inflight
  PROVE  /\ b.slot \in Slots /\ b.expert \in Asked
         /\ LayerOf[b.slot] = layer
         /\ slotResidency[b.slot] = "nonVolatile"
         /\ contents[b.slot] = b.expert
<1>1. b \in Binding /\ slotOf[b.expert] = b.slot /\ stage = "gpu"
  BY DEF ExactnessInvariant, StagesCoherent
<1>2. b.slot \in Slots /\ b.expert \in Experts /\ b.expert \in Asked /\ b.expert # None
  BY <1>1 DEF Binding, Asked, NoSlot, None
<1>3. toRead = {} /\ reading = None
  BY <1>1 DEF ExactnessInvariant, StagesCoherent
<1>4. /\ slotResidency[b.slot] = "nonVolatile" /\ slotExpert[b.slot] = b.expert
      /\ LayerOf[b.slot] = layer
  BY <1>1, <1>2, <1>3 DEF ExactnessInvariant, PlanCoherent
<1>5. QED
  BY <1>2, <1>4 DEF ExactnessInvariant, PublishedExact

\* A running GPU command reads nonvolatile buffers holding exactly the bytes of
\* the experts they were bound for, whatever macOS reclaims and whenever.
THEOREM BoundBuffersExact == Spec => []BoundExact
<1>1. TypeOK /\ ExactnessInvariant => BoundExact
  BY InflightIsExact DEF BoundExact
<1>2. QED
  BY <1>1, CacheInvariant, PTL

\* Bytes that survived are hits: a planned miss has no intact published slot.
THEOREM SurvivorsNeverReread == Spec => SurvivorsAreHits
<1>1. ASSUME TypeOK, ExactnessInvariant, [Next]_vars, NEW e \in toRead' \ toRead,
             NEW s \in SlotsOf(layer), slotExpert[s] = e, contents[s] = e
      PROVE  UNCHANGED vars
  <2>1. ASSUME NEW need \in SUBSET Experts, Plan(need) PROVE FALSE
    <3>1. e \in need /\ e \in Experts /\ s \in Slots /\ s \in Candidates(e)
      BY <1>1, <2>1 DEF Plan, Candidates, SlotsOf
    <3>2. ~IsHit(s)
      BY <1>1, <2>1, <3>1 DEF Plan
    <3>3. contents[s] # Emptied /\ slotResidency[s] # "empty"
      BY <1>1, <3>1 DEF ExactnessInvariant, ResidencyTruthful, Emptied, None
    <3>4. QED
      BY <3>2, <3>3 DEF IsHit, Lost
  <2>2. CASE StartPass \/ GpuCompletes \/ Encode \/ DiscardColdSlots
    BY <1>1, <2>2 DEF StartPass, GpuCompletes, Encode, DiscardColdSlots, planVars
  <2>3. CASE LayerDone \/ FinishRead \/ ReadFails \/ GpuFails
    BY <1>1, <2>3 DEF LayerDone, FinishRead, ReadFails, GpuFails, Abort
  <2>4. ASSUME NEW f \in Experts, BeginRead(f) PROVE FALSE
    BY <1>1, <2>4 DEF BeginRead
  <2>5. ASSUME NEW t \in Slots, OsReclaims(t) PROVE FALSE
    BY <1>1, <2>5 DEF OsReclaims, planVars
  <2>6. QED
    BY <1>1, <2>1, <2>2, <2>3, <2>4, <2>5 DEF Next, Runner
<1>2. TypeOK /\ ExactnessInvariant /\ [Next]_vars =>
        [\A e \in toRead' \ toRead :
           ~ \E s \in SlotsOf(layer) : slotExpert[s] = e /\ contents[s] = e]_vars
  BY <1>1
<1>3. QED
  BY <1>2, CacheInvariant, PTL DEF SurvivorsAreHits, Spec

-------------------------------------------------------------------------------
(* Refinement: the cache implements a plain exact store.                    *)

View == {<<b.expert, contents[b.slot]>> : b \in inflight}

\* A step that leaves the plan and the running command alone does not change
\* what the GPU is reading, even if macOS empties other slots meanwhile.
LEMMA ViewStable ==
  ASSUME TypeOK, ExactnessInvariant, (TypeOK /\ ExactnessInvariant)', inflight' = inflight
  PROVE  View' = View
<1>1. \A b \in inflight : contents[b.slot] = b.expert
  BY InflightIsExact
<1>2. \A b \in inflight' : contents'[b.slot] = b.expert
  <2>1. ASSUME NEW b \in inflight PROVE contents'[b.slot] = b.expert
    <3>1. /\ b \in Binding /\ slotOf'[b.expert] = b.slot /\ stage' = "gpu"
      BY <2>1 DEF ExactnessInvariant, StagesCoherent
    <3>2. b.slot \in Slots /\ b.expert \in Experts /\ b.expert \in Asked' /\ b.expert # None
      BY <3>1 DEF Binding, Asked, NoSlot, None
    <3>3. toRead' = {} /\ reading' = None
      BY <3>1 DEF ExactnessInvariant, StagesCoherent
    <3>4. slotResidency'[b.slot] = "nonVolatile" /\ slotExpert'[b.slot] = b.expert
      BY <3>1, <3>2, <3>3 DEF ExactnessInvariant, PlanCoherent
    <3>5. QED
      BY <3>2, <3>4 DEF ExactnessInvariant, PublishedExact
  <2>2. QED
    BY <2>1
<1>3. QED
  BY <1>1, <1>2 DEF View

LEMMA StepRefines ==
  ASSUME TypeOK, ExactnessInvariant, (TypeOK /\ ExactnessInvariant)', [Next]_vars
  PROVE  [Exact!Next]_(Exact!storeVars)
<1> USE DEF Exact!Next, Exact!storeVars
<1>1. CASE UNCHANGED <<slotOf, inflight>>
  <2>1. Asked' = Asked /\ View' = View
    BY <1>1, ViewStable DEF Asked
  <2>2. QED
    BY <2>1 DEF View
<1>2. ASSUME NEW need \in SUBSET Experts, Plan(need) PROVE Exact!Ask(need) /\ need # {}
  <2>1. Asked = {} /\ Asked' = need /\ inflight = {} /\ inflight' = {} /\ need # {}
    BY <1>2 DEF Plan, GpuQuiet, Asked, SlotsOf, NoSlot, ExactnessInvariant, StagesCoherent
  <2>2. QED
    BY <2>1 DEF Exact!Ask
<1>3. CASE Encode
  <2>1. /\ inflight' = {[slot |-> slotOf[e], expert |-> e] : e \in Asked}
        /\ inflight = {} /\ contents' = contents /\ Asked' = Asked
        /\ toRead = {} /\ reading = None /\ Asked # {}
    BY <1>3 DEF Encode, cacheVars, planVars, Asked, ExactnessInvariant, StagesCoherent
  <2>2. ASSUME NEW e \in Asked PROVE contents[slotOf[e]] = e
    <3>1. slotExpert[slotOf[e]] = e /\ slotResidency[slotOf[e]] = "nonVolatile"
          /\ slotOf[e] \in Slots /\ e # None
      BY <2>1 DEF ExactnessInvariant, PlanCoherent, Asked, NoSlot, None, TypeOK
    <3>2. QED
      BY <3>1 DEF ExactnessInvariant, PublishedExact
  <2>3. View' = {<<e, e>> : e \in Asked}
    <3>1. ASSUME NEW b \in inflight' PROVE b.expert \in Asked /\ contents'[b.slot] = b.expert
      BY <2>1, <2>2
    <3>2. ASSUME NEW e \in Asked
          PROVE  \E b \in inflight' : b.expert = e /\ contents'[b.slot] = e
      <4>1. [slot |-> slotOf[e], expert |-> e] \in inflight'
        BY <2>1
      <4>2. contents'[slotOf[e]] = e
        BY <2>1, <2>2
      <4>3. WITNESS [slot |-> slotOf[e], expert |-> e] \in inflight'
      <4>4. QED
        BY <4>2
    <3>3. View' = {<<b.expert, contents'[b.slot]>> : b \in inflight'}
      BY DEF View
    <3>4. \A v \in View' : v \in {<<e, e>> : e \in Asked}
      BY <3>1, <3>3
    <3>5. ASSUME NEW e \in Asked PROVE <<e, e>> \in View'
      <4>1. PICK b \in inflight' : b.expert = e /\ contents'[b.slot] = e
        BY <3>2
      <4>2. QED
        BY <3>3, <4>1
    <3>6. QED
      BY <3>4, <3>5
  <2>4. View = {}
    BY <2>1 DEF View
  <2>5. QED
    BY <2>1, <2>3, <2>4 DEF Exact!Deliver, Exact!Stored, View
<1>4. CASE GpuCompletes
  <2>1. Asked' = Asked /\ inflight # {} /\ inflight' = {}
    BY <1>4 DEF GpuCompletes, planVars, Asked
  <2>2. QED
    BY <2>1 DEF Exact!Consume
<1>5. CASE LayerDone \/ ReadFails \/ GpuFails
  <2>1. Asked' = {} /\ inflight' = {} /\ stage # "route" /\ Asked # {}
    <3>1. Asked' = {} /\ inflight' = {}
      BY <1>5 DEF LayerDone, GpuQuiet, ReadFails, GpuFails, Abort, Asked
    <3>2. stage # "route"
      BY <1>5 DEF LayerDone, ReadFails, GpuFails, ExactnessInvariant, StagesCoherent
    <3>3. QED
      BY <3>1, <3>2 DEF ExactnessInvariant, StagesCoherent
  <2>2. QED
    BY <2>1 DEF Exact!Retire
<1>6. CASE StartPass \/ FinishRead \/ DiscardColdSlots \/ UNCHANGED vars
  <2>1. UNCHANGED <<slotOf, inflight>>
    BY <1>6 DEF StartPass, FinishRead, DiscardColdSlots, vars, planVars, runVars
  <2>2. QED
    BY <1>1, <2>1
<1>7. ASSUME NEW e \in Experts, BeginRead(e) PROVE UNCHANGED <<slotOf, inflight>>
  BY <1>7 DEF BeginRead, runVars
<1>8. ASSUME NEW s \in Slots, OsReclaims(s) PROVE UNCHANGED <<slotOf, inflight>>
  BY <1>8 DEF OsReclaims, planVars, runVars
<1>9. ASSUME NEW need \in SUBSET Experts, Plan(need) PROVE Exact!Next
  BY <1>2, <1>9
<1>10. ASSUME UNCHANGED <<slotOf, inflight>> PROVE [Exact!Next]_(Exact!storeVars)
  BY <1>1, <1>10
<1>11. QED
  BY <1>3, <1>4, <1>5, <1>6, <1>7, <1>8, <1>9, <1>10 DEF Next, Runner

\* OS reclamation, relocking, failed reads and re-planning are invisible: what
\* the GPU reads is what a plain exact store would have delivered.
THEOREM CacheImplementsExactStore == Spec => ImplementsExactStore
<1>1. Init => Exact!Init
  BY DEF Init, Exact!Init, Asked
<1>2. /\ TypeOK /\ ExactnessInvariant
      /\ (TypeOK /\ ExactnessInvariant)'
      /\ [Next]_vars
      => [Exact!Next]_(Exact!storeVars)
  BY StepRefines
<1>3. QED
  BY <1>1, <1>2, CacheInvariant, PTL DEF ImplementsExactStore, Exact!Spec, Spec

-------------------------------------------------------------------------------
(* Fixed residency.                                                         *)

\* With no hot-slot policy set no step relocks, offers, discards or loses a
\* slot, whatever the pass does.
THEOREM FixedModeInert == Spec => []FixedBypassesPurgeability
<1>1. Init => FixedBypassesPurgeability
  BY DEF Init, FixedBypassesPurgeability, Undefined, Emptied
<1>2. ASSUME TypeOK, ExactnessInvariant, FixedBypassesPurgeability, [Next]_vars
      PROVE  FixedBypassesPurgeability'
  <2> SUFFICES ASSUME expertResidencyHotSlots' = Fixed
               PROVE  /\ \A s \in Slots : slotResidency'[s] = "nonVolatile" /\ contents'[s] # Emptied
                      /\ \A c \in Counters : stats'[c] = 0
    BY DEF FixedBypassesPurgeability
  <2>1. expertResidencyHotSlots = Fixed
    BY <1>2 DEF Next, Runner, StartPass, Plan, BeginRead, FinishRead, Encode, GpuCompletes,
                LayerDone, ReadFails, GpuFails, Abort, DiscardColdSlots, OsReclaims, vars
  <2>2. /\ \A s \in Slots : slotResidency[s] = "nonVolatile" /\ contents[s] # Emptied
        /\ \A c \in Counters : stats[c] = 0
    BY <1>2, <2>1 DEF FixedBypassesPurgeability
  <2>3. ASSUME NEW R \in SUBSET Slots
        PROVE  /\ ResidencyRelocking(R) = slotResidency
               /\ ContentsRelocking(R) = contents
               /\ StatsRelocking(R) = stats
    <3>1. Off(R) = {} /\ Recovered(R) = {}
      BY <2>2 DEF Off, Recovered
    <3>2. Cardinality({}) = 0 /\ Off(R) \ Recovered(R) = {}
          /\ {s \in Recovered(R) : slotExpert[s] # None} = {}
      BY <3>1, FS_EmptySet
    <3>3. stats \in [Counters -> Nat]
      BY <1>2 DEF TypeOK
    <3>4. StatsRelocking(R) = stats
      BY <3>1, <3>2, <3>3 DEF StatsRelocking, Counters
    <3>5. QED
      BY <1>2, <2>2, <3>1, <3>4 DEF ResidencyRelocking, ContentsRelocking, TypeOK
  <2>4. ASSUME NEW need \in SUBSET Experts, Plan(need)
        PROVE  UNCHANGED <<slotResidency, contents, stats>>
    <3>1. UNION {Candidates(e) : e \in need} \in SUBSET Slots
      BY DEF Candidates, SlotsOf
    <3>2. QED
      BY <2>3, <2>4, <3>1 DEF Plan
  <2>5. ASSUME NEW e \in Experts, BeginRead(e)
        PROVE  /\ UNCHANGED <<slotResidency, stats>>
               /\ contents' = [contents EXCEPT ![slotOf[e]] = Undefined]
    <3>1. {slotOf[e]} \in SUBSET Slots
      BY <1>2, <2>5 DEF BeginRead, ExactnessInvariant, PlanCoherent, Asked, NoSlot, TypeOK
    <3>2. QED
      BY <2>3, <2>5, <3>1 DEF BeginRead
  <2>6. CASE LayerDone
    BY <2>1, <2>2, <2>6 DEF LayerDone, SafePoint, ResidencyEnabled, cacheVars
  <2>7. CASE FinishRead
    <3>1. reading # Emptied
      BY <1>2 DEF TypeOK, None, Emptied
    <3>2. QED
      BY <1>2, <2>2, <2>7, <3>1 DEF FinishRead, TypeOK
  <2>8. CASE StartPass \/ Encode \/ GpuCompletes \/ ReadFails \/ GpuFails \/ UNCHANGED vars
    BY <2>2, <2>8 DEF StartPass, Encode, GpuCompletes, ReadFails, GpuFails, Abort, vars, cacheVars
  <2>9. CASE DiscardColdSlots
    BY <2>1, <2>9 DEF DiscardColdSlots, ResidencyEnabled
  <2>10. ASSUME NEW s \in Slots, OsReclaims(s) PROVE FALSE
    BY <2>2, <2>10 DEF OsReclaims
  <2>11. ASSUME NEW e \in Experts, BeginRead(e)
         PROVE  \A s \in Slots : contents'[s] # Emptied
    BY <1>2, <2>2, <2>5, <2>11 DEF TypeOK, Undefined, Emptied
  <2>12. QED
    BY <1>2, <2>2, <2>4, <2>5, <2>6, <2>7, <2>8, <2>9, <2>10, <2>11 DEF Next, Runner
<1>3. QED
  BY <1>1, <1>2, CacheInvariant, PTL DEF Spec

-------------------------------------------------------------------------------
(* The ranking.                                                             *)

\* isHotterSlot is a strict total order of a layer's occupied slots, as the sort
\* that picks the hot set requires of its comparator.
THEOREM HotterIsStrictTotalOrder ==
  ASSUME TypeOK, NEW l \in Layers,
         NEW r \in Occupied(l), NEW s \in Occupied(l), NEW t \in Occupied(l)
  PROVE  /\ ~IsHotter(s, s)
         /\ IsHotter(r, s) /\ IsHotter(s, t) => IsHotter(r, t)
         /\ s # t => IsHotter(s, t) \/ IsHotter(t, s)
<1>1. ASSUME NEW u \in Occupied(l)
      PROVE  u \in Nat /\ UseCount(u) \in Nat /\ slotLastUse[u] \in Nat
  BY <1>1 DEF Occupied, SlotsOf, UseCount, TypeOK
<1>2. QED
  BY <1>1 DEF IsHotter

-------------------------------------------------------------------------------
(* The receipt.                                                             *)

\* What ReceiptBalances says of residencies r and counters st.
Balanced(r, st) ==
  LET off   == Cardinality({s \in Slots : r[s] # "nonVolatile"})
      empty == Cardinality({s \in Slots : r[s] = "empty"})
  IN /\ st["revalidations"] = st["retainedRevalidations"] + st["emptyRecoveries"]
     /\ st["volatileTransitions"] <= st["revalidations"] + off
     /\ st["revalidations"] + off <= st["volatileTransitions"] + st["explicitDiscards"]
     /\ st["invalidatedSlots"] <= st["emptyRecoveries"] + empty

LEMMA ReceiptIsBalanced == ReceiptBalances <=> Balanced(slotResidency, stats)
BY DEF ReceiptBalances, Balanced, Off

LEMMA BalancedIsStable ==
  ASSUME ReceiptBalances, UNCHANGED <<slotResidency, stats>>
  PROVE  ReceiptBalances'
BY DEF ReceiptBalances, Off

\* What a slot set loses and a part of it keeps add up.
LEMMA SplitCount ==
  ASSUME NEW A \in SUBSET Slots, NEW B \in SUBSET A
  PROVE  /\ Cardinality(A) \in Nat /\ Cardinality(B) \in Nat
         /\ Cardinality(A \ B) = Cardinality(A) - Cardinality(B)
         /\ Cardinality(A \ B) \in Nat
<1>1. IsFiniteSet(A)
  BY FS_Subset
<1>2. A \cap B = B
  OBVIOUS
<1>3. Cardinality(A \ B) = Cardinality(A) - Cardinality(A \cap B)
  BY <1>1, FS_Difference
<1>4. B \in SUBSET Slots /\ A \ B \in SUBSET Slots
  OBVIOUS
<1>5. QED
  BY <1>2, <1>3, <1>4, CountsAreNatural

LEMMA SmallerCount ==
  ASSUME NEW A \in SUBSET Slots, NEW B \in SUBSET A
  PROVE  Cardinality(B) <= Cardinality(A)
BY FS_Subset

LEMMA RelockBalances ==
  ASSUME TypeOK, ExactnessInvariant, ReceiptBalances, NEW R \in SUBSET Slots
  PROVE  Balanced(ResidencyRelocking(R), StatsRelocking(R))
<1> DEFINE off       == {s \in Slots : slotResidency[s] # "nonVolatile"}
           empty     == {s \in Slots : slotResidency[s] = "empty"}
           emptyOfR  == {s \in R : slotResidency[s] = "empty"}
           named     == {s \in Recovered(R) : slotExpert[s] # None}
           r         == ResidencyRelocking(R)
           st        == StatsRelocking(R)
<1>1. /\ {s \in Slots : r[s] # "nonVolatile"} = off \ Off(R)
      /\ {s \in Slots : r[s] = "empty"} = empty \ emptyOfR
  BY DEF ResidencyRelocking, Off
<1>2. /\ Cardinality(off \ Off(R)) = Cardinality(off) - Cardinality(Off(R))
      /\ Cardinality(off) \in Nat /\ Cardinality(Off(R)) \in Nat
  <2>1. off \in SUBSET Slots /\ Off(R) \in SUBSET off
    BY DEF Off
  <2> HIDE DEF off
  <2>2. QED
    BY <2>1, SplitCount
<1>3. /\ Cardinality(empty \ emptyOfR) = Cardinality(empty) - Cardinality(emptyOfR)
      /\ Cardinality(empty) \in Nat /\ Cardinality(emptyOfR) \in Nat
  <2>1. empty \in SUBSET Slots /\ emptyOfR \in SUBSET empty
    OBVIOUS
  <2> HIDE DEF empty, emptyOfR
  <2>2. QED
    BY <2>1, SplitCount
<1>4. /\ Cardinality(Off(R) \ Recovered(R)) = Cardinality(Off(R)) - Cardinality(Recovered(R))
      /\ Cardinality(Recovered(R)) \in Nat
  <2>1. Off(R) \in SUBSET Slots /\ Recovered(R) \in SUBSET Off(R)
    BY DEF Off, Recovered
  <2>2. QED
    BY <2>1, SplitCount
<1>5. Cardinality(named) + Cardinality(emptyOfR) <= Cardinality(Recovered(R))
      /\ Cardinality(named) \in Nat
  <2>1. Recovered(R) \in SUBSET Slots /\ emptyOfR \in SUBSET Recovered(R)
    BY DEF Off, Recovered, Lost
  <2>2. named \in SUBSET (Recovered(R) \ emptyOfR)
    BY DEF Recovered, Off, ExactnessInvariant, ResidencyTruthful
  <2> HIDE DEF emptyOfR, named
  <2>3. /\ Cardinality(Recovered(R) \ emptyOfR)
             = Cardinality(Recovered(R)) - Cardinality(emptyOfR)
        /\ Cardinality(Recovered(R)) \in Nat /\ Cardinality(emptyOfR) \in Nat
    BY <2>1, SplitCount
  <2>4. Cardinality(named) <= Cardinality(Recovered(R) \ emptyOfR)
    BY <2>1, <2>2, SmallerCount
  <2>5. Cardinality(named) \in Nat
    BY <2>1, <2>2, CountsAreNatural
  <2>6. QED
    BY <2>3, <2>4, <2>5
<1>6. /\ st["revalidations"] = stats["revalidations"] + Cardinality(Off(R))
      /\ st["emptyRecoveries"] = stats["emptyRecoveries"] + Cardinality(Recovered(R))
      /\ st["retainedRevalidations"] =
           stats["retainedRevalidations"] + Cardinality(Off(R) \ Recovered(R))
      /\ st["invalidatedSlots"] = stats["invalidatedSlots"] + Cardinality(named)
      /\ st["volatileTransitions"] = stats["volatileTransitions"]
      /\ st["explicitDiscards"] = stats["explicitDiscards"]
  <2>1. stats \in [Counters -> Nat]
    BY DEF TypeOK
  <2>2. st = [stats EXCEPT
               !["revalidations"] = @ + Cardinality(Off(R)),
               !["emptyRecoveries"] = @ + Cardinality(Recovered(R)),
               !["retainedRevalidations"] = @ + Cardinality(Off(R) \ Recovered(R)),
               !["invalidatedSlots"] = @ + Cardinality(named)]
    BY DEF StatsRelocking
  <2> HIDE DEF st, named
  <2>3. QED
    BY <2>1, <2>2 DEF Counters
<1>7. /\ stats["revalidations"] \in Nat /\ stats["emptyRecoveries"] \in Nat
      /\ stats["retainedRevalidations"] \in Nat /\ stats["invalidatedSlots"] \in Nat
      /\ stats["volatileTransitions"] \in Nat /\ stats["explicitDiscards"] \in Nat
  BY DEF TypeOK, Counters
<1>8. Balanced(slotResidency, stats)
  BY ReceiptIsBalanced
<1> HIDE DEF r, st, named, emptyOfR
<1>9. Balanced(r, st)
  <2>1. /\ stats["revalidations"] =
             stats["retainedRevalidations"] + stats["emptyRecoveries"]
        /\ stats["volatileTransitions"] <= stats["revalidations"] + Cardinality(off)
        /\ stats["revalidations"] + Cardinality(off)
             <= stats["volatileTransitions"] + stats["explicitDiscards"]
        /\ stats["invalidatedSlots"] <= stats["emptyRecoveries"] + Cardinality(empty)
    BY <1>8 DEF Balanced
  <2>2. /\ Cardinality({s \in Slots : r[s] # "nonVolatile"})
             = Cardinality(off) - Cardinality(Off(R))
        /\ Cardinality({s \in Slots : r[s] = "empty"})
             = Cardinality(empty) - Cardinality(emptyOfR)
    BY <1>1, <1>2, <1>3
  <2> HIDE DEF off, empty
  <2>3. QED
    BY <1>2, <1>3, <1>4, <1>5, <1>6, <1>7, <2>1, <2>2 DEF Balanced
<1>10. QED
  BY <1>9 DEF r, st

\* Offering slots that are nonvolatile counts each of them once.
LEMMA OfferBalances ==
  ASSUME NEW r \in [Slots -> Residency], NEW st \in [Counters -> Nat], Balanced(r, st),
         NEW O \in SUBSET Slots, \A s \in O : r[s] = "nonVolatile"
  PROVE  Balanced([s \in Slots |-> IF s \in O THEN "volatile" ELSE r[s]],
                  [st EXCEPT !["volatileTransitions"] = @ + Cardinality(O)])
<1> DEFINE off == {s \in Slots : r[s] # "nonVolatile"}
           q   == [s \in Slots |-> IF s \in O THEN "volatile" ELSE r[s]]
           sq  == [st EXCEPT !["volatileTransitions"] = @ + Cardinality(O)]
           now == {s \in Slots : q[s] # "nonVolatile"}
<1>1. now \ O = off /\ O \in SUBSET now /\ now \in SUBSET Slots
  OBVIOUS
<1>2. Cardinality(now) = Cardinality(off) + Cardinality(O)
      /\ Cardinality(off) \in Nat /\ Cardinality(O) \in Nat
  <2> HIDE DEF off, now
  <2>1. /\ Cardinality(now \ O) = Cardinality(now) - Cardinality(O)
        /\ Cardinality(now) \in Nat /\ Cardinality(O) \in Nat /\ Cardinality(now \ O) \in Nat
    BY <1>1, SplitCount
  <2>2. Cardinality(now \ O) = Cardinality(off)
    BY <1>1, Zenon
  <2>3. QED
    BY <2>1, <2>2
<1>3. {s \in Slots : q[s] = "empty"} = {s \in Slots : r[s] = "empty"}
  OBVIOUS
<1>4. \A c \in Counters : st[c] \in Nat
  OBVIOUS
<1>5. /\ sq["volatileTransitions"] = st["volatileTransitions"] + Cardinality(O)
      /\ \A c \in Counters \ {"volatileTransitions"} : sq[c] = st[c]
  BY DEF Counters
<1>6. Balanced(q, sq)
  <2>1. /\ sq["revalidations"] = st["revalidations"]
        /\ sq["retainedRevalidations"] = st["retainedRevalidations"]
        /\ sq["emptyRecoveries"] = st["emptyRecoveries"]
        /\ sq["invalidatedSlots"] = st["invalidatedSlots"]
        /\ sq["explicitDiscards"] = st["explicitDiscards"]
        /\ st["revalidations"] \in Nat /\ st["emptyRecoveries"] \in Nat
        /\ st["volatileTransitions"] \in Nat /\ st["explicitDiscards"] \in Nat
    BY <1>4, <1>5 DEF Counters
  <2>2. /\ st["revalidations"] = st["retainedRevalidations"] + st["emptyRecoveries"]
        /\ st["volatileTransitions"] <= st["revalidations"] + Cardinality(off)
        /\ st["revalidations"] + Cardinality(off)
             <= st["volatileTransitions"] + st["explicitDiscards"]
        /\ st["invalidatedSlots"]
             <= st["emptyRecoveries"] + Cardinality({s \in Slots : r[s] = "empty"})
    BY DEF Balanced
  <2>3. SUFFICES
          /\ sq["revalidations"] = sq["retainedRevalidations"] + sq["emptyRecoveries"]
          /\ sq["volatileTransitions"] <= sq["revalidations"] + Cardinality(now)
          /\ sq["revalidations"] + Cardinality(now)
               <= sq["volatileTransitions"] + sq["explicitDiscards"]
          /\ sq["invalidatedSlots"]
               <= sq["emptyRecoveries"] + Cardinality({s \in Slots : q[s] = "empty"})
    BY DEF Balanced
  <2>4. Cardinality({s \in Slots : q[s] = "empty"}) = Cardinality({s \in Slots : r[s] = "empty"})
    BY <1>3, Zenon
  <2> HIDE DEF sq, q, off, now
  <2>5. QED
    BY <1>2, <1>5, <2>1, <2>2, <2>4
<1>7. QED
  BY <1>6

\* A discard counts slots that were not gone, each of them once.
LEMMA DiscardBalances ==
  ASSUME NEW r \in [Slots -> Residency], NEW st \in [Counters -> Nat], Balanced(r, st),
         NEW C \in SUBSET Slots, \A s \in C : r[s] # "empty"
  PROVE  Balanced([s \in Slots |-> IF s \in C THEN "empty" ELSE r[s]],
                  [st EXCEPT !["explicitDiscards"] = @ + Cardinality(C),
                             !["invalidatedSlots"] = @ + Cardinality(C)])
<1> DEFINE off   == {s \in Slots : r[s] # "nonVolatile"}
           empty == {s \in Slots : r[s] = "empty"}
           q     == [s \in Slots |-> IF s \in C THEN "empty" ELSE r[s]]
           sq    == [st EXCEPT !["explicitDiscards"] = @ + Cardinality(C),
                               !["invalidatedSlots"] = @ + Cardinality(C)]
           now   == {s \in Slots : q[s] # "nonVolatile"}
           gone  == {s \in Slots : q[s] = "empty"}
<1>1. gone \ C = empty /\ C \in SUBSET gone /\ gone \in SUBSET Slots
  OBVIOUS
<1>2. Cardinality(gone) = Cardinality(empty) + Cardinality(C)
      /\ Cardinality(empty) \in Nat /\ Cardinality(C) \in Nat
  <2> HIDE DEF empty, gone
  <2>1. /\ Cardinality(gone \ C) = Cardinality(gone) - Cardinality(C)
        /\ Cardinality(gone) \in Nat /\ Cardinality(C) \in Nat /\ Cardinality(gone \ C) \in Nat
    BY <1>1, SplitCount
  <2>2. Cardinality(gone \ C) = Cardinality(empty)
    BY <1>1, Zenon
  <2>3. QED
    BY <2>1, <2>2
<1>3. /\ Cardinality(off) <= Cardinality(now)
      /\ Cardinality(now) <= Cardinality(off) + Cardinality(C)
      /\ Cardinality(off) \in Nat /\ Cardinality(now) \in Nat
  <2>1. off \in SUBSET now /\ now \in SUBSET Slots /\ now \ off \in SUBSET C
        /\ now \ off \in SUBSET Slots
    OBVIOUS
  <2> HIDE DEF off, now
  <2>2. /\ Cardinality(now \ off) = Cardinality(now) - Cardinality(off)
        /\ Cardinality(now) \in Nat /\ Cardinality(off) \in Nat
        /\ Cardinality(now \ off) \in Nat
    BY <2>1, SplitCount
  <2>3. Cardinality(now \ off) <= Cardinality(C)
    BY <2>1, SmallerCount
  <2>4. QED
    BY <1>2, <2>2, <2>3
<1>4. \A c \in Counters : st[c] \in Nat
  OBVIOUS
<1>5. /\ sq["explicitDiscards"] = st["explicitDiscards"] + Cardinality(C)
      /\ sq["invalidatedSlots"] = st["invalidatedSlots"] + Cardinality(C)
      /\ \A c \in Counters \ {"explicitDiscards", "invalidatedSlots"} : sq[c] = st[c]
  BY DEF Counters
<1>6. Balanced(q, sq)
  <2>1. /\ sq["revalidations"] = st["revalidations"]
        /\ sq["retainedRevalidations"] = st["retainedRevalidations"]
        /\ sq["emptyRecoveries"] = st["emptyRecoveries"]
        /\ sq["volatileTransitions"] = st["volatileTransitions"]
        /\ st["revalidations"] \in Nat /\ st["emptyRecoveries"] \in Nat
        /\ st["volatileTransitions"] \in Nat /\ st["explicitDiscards"] \in Nat
        /\ st["invalidatedSlots"] \in Nat
    BY <1>4, <1>5 DEF Counters
  <2>2. /\ st["revalidations"] = st["retainedRevalidations"] + st["emptyRecoveries"]
        /\ st["volatileTransitions"] <= st["revalidations"] + Cardinality(off)
        /\ st["revalidations"] + Cardinality(off)
             <= st["volatileTransitions"] + st["explicitDiscards"]
        /\ st["invalidatedSlots"] <= st["emptyRecoveries"] + Cardinality(empty)
    BY DEF Balanced
  <2>3. SUFFICES
          /\ sq["revalidations"] = sq["retainedRevalidations"] + sq["emptyRecoveries"]
          /\ sq["volatileTransitions"] <= sq["revalidations"] + Cardinality(now)
          /\ sq["revalidations"] + Cardinality(now)
               <= sq["volatileTransitions"] + sq["explicitDiscards"]
          /\ sq["invalidatedSlots"] <= sq["emptyRecoveries"] + Cardinality(gone)
    BY DEF Balanced
  <2> HIDE DEF sq, off, empty, now, gone
  <2>4. QED
    BY <1>2, <1>3, <1>5, <2>1, <2>2
<1>7. QED
  BY <1>6

LEMMA StepBalances ==
  ASSUME TypeOK, ExactnessInvariant, ReceiptBalances, [Next]_vars
  PROVE  ReceiptBalances'
<1>1. ASSUME NEW R \in SUBSET Slots, slotResidency' = ResidencyRelocking(R),
             stats' = StatsRelocking(R)
      PROVE  ReceiptBalances'
  BY <1>1, RelockBalances DEF ReceiptBalances, Balanced, Off
<1>2. ASSUME NEW need \in SUBSET Experts, Plan(need) PROVE ReceiptBalances'
  <2>1. UNION {Candidates(e) : e \in need} \in SUBSET Slots
    BY DEF Candidates, SlotsOf
  <2>2. QED
    BY <1>1, <1>2, <2>1 DEF Plan
<1>3. ASSUME NEW e \in Experts, BeginRead(e) PROVE ReceiptBalances'
  <2>1. {slotOf[e]} \in SUBSET Slots
    BY <1>3 DEF BeginRead, ExactnessInvariant, PlanCoherent, Asked, NoSlot, TypeOK
  <2>2. QED
    BY <1>1, <1>3, <2>1 DEF BeginRead
<1>4. CASE LayerDone
  <2>1. CASE UNCHANGED <<cacheVars, stats>>
    BY <2>1, BalancedIsStable DEF cacheVars
  <2>2. CASE MakeColdSlotsVolatile(SafePointLayers)
    <3> DEFINE Ls      == SafePointLayers
               hot     == HotSlots(Ls)
               offered == {s \in ColdSlots(Ls) : slotResidency[s] = "nonVolatile"}
    <3>1. SafePointLayers \in SUBSET Layers
      BY DEF SafePointLayers, Layers, TypeOK
    <3>2. hot \in SUBSET Slots /\ offered \in SUBSET Slots
      BY <3>1, HotAndColdAreSlots
    <3>3. /\ ResidencyRelocking(hot) \in [Slots -> Residency]
          /\ StatsRelocking(hot) \in [Counters -> Nat]
          /\ Balanced(ResidencyRelocking(hot), StatsRelocking(hot))
      BY <3>2, RelockTypes, RelockBalances
    <3>4. \A s \in offered : ResidencyRelocking(hot)[s] = "nonVolatile"
      BY <3>2 DEF ResidencyRelocking
    <3>5. /\ slotResidency' = [s \in Slots |-> IF s \in offered THEN "volatile"
                                               ELSE ResidencyRelocking(hot)[s]]
          /\ stats' = [StatsRelocking(hot) EXCEPT
                         !["volatileTransitions"] = @ + Cardinality(offered)]
      BY <2>2 DEF MakeColdSlotsVolatile
    <3> HIDE DEF hot, offered
    <3>6. Balanced(slotResidency', stats')
      BY <3>2, <3>3, <3>4, <3>5, OfferBalances
    <3>7. QED
      BY <3>6 DEF Balanced, ReceiptBalances, Off
  <2>3. QED
    BY <1>4, <2>1, <2>2 DEF LayerDone, SafePoint
<1>5. CASE DiscardColdSlots
  <2> DEFINE cold == ColdSlots(Layers)
  <2>1. cold \in SUBSET Slots
    BY HotAndColdAreSlots
  <2>2. \A s \in cold : slotResidency[s] # "empty"
    BY <2>1 DEF ColdSlots, Occupied, ExactnessInvariant, PublishedExact
  <2>3. /\ slotResidency' = [s \in Slots |-> IF s \in cold THEN "empty" ELSE slotResidency[s]]
        /\ stats' = [stats EXCEPT !["explicitDiscards"] = @ + Cardinality(cold),
                                  !["invalidatedSlots"] = @ + Cardinality(cold)]
    BY <1>5 DEF DiscardColdSlots
  <2>4. slotResidency \in [Slots -> Residency] /\ stats \in [Counters -> Nat]
    BY DEF TypeOK
  <2> HIDE DEF cold
  <2>5. Balanced(slotResidency', stats')
    BY <2>1, <2>2, <2>3, <2>4, DiscardBalances, ReceiptIsBalanced
  <2>6. QED
    BY <2>5 DEF Balanced, ReceiptBalances, Off
<1>6. CASE StartPass \/ FinishRead \/ Encode \/ GpuCompletes \/ ReadFails \/ GpuFails
           \/ (\E s \in Slots : OsReclaims(s)) \/ UNCHANGED vars
  BY <1>6, BalancedIsStable DEF StartPass, FinishRead, Encode, GpuCompletes, ReadFails,
      GpuFails, Abort, OsReclaims, vars, cacheVars
<1>7. QED
  BY <1>2, <1>3, <1>4, <1>5, <1>6 DEF Next, Runner

\* The expert-residency receipt adds up after any number of passes: what the
\* counters say of relocks, recoveries and discards accounts for the residency
\* of every slot.
THEOREM ReceiptAddsUp == Spec => []ReceiptBalances
<1>1. Init => ReceiptBalances
  <2>1. SUFFICES ASSUME Init PROVE ReceiptBalances
    OBVIOUS
  <2>2. Off(Slots) = {} /\ {s \in Slots : slotResidency[s] = "empty"} = {}
    BY <2>1 DEF Init, Off
  <2>3. \A c \in Counters : stats[c] = 0
    BY <2>1 DEF Init
  <2>4. QED
    BY <2>2, <2>3, FS_EmptySet DEF ReceiptBalances, Counters
<1>2. QED
  BY <1>1, StepBalances, CacheInvariant, PTL DEF Spec

-------------------------------------------------------------------------------
(* The hot set.                                                             *)

\* Of a finite set, the fewer than k above which each has in a strict total order
\* are at most k: the hot set keeps to the configured number of slots.
LEMMA HotSetIsBounded ==
  ASSUME TypeOK, NEW l \in Layers, expertResidencyHotSlots \in Nat
  PROVE  /\ HotSet(l) \in SUBSET Slots
         /\ Cardinality(HotSet(l)) <= expertResidencyHotSlots
<1> DEFINE H == HotSet(l)
           Above(s) == {t \in Occupied(l) : IsHotter(t, s)}
           Colder(s) == {t \in H : IsHotter(s, t)}
           T == {Colder(s) : s \in H}
<1>1. H \in SUBSET Slots /\ H \subseteq Occupied(l)
  BY DEF HotSet, Occupied, SlotsOf
<1>2. IsFiniteSet(H) /\ Cardinality(H) \in Nat
  BY <1>1, FS_Subset, CountsAreNatural
<1>3. CASE H = {}
  BY <1>1, <1>3, FS_EmptySet
<1>4. CASE H # {}
  <2>1. PICK u \in T : \A v \in T : ~(<<v, u>> \in StrictSubsetOrdering(H))
    <3>1. IsWellFoundedOn(StrictSubsetOrdering(H), FiniteSubsetsOf(H))
      BY FS_StrictSubsetOrderingWellFounded
    <3>2. FiniteSubsetsOf(H) = SUBSET H
      BY <1>2, FS_FiniteSubsetsOfFinite
    <3>3. T \subseteq SUBSET H /\ T # {}
      BY <1>4
    <3> HIDE DEF T, H
    <3>4. QED
      BY <3>1, <3>2, <3>3, WFMin
  <2>2. PICK s \in H : u = Colder(s)
    OBVIOUS
  <2>3. Colder(s) = {}
    <3>1. SUFFICES ASSUME NEW t \in Colder(s) PROVE FALSE
      OBVIOUS
    <3>2. t \in H /\ IsHotter(s, t)
      OBVIOUS
    <3>3. Colder(t) \subseteq Colder(s) /\ t \notin Colder(t)
      BY <1>1, <3>2, HotterIsStrictTotalOrder
    <3>4. <<Colder(t), Colder(s)>> \in StrictSubsetOrdering(H)
      BY <3>1, <3>3 DEF StrictSubsetOrdering
    <3>5. QED
      BY <2>1, <2>2, <3>2, <3>4
  <2>4. H \ {s} \subseteq Above(s)
    BY <1>1, <2>3, HotterIsStrictTotalOrder
  <2>5. Above(s) \in SUBSET Slots
    BY DEF Occupied, SlotsOf
  <2>6. Cardinality(Above(s)) < expertResidencyHotSlots /\ Cardinality(Above(s)) \in Nat
    BY <2>5, CountsAreNatural DEF HotSet
  <2>7. Cardinality(H \ {s}) <= Cardinality(Above(s))
    <3> HIDE DEF H, Above
    <3>1. QED
      BY <2>4, <2>5, SmallerCount
  <2>8. Cardinality(H \ {s}) = Cardinality(H) - 1
    <3> HIDE DEF H
    <3>1. QED
      BY <1>2, FS_RemoveElement
  <2> HIDE DEF H, Above
  <2>9. Cardinality(H) <= expertResidencyHotSlots
    BY <1>2, <2>6, <2>7, <2>8
  <2>10. QED
    BY <1>1, <2>9 DEF H
<1>5. QED
  BY <1>3, <1>4

-------------------------------------------------------------------------------
(* Offers.                                                                  *)

\* The slots that a layer commits.
Committed(l) == {s \in Occupied(l) : slotResidency[s] = "nonVolatile"}

\* A layer in use is due its offer, and prefill has made those of the layers that
\* it has passed.
OffersDue ==
  /\ stage # "route" => layer \in touched
  /\ phase = "prefill" => \A l \in touched : l >= layer

LEMMA NextOffersDue ==
  ASSUME TypeOK, ExactnessInvariant, OffersDue, [Next]_vars
  PROVE  OffersDue'
<1>1. layer \in 1..NumLayers /\ touched \subseteq 1..NumLayers
  BY DEF TypeOK, Layers
<1>2. CASE StartPass
  BY <1>1, <1>2 DEF StartPass, OffersDue
<1>3. ASSUME NEW need \in SUBSET Experts, Plan(need) PROVE OffersDue'
  BY <1>1, <1>3 DEF Plan, OffersDue
<1>4. ASSUME NEW e \in Experts, BeginRead(e) PROVE OffersDue'
  BY <1>4 DEF BeginRead, OffersDue, runVars
<1>5. CASE FinishRead
  BY <1>5 DEF FinishRead, OffersDue, runVars
<1>6. CASE Encode
  BY <1>6 DEF Encode, OffersDue
<1>7. CASE GpuCompletes
  BY <1>7 DEF GpuCompletes, OffersDue
<1>8. CASE LayerDone
  <2>1. stage' = "route" /\ touched' = StillTouched /\ phase' = NextPhase
          /\ layer' = NextLayer
    BY <1>8 DEF LayerDone
  <2>2. CASE layer = NumLayers
    BY <2>1, <2>2 DEF StillTouched, OffersDue
  <2>3. CASE layer # NumLayers
    <3>1. phase' = phase /\ layer' = layer + 1
      BY <2>1, <2>3 DEF NextPhase, NextLayer
    <3>2. ASSUME phase = "prefill", NEW l \in touched' PROVE l >= layer + 1
      <4>1. l \in touched /\ l # layer /\ l \in 1..NumLayers
        BY <1>1, <2>1, <2>3, <3>2 DEF StillTouched
      <4>2. l >= layer
        BY <3>2, <4>1 DEF OffersDue
      <4>3. QED
        BY <1>1, <4>1, <4>2
    <3>3. QED
      BY <2>1, <3>1, <3>2 DEF OffersDue
  <2>4. QED
    BY <2>2, <2>3
<1>9. CASE ReadFails \/ GpuFails
  BY <1>9 DEF ReadFails, GpuFails, Abort, OffersDue
<1>10. CASE DiscardColdSlots
  BY <1>10 DEF DiscardColdSlots, OffersDue, runVars
<1>11. ASSUME NEW s \in Slots, OsReclaims(s) PROVE OffersDue'
  BY <1>11 DEF OsReclaims, OffersDue, runVars
<1>12. CASE UNCHANGED vars
  BY <1>12 DEF vars, OffersDue, runVars
<1>13. QED
  BY <1>2, <1>3, <1>4, <1>5, <1>6, <1>7, <1>8, <1>9, <1>10, <1>11, <1>12 DEF Next, Runner

\* A layer commits no more than before when its slots get no new identity and no
\* occupied one is relocked.
LEMMA CommitsNoMore ==
  ASSUME TypeOK, ColdSlotsOffered, ResidencyEnabled, NEW l \in Layers \ touched,
         UNCHANGED expertResidencyHotSlots,
         \A s \in SlotsOf(l) :
           slotExpert'[s] # None /\ slotResidency'[s] = "nonVolatile" =>
             slotExpert[s] # None /\ slotResidency[s] = "nonVolatile"
  PROVE  Cardinality(Committed(l)') <= expertResidencyHotSlots'
<1>1. Committed(l)' \in SUBSET Committed(l) /\ Committed(l) \in SUBSET Slots
  BY DEF Committed, Occupied, SlotsOf
<1>2. Cardinality(Committed(l)') <= Cardinality(Committed(l))
  BY <1>1, SmallerCount
<1>3. /\ Cardinality(Committed(l)) <= expertResidencyHotSlots
      /\ Cardinality(Committed(l)) \in Nat /\ Cardinality(Committed(l)') \in Nat
      /\ expertResidencyHotSlots \in Nat
  BY <1>1, CountsAreNatural DEF ColdSlotsOffered, Committed, ResidencyEnabled, TypeOK
<1>4. QED
  BY <1>2, <1>3

LEMMA StepOffers ==
  ASSUME TypeOK, ExactnessInvariant, OffersDue, ColdSlotsOffered, [Next]_vars
  PROVE  ColdSlotsOffered'
<1>0. UNCHANGED expertResidencyHotSlots
  BY DEF Next, Runner, StartPass, Plan, BeginRead, FinishRead, Encode, GpuCompletes,
         LayerDone, ReadFails, GpuFails, Abort, DiscardColdSlots, OsReclaims, vars
<1>1. SUFFICES ASSUME ResidencyEnabled, NEW l \in Layers, l \notin touched'
               PROVE  Cardinality(Committed(l)') <= expertResidencyHotSlots'
  BY <1>0 DEF ColdSlotsOffered, Committed, ResidencyEnabled
<1>2. ASSUME l \notin touched,
             \A s \in SlotsOf(l) :
               slotExpert'[s] # None /\ slotResidency'[s] = "nonVolatile" =>
                 slotExpert[s] # None /\ slotResidency[s] = "nonVolatile"
      PROVE  Cardinality(Committed(l)') <= expertResidencyHotSlots'
  BY <1>0, <1>1, <1>2, CommitsNoMore
<1>3. ASSUME NEW need \in SUBSET Experts, Plan(need)
      PROVE  Cardinality(Committed(l)') <= expertResidencyHotSlots'
  <2> DEFINE relocked == UNION {Candidates(e) : e \in need}
  <2>1. l \notin touched /\ l # layer
    BY <1>1, <1>3 DEF Plan
  <2>2. relocked \in SUBSET Slots /\ \A s \in relocked : LayerOf[s] = layer
    BY DEF Candidates, SlotsOf
  <2>3. slotResidency' = ResidencyRelocking(relocked)
    BY <1>3 DEF Plan
  <2>4. \A s \in Slots : slotExpert'[s] \in {None, ExpertRelocking(relocked)[s]}
    BY <1>3 DEF Plan
  <2>5. ASSUME NEW s \in SlotsOf(l)
        PROVE  /\ slotResidency'[s] = slotResidency[s]
               /\ slotExpert'[s] \in {None, slotExpert[s]}
    <3>1. s \in Slots /\ s \notin relocked
      BY <2>1, <2>2 DEF SlotsOf
    <3> HIDE DEF relocked
    <3>2. QED
      BY <2>3, <2>4, <3>1 DEF ResidencyRelocking, ExpertRelocking, Recovered, Off
  <2>6. QED
    BY <1>2, <2>1, <2>5
<1>4. ASSUME NEW e \in Experts, BeginRead(e)
      PROVE  Cardinality(Committed(l)') <= expertResidencyHotSlots'
  <2>1. l \notin touched /\ l # layer
    BY <1>1, <1>4 DEF BeginRead, runVars, OffersDue
  <2>2. slotOf[e] \in Slots /\ LayerOf[slotOf[e]] = layer
    BY <1>4 DEF BeginRead, ExactnessInvariant, PlanCoherent, Asked, NoSlot, TypeOK
  <2>3. \A s \in SlotsOf(l) : s \in Slots /\ s # slotOf[e]
    BY <2>1, <2>2 DEF SlotsOf
  <2>4. \A s \in SlotsOf(l) :
          slotResidency'[s] = slotResidency[s] /\ slotExpert'[s] = slotExpert[s]
    BY <1>4, <2>3 DEF BeginRead, ResidencyRelocking, TypeOK
  <2>5. QED
    BY <1>2, <2>1, <2>4
<1>5. CASE FinishRead
  <2>1. l \notin touched /\ l # layer
    BY <1>1, <1>5 DEF FinishRead, runVars, OffersDue, ExactnessInvariant, StagesCoherent
  <2>2. slotOf[reading] \in Slots /\ LayerOf[slotOf[reading]] = layer
    BY <1>5 DEF FinishRead, ExactnessInvariant, PlanCoherent, Asked, NoSlot, TypeOK
  <2>3. \A s \in SlotsOf(l) : s \in Slots /\ s # slotOf[reading]
    BY <2>1, <2>2 DEF SlotsOf
  <2>4. \A s \in SlotsOf(l) :
          slotResidency'[s] = slotResidency[s] /\ slotExpert'[s] = slotExpert[s]
    BY <1>5, <2>3 DEF FinishRead, TypeOK
  <2>5. QED
    BY <1>2, <2>1, <2>4
<1>6. CASE LayerDone
  <2> DEFINE Ls      == SafePointLayers
             hot     == HotSlots(Ls)
             offered == {s \in ColdSlots(Ls) : slotResidency[s] = "nonVolatile"}
  <2>1. Ls \in SUBSET Layers
    BY DEF SafePointLayers, Layers, TypeOK
  <2>2. hot \in SUBSET Slots
    BY <2>1, HotAndColdAreSlots
  <2>3. /\ slotResidency' = [s \in Slots |-> IF s \in offered THEN "volatile"
                                             ELSE ResidencyRelocking(hot)[s]]
        /\ slotExpert' = ExpertRelocking(hot)
        /\ touched' = StillTouched
    BY <1>1, <1>6 DEF LayerDone, SafePoint, MakeColdSlotsVolatile
  <2>4. CASE l \in Ls
    <3>1. Committed(l)' \in SUBSET HotSet(l)
      <4>1. SUFFICES ASSUME NEW s \in Slots, LayerOf[s] = l, slotExpert'[s] # None,
                            slotResidency'[s] = "nonVolatile", s \notin HotSet(l)
                     PROVE  FALSE
        BY DEF Committed, Occupied, SlotsOf
      <4>2. slotExpert[s] # None
        BY <2>3, <4>1 DEF ExpertRelocking
      <4>3. s \in Occupied(l) \ HotSet(l) /\ s \in ColdSlots(Ls)
        BY <2>4, <4>1, <4>2 DEF Occupied, SlotsOf, ColdSlots
      <4>4. s \notin hot
        BY <2>1, <4>1, <4>3 DEF HotSlots, HotSet, Occupied, SlotsOf
      <4>5. CASE slotResidency[s] = "nonVolatile"
        BY <2>3, <4>1, <4>3, <4>5
      <4>6. CASE slotResidency[s] # "nonVolatile"
        BY <2>3, <4>1, <4>4, <4>6 DEF ResidencyRelocking
      <4>7. QED
        BY <4>5, <4>6
    <3>2. expertResidencyHotSlots \in Nat
      BY <1>1 DEF ResidencyEnabled, TypeOK
    <3>3. HotSet(l) \in SUBSET Slots /\ Cardinality(HotSet(l)) <= expertResidencyHotSlots
      BY <3>2, HotSetIsBounded
    <3>4. Cardinality(Committed(l)') <= Cardinality(HotSet(l))
      BY <3>1, <3>3, SmallerCount
    <3>5. Cardinality(Committed(l)') \in Nat /\ Cardinality(HotSet(l)) \in Nat
      BY <3>1, <3>3, CountsAreNatural
    <3>6. QED
      BY <1>0, <3>2, <3>3, <3>4, <3>5
  <2>5. CASE l \notin Ls
    <3>1. l \notin touched
      <4>1. phase \in {"prefill", "decode"}
        BY <1>6 DEF LayerDone, ExactnessInvariant, StagesCoherent, TypeOK
      <4>2. CASE phase = "decode"
        BY <1>1, <2>3, <2>5, <4>2 DEF SafePointLayers, StillTouched
      <4>3. CASE phase = "prefill" /\ layer # NumLayers
        BY <1>1, <2>3, <2>5, <4>3 DEF SafePointLayers, StillTouched
      <4>4. CASE phase = "prefill" /\ layer = NumLayers
        BY <2>5, <4>4 DEF SafePointLayers, OffersDue, Layers
      <4>5. QED
        BY <4>1, <4>2, <4>3, <4>4
    <3>2. ASSUME NEW s \in SlotsOf(l)
          PROVE  slotResidency'[s] = slotResidency[s] /\ slotExpert'[s] = slotExpert[s]
      <4>1. s \in Slots /\ s \notin hot /\ s \notin offered
        BY <2>5 DEF HotSlots, ColdSlots, HotSet, Occupied, SlotsOf
      <4> HIDE DEF hot, offered
      <4>2. QED
        BY <2>3, <4>1 DEF ResidencyRelocking, ExpertRelocking, Recovered, Off
    <3>3. QED
      BY <1>2, <3>1, <3>2
  <2>6. QED
    BY <2>4, <2>5
<1>7. CASE DiscardColdSlots
  <2>1. l \notin touched
    BY <1>1, <1>7 DEF DiscardColdSlots, runVars
  <2>2. \A s \in SlotsOf(l) : /\ slotExpert'[s] \in {None, slotExpert[s]}
                              /\ slotResidency'[s] \in {"empty", slotResidency[s]}
    BY <1>7 DEF DiscardColdSlots, SlotsOf
  <2>3. QED
    BY <1>2, <2>1, <2>2
<1>8. CASE StartPass \/ Encode \/ GpuCompletes \/ ReadFails \/ GpuFails
           \/ (\E s \in Slots : OsReclaims(s)) \/ UNCHANGED vars
  <2>1. UNCHANGED <<slotExpert, slotResidency, touched>>
    BY <1>8 DEF StartPass, Encode, GpuCompletes, ReadFails, GpuFails, Abort, OsReclaims,
        vars, cacheVars, runVars
  <2>2. QED
    BY <1>1, <1>2, <2>1
<1>9. QED
  BY <1>3, <1>4, <1>5, <1>6, <1>7, <1>8 DEF Next, Runner

\* Timely elasticity for any pool, model and policy: once its offer was made, a
\* layer commits no more published slots than the hot set has, until it is used
\* again; a prefill that follows a failed pass makes up for the offers it missed.
THEOREM ColdSlotsAreOffered == Spec => []ColdSlotsOffered
<1>1. Init => OffersDue /\ ColdSlotsOffered
  <2>1. SUFFICES ASSUME Init PROVE OffersDue /\ ColdSlotsOffered
    OBVIOUS
  <2>2. \A l \in Layers : Committed(l) = {}
    BY <2>1 DEF Init, Committed, Occupied, SlotsOf
  <2>3. ResidencyEnabled => expertResidencyHotSlots \in Nat
    BY <2>1 DEF Init, ResidencyEnabled
  <2>4. ColdSlotsOffered
    BY <2>2, <2>3, FS_EmptySet DEF ColdSlotsOffered, Committed
  <2>5. QED
    BY <2>1, <2>4 DEF Init, OffersDue
<1>2. /\ TypeOK /\ ExactnessInvariant /\ OffersDue /\ ColdSlotsOffered /\ [Next]_vars
      => (OffersDue /\ ColdSlotsOffered)'
  BY NextOffersDue, StepOffers
<1>3. QED
  BY <1>1, <1>2, CacheInvariant, PTL DEF Spec
===============================================================================
