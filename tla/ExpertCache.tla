------------------------------ MODULE ExpertCache ------------------------------
(***************************************************************************)
(* The purgeable routed-expert cache of the patched runtime                *)
(* (runtime/patches/elasticuma-purgeable.patch): the slot pool of every    *)
(* layer's PreadExpertStreamer, the forward pass that plans, reads, binds  *)
(* and, at GPU-safe points, offers cold slots to macOS, and macOS itself,  *)
(* which may empty a volatile slot at any moment.                          *)
(*                                                                         *)
(* Layers are flattened: LayerOf tells which layer's streamer owns a slot, *)
(* so an expert number is relative to the slot's layer. Buffers are        *)
(* abstracted to whose bytes they hold.                                    *)
(***************************************************************************)
EXTENDS Integers, FiniteSets

CONSTANTS
  Slots,        \* slot indices, all layers together
  NumLayers,    \* layers of the model
  LayerOf,      \* the layer whose streamer owns a slot
  Experts,      \* routed experts of one layer
  HotChoices,   \* values of --expert-cache-hot-slots that may be configured
  MaxTopK,      \* experts one plan may ask for
  MaxPasses     \* bound: forward passes of a behaviour

ASSUME SlotsAssumption == IsFiniteSet(Slots) /\ Slots \subseteq Nat
ASSUME LayersAssumption == NumLayers \in Nat \ {0} /\ LayerOf \in [Slots -> 1..NumLayers]
ASSUME ExpertsAssumption == Experts \subseteq Nat
ASSUME HotAssumption == HotChoices \subseteq Nat
ASSUME BoundsAssumption == MaxTopK \in Nat /\ MaxPasses \in Nat

VARIABLES
  slotExpert,              \* published identity of each slot
  slotLastUse,             \* recency stamp
  expertUseCount,          \* LFU count of each <<layer, expert>>
  useClock,                \* recency clock of each layer's streamer
  slotResidency,           \* the tracked SlotResidency
  contents,                \* whose bytes the Metal buffer physically holds
  stats,                   \* ExpertCacheResidencyStats, summed over layers
  expertResidencyHotSlots, \* the runner's policy: Fixed, or a hot-set size
  phase,                   \* what the runner is doing
  layer,                   \* the layer it is at
  stage,                   \* where in that layer
  slotOf,                  \* the layer's plan: slot assigned to each expert
  toRead,                  \* planned misses not yet read
  reading,                 \* the expert a positional read is filling now
  inflight,                \* bindings of the GPU command that is running
  touched,                 \* history: layers used since their offer was due
  passes                   \* forward passes started

cacheVars == <<slotExpert, slotLastUse, expertUseCount, useClock, slotResidency, contents>>
planVars  == <<slotOf, toRead, reading>>
runVars   == <<phase, layer, stage, inflight, touched, passes>>
vars == <<cacheVars, stats, expertResidencyHotSlots, planVars, runVars>>

None      == -1   \* slotExpert of an empty slot; no expert
NoSlot    == -1   \* slotOf of an expert the plan does not hold
Fixed     == -1   \* expertResidencyHotSlots == nil
Undefined == -2   \* bytes of no expert: never written, torn, or zero-filled
Emptied   == -3   \* Metal would answer .empty: macOS took the pages

Layers == 1..NumLayers
SlotsOf(l) == {s \in Slots : LayerOf[s] = l}
Asked == {e \in Experts : slotOf[e] # NoSlot}

Residency == {"nonVolatile", "volatile", "empty"}
Binding == [slot : Slots, expert : Experts]
Counters == {"volatileTransitions", "revalidations", "retainedRevalidations",
             "emptyRecoveries", "explicitDiscards", "invalidatedSlots"}

TypeOK ==
  /\ slotExpert \in [Slots -> Experts \cup {None}]
  /\ slotLastUse \in [Slots -> Nat]
  /\ expertUseCount \in [Layers \X Experts -> Nat]
  /\ useClock \in [Layers -> Nat]
  /\ slotResidency \in [Slots -> Residency]
  /\ contents \in [Slots -> Experts \cup {Undefined, Emptied}]
  /\ stats \in [Counters -> Nat]
  /\ expertResidencyHotSlots \in HotChoices \cup {Fixed}
  /\ phase \in {"idle", "prefill", "decode"}
  /\ layer \in Layers
  /\ stage \in {"route", "fill", "gpu"}
  /\ slotOf \in [Experts -> Slots \cup {NoSlot}]
  /\ toRead \subseteq Experts
  /\ reading \in Experts \cup {None}
  /\ inflight \subseteq Binding
  /\ touched \subseteq Layers
  /\ passes \in Nat

-------------------------------------------------------------------------------
Init ==
  /\ slotExpert = [s \in Slots |-> None]
  /\ slotLastUse = [s \in Slots |-> 0]
  /\ expertUseCount = [le \in Layers \X Experts |-> 0]
  /\ useClock = [l \in Layers |-> 0]
  /\ slotResidency = [s \in Slots |-> "nonVolatile"]
  /\ contents = [s \in Slots |-> Undefined]
  /\ stats = [c \in Counters |-> 0]
  /\ expertResidencyHotSlots \in HotChoices \cup {Fixed}
  /\ phase = "idle" /\ layer = 1 /\ stage = "route"
  /\ slotOf = [e \in Experts |-> NoSlot]
  /\ toRead = {} /\ reading = None
  /\ inflight = {} /\ touched = {} /\ passes = 0

-------------------------------------------------------------------------------
(* ensureSlotNonVolatileLocked, applied to a set R of slots. A slot already *)
(* nonvolatile is left alone; the others are relocked, and those whose      *)
(* contents are gone lose their identity.                                   *)

Off(R) == {s \in R : slotResidency[s] # "nonVolatile"}

\* Mutant of Lost: Metal's previous state is ignored when relocking.
LostIfTracked(s) == slotResidency[s] = "empty"

\* trackedState == .empty || previous == .empty
Lost(s) == slotResidency[s] = "empty" \/ contents[s] = Emptied

Recovered(R) == {s \in Off(R) : Lost(s)}

ResidencyRelocking(R) ==
  [s \in Slots |-> IF s \in R THEN "nonVolatile" ELSE slotResidency[s]]

\* Relocked pages that were gone come back with no defined bytes.
ContentsRelocking(R) ==
  [s \in Slots |-> IF s \in Recovered(R) THEN Undefined ELSE contents[s]]

ExpertRelocking(R) ==
  [s \in Slots |-> IF s \in Recovered(R) THEN None ELSE slotExpert[s]]

LastUseRelocking(R) ==
  [s \in Slots |-> IF s \in Recovered(R) /\ slotExpert[s] # None THEN 0 ELSE slotLastUse[s]]

\* Mutant of StatsRelocking: a relock counts as retained before Metal answers.
StatsRelockingEarly(R) ==
  [stats EXCEPT
     !["revalidations"] = @ + Cardinality(Off(R)),
     !["emptyRecoveries"] = @ + Cardinality(Recovered(R)),
     !["retainedRevalidations"] = @ + Cardinality(Off(R)),
     !["invalidatedSlots"] = @ + Cardinality({s \in Recovered(R) : slotExpert[s] # None})]

StatsRelocking(R) ==
  [stats EXCEPT
     !["revalidations"] = @ + Cardinality(Off(R)),
     !["emptyRecoveries"] = @ + Cardinality(Recovered(R)),
     !["retainedRevalidations"] = @ + Cardinality(Off(R) \ Recovered(R)),
     !["invalidatedSlots"] = @ + Cardinality({s \in Recovered(R) : slotExpert[s] # None})]

-------------------------------------------------------------------------------
(* Ranking. isHotterSlot orders occupied slots by use count, then recency,  *)
(* then index; the hot set is the first keepCount of that order.            *)

Occupied(l) == {s \in SlotsOf(l) : slotExpert[s] # None}

UseCount(s) == expertUseCount[<<LayerOf[s], slotExpert[s]>>]

IsHotter(s, t) ==
  \/ UseCount(s) > UseCount(t)
  \/ /\ UseCount(s) = UseCount(t)
     /\ \/ slotLastUse[s] > slotLastUse[t]
        \/ slotLastUse[s] = slotLastUse[t] /\ s < t

\* Mutant of HotSet: one slot too many is kept.
HotSetPlusOne(l) ==
  {s \in Occupied(l) :
     Cardinality({t \in Occupied(l) : IsHotter(t, s)}) <= expertResidencyHotSlots}

HotSet(l) ==
  {s \in Occupied(l) :
     Cardinality({t \in Occupied(l) : IsHotter(t, s)}) < expertResidencyHotSlots}

\* The occupied slots of the layers Ls, in and out of their hot sets.
HotSlots(Ls)  == UNION {HotSet(l) : l \in Ls}
ColdSlots(Ls) == UNION {Occupied(l) \ HotSet(l) : l \in Ls}

\* makeColdSlotsVolatile on every layer of Ls: relock the hot, offer the cold.
MakeColdSlotsVolatile(Ls) ==
  LET hot     == HotSlots(Ls)
      offered == {s \in ColdSlots(Ls) : slotResidency[s] = "nonVolatile"}
      relock  == StatsRelocking(hot)
  IN /\ slotResidency' = [s \in Slots |-> IF s \in offered THEN "volatile"
                                          ELSE ResidencyRelocking(hot)[s]]
     /\ contents' = ContentsRelocking(hot)
     /\ slotExpert' = ExpertRelocking(hot)
     /\ slotLastUse' = LastUseRelocking(hot)
     /\ stats' = [relock EXCEPT !["volatileTransitions"] = @ + Cardinality(offered)]
     /\ UNCHANGED <<expertUseCount, useClock>>

\* Mutant of ResidencyEnabled: the safe points ignore the nil policy.
ResidencyAlways == TRUE

ResidencyEnabled == expertResidencyHotSlots # Fixed

\* The `if let hotSlots = expertResidencyHotSlots` around both safe points.
SafePoint(Ls) ==
  \/ /\ ResidencyEnabled
     /\ MakeColdSlotsVolatile(Ls)
  \/ /\ ~ResidencyEnabled
     /\ UNCHANGED <<cacheVars, stats>>

-------------------------------------------------------------------------------
(* The forward pass.                                                        *)

StartPass ==
  /\ phase = "idle" /\ passes < MaxPasses
  /\ phase' \in {"prefill", "decode"}
  /\ layer' = 1 /\ stage' = "route"
  /\ passes' = passes + 1
  /\ UNCHANGED <<cacheVars, stats, expertResidencyHotSlots, planVars, inflight, touched>>

\* Mutant of GpuQuiet: nobody waits for the command buffer.
GpuNotAwaited == TRUE

\* Mutant of GpuQuiet: it also waits for the offers, which decode makes last.
GpuQuietAfterOffers == inflight = {} /\ touched = {}

\* tailCB / the step's command buffers were waited for.
GpuQuiet == inflight = {}

\* The slots the hit loop relocks for expert e: those published as e.
Candidates(e) == {s \in SlotsOf(layer) : slotExpert[s] = e}

\* Mutant of IsHit: any relock is taken for a miss.
IsHitIfLocked(s) == slotResidency[s] = "nonVolatile"

IsHit(s) == slotResidency[s] = "nonVolatile" \/ ~Lost(s)

\* planExpertsCached. Every slot published as a wanted expert is relocked and,
\* if its bytes survived, is a hit; the other wanted experts are misses and get
\* distinct victims among the layer's remaining slots. Which victims (LFU) and
\* whether the plan already clears their identity is upstream's choice. (At most
\* one slot is published per expert, see PublishedExact, so the order in which
\* the loop visits candidates does not matter.)
Plan(need) ==
  LET relocked == UNION {Candidates(e) : e \in need}
      hits     == {e \in need : \E s \in Candidates(e) : IsHit(s)}
      hitSlots == {s \in relocked : IsHit(s)}
      misses   == need \ hits
  IN /\ phase # "idle" /\ stage = "route" /\ GpuQuiet
     /\ need # {} /\ Cardinality(need) <= MaxTopK
     /\ \E assigned \in [need -> SlotsOf(layer)] :
          /\ \A e \in hits : assigned[e] \in Candidates(e) \cap hitSlots
          /\ \A e \in misses : assigned[e] \notin hitSlots
          /\ \A e, f \in need : assigned[e] = assigned[f] => e = f
          /\ slotOf' = [e \in Experts |-> IF e \in need THEN assigned[e] ELSE NoSlot]
          /\ \E cleared \in {{}, {assigned[e] : e \in misses}} :
               slotExpert' = [s \in Slots |->
                                IF s \in cleared THEN None ELSE ExpertRelocking(relocked)[s]]
     /\ slotResidency' = ResidencyRelocking(relocked)
     /\ contents' = ContentsRelocking(relocked)
     /\ stats' = StatsRelocking(relocked)
     /\ useClock' = [useClock EXCEPT ![layer] = @ + 1]
     /\ slotLastUse' = [s \in Slots |-> IF s \in hitSlots THEN useClock[layer] + 1
                                        ELSE LastUseRelocking(relocked)[s]]
     /\ expertUseCount' = [le \in Layers \X Experts |->
                             IF le[1] = layer /\ le[2] \in hits
                             THEN expertUseCount[le] + 1 ELSE expertUseCount[le]]
     /\ toRead' = misses /\ stage' = "fill"
     /\ touched' = touched \cup {layer}
     /\ UNCHANGED <<expertResidencyHotSlots, reading, phase, layer, inflight, passes>>

\* The read path relocks its victim whatever the answer, then overwrites it.
BeginRead(e) ==
  LET s == slotOf[e]
  IN /\ stage = "fill" /\ reading = None /\ e \in toRead
     /\ reading' = e
     /\ toRead' = toRead \ {e}
     /\ slotResidency' = ResidencyRelocking({s})
     /\ contents' = [contents EXCEPT ![s] = Undefined]
     /\ slotExpert' = [slotExpert EXCEPT ![s] = None]
     /\ slotLastUse' = LastUseRelocking({s})
     /\ stats' = StatsRelocking({s})
     /\ UNCHANGED <<expertUseCount, useClock, expertResidencyHotSlots, slotOf, runVars>>

\* The whole blob arrived: only now is the identity published.
FinishRead ==
  LET s == slotOf[reading]
  IN /\ reading # None
     /\ contents' = [contents EXCEPT ![s] = reading]
     /\ slotExpert' = [slotExpert EXCEPT ![s] = reading]
     /\ slotLastUse' = [slotLastUse EXCEPT ![s] = useClock[layer]]
     /\ expertUseCount' = [expertUseCount EXCEPT ![<<layer, reading>>] = @ + 1]
     /\ reading' = None
     /\ UNCHANGED <<useClock, slotResidency, stats, expertResidencyHotSlots, slotOf, toRead, runVars>>

\* The pass is given up: no safe point runs, the slots stay as they are.
Abort ==
  /\ phase' = "idle" /\ stage' = "route"
  /\ slotOf' = [e \in Experts |-> NoSlot]
  /\ toRead' = {} /\ reading' = None /\ inflight' = {}
  /\ UNCHANGED <<cacheVars, stats, expertResidencyHotSlots, layer, touched, passes>>

ReadFails == reading # None /\ Abort

Encode ==
  /\ stage = "fill" /\ toRead = {} /\ reading = None
  /\ inflight' = {[slot |-> slotOf[e], expert |-> e] : e \in Asked}
  /\ stage' = "gpu"
  /\ UNCHANGED <<cacheVars, stats, expertResidencyHotSlots, planVars, phase, layer, touched, passes>>

GpuCompletes ==
  /\ inflight # {}
  /\ inflight' = {}
  /\ UNCHANGED <<cacheVars, stats, expertResidencyHotSlots, planVars, phase, layer, stage,
                 touched, passes>>

\* `if let error = tailCB.error { throw error }`, before the safe point.
GpuFails == inflight # {} /\ Abort

\* History: a completed pass, or a completed prefill layer, is due its offer.
StillTouched ==
  IF layer = NumLayers THEN {} ELSE IF phase = "prefill" THEN touched \ {layer} ELSE touched

\* Mutant of SafePointLayers: decode offers only the layer it ends at.
SafePointLastLayer ==
  IF phase = "prefill" \/ layer = NumLayers THEN {layer} ELSE {}

\* Prefill offers each layer as it completes; decode offers all of them, once
\* the whole step has.
SafePointLayers ==
  CASE phase = "prefill" -> {layer}
    [] phase = "decode" /\ layer = NumLayers -> Layers
    [] OTHER -> {}

\* Mutant of NextLayer: the last layer is not recognised.
NextLayerUnbounded == layer + 1

NextLayer == IF layer = NumLayers THEN 1 ELSE layer + 1
NextPhase == IF layer = NumLayers THEN "idle" ELSE phase

LayerDone ==
  /\ stage = "gpu" /\ GpuQuiet
  /\ SafePoint(SafePointLayers)
  /\ stage' = "route" /\ layer' = NextLayer /\ phase' = NextPhase
  /\ slotOf' = [e \in Experts |-> NoSlot]
  /\ touched' = StillTouched
  /\ UNCHANGED <<expertResidencyHotSlots, toRead, reading, inflight, passes>>

-------------------------------------------------------------------------------
(* macOS, and the deterministic discard path.                               *)

OsReclaims(s) ==
  /\ slotResidency[s] = "volatile" /\ contents[s] # Emptied
  /\ contents' = [contents EXCEPT ![s] = Emptied]
  /\ UNCHANGED <<slotExpert, slotLastUse, expertUseCount, useClock, slotResidency, stats,
                 expertResidencyHotSlots, planVars, runVars>>

\* discardColdSlots on every layer, between passes.
DiscardColdSlots ==
  LET cold == ColdSlots(Layers)
  IN /\ phase = "idle" /\ ResidencyEnabled /\ cold # {}
     /\ slotResidency' = [s \in Slots |-> IF s \in cold THEN "empty" ELSE slotResidency[s]]
     /\ contents' = [s \in Slots |-> IF s \in cold THEN Emptied ELSE contents[s]]
     /\ slotExpert' = [s \in Slots |-> IF s \in cold THEN None ELSE slotExpert[s]]
     /\ slotLastUse' = [s \in Slots |-> IF s \in cold THEN 0 ELSE slotLastUse[s]]
     /\ stats' = [stats EXCEPT !["explicitDiscards"] = @ + Cardinality(cold),
                               !["invalidatedSlots"] = @ + Cardinality(cold)]
     /\ UNCHANGED <<expertUseCount, useClock, expertResidencyHotSlots, planVars, runVars>>

Runner ==
  \/ \E need \in SUBSET Experts : Plan(need)
  \/ \E e \in Experts : BeginRead(e)
  \/ FinishRead
  \/ Encode
  \/ GpuCompletes
  \/ LayerDone

Next ==
  \/ StartPass
  \/ Runner
  \/ ReadFails
  \/ GpuFails
  \/ DiscardColdSlots
  \/ \E s \in Slots : OsReclaims(s)

Spec == Init /\ [][Next]_vars

\* The inference thread and the GPU keep going; macOS, failures and new
\* requests are not owed.
FairSpec == Spec /\ WF_vars(Runner)

-------------------------------------------------------------------------------
(* Properties.                                                              *)

\* Every buffer a running GPU command reads is nonvolatile and holds exactly
\* the bytes of the expert it was bound for: no interleaving of safe points,
\* reclamation, failed reads and re-planning reaches the encoder.
BoundExact ==
  \A b \in inflight :
    /\ LayerOf[b.slot] = layer
    /\ slotResidency[b.slot] = "nonVolatile"
    /\ contents[b.slot] = b.expert

\* A published identity never lies: a nonvolatile slot holds its expert, a
\* volatile one holds it unless macOS took it, and an empty slot names none.
\* No two slots of a layer publish the same expert.
PublishedExact ==
  /\ \A s \in Slots : slotExpert[s] # None =>
       /\ slotResidency[s] = "nonVolatile" => contents[s] = slotExpert[s]
       /\ slotResidency[s] = "volatile" => contents[s] \in {slotExpert[s], Emptied}
       /\ slotResidency[s] # "empty"
  /\ \A s, t \in Slots :
       /\ slotExpert[s] # None
       /\ slotExpert[s] = slotExpert[t]
       /\ LayerOf[s] = LayerOf[t]
       => s = t

\* The expert-residency receipt adds up: every relock was either retained or an
\* empty recovery; relocks and the slots still off nonvolatile account for every
\* volatile transition, and for nothing but transitions and discards; and each
\* invalidated slot is an empty recovery, made or pending after a discard.
ReceiptBalances ==
  LET off   == Cardinality(Off(Slots))
      empty == Cardinality({s \in Slots : slotResidency[s] = "empty"})
  IN /\ stats["revalidations"] = stats["retainedRevalidations"] + stats["emptyRecoveries"]
     /\ stats["volatileTransitions"] <= stats["revalidations"] + off
     /\ stats["revalidations"] + off <= stats["volatileTransitions"] + stats["explicitDiscards"]
     /\ stats["invalidatedSlots"] <= stats["emptyRecoveries"] + empty

\* The tracked residency and the buffer agree as far as they can: macOS takes
\* pages of volatile slots only, and a discarded slot stays gone until relocked.
ResidencyTruthful ==
  \A s \in Slots :
    /\ slotResidency[s] = "nonVolatile" => contents[s] # Emptied
    /\ slotResidency[s] = "empty" => contents[s] = Emptied /\ slotExpert[s] = None

\* Where the runner is, and what its plan therefore holds.
StagesCoherent ==
  /\ stage # "route" => phase # "idle" /\ Asked # {}
  /\ stage = "route" => Asked = {}
  /\ stage # "fill" => toRead = {} /\ reading = None
  /\ inflight # {} => stage = "gpu"
  /\ inflight \subseteq {b \in Binding : slotOf[b.expert] = b.slot}

\* The plan of the current layer: distinct slots of that layer; what is read or
\* hit is published and locked; what is still to be read is published nowhere.
PlanCoherent ==
  /\ toRead \subseteq Asked
  /\ reading # None => reading \in Asked \ toRead
  /\ \A e \in Asked : LayerOf[slotOf[e]] = layer
  /\ \A e, f \in Asked : slotOf[e] = slotOf[f] => e = f
  /\ \A e \in Asked \ toRead :
       /\ slotResidency[slotOf[e]] = "nonVolatile"
       /\ slotExpert[slotOf[e]] = IF e = reading THEN None ELSE e
  /\ \A e \in Asked : e \in toRead \/ e = reading =>
       \A s \in SlotsOf(layer) : slotExpert[s] # e

\* The inductive invariant behind BoundExact and PublishedExact: a relocked and
\* planned slot stays locked and published until its layer is over, through
\* every safe point, reclamation and failed read.
ExactnessInvariant ==
  /\ PublishedExact
  /\ ResidencyTruthful
  /\ StagesCoherent
  /\ PlanCoherent

\* Fixed residency never enters the purgeability path, whatever runs.
FixedBypassesPurgeability ==
  expertResidencyHotSlots = Fixed =>
    /\ \A s \in Slots : slotResidency[s] = "nonVolatile" /\ contents[s] # Emptied
    /\ \A c \in Counters : stats[c] = 0

\* Timely elasticity: a layer that completed in prefill, and every layer once a
\* pass has completed, commits at most the hot set's number of published slots;
\* only the layers used since then, or by a pass that failed, may exceed it.
ColdSlotsOffered ==
  ResidencyEnabled =>
    \A l \in Layers \ touched :
      Cardinality({s \in Occupied(l) : slotResidency[s] = "nonVolatile"})
        <= expertResidencyHotSlots

\* Bytes that survived are never read again: an expert becomes a planned miss
\* only if no slot published for it still holds its bytes.
SurvivorsAreHits ==
  [][\A e \in toRead' \ toRead :
       ~ \E s \in SlotsOf(layer) : slotExpert[s] = e /\ contents[s] = e]_vars

\* Every pass that starts ends, by completing its last layer or by failing.
PassEnds == phase # "idle" ~> phase = "idle"

\* What the GPU sees is what a plain exact store would have shown it.
Exact == INSTANCE ExactStore WITH
  asked <- Asked,
  view <- {<<b.expert, contents[b.slot]>> : b \in inflight}

ImplementsExactStore == Exact!Spec
===============================================================================
