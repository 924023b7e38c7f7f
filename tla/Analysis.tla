------------------------------- MODULE Analysis -------------------------------
(***************************************************************************)
(* What becomes of the measured rows of an experiment (config.py,          *)
(* admission.py, analysis.py and the analyze commands of cli.py): they are *)
(* taken in the balanced order, admitted into one artifact, and analysed:  *)
(* gate 1 compares every smaller cache with every larger one, and the      *)
(* purgeable comparison a candidate arm with a baseline.                   *)
(*                                                                         *)
(* Numbers are exact. Medians are kept doubled, percentages as whole       *)
(* percents, and a throughput gap in units of 1/Scale of the baseline.     *)
(***************************************************************************)
EXTENDS Integers, FiniteSets, SequencesExt

CONSTANTS
  Specs,              \* experiments that may be run
  Observations,       \* what a measured row may report
  MinFree,            \* min_free_percent
  MaxSwapDelta,       \* max_swap_delta_bytes
  GapPercent,         \* gap_threshold
  MinimumRepetitions, \* minimum_repetitions
  MinimumSupport,     \* minimum_directional_support
  CompressorGrowth,   \* the compressor growth that counts as pressure
  Scale               \* a common multiple of the throughputs

None == -1   \* a number that was not reported

Maybe == Nat \cup {None}
Arms == [name : STRING, cache : Nat \ {0}, pressure : Nat]
Snapshots == [free : Maybe, compressor : Nat, swap : Nat]

\* What load_experiment lets through.
ValidSpec(s) ==
  /\ s.arms \in Seq(Arms) /\ s.arms # <<>>
  /\ s.repetitions \in Nat \ {0} /\ s.telemetry \in BOOLEAN
  /\ \A i, j \in DOMAIN s.arms : s.arms[i].name = s.arms[j].name => i = j

ASSUME SpecsAssumption == \A s \in Specs : ValidSpec(s)
ASSUME ObservationsAssumption ==
  \A o \in Observations :
    /\ o.tps \in Maybe /\ (o.tps > 0 => Scale % o.tps = 0)
    /\ o.hit \in Maybe /\ o.native \in {0, 1}
    /\ o.memory \in Seq(Snapshots) /\ Len(o.memory) >= 2
ASSUME BoundsAssumption ==
  /\ {MinFree, GapPercent, MinimumRepetitions, MinimumSupport, CompressorGrowth, Scale}
       \subseteq Nat \ {0}
  /\ MaxSwapDelta \in Nat
  /\ MinimumSupport <= MinimumRepetitions

VARIABLES
  spec,      \* the experiment
  records,   \* its measured rows so far
  artifact,  \* artifacts/admitted/<name>.json
  pc,        \* where the run and the gate 1 analysis are
  reports,   \* files under artifacts/figures
  verdict,   \* candidates of gate 1: pairs of a smaller and a larger arm
  gains      \* results of purgeable comparisons

vars == <<spec, records, artifact, pc, reports, verdict, gains>>

Row == [arm : Arms, repetition : Nat, seen : Observations]
NoArtifact == [complete |-> FALSE, records |-> <<>>]
GateFiles == {"analysis.json", "summary.csv", "gate1.md"}
Writing == {"json", "csv"}

TypeOK ==
  /\ spec \in Specs
  /\ records \in Seq(Row) /\ Len(records) <= Len(spec.arms) * spec.repetitions
  /\ artifact.complete \in BOOLEAN /\ DOMAIN artifact.records \subseteq DOMAIN records
  /\ artifact.records = Restrict(records, DOMAIN artifact.records)
  /\ pc \in Writing \cup {"measure", "admitted", "done", "refused", "failed", "dead"}
  /\ reports \subseteq GateFiles \cup {"purgeable.json"}
  /\ verdict \subseteq Arms \X Arms
  /\ gains \subseteq [baseline : Arms, candidate : Arms, median : Int, aggregate : Int]

Init ==
  /\ spec \in Specs
  /\ records = <<>> /\ artifact = NoArtifact
  /\ pc = "measure" /\ reports = {} /\ verdict = {} /\ gains = {}

-------------------------------------------------------------------------------
(* What is read out of one row.                                             *)

\* The lowest free percentage of all snapshots that have one.
MinimumFree(r) ==
  LET free == {m.free : m \in Range(r.seen.memory)} \ {None}
  IN IF free = {} THEN None ELSE Min(free)

\* Mutant of PeakGrowth: the growth that is left at the end.
EndGrowth(r, field) == r.seen.memory[Len(r.seen.memory)][field] - r.seen.memory[1][field]

\* Growth above the snapshot before the run, at its highest.
PeakGrowth(r, field) ==
  Max({m[field] : m \in Range(r.seen.memory)}) - r.seen.memory[1][field]

\* _pressure_level; a snapshot without a free percentage has none.
PressureLevel(free) ==
  CASE free < 12 -> 2
    [] free \in 12..21 -> 1
    [] OTHER -> 0

\* The worst of the row's snapshots, which is that of the lowest free percentage.
PressureScore(r) ==
  IF MinimumFree(r) = None THEN None ELSE PressureLevel(MinimumFree(r))

\* The numbers a summary takes the median of. (A row without a peak has no
\* end-to-end delta either: what gate 1 falls back to never differs.)
Measure(r, name) ==
  CASE name = "tps" -> r.seen.tps
    [] name = "hit" -> r.seen.hit
    [] name = "native" -> r.seen.native
    [] name = "free" -> MinimumFree(r)
    [] name = "pressure" -> PressureScore(r)
    [] OTHER -> PeakGrowth(r, name)

-------------------------------------------------------------------------------
(* Statistics.                                                              *)

\* sorted(values)[k - 1], of the values of a function.
Smallest(values, k) ==
  CHOOSE x \in Range(values) :
    /\ Cardinality({i \in DOMAIN values : values[i] < x}) < k
    /\ Cardinality({i \in DOMAIN values : values[i] <= x}) >= k

\* statistics.median, doubled; None of no values.
TwiceMedian(values) ==
  LET n == Cardinality(DOMAIN values)
  IN IF n = 0 THEN None ELSE Smallest(values, (n + 1) \div 2) + Smallest(values, (n + 2) \div 2)

\* One entry of summarize: the rows of an arm that have the number.
Summary(recs, arm, name) ==
  LET rows == {i \in DOMAIN recs : recs[i].arm = arm /\ Measure(recs[i], name) # None}
  IN TwiceMedian([i \in rows |-> Measure(recs[i], name)])

\* `_number(...) or 0`
OrZero(value) == IF value = None THEN 0 ELSE value

ArmsOf(recs) == {r.arm : r \in Range(recs)}

\* The throughput of an arm in each repetition that reported one; the last counts.
Throughput(recs, arm) ==
  LET reported == {i \in DOMAIN recs : recs[i].arm = arm /\ recs[i].seen.tps > 0}
  IN [n \in {recs[i].repetition : i \in reported} |->
        recs[Max({i \in reported : recs[i].repetition = n})].seen.tps]

\* By how much of the small arm's throughput the large arm is slower, in every
\* repetition both have.
PairedGaps(recs, small, large) ==
  LET t == Throughput(recs, small)
      u == Throughput(recs, large)
  IN [n \in DOMAIN t \cap DOMAIN u |-> (t[n] - u[n]) * (Scale \div t[n])]

-------------------------------------------------------------------------------
(* gate1_verdict.                                                           *)

FirstRow(recs, arm) == Min({i \in DOMAIN recs : recs[i].arm = arm})

\* Mutant of Smaller: arms are compared in the order their rows come in.
SmallerIfFirst(recs, a, b) == FirstRow(recs, a) < FirstRow(recs, b)

\* The sorts of summarize and gate 1 are stable: among equal caches, the arm
\* whose rows come first.
Smaller(recs, a, b) ==
  \/ a.cache < b.cache
  \/ a.cache = b.cache /\ FirstRow(recs, a) < FirstRow(recs, b)

\* Pairs of arms under the same pressure that gate 1 compares.
Compared(recs) ==
  {pair \in ArmsOf(recs) \X ArmsOf(recs) :
     /\ pair[1].pressure = pair[2].pressure
     /\ Smaller(recs, pair[1], pair[2])
     /\ \A i \in {1, 2} : Summary(recs, pair[i], "tps") # None
                          /\ Summary(recs, pair[i], "hit") # None
     /\ Summary(recs, pair[1], "tps") # 0}

\* The stress of the large arm above that of the small one, doubled.
Growth(recs, pair, name) ==
  LET small == OrZero(Summary(recs, pair[1], name))
      large == OrZero(Summary(recs, pair[2], name))
  IN IF name = "free" THEN small - large ELSE large - small

\* Growth that is evidence of pressure, doubled: two percentage points of free
\* memory, the compressor's threshold, or any of the others.
TwiceEvidence ==
  [free |-> 4, compressor |-> 2 * CompressorGrowth, swap |-> 1, pressure |-> 1, native |-> 1]

\* Hit rate for pressure: what makes a pair a tradeoff.
IsTradeoff(recs, pair) ==
  /\ Summary(recs, pair[2], "hit") > Summary(recs, pair[1], "hit")
  /\ \E name \in DOMAIN TwiceEvidence : Growth(recs, pair, name) >= TwiceEvidence[name]

\* Compares (small - large) / small of the medians without dividing.
ShowsGap(recs, pair) ==
  LET small == Summary(recs, pair[1], "tps")
  IN 100 * (small - Summary(recs, pair[2], "tps")) >= GapPercent * small

\* Mutant of IsRepeated: the paired gaps are counted, but need not be any.
IsRepeatedOften(recs, pair) ==
  Cardinality(DOMAIN PairedGaps(recs, pair[1], pair[2])) >= MinimumRepetitions

IsRepeated(recs, pair) ==
  LET gaps == PairedGaps(recs, pair[1], pair[2])
  IN /\ Cardinality(DOMAIN gaps) >= MinimumRepetitions
     /\ Cardinality({n \in DOMAIN gaps : gaps[n] > 0}) >= MinimumSupport
     /\ 100 * TwiceMedian(gaps) >= 2 * GapPercent * Scale

Candidates(recs) ==
  {pair \in Compared(recs) :
     ShowsGap(recs, pair) /\ IsTradeoff(recs, pair) /\ IsRepeated(recs, pair)}

\* best_observed_tradeoff, the report's last section: of the largest gap.
BestTradeoffs(recs) ==
  LET tradeoffs == {pair \in Compared(recs) : IsTradeoff(recs, pair)}
      tps(pair, i) == Summary(recs, pair[i], "tps")
  IN {best \in tradeoffs : \A pair \in tradeoffs :
        tps(pair, 2) * tps(best, 1) >= tps(best, 2) * tps(pair, 1)}

-------------------------------------------------------------------------------
(* The run and its admission.                                               *)

\* Mutant of Scheduled: every repetition runs the arms in the same order.
ScheduledForward(i) ==
  LET n == Len(spec.arms)
  IN [arm |-> spec.arms[((i - 1) % n) + 1], repetition |-> (i - 1) \div n]

\* balanced_schedule: every repetition has all arms, every second one reversed.
Scheduled(i) ==
  LET n == Len(spec.arms)
      repetition == (i - 1) \div n
      k == (i - 1) % n
  IN [arm |-> spec.arms[IF repetition % 2 = 0 THEN k + 1 ELSE n - k], repetition |-> repetition]

\* Mutant of NumRows: the warmup round is counted in.
NumRowsWithWarmup == Len(spec.arms) * (spec.repetitions + 1)

NumRows == Len(spec.arms) * spec.repetitions

MeasureRow ==
  /\ pc = "measure" /\ Len(records) < NumRows
  /\ \E seen \in Observations :
       LET due == Scheduled(Len(records) + 1)
       IN records' = Append(records, [arm |-> due.arm, repetition |-> due.repetition, seen |-> seen])
  /\ UNCHANGED <<spec, artifact, pc, reports, verdict, gains>>

\* Mutant of Admissible: the telemetry is not looked at.
AdmissibleIfFast(r) == r.seen.tps > 0

\* Mutant of Admissible: a throughput need not be reported.
AdmissibleIfObserved(r) ==
  Cardinality({i \in DOMAIN r.seen.memory : r.seen.memory[i].free # None}) >= 2

\* decide_run, of what the analysis reads: a positive throughput, two free
\* percentages and none below the guard, no excess swap at the end, and a hit
\* rate if the experiment requires expert telemetry. (The other reasons to
\* refuse a row have the same effect as these.)
Admissible(r) ==
  LET memory == r.seen.memory
  IN /\ r.seen.tps > 0
     /\ Cardinality({i \in DOMAIN memory : memory[i].free # None}) >= 2
     /\ MinimumFree(r) >= MinFree
     /\ memory[Len(memory)].swap - memory[1].swap <= MaxSwapDelta
     /\ spec.telemetry => r.seen.hit # None

Admit ==
  /\ pc = "measure" /\ Len(records) = NumRows
  /\ LET admitted == {i \in DOMAIN records : Admissible(records[i])}
     IN artifact' = [complete |-> Cardinality(admitted) = NumRows,
                     records |-> Restrict(records, admitted)]
  /\ pc' = "admitted"
  /\ UNCHANGED <<spec, records, reports, verdict, gains>>

-------------------------------------------------------------------------------
(* The analyze commands.                                                    *)

Analysable == artifact.complete /\ artifact.records # <<>>

\* The artifact is not analysable, or the directory that was given does not
\* hold exactly one.
Refuse ==
  /\ pc = "admitted"
  /\ pc' = "refused"
  /\ UNCHANGED <<spec, records, artifact, reports, verdict, gains>>

\* The verdict is written before the other two files.
WriteAnalysis ==
  /\ pc = "admitted" /\ Analysable
  /\ verdict' = Candidates(artifact.records)
  /\ reports' = reports \cup {"analysis.json"} /\ pc' = "json"
  /\ UNCHANGED <<spec, records, artifact, gains>>

WriteSummary ==
  /\ pc = "json"
  /\ reports' = reports \cup {"summary.csv"} /\ pc' = "csv"
  /\ UNCHANGED <<spec, records, artifact, verdict, gains>>

\* A best tradeoff without paired gaps has no median to format: TypeError. (Of
\* several best ones the code takes the first.)
Unreportable(pair) == DOMAIN PairedGaps(artifact.records, pair[1], pair[2]) = {}

WriteReport ==
  /\ pc = "csv"
  /\ LET best == BestTradeoffs(artifact.records)
     IN \/ (\E pair \in best : Unreportable(pair)) /\ pc' = "failed" /\ UNCHANGED reports
        \/ /\ best = {} \/ \E pair \in best : ~Unreportable(pair)
           /\ reports' = reports \cup {"gate1.md"} /\ pc' = "done"
  /\ UNCHANGED <<spec, records, artifact, verdict, gains>>

\* Ctrl-C between two files.
Interrupted ==
  /\ pc \in Writing
  /\ pc' = "dead"
  /\ UNCHANGED <<spec, records, artifact, reports, verdict, gains>>

\* Mutant of Slowdowns: the arms are swapped.
SlowdownsSwapped(baseline, candidate) == PairedGaps(artifact.records, candidate, baseline)

\* purgeable_comparison pairs the baseline with the candidate as gate 1 pairs
\* the smaller arm with the larger one ...
Slowdowns(baseline, candidate) == PairedGaps(artifact.records, baseline, candidate)

\* ... and a gain is a slowdown negated. The aggregate gain is that of the
\* medians; only its sign is kept.
Comparison(baseline, candidate) ==
  LET slowdowns == Slowdowns(baseline, candidate)
      tps(arm) == Summary(artifact.records, arm, "tps")
  IN [baseline |-> baseline, candidate |-> candidate,
      median |-> TwiceMedian([n \in DOMAIN slowdowns |-> -slowdowns[n]]),
      aggregate |-> tps(candidate) - tps(baseline)]

\* Refused without a trace if the artifact is not analysable or lacks an arm.
ComparePurgeable ==
  /\ pc = "admitted" /\ Analysable
  /\ \E candidate, baseline \in ArmsOf(artifact.records) :
       gains' = {Comparison(baseline, candidate)}
  /\ reports' = reports \cup {"purgeable.json"}
  /\ UNCHANGED <<spec, records, artifact, pc, verdict>>

Next ==
  \/ MeasureRow
  \/ Admit
  \/ Refuse
  \/ WriteAnalysis
  \/ WriteSummary
  \/ WriteReport
  \/ Interrupted
  \/ ComparePurgeable

Spec == Init /\ [][Next]_vars

-------------------------------------------------------------------------------
(* Properties.                                                              *)

Analysed == "analysis.json" \in reports
Repetitions == 0..(spec.repetitions - 1)

\* What the artifact has of an arm in a repetition.
Seen(arm, n) ==
  (CHOOSE r \in Range(artifact.records) : r.arm = arm /\ r.repetition = n).seen

\* methodology.tex's "balanced order": when all rows are in, every arm has one row
\* per repetition, and of two arms neither ran before the other more than one
\* time oftener, so that no arm always finds the machine warm.
OrderIsBalanced ==
  pc = "admitted" =>
    LET at(arm, n) == {i \in DOMAIN records : records[i].arm = arm /\ records[i].repetition = n}
        firsts(a, b) == Cardinality({n \in Repetitions : Min(at(a, n)) < Min(at(b, n))})
    IN /\ \A a \in ArmsOf(records), n \in Repetitions : Cardinality(at(a, n)) = 1
       /\ \A a, b \in ArmsOf(records) : a # b => firsts(a, b) - firsts(b, a) \in -1..1

\* An analysis that began to write is not stopped half way by its own data:
\* what admission lets through can always be reported. Only Ctrl-C leaves a
\* verdict without its report.
ReportsComplete ==
  /\ pc # "failed"
  /\ pc = "done" => GateFiles \subseteq reports

\* Admission covers what the gate assumes: no summary of an analysed artifact
\* lacks a number that gate 1 would replace by zero, so that evidence of
\* pressure is always measured.
EvidenceIsMeasured ==
  Analysed =>
    \A arm \in ArmsOf(artifact.records), name \in DOMAIN TwiceEvidence :
      Summary(artifact.records, arm, name) # None

\* The verdict is about the arms, not about the order in which the experiment
\* lists and runs them, as long as their caches differ.
VerdictIgnoresOrder ==
  Analysed /\ (\A a, b \in ArmsOf(artifact.records) : a.cache = b.cache => a = b) =>
    verdict = Candidates(Reverse(artifact.records))

\* The large arm is slower by the threshold, in repetition n.
GapIn(n, small, large) ==
  100 * (Seen(small, n).tps - Seen(large, n).tps) >= GapPercent * Seen(small, n).tps

\* The large arm hits more and swaps more at some moment of repetition n.
SwapForHitsIn(n, small, large) ==
  LET swapped(arm) == {m.swap - Seen(arm, n).memory[1].swap : m \in Range(Seen(arm, n).memory)}
  IN /\ Seen(small, n).hit # None /\ Seen(large, n).hit > Seen(small, n).hit
     /\ \E x \in swapped(large) : \A y \in swapped(small) : x > y

\* Gate 1 misses nothing unanimous: a pair whose every matched repetition shows
\* the gap, the hit gain and more swap is a candidate, whatever the medians of
\* the two arms hide and whichever repetitions they come from.
UnanimousGapPasses ==
  Analysed /\ spec.repetitions >= MinimumRepetitions =>
    \A small, large \in ArmsOf(artifact.records) :
      /\ small.pressure = large.pressure /\ small.cache < large.cache
      /\ \A n \in Repetitions : GapIn(n, small, large) /\ SwapForHitsIn(n, small, large)
      => <<small, large>> \in verdict

\* Gate 1 finds nothing in a minority: at least half of the repetitions of a
\* candidate show the whole gap by themselves, and the larger cache of the
\* pair had more hits in some repetition.
PassNeedsHalf ==
  \A pair \in verdict :
    /\ 2 * Cardinality({n \in Repetitions : GapIn(n, pair[1], pair[2])}) >= spec.repetitions
    /\ \E n, m \in Repetitions : Seen(pair[2], n).hit > Seen(pair[1], m).hit

\* A purgeable candidate that wins, or loses, every matched repetition is
\* reported with a paired median and an aggregate of that sign.
UnanimousWinIsReported ==
  \A g \in gains :
    LET wins(a, b) == \A n \in Repetitions : Seen(a, n).tps > Seen(b, n).tps
    IN /\ wins(g.candidate, g.baseline) => g.median > 0 /\ g.aggregate > 0
       /\ wins(g.baseline, g.candidate) => g.median < 0 /\ g.aggregate < 0
===============================================================================
