------------------------------- MODULE Decision -----------------------------
(* What campaign-seal concludes from the runs of a campaign (campaign.py).   *)
(* The runs of a block are made one after another while the machine drifts;  *)
(* the medians of the two runs of an arm are combined per block, the blocks  *)
(* are the sample.  Latencies are whole numbers, ratios pairs of them.       *)
EXTENDS Integers, Sequences, FiniteSets, FiniteSetsExt

CONSTANTS
  OrderPlans,   \* the frozen orders a configuration may have, one per block
  Shifts,       \* what a block may be like: [latency : case -> arm -> median,
                \* drift : what each position adds, tail, eventTail : arm -> how much
                \* more the 95th percentile of a run's kernel sums, event times is,
                \* noisy : the cases with a run too few or noisy within itself]
  CampaignCases

\* Between three and five blocks the 95 % interval of the bootstrap of their
\* median reaches from the least of them to the greatest: each makes at least
\* 5.0 % of the draws' medians.
ASSUME FewBlocks == \A plan \in OrderPlans : plan \in Seq({"ABBA", "BAAB"}) /\ Len(plan) \in 3..5

\* A latency that is not positive does not get into a table.
ASSUME LatenciesArePositive ==
  \A shift \in Shifts :
    /\ shift.drift \in Int
    /\ \A c \in CampaignCases, arm \in {"A", "B"} :
         /\ shift.latency[c][arm] \in Int
         /\ \A position \in 1..4 : shift.latency[c][arm] + shift.drift * position > 0

VARIABLES
  orders,     \* the plan of this campaign
  blocks,     \* what the machine was like in each block that was run
  decision    \* the sealed statuses

decisionVars == <<orders, blocks, decision>>

Undecided == [overall |-> "open", cases |-> <<>>]

DecisionInit ==
  /\ orders \in OrderPlans
  /\ blocks = <<>>
  /\ decision = Undecided

\* Bug: the arms take turns, as in ABAB.
ArmAtAlternating(order, position) ==
  IF (order = "ABBA") = (position \in {1, 3}) THEN "A" ELSE "B"

ArmAt(order, position) ==
  IF (order = "ABBA") = (position \in {1, 4}) THEN "A" ELSE "B"

RunBlock ==
  /\ decision = Undecided /\ Len(blocks) < Len(orders)
  /\ \E shift \in Shifts : blocks' = Append(blocks, shift)
  /\ UNCHANGED <<orders, decision>>

---------------------------------------------------------------------------
\* The median of a run, and the sum of an arm's two: the median of two values
\* up to the factor that cancels in a ratio.
RunMedian(b, case, position) ==
  blocks[b].latency[case][ArmAt(orders[b], position)] + blocks[b].drift * position
ArmSum(b, case, arm, Of(_, _, _)) ==
  MapThenSumSet(LAMBDA p : Of(b, case, p), {p \in 1..4 : ArmAt(orders[b], p) = arm})
RunP95(b, case, position) == RunMedian(b, case, position) + blocks[b].tail[ArmAt(orders[b], position)]
EventP95(b, case, position) ==
  RunMedian(b, case, position) + blocks[b].eventTail[ArmAt(orders[b], position)]

Ratio(n, d) == [num |-> n, den |-> d]
AtMost(r, s) == r.num * s.den <= s.num * r.den
Less(r, s) == ~AtMost(s, r)
One == Ratio(1, 1)
Hundredths(n) == Ratio(n, 100)

Speedup(case) ==
  [b \in DOMAIN blocks |-> Ratio(ArmSum(b, case, "A", RunMedian), ArmSum(b, case, "B", RunMedian))]
TailRatio(case, P95(_, _, _)) ==
  [b \in DOMAIN blocks |-> Ratio(ArmSum(b, case, "B", P95), ArmSum(b, case, "A", P95))]

\* The k-th smallest of a sequence of ratios.
Kth(ratios, k) ==
  CHOOSE r \in {ratios[b] : b \in DOMAIN ratios} :
    /\ Cardinality({b \in DOMAIN ratios : Less(ratios[b], r)}) < k
    /\ Cardinality({b \in DOMAIN ratios : AtMost(ratios[b], r)}) >= k
Mean(r, s) == Ratio(r.num * s.den + s.num * r.den, 2 * r.den * s.den)
MedianOf(ratios) ==
  LET n == Len(ratios) IN Mean(Kth(ratios, (n + 1) \div 2), Kth(ratios, n \div 2 + 1))

CaseStatus(case) ==
  LET speedups == Speedup(case)
      n == Len(speedups)
      steady == \A b \in DOMAIN blocks : case \notin blocks[b].noisy
  IN CASE ~steady -> "unstable"
       [] /\ steady
          /\ AtMost(Hundredths(103), MedianOf(speedups)) /\ Less(One, Kth(speedups, 1))
          /\ AtMost(Kth(TailRatio(case, RunP95), n), Hundredths(105))
          /\ AtMost(Kth(TailRatio(case, EventP95), n), Hundredths(105)) -> "improved"
       [] /\ steady
          /\ AtMost(MedianOf(speedups), Hundredths(97)) /\ Less(Kth(speedups, n), One) -> "regressed"
       [] OTHER -> "inconclusive"

Overall(statuses) ==
  LET said == {statuses[c] : c \in DOMAIN statuses} IN
    IF "unstable" \in said THEN "unstable"
    ELSE IF said = {"improved"} THEN "improved"
    ELSE IF "regressed" \in said THEN "regressed"
    ELSE "inconclusive"

Decide ==
  /\ decision = Undecided /\ Len(blocks) = Len(orders)
  /\ LET statuses == [c \in CampaignCases |-> CaseStatus(c)]
     IN decision' = [overall |-> Overall(statuses), cases |-> statuses]
  /\ UNCHANGED <<orders, blocks>>

DecisionNext == RunBlock \/ Decide

DecisionSpec == DecisionInit /\ [][DecisionNext]_decisionVars

---------------------------------------------------------------------------
\* A verdict is never the drift's: a campaign that says "improved" was run on a
\* candidate that is faster in every case and block, one that says "regressed"
\* on one that is slower in every block of some case, however the machine
\* slowed down or sped up along the positions of each block.  The mirrored
\* orders are what makes this so (campaign.py:46-59, 326-350, 392-451).
DriftCancels ==
  LET Faster(x, y, c) == \A b \in DOMAIN blocks : blocks[b].latency[c][x] < blocks[b].latency[c][y]
  IN /\ decision.overall = "improved" => \A c \in CampaignCases : Faster("B", "A", c)
     /\ decision.overall = "regressed" => \E c \in CampaignCases : Faster("A", "B", c)
=============================================================================
