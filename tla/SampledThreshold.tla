-------------------------- MODULE SampledThreshold --------------------------
(***************************************************************************)
(* The sampled pre-pass of one row: the keys of the common sample are        *)
(* gathered, scored, and a CTA selects the score of the guarded rank among   *)
(* those the row may see, byte by byte, as the row's threshold.              *)
(*                                                                         *)
(* Abstractions.  A warp is one process between two rounds of               *)
(* __syncthreads.  A score is its ordered key, a number of Digits digits in  *)
(* base Radix; NotFinite is a NaN or an infinity.  The keys of finite scores *)
(* are above 0, which stands for minus infinity as a threshold.              *)
(***************************************************************************)
EXTENDS RadixSelect, Sequences, FiniteSets

CONSTANTS
  NumWarps, Lanes,   \* kThresholdThreads, as warps of so many lanes
  Digits,            \* radix rounds
  Target,            \* target_candidates
  Samplings          \* [start, end, key, ids, rank]: a row and how it is sampled

NotFinite == -1
MinusInfinity == 0
Unwritten == -1
Warp == 0 .. NumWarps - 1

\* The sample is drawn without replacement, and sorted; the host checks its
\* rank.  Its sizes are multiples of a warp, so all lanes vote in every turn.
ASSUME ThresholdAssumption ==
  /\ NumWarps \in Nat \ {0} /\ Lanes \in Nat \ {0}
  /\ Radix \in Nat \ {0, 1} /\ Digits \in Nat \ {0} /\ Target \in Nat \ {0}
  /\ \A s \in Samplings :
       /\ s.start \in Int /\ s.end \in Int /\ s.ids \in Seq(Nat)
       /\ s.rank \in 1 .. Len(s.ids) /\ Len(s.ids) % Lanes = 0
       /\ \A i, j \in DOMAIN s.ids : i < j => s.ids[i] < s.ids[j]
       /\ \A i \in DOMAIN s.ids : s.key[s.ids[i]] \in {NotFinite} \cup 1 .. Weight[Digits] - 1

VARIABLES
  sampling,     \* the row and its sample
  gathered,     \* per sample: the position whose key is in sampled_kv
  warp,         \* per warp: pc, digit, rank, threshold
  entered,      \* per warp: rounds of __syncthreads it has arrived at
  histogram,
  shared,       \* selected_byte, selected_greater, valid_samples
  threshold     \* thresholds[row]

thresholdVars == <<sampling, gathered, warp, entered, histogram, shared, threshold>>

\* Shared memory is not initialised.
ThresholdInit ==
  /\ sampling \in Samplings
  /\ gathered = [i \in DOMAIN sampling.ids |-> Unwritten]
  /\ warp = [w \in Warp |-> [pc |-> "gather", digit |-> Digits - 1,
                             rank |-> sampling.rank, prefix |-> 0]]
  /\ entered = [w \in Warp |-> 0]
  /\ histogram = [b \in Bin |-> 1]
  /\ \E byte \in Bin : shared = [byte |-> byte, greater |-> 1, valid |-> Radix]
  /\ threshold = Unwritten

Synced(w) == \A v \in Warp : entered[v] >= entered[w]
Sync(w)   == entered' = [entered EXCEPT ![w] = @ + 1]
At(w, pc)   == warp[w].pc = pc /\ Synced(w)
Goto(w, pc) == warp' = [warp EXCEPT ![w].pc = pc]

\* gather_sampled_kv, and the next kernels of the stream after it.
Gather ==
  /\ \A w \in Warp : warp[w].pc = "gather"
  /\ gathered' = [i \in DOMAIN sampling.ids |-> sampling.ids[i]]
  /\ warp' = [w \in Warp |-> [warp[w] EXCEPT !.pc = "range"]]
  /\ UNCHANGED <<sampling, entered, histogram, shared, threshold>>

\* The score of a gathered key, as the sampled GEMM leaves it.
SampledScore(i) == sampling.key[gathered[i]]

\* A row that has no more keys than candidates are wanted keeps them all.
CheckRange(w) ==
  LET keepsAll == sampling.end - sampling.start <= Target
  IN  /\ warp[w].pc = "range"
      /\ threshold' = IF keepsAll /\ w = 0 THEN MinusInfinity ELSE threshold
      /\ Goto(w, IF keepsAll THEN "done" ELSE "clear")
      /\ UNCHANGED <<sampling, gathered, entered, histogram, shared>>

ClearHistogram(w) ==
  /\ warp[w].pc = "clear"
  /\ histogram' = [b \in Bin |-> IF (b \div Lanes) % NumWarps = w THEN 0 ELSE histogram[b]]
  /\ Sync(w) /\ Goto(w, "count")
  /\ UNCHANGED <<sampling, gathered, shared, threshold>>

\* The samples a warp reads, and those of them the row may see.
ReadBy(w) == {i \in DOMAIN sampling.ids : ((i - 1) \div Lanes) % NumWarps = w}
Valid(i) ==
  /\ sampling.start <= sampling.ids[i] /\ sampling.ids[i] < sampling.end
  /\ SampledScore(i) # NotFinite

\* warp_histogram_add: samples that agree with the digits fixed so far.
CountSamples(w) ==
  LET d == warp[w].digit
      active == {i \in ReadBy(w) : Valid(i) /\ AboveDigit(SampledScore(i), d)
                                                = AboveDigit(warp[w].prefix, d)}
  IN  /\ At(w, "count")
      /\ histogram' = [b \in Bin |-> histogram[b]
                         + Cardinality({i \in active : DigitOf(SampledScore(i), d) = b})]
      /\ Sync(w) /\ Goto(w, IF d = Digits - 1 THEN "total" ELSE "select")
      /\ UNCHANGED <<sampling, gathered, shared, threshold>>

\* Bug: the threads go on to read the number while the first one writes it.
TotalUnsynced(w) ==
  /\ At(w, "total")
  /\ shared' = IF w = 0
               THEN [shared EXCEPT !.valid = CountIn(histogram, Bin)]
               ELSE shared
  /\ Goto(w, "check")
  /\ UNCHANGED <<sampling, gathered, entered, histogram, threshold>>

\* In the first round thread 0 adds up how many samples are valid.
Total(w) ==
  /\ At(w, "total")
  /\ shared' = IF w = 0
               THEN [shared EXCEPT !.valid = CountIn(histogram, Bin)]
               ELSE shared
  /\ Sync(w) /\ Goto(w, "check")
  /\ UNCHANGED <<sampling, gathered, histogram, threshold>>

\* Fewer valid samples than the rank asks for: every key is kept.
CheckSamples(w) ==
  LET tooFew == shared.valid < sampling.rank
  IN  /\ At(w, "check")
      /\ threshold' = IF tooFew /\ w = 0 THEN MinusInfinity ELSE threshold
      /\ Goto(w, IF tooFew THEN "done" ELSE "select")
      /\ UNCHANGED <<sampling, gathered, entered, histogram, shared>>

\* select_histogram_byte, by the first warp.
SelectByte(w) ==
  LET found == BinsOfRank(histogram, warp[w].rank, Bin)
  IN  /\ At(w, "select")
      /\ \/ (w # 0 \/ found = {}) /\ UNCHANGED shared
         \/ w = 0 /\ \E b \in found :
                       shared' = [shared EXCEPT !.byte = b, !.greater = CountAbove(histogram, b)]
      /\ Sync(w) /\ Goto(w, "narrow")
      /\ UNCHANGED <<sampling, gathered, histogram, threshold>>

\* Bug: the rank is not reduced by the samples above the selected byte.
NarrowSameRank(w) ==
  LET prefix == warp[w].prefix + shared.byte * Weight[warp[w].digit]
      last == warp[w].digit = 0
  IN  /\ At(w, "narrow")
      /\ threshold' = IF last /\ w = 0 THEN prefix ELSE threshold
      /\ warp' = [warp EXCEPT ![w] = [warp[w] EXCEPT !.prefix = prefix,
           !.digit = IF last THEN 0 ELSE @ - 1, !.pc = IF last THEN "done" ELSE "clear"]]
      /\ UNCHANGED <<sampling, gathered, entered, histogram, shared>>

\* The next digit, or after the last one the threshold.
Narrow(w) ==
  LET prefix == warp[w].prefix + shared.byte * Weight[warp[w].digit]
      last == warp[w].digit = 0
  IN  /\ At(w, "narrow")
      /\ threshold' = IF last /\ w = 0 THEN prefix ELSE threshold
      /\ warp' = [warp EXCEPT ![w] = [warp[w] EXCEPT !.rank = @ - shared.greater, !.prefix = prefix,
           !.digit = IF last THEN 0 ELSE @ - 1, !.pc = IF last THEN "done" ELSE "clear"]]
      /\ UNCHANGED <<sampling, gathered, entered, histogram, shared>>

-----------------------------------------------------------------------------
ThresholdStep(w) ==
  \/ CheckRange(w) \/ ClearHistogram(w) \/ CountSamples(w) \/ Total(w) \/ CheckSamples(w)
  \/ SelectByte(w) \/ Narrow(w)

ThresholdNext == Gather \/ \E w \in Warp : ThresholdStep(w)

ThresholdFair ==
  WF_thresholdVars(Gather) /\ \A w \in Warp : WF_thresholdVars(ThresholdStep(w))

ThresholdEnded == \A w \in Warp : warp[w].pc = "done"

-----------------------------------------------------------------------------
\* The finite scores of the sampled positions in the row's range, by sample.
Seen == {i \in DOMAIN sampling.ids :
           /\ sampling.ids[i] \in sampling.start .. sampling.end - 1
           /\ sampling.key[sampling.ids[i]] # NotFinite}
Reach(t) == Cardinality({i \in Seen : sampling.key[sampling.ids[i]] >= t})

\* Once all have ended, the threshold is the score of the given rank among the
\* samples the row sees, ties included: at least as many reach it, and fewer
\* are above it.  With too few samples, or few keys, everything reaches it.
ThresholdExact ==
  ThresholdEnded =>
    IF sampling.end - sampling.start <= Target \/ Cardinality(Seen) < sampling.rank
    THEN threshold = MinusInfinity
    ELSE /\ Reach(threshold) >= sampling.rank
         /\ Reach(threshold + 1) < sampling.rank

=============================================================================
