------------------------------- MODULE Repair -------------------------------
(***************************************************************************)
(* The complete operator: the fused kernel, then the device-masked repair.  *)
(*                                                                         *)
(* The host enqueues the same kernels at every call, whatever the rows      *)
(* need: the fused kernel, the chunk ranges, and per chunk of the keys the  *)
(* repair producer, the local selection and the merge, then the final       *)
(* commit.  Every kernel masks itself by the failure flags in device        *)
(* memory.  All buffers are allocated once, uninitialised, and used again   *)
(* by every call.                                                           *)
(*                                                                         *)
(* Abstractions.  The kernels of the stream run one after another; inside   *)
(* one, the rows (row pairs, for the producer) are taken in any order.  The *)
(* fused kernel does what SelectRow shows of it: a row is exact, or it is   *)
(* flagged and filled with -1, and which of the two is up to the sampled    *)
(* threshold.  The selection of pairs inside a CTA is a choice among the    *)
(* results it may leave.  A pair is <<ordered score, position>>.            *)
(***************************************************************************)
EXTENDS Integers, Sequences, FiniteSets, FiniteSetsExt, SequencesExt

CONSTANTS
  NumRows,    \* query rows, an even number
  K,          \* kTopK
  Columns,    \* context length
  ChunkSize,  \* _REPAIR_CHUNK_ELEMENTS
  Segments,   \* kSegments: math warps of the repair producer
  SegmentCapacity,
  Inputs,     \* the rows a call may bring: start, end, score
  MaxCalls    \* bound on the calls of one prepared graph

ASSUME RepairAssumption ==
  /\ NumRows \in Nat \ {0} /\ NumRows % 2 = 0
  /\ K \in Nat \ {0} /\ Columns \in Nat \ {0} /\ ChunkSize \in Nat \ {0}
  /\ Segments \in Nat \ {0} /\ ChunkSize % Segments = 0
  /\ SegmentCapacity = ChunkSize \div Segments /\ MaxCalls \in Nat

\* The range of a row lies in the context, and every position has a score.
ASSUME InputsAssumption ==
  \A row \in Inputs : /\ row.start \in 0 .. Columns /\ row.end \in 0 .. Columns
                      /\ row.score \in [0 .. Columns - 1 -> Nat]

RowId   == 1 .. NumRows
Pair    == 1 .. NumRows \div 2
Segment == 0 .. Segments - 1
Chunks  == (Columns + ChunkSize - 1) \div ChunkSize
Chunk   == 0 .. Chunks - 1

VARIABLES
  call,       \* calls begun
  input,      \* the rows of the call
  stage,      \* the kernel that runs, and the chunk it runs for
  todo,       \* its rows (row pairs) that have not been done
  output, failure,                       \* what the operator returns
  chunkStart, chunkEnd,                  \* per chunk and row: valid range in the chunk
  candidates, segmentCounts,             \* per row and segment
  localPairs, localCounts,               \* per row: selection of the chunk
  accumulatorPairs, accumulatorCounts,   \* per row: selection of the chunks so far
  repairError                            \* per row: repair_error_flags

ranges    == <<chunkStart, chunkEnd>>
produced  == <<candidates, segmentCounts>>
local     == <<localPairs, localCounts>>
merged    == <<accumulatorPairs, accumulatorCounts>>
workspace == <<ranges, produced, local, merged, repairError>>
vars == <<call, input, stage, todo, output, failure, workspace>>

-----------------------------------------------------------------------------
Unset == [p \in 1 .. K |-> -1]

\* Uninitialised memory: flags of either value, and counts and pairs that
\* look like those of a finished row.
Init ==
  /\ call = 0 /\ input = [r \in RowId |-> <<>>]
  /\ stage = [kernel |-> "none", chunk |-> 0] /\ todo = {}
  /\ output = [r \in RowId |-> [p \in 1 .. K |-> 0]]
  /\ failure \in [RowId -> {0, 1}]
  /\ chunkStart = [c \in Chunk |-> [r \in RowId |-> 0]]
  /\ chunkEnd = [c \in Chunk |-> [r \in RowId |-> 0]]
  /\ candidates = [r \in RowId |-> [s \in Segment |-> << <<9, 0>> >>]]
  /\ segmentCounts = [r \in RowId |-> [s \in Segment |-> 1]]
  /\ localPairs = [r \in RowId |-> [p \in 1 .. K |-> <<9, 0>>]]
  /\ localCounts = [r \in RowId |-> K]
  /\ accumulatorPairs = [r \in RowId |-> [p \in 1 .. K |-> <<9, 0>>]]
  /\ accumulatorCounts = [r \in RowId |-> K]
  /\ repairError \in [RowId -> {0, 2}]

Launch(kernel, chunk, work) ==
  stage' = [kernel |-> kernel, chunk |-> chunk] /\ todo' = work

\* The kernel of this name runs, and x is among the work it has not done.
Running(kernel, x) == stage.kernel = kernel /\ x \in todo
Done(x) == todo' = todo \ {x} /\ UNCHANGED <<call, input, stage>>

Call ==
  /\ stage.kernel = "none" /\ call < MaxCalls
  /\ call' = call + 1
  /\ input' \in [RowId -> Inputs]
  /\ Launch("fused", 0, RowId)
  /\ UNCHANGED <<output, failure, workspace>>

\* The next kernel of the stream starts when every row is done.
NextKernel ==
  LET c == stage.chunk
  IN  /\ todo = {}
      /\ CASE stage.kernel = "fused"    -> Launch("ranges", 0, Chunk)
           [] stage.kernel = "ranges"   -> Launch("produce", 0, Pair)
           [] stage.kernel = "produce"  -> Launch("local", c, RowId)
           [] stage.kernel = "local"    -> Launch("merge", c, RowId)
           [] stage.kernel = "merge"    -> IF c + 1 \in Chunk
                                           THEN Launch("produce", c + 1, Pair)
                                           ELSE Launch("finalize", 0, RowId)
           [] stage.kernel = "finalize" -> Launch("none", 0, {})
           [] OTHER                     -> FALSE
      /\ UNCHANGED <<call, input, output, failure, workspace>>

-----------------------------------------------------------------------------
(* The kernels.                                                             *)

Valid(row) == {id \in 0 .. Columns - 1 : row.start <= id /\ id < row.end}

Best(S, P, n, score) ==
  /\ S \subseteq P /\ Cardinality(S) = n
  /\ \A i \in S, j \in P \ S : score[i] >= score[j]

\* A row the fused kernel accepts.
Accepted(r) ==
  LET row == input[r]
  IN  /\ failure' = [failure EXCEPT ![r] = 0]
      /\ IF Cardinality(Valid(row)) <= K
         THEN output' = [output EXCEPT ![r] =
                [p \in 1 .. K |-> IF p <= Cardinality(Valid(row)) THEN row.start + p - 1 ELSE -1]]
         ELSE \E S \in kSubset(K, Valid(row)) :
                /\ Best(S, Valid(row), K, row.score)
                /\ output' = [output EXCEPT ![r] = SetToSeq(S)]

\* Bug: the output of a flagged row is left as the last call wrote it.
FlaggedOnly(r) ==
  /\ Cardinality(Valid(input[r])) > K
  /\ failure' = [failure EXCEPT ![r] = 1]
  /\ UNCHANGED output

Flagged(r) ==
  /\ Cardinality(Valid(input[r])) > K
  /\ failure' = [failure EXCEPT ![r] = 1]
  /\ output' = [output EXCEPT ![r] = Unset]

FusedTopK(r) ==
  /\ Running("fused", r)
  /\ Accepted(r) \/ Flagged(r)
  /\ Done(r) /\ UNCHANGED workspace

Width(c) == Min({ChunkSize, Columns - c * ChunkSize})
Clip(c, position) == Min({Width(c), Max({0, position - c * ChunkSize})})

UpdateChunkRanges(c) ==
  /\ Running("ranges", c)
  /\ chunkStart' = [chunkStart EXCEPT ![c] = [r \in RowId |-> Clip(c, input[r].start)]]
  /\ chunkEnd' = [chunkEnd EXCEPT ![c] = [r \in RowId |-> Clip(c, input[r].end)]]
  /\ Done(c) /\ UNCHANGED <<output, failure, produced, local, merged, repairError>>

\* A math warp emits all the valid positions of its share of the chunk, as
\* positions of the chunk; nothing of a row that is not flagged.  (No kernel
\* depends on the order of a segment or of the pairs it selects from.)
Share(r, s) ==
  {id \in 0 .. Width(stage.chunk) - 1 :
     /\ id % Segments = s /\ failure[r] # 0
     /\ chunkStart[stage.chunk][r] <= id /\ id < chunkEnd[stage.chunk][r]}

Emitted(r, s) ==
  LET share == SetToSeq(Share(r, s))
  IN  [i \in DOMAIN share |-> <<input[r].score[stage.chunk * ChunkSize + share[i]], share[i]>>]

\* Rows 2p - 1 and 2p share one scan, left out when neither is flagged.
ProduceRepairCandidates(p) ==
  LET pair == {2 * p - 1, 2 * p}
  IN  /\ Running("produce", p)
      /\ IF \A r \in pair : failure[r] = 0
         THEN UNCHANGED produced
         ELSE /\ candidates' = [r \in RowId |->
                   IF r \in pair THEN [s \in Segment |-> Emitted(r, s)] ELSE candidates[r]]
              /\ segmentCounts' = [r \in RowId |->
                   IF r \in pair THEN [s \in Segment |-> Len(Emitted(r, s))] ELSE segmentCounts[r]]
      /\ Done(p) /\ UNCHANGED <<output, failure, ranges, local, merged, repairError>>

\* select_topk_pairs: what it may leave in the K places that held `old`.  Up
\* to K pairs are copied and padded; of more, those above the K-th score and
\* any of those equal to it.  A key of 0 is not counted and never chosen as
\* equal: with fewer than K others no digit of the threshold is found, what an
\* uninitialised one lets through is written, and an error is reported.
Padded(pairs) == [p \in 1 .. K |-> IF p <= Len(pairs) THEN pairs[p] ELSE <<0, 0>>]

KthScore(pairs) ==
  CHOOSE s \in {pairs[i][1] : i \in DOMAIN pairs} :
    /\ Cardinality({i \in DOMAIN pairs : pairs[i][1] > s}) < K
    /\ Cardinality({i \in DOMAIN pairs : pairs[i][1] >= s}) >= K

SelectionError(pairs) == Len(pairs) > K /\ KthScore(pairs) = 0

Above(pairs, t) == {i \in DOMAIN pairs : pairs[i][1] > t}
Level(pairs, t) == {i \in DOMAIN pairs : pairs[i][1] = t /\ t # 0}
Picked(s, I)    == LET order == SetToSeq(I) IN [n \in DOMAIN order |-> s[order[n]]]

SelectTopKPairs(pairs, old) ==
  IF Len(pairs) <= K THEN {Padded(pairs)}
  ELSE IF SelectionError(pairs)
  THEN {LET written == Picked(pairs, Above(pairs, t)) \o Picked(pairs, Level(pairs, t))
        IN  written \o SubSeq(old, Len(written) + 1, K) : t \in {x[1] : x \in ToSet(pairs)}}
  ELSE LET above == Above(pairs, KthScore(pairs))
           level == Level(pairs, KthScore(pairs))
       IN  {Picked(pairs, above) \o Picked(pairs, equal) :
              equal \in kSubset(K - Cardinality(above), level)}

\* Bug: the pairs keep the positions of the chunk.
NoLogicalOffset(pair) == pair

AddLogicalOffset(pair) == <<pair[1], pair[2] + stage.chunk * ChunkSize>>

FirstChunk == stage.chunk = 0
Total(r)   == MapThenSumSet(LAMBDA s : segmentCounts[r][s], Segment)
Expected(r) == chunkEnd[stage.chunk][r] - chunkStart[stage.chunk][r]

\* The pairs the shared buffer gets, if the counts are what they must be.
Slots(r) == UNION {{s} \X (1 .. segmentCounts[r][s]) : s \in Segment}

Gathered(r) ==
  LET slots == SetToSeq(Slots(r))
  IN  [n \in DOMAIN slots |-> AddLogicalOffset(candidates[r][slots[n][1]][slots[n][2]])]

BadCounts(r) ==
  \/ Total(r) # Expected(r) \/ Total(r) > ChunkSize
  \/ \E s \in Segment : segmentCounts[r][s] > SegmentCapacity

SetError(r, code) == repairError' = [repairError EXCEPT ![r] = code]

ChunkLocalTopK(r) ==
  LET cleared == IF FirstChunk THEN 0 ELSE repairError[r]
  IN  /\ Running("local", r)
      /\ CASE failure[r] = 0 -> UNCHANGED <<local, repairError>>
           [] failure[r] # 0 /\ BadCounts(r) ->
                /\ SetError(r, 1)
                /\ localCounts' = [localCounts EXCEPT ![r] = 0]
                /\ UNCHANGED localPairs
           [] failure[r] # 0 /\ ~BadCounts(r) /\ cleared # 0 ->
                UNCHANGED <<local, repairError>>
           [] OTHER ->
                LET error == SelectionError(Gathered(r))
                IN  /\ \E pairs \in SelectTopKPairs(Gathered(r), localPairs[r]) :
                         localPairs' = [localPairs EXCEPT ![r] = pairs]
                    /\ SetError(r, IF error THEN 2 ELSE 0)
                    /\ localCounts' = [localCounts EXCEPT ![r] =
                                         IF error THEN 0 ELSE Min({Total(r), K})]
      /\ Done(r) /\ UNCHANGED <<output, failure, ranges, produced, merged>>

MergeTopKPairs(r) ==
  LET have == IF FirstChunk THEN 0 ELSE accumulatorCounts[r]
      both == SubSeq(accumulatorPairs[r], 1, have)
                \o SubSeq(localPairs[r], 1, localCounts[r])
  IN  /\ Running("merge", r)
      /\ IF failure[r] = 0 \/ repairError[r] # 0
         THEN UNCHANGED <<merged, repairError>>
         ELSE /\ \E pairs \in SelectTopKPairs(both, accumulatorPairs[r]) :
                   accumulatorPairs' = [accumulatorPairs EXCEPT ![r] = pairs]
              /\ IF SelectionError(both)
                 THEN SetError(r, 3) /\ UNCHANGED accumulatorCounts
                 ELSE /\ accumulatorCounts' =
                           [accumulatorCounts EXCEPT ![r] = Min({Len(both), K})]
                      /\ UNCHANGED repairError
      /\ Done(r) /\ UNCHANGED <<output, failure, ranges, produced, local>>

\* Bug: rows that are not flagged are committed too.
FinalizeEveryRow(r) ==
  /\ Running("finalize", r)
  /\ IF repairError[r] # 0 \/ accumulatorCounts[r] # K
     THEN UNCHANGED <<output, failure>>
     ELSE /\ output' = [output EXCEPT ![r] = [p \in 1 .. K |-> accumulatorPairs[r][p][2]]]
          /\ failure' = [failure EXCEPT ![r] = 0]
  /\ Done(r) /\ UNCHANGED workspace

FinalizeRepair(r) ==
  /\ Running("finalize", r)
  /\ IF failure[r] = 0 \/ repairError[r] # 0 \/ accumulatorCounts[r] # K
     THEN UNCHANGED <<output, failure>>
     ELSE /\ output' = [output EXCEPT ![r] = [p \in 1 .. K |-> accumulatorPairs[r][p][2]]]
          /\ failure' = [failure EXCEPT ![r] = 0]
  /\ Done(r) /\ UNCHANGED workspace

-----------------------------------------------------------------------------
Finished == call = MaxCalls /\ stage.kernel = "none"

RepairNext ==
  \/ \E c \in Chunk : UpdateChunkRanges(c)
  \/ \E p \in Pair : ProduceRepairCandidates(p)
  \/ \E r \in RowId : ChunkLocalTopK(r) \/ MergeTopKPairs(r) \/ FinalizeRepair(r)

Next ==
  \/ Call \/ NextKernel \/ RepairNext
  \/ \E r \in RowId : FusedTopK(r)
  \/ Finished /\ UNCHANGED vars

Spec == Init /\ [][Next]_vars

-----------------------------------------------------------------------------
(* Properties.                                                              *)

Scored == Nat \X (0 .. Columns - 1)

\* The type invariant of the device buffers.
TypeOK ==
  /\ stage.kernel \in {"none", "fused", "ranges", "produce", "local", "merge", "finalize"}
  /\ stage.chunk \in Chunk
  /\ output \in [RowId -> [1 .. K -> -1 .. Columns - 1]]
  /\ failure \in [RowId -> {0, 1}] /\ repairError \in [RowId -> 0 .. 3]
  /\ chunkStart \in [Chunk -> [RowId -> 0 .. ChunkSize]]
  /\ chunkEnd \in [Chunk -> [RowId -> 0 .. ChunkSize]]
  /\ \A r \in RowId, s \in Segment : candidates[r][s] \in Seq(Scored)
  /\ segmentCounts \in [RowId -> [Segment -> 0 .. SegmentCapacity]]
  /\ localPairs \in [RowId -> [1 .. K -> Scored]]
  /\ accumulatorPairs \in [RowId -> [1 .. K -> Scored]]
  /\ localCounts \in [RowId -> 0 .. K] /\ accumulatorCounts \in [RowId -> 0 .. K]

\* After chunk c of a flagged row is merged without an error, the accumulator
\* holds the best of the row's valid positions in the chunks up to c, by their
\* global positions and with their own scores: nothing of another chunk, row
\* or call.
Scanned(r, c) == {id \in Valid(input[r]) : id < (c + 1) * ChunkSize}

AccumulatorExact ==
  \A r \in RowId :
    stage.kernel = "merge" /\ r \notin todo /\ failure[r] = 1 /\ repairError[r] = 0 =>
      LET P == Scanned(r, stage.chunk)
          n == accumulatorCounts[r]
          pairs == {accumulatorPairs[r][p] : p \in 1 .. n}
      IN  /\ n = Min({K, Cardinality(P)})
          /\ Best({x[2] : x \in pairs}, P, n, input[r].score)
          /\ \A x \in pairs : x[1] = input[r].score[x[2]]

\* The repair changes no row that is not flagged, and flags none.
UnflaggedMasked ==
  [][RepairNext => \A r \in RowId : failure[r] = 0 =>
       output'[r] = output[r] /\ failure'[r] = 0]_vars

\* The operator implements the exact Top-K: at the end of every call every row
\* is exact with its flag off, whichever rows the fused kernel flagged and
\* whatever the buffers held before; only a row with a key of 0 may be left
\* flagged, and shows no position then.
Operator == INSTANCE ExactTopK WITH
  answer <- IF stage.kernel = "none" /\ call > 0
            THEN [r \in RowId |-> [flag |-> failure[r], places |-> output[r]]] ELSE <<>>

ImplementsExactTopK == Operator!Spec
=============================================================================
