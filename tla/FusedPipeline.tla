--------------------------- MODULE FusedPipeline ---------------------------
(***************************************************************************)
(* One persistent CTA of long_fused_topk_prefill_kernel.                    *)
(*                                                                         *)
(* One elected TMA thread copies Q and KV tiles into shared-memory stages,  *)
(* the math warps multiply them with asynchronous WGMMA and append the      *)
(* surviving candidates of each tile to the candidate slot of the block,    *)
(* and the Top-K warps select from a published slot.  The roles meet only   *)
(* at mbarriers, each waited on by parity.                                  *)
(*                                                                         *)
(* Abstractions.  A block (a pair of query rows) is its iteration number    *)
(* q_iter_idx in this CTA.  The result of a tile is the pair <<block whose  *)
(* Q was read, KV tile that was read>>, or Torn when shared memory was      *)
(* being overwritten; every tile contributes one entry to a segment.  A     *)
(* math (Top-K) warp makes the arrivals of its 32 threads at once.  The     *)
(* warps of a warpgroup run independently of one another, which allows      *)
(* every interleaving the hardware can show, and more.                      *)
(***************************************************************************)
EXTENDS MBarrier, Sequences, FiniteSets

CONSTANTS
  MathWarps,       \* the warps of the two WGMMA warpgroups
  TopKWarps,       \* the selection warps
  NumQStages,      \* kNumQStages
  NumKVStages,     \* kNumKVStages
  CandidateSlots,  \* kCandidateSlots
  Overlap,         \* kOverlap: selection of a block overlaps the next block
  Schedule,        \* ITK_LONG_MATH_SCHEDULE
  NumBlocks,       \* blocks this CTA is scheduled for
  MaxTiles,        \* upper bound of num_kv_blocks
  Tiles            \* Tiles[i]: num_kv_blocks of the i-th block

ASSUME PipelineAssumption ==
  /\ MathWarps # {} /\ TopKWarps # {}
  /\ \/ NumQStages = 2 /\ CandidateSlots = 2 /\ Overlap \in BOOLEAN
     \/ NumQStages = 3 /\ CandidateSlots = 1 /\ Overlap = FALSE
  /\ NumKVStages = 3
  /\ Schedule \in {1, 2}
  /\ NumBlocks \in Nat /\ MaxTiles \in Nat
  /\ Tiles \in [0 .. NumBlocks - 1 -> 0 .. MaxTiles]

QStage  == 0 .. NumQStages - 1
KVStage == 0 .. NumKVStages - 1
Slot    == 0 .. CandidateSlots - 1
Block   == 0 .. NumBlocks - 1
Tile    == 0 .. MaxTiles - 1
None    == -1
Torn    == -2

Result == ({Torn, None} \cup Block) \X ({Torn, None} \cup Tile)

VARIABLES
  tma,      \* the TMA thread: pc, iteration, next KV tile, num_total_kv_blocks
  math,     \* per math warp: pc, iteration, tiles issued and consumed, total
  topk,     \* per Top-K warp: pc, iteration
  fullQ,    \* completed phases of full_q_barriers[stage]
  emptyQ,   \* empty_q_barriers[stage]
  fullKV,   \* completed phases of full_kv_barriers[stage]
  emptyKV,  \* empty_kv_barriers[stage]
  ready,    \* candidate_ready[slot]
  free,     \* candidate_free[slot]
  smemQ,    \* block whose Q stage holds, and the block being copied into it
  smemKV,   \* tile whose KV stage holds, and the tile being copied into it
  flight,   \* per math warp: WGMMA groups committed and not complete
  acc,      \* per math warp: the two accumulators, by the parity of the tile
  segment,  \* candidates of [slot][warp][position]
  counts,   \* segment_counts of [slot][warp]
  entered   \* per Top-K warp: selection_sync rounds it has arrived at

tmaVars  == <<tma, fullQ, fullKV, smemQ, smemKV>>
slotVars == <<segment, counts>>
vars == <<tma, math, topk, fullQ, emptyQ, fullKV, emptyKV, ready, free,
          smemQ, smemKV, flight, acc, segment, counts, entered>>

-----------------------------------------------------------------------------
(* load_schedule, get_kv_pipeline and the slot arithmetic: the stage and    *)
(* the phase number of the n-th use of a ring of a given size.              *)

StageOf(n, size) == n % size
UseOf(n, size)   == n \div size

\* A consumer's wait for the n-th filling of its stage, and a producer's
\* wait for the release of what the stage held before.
FilledBy(completed, n, size)   == ParityPasses(completed, ParityOf(UseOf(n, size)))
\* Bug: the producer waits for the phase it is about to fill (no phase ^ 1).
ReleasedForUnflipped(completed, n, size) ==
  ParityPasses(completed, ParityOf(UseOf(n, size)))

ReleasedFor(completed, n, size) ==
  ParityPasses(completed, Flip(ParityOf(UseOf(n, size))))

CandidateSlot(i) == StageOf(i, CandidateSlots)

-----------------------------------------------------------------------------
Stage(contents) == [held |-> contents, copying |-> None]

Init ==
  /\ tma = [pc |-> "prefetch", iter |-> 0, kv |-> 0, total |-> 0]
  /\ math = [w \in MathWarps |->
               [pc |-> "free", iter |-> 0, issued |-> 0, consumed |-> 0, total |-> 0]]
  /\ topk = [k \in TopKWarps |-> [pc |-> "ready", iter |-> 0]]
  /\ fullQ = [s \in QStage |-> 0] /\ emptyQ = [s \in QStage |-> NewBarrier]
  /\ fullKV = [s \in KVStage |-> 0] /\ emptyKV = [s \in KVStage |-> NewBarrier]
  /\ ready = [s \in Slot |-> NewBarrier] /\ free = [s \in Slot |-> NewBarrier]
  /\ smemQ = [s \in QStage |-> Stage(Torn)]
  /\ smemKV = [s \in KVStage |-> Stage(Torn)]
  /\ flight = [w \in MathWarps |-> {}]
  /\ acc = [w \in MathWarps |-> [a \in {0, 1} |-> <<None, None>>]]
  /\ segment = [s \in Slot |-> [w \in MathWarps |-> [p \in Tile |-> <<None, None>>]]]
  /\ counts = [s \in Slot |-> [w \in MathWarps |-> 0]]
  /\ entered = [k \in TopKWarps |-> 0]

-----------------------------------------------------------------------------
(* The TMA thread.                                                          *)

\* tma_copy into a stage: until the copy completes the stage holds a mixture.
StartCopy(smem, s, what) == [smem EXCEPT ![s] = [held |-> Torn, copying |-> what]]

TmaPrefetch ==
  /\ tma.pc = "prefetch"
  /\ tma' = [tma EXCEPT !.pc = "q"]
  /\ smemQ' = IF NumBlocks > 0 THEN StartCopy(smemQ, 0, 0) ELSE smemQ
  /\ UNCHANGED <<math, topk, fullQ, emptyQ, fullKV, emptyKV, ready, free,
                 smemKV, flight, acc, slotVars, entered>>

\* Wait until the next block's Q stage is released, even past the last block,
\* and issue the copy of the next block if there is one.
TmaIssueQ ==
  LET next == tma.iter + 1
      s    == StageOf(next, NumQStages)
  IN  /\ tma.pc = "q" /\ tma.iter < NumBlocks
      /\ ReleasedFor(emptyQ[s].done, next, NumQStages)
      /\ smemQ' = IF next < NumBlocks THEN StartCopy(smemQ, s, next) ELSE smemQ
      /\ tma' = [tma EXCEPT !.pc = "kv", !.kv = 0]
      /\ UNCHANGED <<math, topk, fullQ, emptyQ, fullKV, emptyKV, ready, free,
                     smemKV, flight, acc, slotVars, entered>>

TmaIssueKV ==
  LET n == tma.total + tma.kv
      s == StageOf(n, NumKVStages)
  IN  /\ tma.pc = "kv" /\ tma.kv < Tiles[tma.iter]
      /\ ReleasedFor(emptyKV[s].done, n, NumKVStages)
      /\ smemKV' = StartCopy(smemKV, s, tma.kv)
      /\ tma' = [tma EXCEPT !.kv = @ + 1]
      /\ UNCHANGED <<math, topk, fullQ, emptyQ, fullKV, emptyKV, ready, free,
                     smemQ, flight, acc, slotVars, entered>>

TmaNextBlock ==
  /\ tma.pc = "kv" /\ tma.kv = Tiles[tma.iter]
  /\ tma' = [tma EXCEPT !.pc = "q", !.iter = @ + 1, !.total = @ + Tiles[tma.iter]]
  /\ UNCHANGED <<math, topk, fullQ, emptyQ, fullKV, emptyKV, ready, free,
                 smemQ, smemKV, flight, acc, slotVars, entered>>

\* The transfer bytes of a copy arrive: the stage holds its data and the
\* phase of the full barrier (one arrival, made at issue) completes.
FinishCopy(smem, s) == [smem EXCEPT ![s] = Stage(smem[s].copying)]

QArrives(s) ==
  /\ smemQ[s].copying # None
  /\ smemQ' = FinishCopy(smemQ, s)
  /\ fullQ' = [fullQ EXCEPT ![s] = @ + 1]
  /\ UNCHANGED <<tma, math, topk, emptyQ, fullKV, emptyKV, ready, free,
                 smemKV, flight, acc, slotVars, entered>>

KVArrives(s) ==
  /\ smemKV[s].copying # None
  /\ smemKV' = FinishCopy(smemKV, s)
  /\ fullKV' = [fullKV EXCEPT ![s] = @ + 1]
  /\ UNCHANGED <<tma, math, topk, fullQ, emptyQ, emptyKV, ready, free,
                 smemQ, flight, acc, slotVars, entered>>

-----------------------------------------------------------------------------
(* The math warps.                                                          *)

\* Bug: the math warps write the slot without waiting for candidate_free.
MathWaitFreeSkipped(w) ==
  /\ math[w].pc = "free" /\ math[w].iter < NumBlocks
  /\ math' = [math EXCEPT ![w] = [@ EXCEPT !.pc = "q"]]
  /\ UNCHANGED <<tmaVars, topk, emptyQ, emptyKV, ready, free,
                 flight, acc, slotVars, entered>>

MathWaitFree(w) ==
  LET i == math[w].iter
  IN  /\ math[w].pc = "free" /\ i < NumBlocks
      /\ ReleasedFor(free[CandidateSlot(i)].done, i, CandidateSlots)
      /\ math' = [math EXCEPT ![w] = [@ EXCEPT !.pc = "q"]]
      /\ UNCHANGED <<tmaVars, topk, emptyQ, emptyKV, ready, free,
                     flight, acc, slotVars, entered>>

MathWaitQ(w) ==
  LET i == math[w].iter
  IN  /\ math[w].pc = "q"
      /\ FilledBy(fullQ[StageOf(i, NumQStages)], i, NumQStages)
      /\ math' = [math EXCEPT ![w] = [@ EXCEPT !.pc = "tiles", !.issued = 0, !.consumed = 0]]
      /\ UNCHANGED <<tmaVars, topk, emptyQ, emptyKV, ready, free,
                     flight, acc, slotVars, entered>>

\* Bug: a third tile is issued while two accumulators are still to be read.
IssueNextTwoAhead(m) ==
  m.issued < Tiles[m.iter] /\ m.issued <= m.consumed + 2

\* The unrolled schedules as a rule: with two accumulators, the steady
\* schedule (2) keeps one tile ahead; the paired schedule (1) issues the
\* second tile of a pair ahead but drains the pair before the next one.
IssueNext(m) ==
  /\ m.issued < Tiles[m.iter]
  /\ \/ m.issued = m.consumed
     \/ /\ m.issued = m.consumed + 1
        /\ Schedule = 2 \/ m.issued % 2 = 1

\* Bug: every wait is wait_wgmma<1>, the drain of the tail included.
MayStayInFlightAlwaysOne(m) == 1

\* wait_wgmma<1> after issuing ahead, wait_wgmma<0> for the last accumulator.
MayStayInFlight(m) == m.issued - m.consumed - 1

\* Bug: the KV stage and phase are counted from the start of the block.
KVUsePerBlock(m, tile) == tile

KVUse(m, tile) == m.total + tile

IssueTile(w) ==
  LET m == math[w]
      n == KVUse(m, m.issued)
  IN  /\ m.pc = "tiles" /\ IssueNext(m)
      /\ FilledBy(fullKV[StageOf(n, NumKVStages)], n, NumKVStages)
      /\ flight' = [flight EXCEPT ![w] = @ \cup {m.issued}]
      /\ acc' = [acc EXCEPT ![w][m.issued % 2] = <<Torn, Torn>>]
      /\ math' = [math EXCEPT ![w] = [m EXCEPT !.issued = @ + 1]]
      /\ UNCHANGED <<tmaVars, topk, emptyQ, emptyKV, ready, free, slotVars, entered>>

\* A committed WGMMA group completes: until now it was reading its operands.
WgmmaCompletes(w) ==
  \E t \in flight[w] :
    /\ flight' = [flight EXCEPT ![w] = @ \ {t}]
    /\ acc' = [acc EXCEPT ![w][t % 2] =
                 <<smemQ[StageOf(math[w].iter, NumQStages)].held,
                   smemKV[StageOf(KVUse(math[w], t), NumKVStages)].held>>]
    /\ UNCHANGED <<tmaVars, math, topk, emptyQ, emptyKV, ready, free, slotVars, entered>>

\* Bug: the KV stage is not released.
ReleaseTileNoArrival(w) ==
  LET m == math[w]
  IN  /\ m.pc = "tiles" /\ ~IssueNext(m) /\ m.consumed < m.issued
      /\ \A t \in flight[w] : t >= m.issued - MayStayInFlight(m)
      /\ math' = [math EXCEPT ![w] = [m EXCEPT !.pc = "store"]]
      /\ UNCHANGED <<tmaVars, topk, emptyQ, emptyKV, ready, free, flight, acc, slotVars, entered>>

\* consume_wgmma_tile, first half: after wait_wgmma the KV stage is released.
ReleaseTile(w) ==
  LET m == math[w]
      s == StageOf(KVUse(m, m.consumed), NumKVStages)
  IN  /\ m.pc = "tiles" /\ ~IssueNext(m) /\ m.consumed < m.issued
      /\ \A t \in flight[w] : t >= m.issued - MayStayInFlight(m)
      /\ emptyKV' = [emptyKV EXCEPT ![s] = Arrive(@, w, MathWarps)]
      /\ math' = [math EXCEPT ![w] = [m EXCEPT !.pc = "store"]]
      /\ UNCHANGED <<tmaVars, topk, emptyQ, ready, free, flight, acc, slotVars, entered>>

\* consume_wgmma_tile, second half: reduce the accumulator with the weights,
\* read again from the Q stage (CACHE_WEIGHTS = 0), and compact the tile's
\* candidates to the end of the warp's segment.
Reduced(w) ==
  LET r == acc[w][math[w].consumed % 2]
  IN  IF r[1] = smemQ[StageOf(math[w].iter, NumQStages)].held
      THEN r ELSE <<Torn, r[2]>>

StoreTile(w) ==
  LET m == math[w]
  IN  /\ m.pc = "store"
      /\ segment' = [segment EXCEPT ![CandidateSlot(m.iter)][w][m.consumed] = Reduced(w)]
      /\ math' = [math EXCEPT ![w] = [m EXCEPT !.pc = "tiles", !.consumed = @ + 1]]
      /\ UNCHANGED <<tmaVars, topk, emptyQ, emptyKV, ready, free, flight, acc,
                     counts, entered>>

\* Bug: the arrival at candidate_ready is made before the counts are written.
PublishStaleCounts(w) ==
  LET m == math[w]
      c == CandidateSlot(m.iter)
  IN  /\ m.pc = "tiles" /\ m.consumed = Tiles[m.iter]
      /\ ready' = [ready EXCEPT ![c] = Arrive(@, w, MathWarps)]
      /\ math' = [math EXCEPT ![w] = [m EXCEPT !.pc = IF Overlap THEN "releaseQ" ELSE "serial"]]
      /\ UNCHANGED <<tmaVars, topk, emptyQ, emptyKV, free, flight, acc, slotVars, entered>>

\* Publish the counts and arrive at candidate_ready.
Publish(w) ==
  LET m == math[w]
      c == CandidateSlot(m.iter)
  IN  /\ m.pc = "tiles" /\ m.consumed = Tiles[m.iter]
      /\ counts' = [counts EXCEPT ![c][w] = m.consumed]
      /\ ready' = [ready EXCEPT ![c] = Arrive(@, w, MathWarps)]
      /\ math' = [math EXCEPT ![w] = [m EXCEPT !.pc = IF Overlap THEN "releaseQ" ELSE "serial"]]
      /\ UNCHANGED <<tmaVars, topk, emptyQ, emptyKV, free, flight, acc, segment, entered>>

\* Without kOverlap: wait for this very block's selection.
MathWaitSelected(w) ==
  LET i == math[w].iter
  IN  /\ math[w].pc = "serial"
      /\ FilledBy(free[CandidateSlot(i)].done, i, CandidateSlots)
      /\ math' = [math EXCEPT ![w] = [@ EXCEPT !.pc = "releaseQ"]]
      /\ UNCHANGED <<tmaVars, topk, emptyQ, emptyKV, ready, free, flight, acc,
                     slotVars, entered>>

ReleaseQ(w) ==
  LET m == math[w]
      s == StageOf(m.iter, NumQStages)
  IN  /\ m.pc = "releaseQ"
      /\ emptyQ' = [emptyQ EXCEPT ![s] = Arrive(@, w, MathWarps)]
      /\ math' = [math EXCEPT ![w] =
                  [m EXCEPT !.pc = "free", !.iter = @ + 1, !.total = @ + Tiles[m.iter]]]
      /\ UNCHANGED <<tmaVars, topk, emptyKV, ready, free, flight, acc, slotVars, entered>>

-----------------------------------------------------------------------------
(* The Top-K warps.                                                         *)

TopKWaitReady(k) ==
  LET i == topk[k].iter
  IN  /\ topk[k].pc = "ready" /\ i < NumBlocks
      /\ FilledBy(ready[CandidateSlot(i)].done, i, CandidateSlots)
      /\ topk' = [topk EXCEPT ![k] = [@ EXCEPT !.pc = "select"]]
      /\ entered' = [entered EXCEPT ![k] = @ + 1]
      /\ UNCHANGED <<tmaVars, math, emptyQ, emptyKV, ready, free, flight, acc, slotVars>>

\* select_row ends with a selection_sync on every path: a warp leaves it
\* after all the warps have entered it.
TopKRelease(k) ==
  LET r == topk[k]
      c == CandidateSlot(r.iter)
  IN  /\ r.pc = "select"
      /\ \A j \in TopKWarps : entered[j] >= entered[k]
      /\ free' = [free EXCEPT ![c] = Arrive(@, k, TopKWarps)]
      /\ topk' = [topk EXCEPT ![k] = [r EXCEPT !.pc = "ready", !.iter = @ + 1]]
      /\ UNCHANGED <<tmaVars, math, emptyQ, emptyKV, ready, flight, acc, slotVars, entered>>

-----------------------------------------------------------------------------
Finished ==
  /\ tma.pc = "q" /\ tma.iter = NumBlocks
  /\ \A w \in MathWarps : math[w].pc = "free" /\ math[w].iter = NumBlocks
  /\ \A k \in TopKWarps : topk[k].pc = "ready" /\ topk[k].iter = NumBlocks

Terminating == Finished /\ UNCHANGED vars

TmaStep == TmaPrefetch \/ TmaIssueQ \/ TmaIssueKV \/ TmaNextBlock

MathStep(w) ==
  \/ MathWaitFree(w) \/ MathWaitQ(w) \/ IssueTile(w) \/ ReleaseTile(w)
  \/ StoreTile(w) \/ Publish(w) \/ MathWaitSelected(w) \/ ReleaseQ(w)

TopKStep(k) == TopKWaitReady(k) \/ TopKRelease(k)

Next ==
  \/ TmaStep
  \/ \E s \in QStage : QArrives(s)
  \/ \E s \in KVStage : KVArrives(s)
  \/ \E w \in MathWarps : MathStep(w) \/ WgmmaCompletes(w)
  \/ \E k \in TopKWarps : TopKStep(k)
  \/ Terminating

Spec == Init /\ [][Next]_vars

\* Every thread of a resident CTA is scheduled again and again, and every
\* issued copy and every committed WGMMA group completes.
Fairness ==
  /\ WF_vars(TmaStep)
  /\ \A s \in QStage : WF_vars(QArrives(s))
  /\ \A s \in KVStage : WF_vars(KVArrives(s))
  /\ \A w \in MathWarps : WF_vars(MathStep(w)) /\ WF_vars(WgmmaCompletes(w))
  /\ \A k \in TopKWarps : WF_vars(TopKStep(k))

FairSpec == Spec /\ Fairness

-----------------------------------------------------------------------------
(* Properties.                                                              *)

StagesOver(R, D) == [R -> [held : D \cup {Torn}, copying : D \cup {None}]]

TmaRegs  == [pc : {"prefetch", "q", "kv"}, iter : Nat, kv : Nat, total : Nat]
MathRegs == [pc : {"free", "q", "tiles", "store", "serial", "releaseQ"},
             iter : Nat, issued : Nat, consumed : Nat, total : Nat]
TopKRegs == [pc : {"ready", "select"}, iter : Nat]

\* The type invariant of the pipeline's registers, barriers and buffers.
TypeOK ==
  /\ tma \in TmaRegs
  /\ math \in [MathWarps -> MathRegs]
  /\ topk \in [TopKWarps -> TopKRegs]
  /\ fullQ \in [QStage -> Nat] /\ fullKV \in [KVStage -> Nat]
  /\ emptyQ \in [QStage -> BarrierOver(MathWarps)]
  /\ emptyKV \in [KVStage -> BarrierOver(MathWarps)]
  /\ ready \in [Slot -> BarrierOver(MathWarps)]
  /\ free \in [Slot -> BarrierOver(TopKWarps)]
  /\ smemQ \in StagesOver(QStage, Block)
  /\ smemKV \in StagesOver(KVStage, Tile)
  /\ flight \in [MathWarps -> SUBSET Tile]
  /\ acc \in [MathWarps -> [{0, 1} -> Result]]
  /\ segment \in [Slot -> [MathWarps -> [Tile -> Result]]]
  /\ counts \in [Slot -> [MathWarps -> Nat]]
  /\ entered \in [TopKWarps -> Nat]

\* A parity names two phases.  Whenever a role stands at a wait of the ring
\* its n-th use concerns, the parity test says exactly whether the phase it
\* means has completed: no waiter is ever a whole ring behind or ahead.
FilledExact(completed, n, size) ==
  FilledBy(completed, n, size) <=> completed > UseOf(n, size)

ReleasedExact(completed, n, size) ==
  ReleasedFor(completed, n, size) <=> completed >= UseOf(n, size)

\* The hand-off waits: candidate_free before a slot is reused, candidate_ready
\* before it is selected from, and candidate_free again in the serial mode.
HandoffParityExact ==
  /\ \A w \in MathWarps : LET i == math[w].iter c == CandidateSlot(i) IN
       /\ math[w].pc = "free" => ReleasedExact(free[c].done, i, CandidateSlots)
       /\ math[w].pc = "serial" => FilledExact(free[c].done, i, CandidateSlots)
  /\ \A k \in TopKWarps : LET i == topk[k].iter c == CandidateSlot(i) IN
       topk[k].pc = "ready" => FilledExact(ready[c].done, i, CandidateSlots)

\* The same of the Q and KV rings between the TMA thread and the math warps.
StageParityExact ==
  /\ tma.pc = "q" => LET n == tma.iter + 1 IN
       ReleasedExact(emptyQ[StageOf(n, NumQStages)].done, n, NumQStages)
  /\ tma.pc = "kv" => LET n == tma.total + tma.kv IN
       ReleasedExact(emptyKV[StageOf(n, NumKVStages)].done, n, NumKVStages)
  /\ \A w \in MathWarps : math[w].pc = "q" => LET i == math[w].iter IN
       FilledExact(fullQ[StageOf(i, NumQStages)], i, NumQStages)
  /\ \A w \in MathWarps : math[w].pc = "tiles" =>
       LET n == KVUse(math[w], math[w].issued) IN
       FilledExact(fullKV[StageOf(n, NumKVStages)], n, NumKVStages)

\* While a WGMMA group is in flight its operands in shared memory are the Q
\* of the warp's own block and the KV tile it was issued for, and no copy is
\* writing either stage.
OperandsStable ==
  \A w \in MathWarps : \A t \in flight[w] :
    /\ smemQ[StageOf(math[w].iter, NumQStages)] = Stage(math[w].iter)
    /\ smemKV[StageOf(KVUse(math[w], t), NumKVStages)] = Stage(t)

\* No math warp writes a candidate slot from which a Top-K warp selects.
Writing(w)   == math[w].pc \in {"q", "tiles", "store"}
Selecting(k) == topk[k].pc = "select"

SlotExclusive ==
  \A w \in MathWarps, k \in TopKWarps :
    Writing(w) /\ Selecting(k)
      => CandidateSlot(math[w].iter) # CandidateSlot(topk[k].iter)

\* From the moment a Top-K warp starts selecting for a block until it frees
\* the slot, the slot holds, for every math warp, the count and the results
\* of all the tiles of that block and of no other.
SelectionInput ==
  \A k \in TopKWarps : Selecting(k) =>
    LET i == topk[k].iter c == CandidateSlot(i) IN
    \A w \in MathWarps :
      /\ counts[c][w] = Tiles[i]
      /\ \A p \in 0 .. Tiles[i] - 1 : segment[c][w][p] = <<i, p>>

\* Every block the CTA was scheduled for is selected, and the roles return.
Completes == <>Finished

-----------------------------------------------------------------------------
(* The inductive invariant behind HandoffParityExact and SlotExclusive.     *)

\* Blocks of which w has arrived at candidate_ready.
MathDone(w) == math[w].iter + (IF math[w].pc \in {"serial", "releaseQ"} THEN 1 ELSE 0)

\* The block a slot's n-th use is for.
BlockOf(n, c) == n * CandidateSlots + c

\* Participant p, which has arrived for `blocks` blocks, and the barrier of
\* slot c agree: p's arrivals are those of the completed phases, and of the
\* phase in progress exactly when the barrier has recorded it.
InStep(b, p, blocks, c) ==
  /\ p \in b.arrived <=> blocks > BlockOf(b.done, c)
  /\ blocks <= BlockOf(b.done + 1, c)
  /\ blocks > BlockOf(b.done - 1, c) \/ b.done = 0

\* A slot is handed back and forth: candidate_ready is at most one phase ahead
\* of candidate_free, and each collects arrivals only on its turn.
SlotInv(c) ==
  /\ ready[c].done \in {free[c].done, free[c].done + 1}
  /\ ready[c].arrived # {} => ready[c].done = free[c].done
  /\ free[c].arrived # {} => ready[c].done = free[c].done + 1
  /\ \A w \in MathWarps : InStep(ready[c], w, MathDone(w), c)
  /\ \A k \in TopKWarps : InStep(free[c], k, topk[k].iter, c)

\* The math warps' turn to write the slot of w's block, and the Top-K warps'
\* turn to select from the slot of k's.
MayWrite(w) ==
  LET c == CandidateSlot(math[w].iter)
  IN  math[w].iter = BlockOf(ready[c].done, c) /\ ready[c].done = free[c].done

MaySelect(k) ==
  LET c == CandidateSlot(topk[k].iter)
  IN  topk[k].iter = BlockOf(free[c].done, c) /\ ready[c].done = free[c].done + 1

HandoffInv ==
  /\ \A c \in Slot : SlotInv(c)
  /\ \A w \in MathWarps : Writing(w) => MayWrite(w)
  /\ \A k \in TopKWarps : Selecting(k) => MaySelect(k)

-----------------------------------------------------------------------------
(* The candidate slots implement a bounded queue of complete blocks.        *)

PublishedBy(w, i) ==
  math[w].iter > i \/ (math[w].iter = i /\ math[w].pc \in {"serial", "releaseQ"})

Published == Cardinality({i \in Block : \A w \in MathWarps : PublishedBy(w, i)})
Freed     == Cardinality({i \in Block : \A k \in TopKWarps : topk[k].iter > i})

SlotContents(c) ==
  [w \in MathWarps |-> {segment[c][w][p] : p \in 0 .. counts[c][w] - 1}]

Queue == INSTANCE CandidateQueue WITH
  Capacity <- CandidateSlots,
  next     <- Published,
  queue    <- [j \in 1 .. Published - Freed |->
                 SlotContents(CandidateSlot(Freed + j - 1))]

\* Blocks reach selection in order, complete, each exactly once, and at most
\* CandidateSlots of them wait.
ImplementsQueue == Queue!Spec

=============================================================================
