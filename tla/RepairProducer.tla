--------------------------- MODULE RepairProducer ---------------------------
(***************************************************************************)
(* One CTA of the masked repair producer: it scores one chunk of the keys    *)
(* for one pair of query rows, and every math warp appends the pairs of its  *)
(* part of each tile to a segment of its own, for the rows that are flagged. *)
(*                                                                         *)
(* An elected TMA thread copies Q with its weights once, and the KV tiles    *)
(* with their scales through a ring of stages; the math warps multiply.  A   *)
(* full barrier completes when all the copies that arrive at it have.        *)
(*                                                                         *)
(* Abstractions.  The grid has one CTA per row pair, so the loop over the    *)
(* blocks of a CTA has one turn.  A warp makes the arrivals of its threads   *)
(* at once.  A score is the number of the tile it was computed from, or      *)
(* Torn when its operands were not all of one tile and of this block.        *)
(***************************************************************************)
EXTENDS MBarrier, FiniteSets, FiniteSetsExt

CONSTANTS
  NumMathWarps,  \* kNumMathWarps
  WarpWidth,     \* positions of a warp in a tile
  WarpCapacity,  \* kWarpCandidateCapacity
  RowPairs       \* what a CTA is given: [columns, start, end, flag], by row

NumQStages  == 3
NumKVStages == 3
MathWarp    == 0 .. NumMathWarps - 1
PairRow     == 0 .. 1
QRing       == 0 .. NumQStages - 1
KVRing      == 0 .. NumKVStages - 1
TileWidth   == NumMathWarps * WarpWidth   \* BLOCK_KV

\* The capacity the host asks of the chunk, and the widths of the segments.
ASSUME ProducerAssumption ==
  /\ NumMathWarps \in Nat \ {0} /\ WarpWidth \in Nat \ {0} /\ WarpWidth % 2 = 0
  /\ WarpCapacity \in Nat \ {0} /\ WarpCapacity % WarpWidth = 0
  /\ \A p \in RowPairs :
       /\ p.columns \in 1 .. NumMathWarps * WarpCapacity
       /\ p.start \in [PairRow -> Nat] /\ p.end \in [PairRow -> Nat]
       /\ p.flag \in [PairRow -> BOOLEAN]

VARIABLES
  pair,           \* the rows of this CTA
  tma,            \* the TMA thread: pc and next KV tile
  mathWarp,       \* per warp: pc, tile, counts per row, what it read
  running,        \* the warps whose WGMMA group is not complete
  qStage, kvStage,    \* what a stage holds, and the copies still to arrive
  fullQ, fullKV,      \* completed phases
  emptyQ, emptyKV,    \* barriers
  produced,       \* per row and warp: the <<place, position, score>> written
  segmentCounts   \* per row and warp

producerRings == <<qStage, kvStage, fullQ, fullKV>>
producerOut   == <<produced, segmentCounts>>
producerVars  == <<pair, tma, mathWarp, running, producerRings, emptyQ, emptyKV, producerOut>>

Nothing == -1
Torn    == -2
OwnQ    == 0

Holding(what, copies) == [what |-> what, due |-> copies]
Held(stage, part)     == IF part \in stage.due THEN Torn ELSE stage.what

\* The counts are those of the chunk before.
ProducerInit ==
  /\ pair \in RowPairs
  /\ tma = [pc |-> "start", tile |-> 0]
  /\ mathWarp = [w \in MathWarp |->
       [pc |-> "start", tile |-> 0, counts |-> [r \in PairRow |-> 0],
        weights |-> Nothing, scales |-> Nothing, product |-> Nothing]]
  /\ running = {}
  /\ qStage = [s \in QRing |-> Holding(Nothing, {})]
  /\ kvStage = [s \in KVRing |-> Holding(Nothing, {})]
  /\ fullQ = [s \in QRing |-> 0] /\ fullKV = [s \in KVRing |-> 0]
  /\ emptyQ = [s \in QRing |-> NewBarrier] /\ emptyKV = [s \in KVRing |-> NewBarrier]
  /\ produced = [r \in PairRow |-> [w \in MathWarp |-> {}]]
  /\ segmentCounts = [r \in PairRow |-> [w \in MathWarp |-> 1]]

\* min(cu_seq_len_k_start or _end, seq_len_kv)
RowStart(r) == Min({pair.start[r], pair.columns})
RowEnd(r)   == Min({pair.end[r], pair.columns})

\* load_schedule: both rows share the scan, from the first key on.
ScanTiles == (Max({RowEnd(r) : r \in PairRow}) + TileWidth - 1) \div TileWidth

\* A pair that passed the first reducer returns; otherwise the barriers are
\* initialised, and all threads go on after that.
EnterProducer ==
  LET scans == \E r \in PairRow : pair.flag[r]
  IN  /\ tma.pc = "start"
      /\ tma' = [tma EXCEPT !.pc = IF scans THEN "prefetch" ELSE "done"]
      /\ mathWarp' = [w \in MathWarp |->
           [mathWarp[w] EXCEPT !.pc = IF scans THEN "q" ELSE "done"]]
      /\ UNCHANGED <<pair, running, producerRings, emptyQ, emptyKV, producerOut>>

-----------------------------------------------------------------------------
(* The TMA thread.                                                          *)

KVStageOf(t) == t % NumKVStages
KVPhaseOf(t) == ParityOf(t \div NumKVStages)

PrefetchQ ==
  /\ tma.pc = "prefetch"
  /\ qStage' = [qStage EXCEPT ![0] = Holding(OwnQ, {"q", "weights"})]
  /\ tma' = [tma EXCEPT !.pc = "next"]
  /\ UNCHANGED <<pair, mathWarp, running, kvStage, fullQ, fullKV, emptyQ, emptyKV, producerOut>>

\* The wait for the stage of the next block, although there is none.
AwaitNextQ ==
  /\ tma.pc = "next" /\ ParityPasses(emptyQ[1].done, Flip(ParityOf(1 \div NumQStages)))
  /\ tma' = [tma EXCEPT !.pc = "kv"]
  /\ UNCHANGED <<pair, mathWarp, running, producerRings, emptyQ, emptyKV, producerOut>>

IssueKV ==
  LET s == KVStageOf(tma.tile)
  IN  /\ tma.pc = "kv" /\ tma.tile < ScanTiles
      /\ ParityPasses(emptyKV[s].done, Flip(KVPhaseOf(tma.tile)))
      /\ kvStage' = [kvStage EXCEPT ![s] = Holding(tma.tile, {"kv", "scales"})]
      /\ tma' = [tma EXCEPT !.tile = @ + 1]
      /\ UNCHANGED <<pair, mathWarp, running, qStage, fullQ, fullKV, emptyQ, emptyKV, producerOut>>

EndTma ==
  /\ tma.pc = "kv" /\ tma.tile = ScanTiles
  /\ tma' = [tma EXCEPT !.pc = "done"]
  /\ UNCHANGED <<pair, mathWarp, running, producerRings, emptyQ, emptyKV, producerOut>>

\* A copy arrives; the last one completes the phase of the full barrier.
Arrived(stage, s, part)    == [stage EXCEPT ![s].due = @ \ {part}]
Completed(full, stage, s, part) == IF stage[s].due = {part} THEN [full EXCEPT ![s] = @ + 1] ELSE full

QCopied(s, part) ==
  /\ part \in qStage[s].due
  /\ qStage' = Arrived(qStage, s, part) /\ fullQ' = Completed(fullQ, qStage, s, part)
  /\ UNCHANGED <<pair, tma, mathWarp, running, kvStage, fullKV, emptyQ, emptyKV, producerOut>>

KVCopied(s, part) ==
  /\ part \in kvStage[s].due
  /\ kvStage' = Arrived(kvStage, s, part) /\ fullKV' = Completed(fullKV, kvStage, s, part)
  /\ UNCHANGED <<pair, tma, mathWarp, running, qStage, fullQ, emptyQ, emptyKV, producerOut>>

-----------------------------------------------------------------------------
(* The math warps.                                                          *)

AwaitQ(w) ==
  /\ mathWarp[w].pc = "q" /\ ParityPasses(fullQ[0], ParityOf(0))
  /\ mathWarp' = [mathWarp EXCEPT ![w].pc = "tiles", ![w].weights = Held(qStage[0], "weights")]
  /\ UNCHANGED <<pair, tma, running, producerRings, emptyQ, emptyKV, producerOut>>

\* Wait for the tile, read its scales and commit the group.
MultiplyTile(w) ==
  LET t == mathWarp[w].tile
      s == KVStageOf(t)
  IN  /\ mathWarp[w].pc = "tiles" /\ t < ScanTiles
      /\ ParityPasses(fullKV[s], KVPhaseOf(t))
      /\ mathWarp' = [mathWarp EXCEPT ![w].pc = "release", ![w].product = Torn,
                                      ![w].scales = Held(kvStage[s], "scales")]
      /\ running' = running \cup {w}
      /\ UNCHANGED <<pair, tma, producerRings, emptyQ, emptyKV, producerOut>>

\* The group completes: until now it was reading Q and the tile.
GroupCompletes(w) ==
  LET key == Held(kvStage[KVStageOf(mathWarp[w].tile)], "kv")
  IN  /\ w \in running
      /\ running' = running \ {w}
      /\ mathWarp' = [mathWarp EXCEPT ![w].product = IF Held(qStage[0], "q") = OwnQ THEN key ELSE Torn]
      /\ UNCHANGED <<pair, tma, producerRings, emptyQ, emptyKV, producerOut>>

\* Bug: the stage is released as soon as the group is committed.
ReleaseKVEarly(w) ==
  LET s == KVStageOf(mathWarp[w].tile)
  IN  /\ mathWarp[w].pc = "release"
      /\ emptyKV' = [emptyKV EXCEPT ![s] = Arrive(@, w, MathWarp)]
      /\ mathWarp' = [mathWarp EXCEPT ![w].pc = "reduce"]
      /\ UNCHANGED <<pair, tma, running, producerRings, emptyQ, producerOut>>

\* warpgroup_wait<0>, then the arrival at the empty barrier.
ReleaseKV(w) ==
  LET s == KVStageOf(mathWarp[w].tile)
  IN  /\ mathWarp[w].pc = "release" /\ w \notin running
      /\ emptyKV' = [emptyKV EXCEPT ![s] = Arrive(@, w, MathWarp)]
      /\ mathWarp' = [mathWarp EXCEPT ![w].pc = "reduce"]
      /\ UNCHANGED <<pair, tma, running, producerRings, emptyQ, producerOut>>

Reduction(m) == IF m.weights = OwnQ /\ m.product = m.scales THEN m.product ELSE Torn

\* Position o of a warp's part of tile t; half of them are in each role's lanes.
PositionOf(w, t, o) == t * TileWidth + w * WarpWidth + o
LaneOfPosition(o)   == 2 * (o % (WarpWidth \div 2)) + o \div (WarpWidth \div 2)

Active(w, r) ==
  {o \in 0 .. WarpWidth - 1 :
     LET id == PositionOf(w, mathWarp[w].tile, o)
     IN  pair.flag[r] /\ id >= RowStart(r) /\ id < RowEnd(r)}

\* The place of an active position: after those of earlier tiles, and those
\* of the lanes below its own.
PlaceOf(w, r, o) ==
  mathWarp[w].counts[r]
    + Cardinality({a \in Active(w, r) : LaneOfPosition(a) < LaneOfPosition(o)})

AppendTile(w) ==
  LET m == mathWarp[w]
  IN  /\ m.pc = "reduce"
      /\ produced' = [r \in PairRow |-> [produced[r] EXCEPT ![w] = @ \cup
           {<<PlaceOf(w, r, o), PositionOf(w, m.tile, o), Reduction(m)>> :
              o \in {a \in Active(w, r) : PlaceOf(w, r, a) < WarpCapacity}}]]
      /\ mathWarp' = [mathWarp EXCEPT ![w] = [m EXCEPT !.pc = "tiles", !.tile = @ + 1,
           !.counts = [r \in PairRow |-> @[r] + Cardinality(Active(w, r))]]]
      /\ UNCHANGED <<pair, tma, running, producerRings, emptyQ, emptyKV, segmentCounts>>

\* The counts of both rows, flagged or not, and the arrival at the Q stage.
PublishCounts(w) ==
  LET m == mathWarp[w]
  IN  /\ m.pc = "tiles" /\ m.tile = ScanTiles
      /\ segmentCounts' = [r \in PairRow |-> [segmentCounts[r] EXCEPT ![w] = m.counts[r]]]
      /\ emptyQ' = [emptyQ EXCEPT ![0] = Arrive(@, w, MathWarp)]
      /\ mathWarp' = [mathWarp EXCEPT ![w].pc = "done"]
      /\ UNCHANGED <<pair, tma, running, producerRings, emptyKV, produced>>

-----------------------------------------------------------------------------
TmaStep == PrefetchQ \/ AwaitNextQ \/ IssueKV \/ EndTma
MathStep(w) ==
  AwaitQ(w) \/ MultiplyTile(w) \/ ReleaseKV(w) \/ AppendTile(w) \/ PublishCounts(w)

ProducerNext ==
  \/ EnterProducer \/ TmaStep
  \/ \E s \in QRing, part \in {"q", "weights"} : QCopied(s, part)
  \/ \E s \in KVRing, part \in {"kv", "scales"} : KVCopied(s, part)
  \/ \E w \in MathWarp : MathStep(w) \/ GroupCompletes(w)

\* Resident warps run, and what was issued to the hardware completes.
ProducerFair ==
  /\ WF_producerVars(EnterProducer) /\ WF_producerVars(TmaStep)
  /\ \A s \in QRing, part \in {"q", "weights"} : WF_producerVars(QCopied(s, part))
  /\ \A s \in KVRing, part \in {"kv", "scales"} : WF_producerVars(KVCopied(s, part))
  /\ \A w \in MathWarp : WF_producerVars(MathStep(w)) /\ WF_producerVars(GroupCompletes(w))

-----------------------------------------------------------------------------
Wanted(w, r) ==
  {id \in 0 .. pair.columns - 1 :
     /\ (id \div WarpWidth) % NumMathWarps = w
     /\ pair.flag[r] /\ pair.start[r] <= id /\ id < pair.end[r]}

\* What a warp has published, of either row, is its share of the row's range,
\* each position once and scored from this block's Q and from the tile the
\* position is in; of a row that is not flagged it is nothing, though the
\* other row of its pair was scanned.
ProducerExact ==
  \A w \in MathWarp, r \in PairRow :
    mathWarp[w].pc = "done" /\ (\E q \in PairRow : pair.flag[q]) =>
      /\ segmentCounts[r][w] = Cardinality(Wanted(w, r))
      /\ Cardinality(produced[r][w]) = segmentCounts[r][w]
      /\ {x[1] : x \in produced[r][w]} = 0 .. segmentCounts[r][w] - 1
      /\ {<<x[2], x[3]>> : x \in produced[r][w]}
           = {<<id, id \div TileWidth>> : id \in Wanted(w, r)}

\* All roles have ended, and no copy is still to arrive in the shared memory.
ProducerEnded ==
  /\ tma.pc = "done" /\ \A w \in MathWarp : mathWarp[w].pc = "done"
  /\ \A s \in KVRing : kvStage[s].due = {}
=============================================================================
