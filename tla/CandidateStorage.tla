-------------------------- MODULE CandidateStorage --------------------------
(* Where the math warps leave their candidates, in CandidateStorage<5888>:   *)
(* every warp owns one segment of the slot for each row, appends the scores  *)
(* of a tile that reach the threshold in the order of the lanes that hold    *)
(* them, and goes on in its part of the spill workspace when the segment is  *)
(* full.  In the slot a position is packed into 16 bits, and the number of   *)
(* the segment supplies the others.                                          *)
(*                                                                           *)
(* A tile in which nothing reaches the threshold changes nothing, so a warp  *)
(* goes on with any later tile.  All scores of a tile and a row are one.     *)
(* The module is one block: whatever earlier blocks left is there before it. *)
EXTENDS Integers, Sequences

CONSTANTS
  Warps,             \* math warps: each owns the segment of its number
  Tiles,             \* KV tiles in which something may reach the threshold
  Rows,              \* BLOCK_Q rows of a block
  Scores,            \* ordered scores
  Batches,           \* what may reach the threshold: offsets in a warp's tile
  SegmentCapacity,   \* kSegmentCandidateCapacity
  SpillPerSegment    \* kSpillPerSegment

Segments == 8
Width    == 16                     \* positions of a warp in a tile
BlockKV  == Segments * Width       \* BLOCK_KV
MaxContext == 163840
Offset   == 0 .. Width - 1

\* Lane 4j holds the score of offset j, and lane 4j + 1 that of offset j + 8.
LaneOf(o) == 4 * (o % 8) + o \div 8
InLaneOrder(b) == \A j, k \in DOMAIN b : j < k => LaneOf(b[j]) < LaneOf(b[k])

ASSUME StorageAssumption ==
  /\ Warps \subseteq 0 .. Segments - 1
  /\ Tiles \subseteq {t \in Nat : (t + 1) * BlockKV <= MaxContext}
  /\ Batches \subseteq Seq(Offset) /\ \A b \in Batches : InLaneOrder(b)
  /\ SegmentCapacity \in Nat \ {0} /\ SpillPerSegment \in Nat \ {0}

Index == 0 .. Segments * SegmentCapacity - 1
Spill == 0 .. Segments * SpillPerSegment - 1
Packed == {p \in Nat : p < 65536}
Id == {p \in Nat : p < MaxContext}

VARIABLES
  tile,      \* per warp: the tile it reduced last, or -1
  count,     \* per warp and row: warp_candidate_counts
  scores,    \* per row and index of the slot
  indices,   \* per row and index of the slot: the packed position
  spill,     \* per row: spill_pairs
  emitted    \* per warp and row: the <<score, position>> pairs found, in order

vars == <<tile, count, scores, indices, spill, emitted>>

\* Neither memory is initialised: it holds scores that another block left, at
\* position 0.
Init ==
  /\ tile = [w \in Warps |-> -1]
  /\ count = [w \in Warps |-> [r \in Rows |-> 0]]
  /\ scores \in [Rows -> {[i \in Index |-> s] : s \in Scores}]
  /\ indices \in [Rows -> [Index -> {0}]]
  /\ spill \in [Rows -> {[i \in Spill |-> <<s, 0>>] : s \in Scores}]
  /\ emitted = [w \in Warps |-> [r \in Rows |-> <<>>]]

\* Bug: the shift of a layout with 16 segments.
PackShiftedByEight(id) == ((id \div 256) * 16 + (id % 16)) % 65536

\* ((id >> 7) << 4) | (id & 15), stored as uint16_t
Pack(id) == ((id \div 128) * 16 + (id % 16)) % 65536

\* ((packed >> 4) << 7) | (segment << 4) | (packed & 15)
Unpack(i, packed) ==
  (packed \div 16) * 128 + (i \div SegmentCapacity) * 16 + (packed % 16)

\* kv_offset + v_offset
IdOf(w, t, o) == t * BlockKV + w * Width + o

\* The candidate of a batch that goes to this index or place, after n others.
StoredAt(w, i, n)  == i - w * SegmentCapacity - n + 1
SpilledAt(w, j, n) == j - w * SpillPerSegment + SegmentCapacity - n + 1

InSegment(w, i, n, b) ==
  /\ StoredAt(w, i, n) \in DOMAIN b
  /\ i - w * SegmentCapacity < SegmentCapacity

InSpill(w, j, n, b) ==
  /\ SpilledAt(w, j, n) \in DOMAIN b
  /\ j - w * SpillPerSegment \in 0 .. SpillPerSegment - 1

StoreTile(w) ==
  \E t \in Tiles, batch \in [Rows -> Batches], score \in [Rows -> Scores] :
    /\ t > tile[w]
    /\ tile' = [tile EXCEPT ![w] = t]
    /\ count' = [count EXCEPT ![w] = [r \in Rows |-> count[w][r] + Len(batch[r])]]
    /\ scores' = [r \in Rows |-> [i \in Index |->
         IF InSegment(w, i, count[w][r], batch[r]) THEN score[r] ELSE scores[r][i]]]
    /\ indices' = [r \in Rows |-> [i \in Index |->
         IF InSegment(w, i, count[w][r], batch[r])
         THEN Pack(IdOf(w, t, batch[r][StoredAt(w, i, count[w][r])]))
         ELSE indices[r][i]]]
    /\ spill' = [r \in Rows |-> [j \in Spill |->
         IF InSpill(w, j, count[w][r], batch[r])
         THEN <<score[r], IdOf(w, t, batch[r][SpilledAt(w, j, count[w][r])])>>
         ELSE spill[r][j]]]
    /\ emitted' = [emitted EXCEPT ![w] = [r \in Rows |->
         emitted[w][r] \o [k \in DOMAIN batch[r] |-> <<score[r], IdOf(w, t, batch[r][k])>>]]]

Next == \E w \in Warps : StoreTile(w)

Spec == Init /\ [][Next]_vars
-----------------------------------------------------------------------------
Pair == Scores \X Id

TypeOK ==
  /\ tile \in [Warps -> Tiles \cup {-1}]
  /\ count \in [Warps -> [Rows -> Nat]]
  /\ scores \in [Rows -> [Index -> Scores]]
  /\ indices \in [Rows -> [Index -> Packed]]
  /\ spill \in [Rows -> [Spill -> Pair]]
  /\ emitted \in [Warps -> [Rows -> Seq(Pair)]]

\* load_pair, and the spilled pair
Load(r, i) == <<scores[r][i], Unpack(i, indices[r][i])>>

\* A selection that reads a segment up to its count, in the slot and then in
\* the spill, finds exactly the pairs the warp found, at their full positions,
\* whatever the other warps store and whatever an earlier block left there.
NothingLost ==
  \A w \in Warps, r \in Rows :
    /\ Len(emitted[w][r]) = count[w][r]
    /\ \A p \in 0 .. count[w][r] - 1 :
         /\ p < SegmentCapacity =>
              Load(r, w * SegmentCapacity + p) = emitted[w][r][p + 1]
         /\ p \in SegmentCapacity .. SegmentCapacity + SpillPerSegment - 1 =>
              spill[r][w * SpillPerSegment + p - SegmentCapacity] = emitted[w][r][p + 1]
=============================================================================
