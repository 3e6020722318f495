--------------------------- MODULE Kernels_proofs ---------------------------
(***************************************************************************)
(* Three parts of the kernels, one after the other.                         *)
(*                                                                         *)
(* Candidate storage: a selection finds every candidate a math warp stored,  *)
(* at its full position, for every set of warps, every capacity, every batch *)
(* and every tile below the longest context.                                *)
(*                                                                         *)
(* Repair producer: what a CTA publishes is exact, for any number of math    *)
(* warps, any tile width, capacity and pairs of rows.  The KV stages are a   *)
(* ring, about which KernelLemmas says all there is to say; the Q stage is   *)
(* filled once.  What remains is that a group and the read of the scales see *)
(* the tile they are meant for, and that the segments grow by the share of   *)
(* one tile after the other without gaps.                                   *)
(*                                                                         *)
(* Sampled threshold: a radix selection by warps that meet at rounds of      *)
(* __syncthreads finds the score of the guarded rank, for any number of      *)
(* warps, lanes and digits, any radix, and any sample of a row.              *)
(***************************************************************************)
EXTENDS CandidateStorage, RepairProducer, SampledThreshold,
        KernelLemmas, SequenceTheorems

---------------------------------------------------------------------------
(* CandidateStorage.                                                        *)

\* An index of a segment, divided by the capacity, is the segment's number.
LEMMA SegmentOfIndex ==
  ASSUME NEW C \in Nat \ {0}, NEW s \in Nat, NEW p \in 0 .. C - 1
  PROVE  (s * C + p) \div C = s
<1> DEFINE q == (s * C + p) \div C
           m == (s * C + p) % C
<1>1. s * C \in Nat
  OBVIOUS
<1>2. q \in Int /\ m \in 0 .. C - 1 /\ s * C + p = C * q + m
  BY <1>1, Z3
<1>. HIDE DEF q, m
<1>3. C * (q - s) = p - m
  BY <1>2, Z3
<1>4. q - s < 1 /\ q - s > -1
  BY <1>2, <1>3, Z3
<1>5. QED
  BY <1>2, <1>4 DEF q

\* A position of a warp's part of a tile fits the bits it is packed into, and
\* unpacking it with the number of that warp's segment gives it back.
LEMMA PackRoundTrip ==
  ASSUME NEW w \in 0 .. 7, NEW t \in Nat, t < 1280, NEW o \in 0 .. 15,
         NEW id \in Nat, id = t * 128 + w * 16 + o
  PROVE  /\ id \in Id
         /\ Pack(id) \in Packed
         /\ (Pack(id) \div 16) * 128 + w * 16 + (Pack(id) % 16) = id
<1> DEFINE packed == Pack(id)
<1>1. id \div 128 = t /\ id % 16 = o
  BY Z3
<1>2. packed = t * 16 + o
  BY <1>1, Z3 DEF Pack
<1>3. (t * 16 + o) \div 16 = t /\ (t * 16 + o) % 16 = o
  BY Z3
<1>4. packed \div 16 = t /\ packed % 16 = o
  BY <1>2, <1>3
<1>5. id \in Id
  BY DEF Id, MaxContext
<1>. HIDE DEF packed
<1>6. (packed \div 16) * 128 + w * 16 + (packed % 16) = id
  BY <1>4
<1>7. packed \in Packed
  BY <1>2, Z3 DEF Packed
<1>8. QED
  BY <1>5, <1>6, <1>7 DEF packed

\* A place of a warp's part is in the memory, and in no other warp's part.
LEMMA PartsApart ==
  ASSUME NEW C \in Nat \ {0}, NEW v \in 0 .. 7, NEW p \in 0 .. C - 1
  PROVE  /\ v * C + p \in 0 .. 8 * C - 1
         /\ \A w \in 0 .. 7 \ {v} : v * C + p - w * C < 0 \/ v * C + p - w * C >= C
<1>1. v = 0 \/ v = 1 \/ v = 2 \/ v = 3 \/ v = 4 \/ v = 5 \/ v = 6 \/ v = 7
  OBVIOUS
<1>2. v * C + p \in 0 .. 8 * C - 1
  BY <1>1
<1>3. ASSUME NEW w \in 0 .. 7 \ {v}
      PROVE  v * C + p - w * C < 0 \/ v * C + p - w * C >= C
  <2>1. w = 0 \/ w = 1 \/ w = 2 \/ w = 3 \/ w = 4 \/ w = 5 \/ w = 6 \/ w = 7
    OBVIOUS
  <2>2. QED
    BY <1>1, <2>1
<1>4. QED
  BY <1>2, <1>3

\* The position of an offset of a tile is one of the longest context.
LEMMA IdTyped ==
  ASSUME NEW w \in Warps, NEW t \in Tiles, NEW o \in Offset
  PROVE  /\ w \in 0 .. 7 /\ t \in Nat /\ t < 1280 /\ o \in 0 .. 15
         /\ IdOf(w, t, o) = t * 128 + w * 16 + o
         /\ IdOf(w, t, o) \in Nat
<1>1. w \in 0 .. 7
  BY StorageAssumption DEF Segments
<1>2. t \in Nat /\ (t + 1) * 128 <= 163840
  BY StorageAssumption DEF BlockKV, MaxContext, Segments, Width
<1>3. o \in 0 .. 15
  BY DEF Offset, Width
<1>4. IdOf(w, t, o) = t * 128 + w * 16 + o
  BY DEF IdOf, BlockKV, Segments, Width
<1>5. QED
  BY <1>1, <1>2, <1>3, <1>4

\* What a warp does with one tile, whichever batches it found.
Step(w, t, batch, score) ==
  /\ t > tile[w]
  /\ tile' = [tile EXCEPT ![w] = t]
  /\ count' = [count EXCEPT ![w] = [r \in Rows |-> count[w][r] + Len(batch[r])]]
  /\ scores' = [r \in Rows |-> [i \in Index |->
       IF InSegment(w, i, count[w][r], batch[r]) THEN score[r] ELSE scores[r][i]]]
  /\ indices' = [r \in Rows |-> [i \in Index |->
       IF InSegment(w, i, count[w][r], batch[r])
       THEN Pack(IdOf(w, t, batch[r][StoredAt(w, i, count[w][r])]))
       ELSE indices[r][i]]]
  /\ spill' = [r \in Rows |-> [j \in Spill |->
       IF InSpill(w, j, count[w][r], batch[r])
       THEN <<score[r], IdOf(w, t, batch[r][SpilledAt(w, j, count[w][r])])>>
       ELSE spill[r][j]]]
  /\ emitted' = [emitted EXCEPT ![w] = [r \in Rows |->
       emitted[w][r] \o [k \in DOMAIN batch[r] |-> <<score[r], IdOf(w, t, batch[r][k])>>]]]

\* The pairs a batch adds are pairs, as many as the batch has offsets.
Found(w, t, b, s) == [k \in DOMAIN b |-> <<s, IdOf(w, t, b[k])>>]

LEMMA FoundPairs ==
  ASSUME NEW w \in Warps, NEW t \in Tiles, NEW b \in Batches, NEW s \in Scores
  PROVE  /\ b \in Seq(Offset) /\ Len(b) \in Nat /\ DOMAIN b = 1 .. Len(b)
         /\ Found(w, t, b, s) \in Seq(Pair)
         /\ Len(Found(w, t, b, s)) = Len(b)
<1>1. b \in Seq(Offset) /\ Len(b) \in Nat /\ DOMAIN b = 1 .. Len(b)
  BY StorageAssumption
<1>2. ASSUME NEW k \in DOMAIN b
      PROVE  <<s, IdOf(w, t, b[k])>> \in Pair
  <2>1. b[k] \in Offset
    BY <1>1
  <2>2. IdOf(w, t, b[k]) \in Id
    BY <2>1, IdTyped, PackRoundTrip
  <2>3. QED
    BY <2>2 DEF Pair
<1>3. Found(w, t, b, s) \in [1 .. Len(b) -> Pair]
  BY <1>1, <1>2 DEF Found
<1>4. QED
  BY <1>1, <1>3

LEMMA StepTyped ==
  ASSUME TypeOK, NEW w \in Warps, NEW t \in Tiles,
         NEW batch \in [Rows -> Batches], NEW score \in [Rows -> Scores],
         Step(w, t, batch, score)
  PROVE  TypeOK'
<1>1. tile' \in [Warps -> Tiles \cup {-1}]
  BY DEF Step, TypeOK
<1>2. count' \in [Warps -> [Rows -> Nat]]
  <2>1. ASSUME NEW r \in Rows PROVE count[w][r] + Len(batch[r]) \in Nat
    <3>1. batch[r] \in Batches /\ score[r] \in Scores
      OBVIOUS
    <3>2. Len(batch[r]) \in Nat
      BY <3>1, FoundPairs
    <3>3. count[w][r] \in Nat
      BY DEF TypeOK
    <3>4. QED
      BY <3>2, <3>3
  <2>2. QED
    BY <2>1 DEF Step, TypeOK
<1>3. scores' \in [Rows -> [Index -> Scores]]
  BY DEF Step, TypeOK
<1>4. indices' \in [Rows -> [Index -> Packed]]
  <2>1. ASSUME NEW r \in Rows, NEW i \in Index, InSegment(w, i, count[w][r], batch[r])
        PROVE  Pack(IdOf(w, t, batch[r][StoredAt(w, i, count[w][r])])) \in Packed
    <3> DEFINE o == batch[r][StoredAt(w, i, count[w][r])]
    <3>1. batch[r] \in Seq(Offset)
      BY StorageAssumption
    <3>2. o \in Offset
      BY <2>1, <3>1 DEF InSegment
    <3>3. QED
      BY <3>2, IdTyped, PackRoundTrip, SMTT(30)
  <2>2. QED
    BY <2>1 DEF Step, TypeOK
<1>5. spill' \in [Rows -> [Spill -> Pair]]
  <2>1. ASSUME NEW r \in Rows, NEW j \in Spill, InSpill(w, j, count[w][r], batch[r])
        PROVE  <<score[r], IdOf(w, t, batch[r][SpilledAt(w, j, count[w][r])])>> \in Pair
    <3> DEFINE o == batch[r][SpilledAt(w, j, count[w][r])]
    <3>1. batch[r] \in Seq(Offset)
      BY StorageAssumption
    <3>2. o \in Offset
      BY <2>1, <3>1 DEF InSpill
    <3>3. IdOf(w, t, o) \in Id
      BY <3>2, IdTyped, PackRoundTrip, SMTT(30)
    <3>4. QED
      BY <3>3 DEF Pair
  <2>2. QED
    BY <2>1 DEF Step, TypeOK
<1>6. emitted' \in [Warps -> [Rows -> Seq(Pair)]]
  <2>1. ASSUME NEW r \in Rows
        PROVE  emitted[w][r] \o Found(w, t, batch[r], score[r]) \in Seq(Pair)
    <3>1. emitted[w][r] \in Seq(Pair)
      BY DEF TypeOK
    <3>2. batch[r] \in Batches /\ score[r] \in Scores
      OBVIOUS
    <3>3. Found(w, t, batch[r], score[r]) \in Seq(Pair)
      BY <3>2, FoundPairs
    <3>4. QED
      BY <3>1, <3>3
  <2>2. QED
    BY <2>1 DEF Step, TypeOK, Found
<1>7. QED
  BY <1>1, <1>2, <1>3, <1>4, <1>5, <1>6 DEF TypeOK

\* A place of a warp's segment is an index, and packing what a tile stores
\* there and loading it back gives the position.
LEMMA LoadStored ==
  ASSUME NEW w \in Warps, NEW p \in 0 .. SegmentCapacity - 1,
         NEW t \in Tiles, NEW o \in Offset
  PROVE  /\ w * SegmentCapacity + p \in Index
         /\ Unpack(w * SegmentCapacity + p, Pack(IdOf(w, t, o))) = IdOf(w, t, o)
<1> DEFINE id == IdOf(w, t, o)
<1>1. w \in 0 .. 7 /\ w \in Nat /\ SegmentCapacity \in Nat \ {0}
  BY StorageAssumption DEF Segments
<1>2. w * SegmentCapacity + p \in Index
  BY <1>1, PartsApart DEF Index, Segments
<1>3. (w * SegmentCapacity + p) \div SegmentCapacity = w
  BY <1>1, SegmentOfIndex
<1>4. (Pack(id) \div 16) * 128 + w * 16 + (Pack(id) % 16) = id
  BY IdTyped, PackRoundTrip
<1>5. QED
  BY <1>2, <1>3, <1>4 DEF Unpack

\* The pair found p places after the first, in the segment or in the spill.
KeptInSegment(w, r, p) ==
  p < SegmentCapacity => Load(r, w * SegmentCapacity + p) = emitted[w][r][p + 1]
KeptInSpill(w, r, p) ==
  p \in SegmentCapacity .. SegmentCapacity + SpillPerSegment - 1 =>
    spill[r][w * SpillPerSegment + p - SegmentCapacity] = emitted[w][r][p + 1]

\* What another warp found stays where it is.
LEMMA OthersKept ==
  ASSUME TypeOK, NEW w \in Warps, NEW t \in Tiles,
         NEW batch \in [Rows -> Batches], NEW score \in [Rows -> Scores],
         Step(w, t, batch, score),
         NEW v \in Warps \ {w}, NEW r \in Rows, NEW p \in Nat,
         KeptInSegment(v, r, p), KeptInSpill(v, r, p)
  PROVE  KeptInSegment(v, r, p)' /\ KeptInSpill(v, r, p)'
<1>1. emitted'[v][r] = emitted[v][r]
  BY DEF Step, TypeOK
<1>2. /\ v \in 0 .. 7 /\ w \in 0 .. 7 \ {v}
      /\ SegmentCapacity \in Nat \ {0} /\ SpillPerSegment \in Nat \ {0}
  BY StorageAssumption DEF Segments
<1>3. DOMAIN batch[r] = 1 .. Len(batch[r]) /\ Len(batch[r]) \in Nat
  BY FoundPairs
<1>4. count[w][r] \in Nat
  BY DEF TypeOK
<1>5. KeptInSegment(v, r, p)'
  <2>1. SUFFICES ASSUME p < SegmentCapacity
                 PROVE  Load(r, v * SegmentCapacity + p)' = emitted'[v][r][p + 1]
    BY DEF KeptInSegment
  <2> DEFINE i == v * SegmentCapacity + p
             d == i - w * SegmentCapacity
  <2>2. p \in 0 .. SegmentCapacity - 1
    BY <2>1, <1>2
  <2>3. i \in Index /\ i \in Int /\ d \in Int /\ (d < 0 \/ d >= SegmentCapacity)
    BY <1>2, <2>2, PartsApart DEF Index, Segments
  <2>. HIDE DEF d
  <2>4. ~InSegment(w, i, count[w][r], batch[r])
    <3>1. StoredAt(w, i, count[w][r]) = d - count[w][r] + 1
      BY DEF StoredAt, d
    <3>2. CASE d < 0
      BY <1>3, <1>4, <2>3, <3>1, <3>2 DEF InSegment
    <3>3. CASE d >= SegmentCapacity
      BY <1>2, <2>3, <3>3 DEF InSegment, d
    <3>4. QED
      BY <2>3, <3>2, <3>3
  <2>5. Load(r, i)' = Load(r, i)
    BY <2>3, <2>4 DEF Step, Load, TypeOK
  <2>6. QED
    BY <1>1, <2>1, <2>5 DEF KeptInSegment
<1>6. KeptInSpill(v, r, p)'
  <2>1. SUFFICES ASSUME p \in SegmentCapacity .. SegmentCapacity + SpillPerSegment - 1
                 PROVE  spill'[r][v * SpillPerSegment + p - SegmentCapacity]
                          = emitted'[v][r][p + 1]
    BY DEF KeptInSpill
  <2> DEFINE q == p - SegmentCapacity
             j == v * SpillPerSegment + q
             d == j - w * SpillPerSegment
  <2>2. q \in 0 .. SpillPerSegment - 1
    BY <2>1, <1>2
  <2>. HIDE DEF q
  <2>3. j \in Spill /\ j \in Int /\ d \in Int /\ (d < 0 \/ d >= SpillPerSegment)
    BY <1>2, <2>2, PartsApart DEF Spill, Segments
  <2>4. ~InSpill(w, j, count[w][r], batch[r])
    BY <1>2, <2>3 DEF InSpill
  <2>5. spill'[r][j] = spill[r][j]
    BY <2>3, <2>4 DEF Step, TypeOK
  <2>6. j = v * SpillPerSegment + p - SegmentCapacity
    BY <1>2 DEF q
  <2>7. QED
    BY <1>1, <2>1, <2>5, <2>6 DEF KeptInSpill
<1>7. QED
  BY <1>5, <1>6

\* The later part of a sequence and its continuation is the continuation.
LEMMA Appended ==
  ASSUME NEW S, NEW e \in Seq(S), NEW f \in Seq(S), NEW p \in Nat, p >= Len(e),
         p - Len(e) + 1 \in 1 .. Len(f)
  PROVE  (e \o f)[p + 1] = f[p - Len(e) + 1]
<1>1. p + 1 \in 1 .. Len(e) + Len(f) /\ p + 1 > Len(e)
  OBVIOUS
<1>2. (e \o f)[p + 1] = f[p + 1 - Len(e)]
  BY <1>1
<1>3. p + 1 - Len(e) = p - Len(e) + 1
  OBVIOUS
<1>4. QED
  BY <1>2, <1>3

LEMMA AppendedLength ==
  ASSUME NEW S, NEW e \in Seq(S), NEW f \in Seq(S)
  PROVE  Len(e \o f) = Len(e) + Len(f)
OBVIOUS

\* What the warp found in earlier tiles stays, and what it found in this one
\* is where a selection looks for it.
LEMMA OwnKept ==
  ASSUME TypeOK, NEW w \in Warps, NEW t \in Tiles,
         NEW batch \in [Rows -> Batches], NEW score \in [Rows -> Scores],
         Step(w, t, batch, score),
         NEW r \in Rows, Len(emitted[w][r]) = count[w][r],
         NEW p \in Nat, p < count'[w][r],
         p < count[w][r] => KeptInSegment(w, r, p) /\ KeptInSpill(w, r, p)
  PROVE  KeptInSegment(w, r, p)' /\ KeptInSpill(w, r, p)'
<1> DEFINE n == count[w][r]
           b == batch[r]
           k == p - n + 1
<1>1. /\ w \in 0 .. 7 /\ SegmentCapacity \in Nat \ {0} /\ SpillPerSegment \in Nat \ {0}
      /\ w * SegmentCapacity \in Nat /\ w * SpillPerSegment \in Nat
  <2>1. w \in 0 .. 7 /\ SegmentCapacity \in Nat \ {0} /\ SpillPerSegment \in Nat \ {0}
    BY StorageAssumption DEF Segments
  <2>2. w * SegmentCapacity \in Nat
    BY ONLY <2>1
  <2>3. w * SpillPerSegment \in Nat
    BY ONLY <2>1
  <2> QED BY <2>1, <2>2, <2>3
<1>2. /\ b \in Seq(Offset) /\ Len(b) \in Nat /\ DOMAIN b = 1 .. Len(b)
      /\ Found(w, t, b, score[r]) \in Seq(Pair)
      /\ Len(Found(w, t, b, score[r])) = Len(b)
  BY FoundPairs
<1>3. n \in Nat /\ emitted[w][r] \in Seq(Pair) /\ Len(emitted[w][r]) = n
  BY DEF TypeOK
<1>4. emitted'[w][r] = emitted[w][r] \o Found(w, t, b, score[r])
  BY DEF Step, TypeOK, Found
<1>5. p < n + Len(b)
  BY DEF Step, TypeOK
<1>6. p < n => emitted'[w][r][p + 1] = emitted[w][r][p + 1]
  BY <1>2, <1>3, <1>4
<1>7. p >= n => k \in DOMAIN b /\ emitted'[w][r][p + 1] = <<score[r], IdOf(w, t, b[k])>>
  <2>1. SUFFICES ASSUME p >= n
                 PROVE  k \in DOMAIN b /\ emitted'[w][r][p + 1] = <<score[r], IdOf(w, t, b[k])>>
    OBVIOUS
  <2>2. k \in 1 .. Len(b)
    BY <1>2, <1>3, <1>5, <2>1
  <2>3. emitted'[w][r][p + 1] = Found(w, t, b, score[r])[k]
    <3>1. p >= Len(emitted[w][r]) /\ p - Len(emitted[w][r]) + 1 = k
          /\ k \in 1 .. Len(Found(w, t, b, score[r]))
      BY <1>2, <1>3, <2>1, <2>2
    <3>. HIDE DEF k
    <3>2. (emitted[w][r] \o Found(w, t, b, score[r]))[p + 1] = Found(w, t, b, score[r])[k]
      BY <1>2, <1>3, <3>1, Appended, Zenon
    <3>3. QED
      BY <1>4, <3>2, Zenon
  <2>4. QED
    BY <1>2, <2>2, <2>3 DEF Found
<1>. HIDE DEF n, b
<1>8. KeptInSegment(w, r, p)'
  <2> DEFINE i == w * SegmentCapacity + p
  <2>1. SUFFICES ASSUME p < SegmentCapacity
                 PROVE  Load(r, i)' = emitted'[w][r][p + 1]
    BY DEF KeptInSegment
  <2>2. p \in 0 .. SegmentCapacity - 1
    BY <1>1, <2>1
  <2>3. i \in Index
    BY <2>2, <1>7, LoadStored, PartsApart, <1>1 DEF Index, Segments
  <2>4. StoredAt(w, i, n) = k /\ i - w * SegmentCapacity < SegmentCapacity
    BY <1>1, <1>3, <2>1 DEF StoredAt
  <2>5. CASE p < n
    <3>1. ~InSegment(w, i, n, b)
      BY <1>2, <1>3, <2>4, <2>5 DEF InSegment
    <3>2. Load(r, i)' = Load(r, i)
      BY <2>3, <3>1 DEF Step, Load, TypeOK, n, b
    <3>3. QED
      BY <1>6, <2>1, <2>5, <3>2 DEF KeptInSegment, n
  <2>6. CASE p >= n
    <3>1. InSegment(w, i, n, b)
      BY <1>7, <2>4, <2>6 DEF InSegment
    <3>2. scores'[r][i] = score[r] /\ indices'[r][i] = Pack(IdOf(w, t, b[k]))
      BY <2>3, <2>4, <3>1 DEF Step, TypeOK, n, b
    <3>3. b[k] \in Offset
      BY <1>2, <1>7, <2>6
    <3>4. Unpack(i, Pack(IdOf(w, t, b[k]))) = IdOf(w, t, b[k])
      BY <2>2, <3>3, LoadStored
    <3>5. QED
      BY <1>7, <2>6, <3>2, <3>4 DEF Load
  <2>7. QED
    BY <1>3, <2>5, <2>6
<1>9. KeptInSpill(w, r, p)'
  <2> DEFINE q == p - SegmentCapacity
             j == w * SpillPerSegment + q
  <2>1. SUFFICES ASSUME p \in SegmentCapacity .. SegmentCapacity + SpillPerSegment - 1
                 PROVE  spill'[r][w * SpillPerSegment + p - SegmentCapacity]
                          = emitted'[w][r][p + 1]
    BY DEF KeptInSpill
  <2>2. q \in 0 .. SpillPerSegment - 1
    BY <1>1, <2>1
  <2>3. j \in Spill /\ j = w * SpillPerSegment + p - SegmentCapacity
    BY <1>1, <2>2, PartsApart DEF Spill, Segments
  <2>4. SpilledAt(w, j, n) = k /\ j - w * SpillPerSegment \in 0 .. SpillPerSegment - 1
    <3>1. j - w * SpillPerSegment = q /\ q \in Int
      BY <1>1
    <3>2. q + SegmentCapacity - n + 1 = k
      BY <1>1, <1>3
    <3>3. QED
      BY <2>2, <3>1, <3>2 DEF SpilledAt
  <2>5. CASE p < n
    <3>1. ~InSpill(w, j, n, b)
      BY <1>2, <1>3, <2>4, <2>5 DEF InSpill
    <3>2. spill'[r][j] = spill[r][j]
      BY <2>3, <3>1 DEF Step, TypeOK, n, b
    <3>3. QED
      BY <1>6, <2>1, <2>3, <2>5, <3>2 DEF KeptInSpill, n
  <2>6. CASE p >= n
    <3>1. InSpill(w, j, n, b)
      BY <1>7, <2>4, <2>6 DEF InSpill
    <3>2. spill'[r][j] = <<score[r], IdOf(w, t, b[k])>>
      BY <2>3, <2>4, <3>1 DEF Step, TypeOK, n, b
    <3>3. QED
      BY <1>7, <2>3, <2>6, <3>2
  <2>7. QED
    BY <1>3, <2>5, <2>6
<1>10. QED
  BY <1>8, <1>9
-----------------------------------------------------------------------------
StorageInv == TypeOK /\ NothingLost

LEMMA InitInv == Init => StorageInv
<1>1. SUFFICES ASSUME Init PROVE StorageInv
  OBVIOUS
<1>2. 0 \in Packed /\ 0 \in Id
  BY DEF Packed, Id, MaxContext
<1>3. TypeOK
  <2>1. scores \in [Rows -> [Index -> Scores]] /\ indices \in [Rows -> [Index -> Packed]]
    BY <1>1, <1>2 DEF Init
  <2>2. spill \in [Rows -> [Spill -> Pair]]
    BY <1>1, <1>2 DEF Init, Pair
  <2>3. emitted \in [Warps -> [Rows -> Seq(Pair)]]
    BY <1>1 DEF Init
  <2>4. QED
    BY <1>1, <2>1, <2>2, <2>3 DEF Init, TypeOK
<1>4. NothingLost
  BY <1>1 DEF Init, NothingLost
<1>5. QED
  BY <1>3, <1>4 DEF StorageInv

LEMMA StoreTileInv ==
  ASSUME StorageInv, NEW w \in Warps, StoreTile(w)
  PROVE  StorageInv'
<1>1. PICK t \in Tiles, batch \in [Rows -> Batches], score \in [Rows -> Scores] :
        Step(w, t, batch, score)
  BY DEF StoreTile, Step
<1>2. TypeOK /\ NothingLost
  BY DEF StorageInv
<1>3. TypeOK'
  BY <1>1, <1>2, StepTyped
<1>4. ASSUME NEW v \in Warps, NEW r \in Rows
      PROVE  /\ Len(emitted'[v][r]) = count'[v][r]
             /\ \A p \in 0 .. count'[v][r] - 1 :
                  KeptInSegment(v, r, p)' /\ KeptInSpill(v, r, p)'
  <2>1. /\ Len(emitted[v][r]) = count[v][r]
        /\ \A p \in 0 .. count[v][r] - 1 : KeptInSegment(v, r, p) /\ KeptInSpill(v, r, p)
    BY <1>2 DEF NothingLost, KeptInSegment, KeptInSpill
  <2>2. count[v][r] \in Nat /\ count'[v][r] \in Nat /\ emitted[v][r] \in Seq(Pair)
    BY <1>2, <1>3 DEF TypeOK
  <2>3. CASE v = w
    <3>1. Len(emitted'[v][r]) = count'[v][r]
      <4>1. /\ Len(batch[r]) \in Nat
            /\ Found(w, t, batch[r], score[r]) \in Seq(Pair)
            /\ Len(Found(w, t, batch[r], score[r])) = Len(batch[r])
        BY FoundPairs
      <4>2. emitted'[v][r] = emitted[v][r] \o Found(w, t, batch[r], score[r])
        BY <1>1, <1>2, <2>3 DEF Step, TypeOK, Found
      <4>3. count'[v][r] = count[v][r] + Len(batch[r])
        BY <1>1, <1>2, <2>3 DEF Step, TypeOK
      <4>4. Len(emitted[v][r] \o Found(w, t, batch[r], score[r]))
              = Len(emitted[v][r]) + Len(Found(w, t, batch[r], score[r]))
        BY <2>2, <4>1, AppendedLength, Zenon
      <4>5. QED
        BY <2>1, <4>1, <4>2, <4>3, <4>4, Zenon
    <3>2. ASSUME NEW p \in 0 .. count'[v][r] - 1
          PROVE  KeptInSegment(v, r, p)' /\ KeptInSpill(v, r, p)'
      <4>1. p \in Nat /\ p < count'[w][r]
        BY <2>2, <2>3
      <4>2. p < count[w][r] => KeptInSegment(w, r, p) /\ KeptInSpill(w, r, p)
        BY <2>1, <2>2, <2>3, <4>1
      <4>3. QED
        BY <1>1, <1>2, <2>1, <2>3, <4>1, <4>2, OwnKept
    <3>3. QED
      BY <3>1, <3>2
  <2>4. CASE v # w
    <3>1. count'[v][r] = count[v][r] /\ emitted'[v][r] = emitted[v][r]
      BY <1>1, <1>2, <2>4 DEF Step, TypeOK
    <3>2. ASSUME NEW p \in 0 .. count'[v][r] - 1
          PROVE  KeptInSegment(v, r, p)' /\ KeptInSpill(v, r, p)'
      <4>1. p \in Nat /\ KeptInSegment(v, r, p) /\ KeptInSpill(v, r, p)
        BY <2>1, <2>2, <3>1
      <4>2. v \in Warps \ {w}
        BY <2>4
      <4>3. QED
        BY <1>1, <1>2, <4>1, <4>2, OthersKept
    <3>3. QED
      BY <2>1, <3>1, <3>2
  <2>5. QED
    BY <2>3, <2>4
<1>5. NothingLost'
  BY <1>4 DEF NothingLost, KeptInSegment, KeptInSpill
<1>6. QED
  BY <1>3, <1>5 DEF StorageInv

\* Every selection finds the pairs the math warps found, at the positions they
\* had: an append never disturbs another warp's part or an earlier tile's
\* pairs, the sixteen bits lose nothing that the segment does not supply, and
\* the spill goes on where the segment ends.
THEOREM Lossless == Spec => []NothingLost
<1>1. StorageInv /\ [Next]_vars => StorageInv'
  <2>1. ASSUME StorageInv, NEW w \in Warps, StoreTile(w)
        PROVE  StorageInv'
    BY <2>1, StoreTileInv
  <2>2. ASSUME StorageInv, UNCHANGED vars
        PROVE  StorageInv'
    BY <2>2 DEF vars, StorageInv, TypeOK, NothingLost, Load
  <2>3. QED
    BY <2>1, <2>2 DEF Next
<1>2. StorageInv => NothingLost
  BY DEF StorageInv
<1>3. QED
  BY InitInv, <1>1, <1>2, PTL DEF Spec

---------------------------------------------------------------------------
(* RepairProducer.                                                          *)

Scans == \E r \in PairRow : pair.flag[r]

\* The tiles a warp has waited for and has released.
WaitedKV ==
  [w \in MathWarp |-> mathWarp[w].tile + (IF mathWarp[w].pc \in {"release", "reduce"} THEN 1 ELSE 0)]
ReleasedKV == [w \in MathWarp |-> mathWarp[w].tile + (IF mathWarp[w].pc = "reduce" THEN 1 ELSE 0)]
PendingKV == {s \in KVRing : kvStage[s].due # {}}

TmaPcs  == {"start", "prefetch", "next", "kv", "done"}
MathPcs == {"start", "q", "tiles", "release", "reduce", "done"}
Triple  == Nat \X Nat \X Int
WarpStates == [pc : MathPcs, tile : Nat, counts : [PairRow -> Nat],
               weights : Int, scales : Int, product : Int]

ProducerTyped ==
  /\ pair \in RowPairs
  /\ tma \in [pc : TmaPcs, tile : Nat]
  /\ mathWarp \in [MathWarp -> WarpStates]
  /\ running \in SUBSET MathWarp
  /\ qStage \in [QRing -> [what : Int, due : SUBSET {"q", "weights"}]]
  /\ kvStage \in [KVRing -> [what : Int, due : SUBSET {"kv", "scales"}]]
  /\ fullQ \in [QRing -> Nat]
  /\ produced \in [PairRow -> [MathWarp -> SUBSET Triple]]
  /\ segmentCounts \in [PairRow -> [MathWarp -> Nat]]

\* A role that is past the start scans, and no further than to the last tile.
Scanning ==
  /\ \A w \in MathWarp : mathWarp[w].pc = "start" <=> tma.pc = "start"
  /\ tma.pc \notin {"start", "done"} => Scans
  /\ \A w \in MathWarp :
       /\ mathWarp[w].pc \notin {"start", "done"} => Scans
       /\ mathWarp[w].tile <= ScanTiles
       /\ mathWarp[w].pc \in {"release", "reduce"} => mathWarp[w].tile < ScanTiles
       /\ mathWarp[w].pc = "done" /\ Scans => mathWarp[w].tile = ScanTiles

\* Q is copied once, and is there for all that wait for it.
QHeld ==
  /\ \A s \in QRing : s # 0 => qStage[s].due = {}
  /\ IF tma.pc \in {"start", "prefetch"} \/ ~Scans
     THEN qStage[0].due = {} /\ fullQ[0] = 0
     ELSE qStage[0].what = OwnQ /\ fullQ[0] = IF qStage[0].due = {} THEN 1 ELSE 0
  /\ \A w \in MathWarp : mathWarp[w].pc \in {"tiles", "release", "reduce"} =>
       fullQ[0] = 1 /\ mathWarp[w].weights = OwnQ

\* The KV stages are a ring, and hold the latest tiles.
KVHeld ==
  /\ RingType(3, MathWarp, tma.tile, WaitedKV, ReleasedKV, fullKV, emptyKV, PendingKV)
  /\ RingInv(3, MathWarp, tma.tile, WaitedKV, ReleasedKV, fullKV, emptyKV, PendingKV)
  /\ \A n \in Nat : tma.tile - 3 <= n /\ n < tma.tile => kvStage[n % 3].what = n

\* A warp has the scales of its tile, and its product when the group is complete.
ReadsRight ==
  \A w \in MathWarp :
    LET m == mathWarp[w]
    IN  /\ w \in running => m.pc = "release"
        /\ m.pc = "release" => m.scales = m.tile /\ (w \notin running => m.product = m.tile)
        /\ m.pc = "reduce" => m.scales = m.tile /\ m.product = m.tile

\* Warp w's share of the first n tiles of row r, and a segment that holds
\* exactly a set of positions, each once and without gaps.
Share(w, r, n) ==
  {id \in 0 .. n * TileWidth - 1 :
     /\ (id \div WarpWidth) % NumMathWarps = w
     /\ pair.flag[r] /\ RowStart(r) <= id /\ id < RowEnd(r)}
HoldsExactly(segment, share, size) ==
  /\ size = Cardinality(share)
  /\ \A x \in segment : x[1] \in 0 .. size - 1 /\ x[2] \in share /\ x[3] = x[2] \div TileWidth
  /\ \A x, y \in segment : x[1] = y[1] => x = y
  /\ \A p \in 0 .. size - 1 : \E x \in segment : x[1] = p
  /\ \A id \in share : \E x \in segment : x[2] = id
SegmentsRight ==
  \A w \in MathWarp, r \in PairRow :
    /\ HoldsExactly(produced[r][w], Share(w, r, mathWarp[w].tile), mathWarp[w].counts[r])
    /\ mathWarp[w].pc = "done" /\ Scans => segmentCounts[r][w] = mathWarp[w].counts[r]

ProducerInv == ProducerTyped /\ Scanning /\ QHeld /\ KVHeld /\ ReadsRight /\ SegmentsRight

-----------------------------------------------------------------------------
(* Arithmetic of the tiles.                                                  *)

\* Multiples of a width, and the multiple and the rest a number is made of.
LEMMA Products ==
  ASSUME NEW a \in Int, NEW b \in Int, NEW d \in Nat \ {0}
  PROVE  /\ a * d \in Int
         /\ a < b <=> a * d < b * d
         /\ a < b <=> a * d + d <= b * d
         /\ (a + 1) * d = a * d + d
OBVIOUS

\* Which positions a warp has in a tile: those PositionOf gives, and each is
\* the warp's, the tile's, and its place in the part says which.
LEMMA PositionIs ==
  ASSUME NEW w \in MathWarp, NEW t \in Nat, NEW id \in Nat
  PROVE  /\ TileWidth \in Nat \ {0}
         /\ \A o \in 0 .. WarpWidth - 1 :
              LET p == PositionOf(w, t, o)
              IN  /\ p \in Nat /\ p \div TileWidth = t
                  /\ (p \div WarpWidth) % NumMathWarps = w /\ p % WarpWidth = o
         /\ id \div TileWidth = t /\ (id \div WarpWidth) % NumMathWarps = w =>
              id = PositionOf(w, t, id % WarpWidth) /\ id % WarpWidth \in 0 .. WarpWidth - 1
<1> DEFINE n == NumMathWarps
           k == WarpWidth
<1>1. n \in Nat \ {0} /\ k \in Nat \ {0} /\ w \in 0 .. n - 1 /\ TileWidth = n * k
  BY ProducerAssumption DEF MathWarp, TileWidth
<1> HIDE DEF n, k
<1>2. n * k \in Nat \ {0}
  BY <1>1, Products
<1>3. ASSUME NEW o \in 0 .. k - 1
      PROVE  LET p == t * (n * k) + w * k + o
             IN  p \in Nat /\ p \div (n * k) = t /\ (p \div k) % n = w /\ p % k = o
  <2>1. PICK q : q = t * n + w
    OBVIOUS
  <2>2. PICK p : p = t * (n * k) + w * k + o
    OBVIOUS
  <2>3. PICK c : c = w * k + o
    OBVIOUS
  <2>4. w * k \in Nat /\ (w + 1) * k = w * k + k /\ (w + 1) * k <= n * k
    <3>1. w + 1 <= n
      BY <1>1
    <3>2. w + 1 = n \/ w + 1 < n
      BY <1>1, <3>1
    <3> QED BY <1>1, <3>2, Products
  <2>5. c \in 0 .. (n * k) - 1
    BY <1>1, <1>2, <2>3, <2>4
  <2>6. t * (n * k) \in Nat /\ t * n \in Nat /\ q \in Nat
    BY <1>1, <1>2, <2>1
  <2>7. p = t * (n * k) + c /\ p \in Nat
    BY <1>1, <2>2, <2>3, <2>4, <2>6
  <2>8. p \div (n * k) = t
    BY <1>2, <2>5, <2>7, DivUnique
  <2>9. p = q * k + o
    <3>1. t * (n * k) = (t * n) * k
      BY <1>1
    <3>2. q * k = (t * n) * k + w * k
      BY <1>1, <2>1, <2>6
    <3> QED BY <1>1, <2>2, <2>4, <2>6, <3>1, <3>2
  <2>10. p \div k = q /\ p % k = o
    <3>1. p \in Int /\ q \in Int /\ k \in Nat \ {0} /\ o \in 0 .. k - 1
      BY <1>1, <2>6, <2>7
    <3> QED BY ONLY <2>9, <3>1, DivUnique
  <2>11. q % n = w
    BY <1>1, <2>1, <2>6, DivUnique
  <2> QED BY <2>2, <2>7, <2>8, <2>10, <2>11
<1>4. ASSUME id \div (n * k) = t, (id \div k) % n = w
      PROVE  id = t * (n * k) + w * k + (id % k) /\ id % k \in 0 .. k - 1
  <2>1. PICK q : q = id \div k
    OBVIOUS
  <2>2. PICK o : o = id % k
    OBVIOUS
  <2>3. PICK u : u = q \div n
    OBVIOUS
  <2>4. q \in Nat /\ o \in 0 .. k - 1 /\ id = q * k + o
    <3>1. id \in Nat /\ id \in Int /\ k \in Nat \ {0}
      BY <1>1
    <3> QED BY ONLY <2>1, <2>2, <3>1
  <2>5. u \in Nat /\ q = u * n + w
    <3>1. w = q % n
      BY <1>4, <2>1
    <3>2. q \in Nat /\ q \in Int /\ n \in Nat \ {0}
      BY <1>1, <2>4
    <3> QED BY ONLY <2>3, <3>1, <3>2
  <2>6. id = u * (n * k) + w * k + o
    <3>1. u * (n * k) = (u * n) * k
      BY <1>1, <2>5
    <3>2. q * k = (u * n) * k + w * k
      BY <1>1, <2>5
    <3> QED BY <1>1, <2>4, <2>5, <3>1, <3>2
  <2>7. PICK p : p = u * (n * k) + w * k + o
    OBVIOUS
  <2>8. w * k + o \in 0 .. (n * k) - 1
    <3>1. w * k \in Nat /\ (w + 1) * k = w * k + k /\ (w + 1) * k <= n * k
      <4>1. w + 1 = n \/ w + 1 < n
        BY <1>1
      <4> QED BY <1>1, <4>1, Products
    <3> QED BY <1>1, <1>2, <2>4, <3>1
  <2>9. id = u * (n * k) + (w * k + o)
    <3>1. u * (n * k) \in Nat /\ w * k \in Nat
      BY <1>1, <1>2, <2>5
    <3> QED BY <1>1, <2>4, <2>6, <3>1
  <2>10. id \div (n * k) = u
    BY <1>2, <2>5, <2>8, <2>9, DivUnique
  <2> QED BY <1>4, <2>2, <2>4, <2>6, <2>10
<1> QED BY <1>1, <1>2, <1>3, <1>4 DEF PositionOf, n, k

-----------------------------------------------------------------------------
(* What a warp is to publish.                                                *)

LEMMA RowsTyped ==
  ASSUME ProducerTyped
  PROVE  /\ pair.columns \in Nat
         /\ \A r \in PairRow : RowStart(r) \in Nat /\ RowEnd(r) \in Nat
                               /\ RowEnd(r) <= ScanTiles * TileWidth
         /\ ScanTiles \in Nat
         /\ \A r \in PairRow, id \in Nat :
              RowStart(r) <= id /\ id < RowEnd(r) <=>
                id < pair.columns /\ pair.start[r] <= id /\ id < pair.end[r]
<1>1. pair.columns \in Nat /\ \A r \in PairRow : pair.start[r] \in Nat /\ pair.end[r] \in Nat
  BY ProducerAssumption DEF ProducerTyped
<1>2. ASSUME NEW a \in Nat, NEW b \in Nat PROVE Min({a, b}) = IF a <= b THEN a ELSE b
  BY DEF Min
<1>3. \A r \in PairRow : /\ RowStart(r) = IF pair.start[r] <= pair.columns THEN pair.start[r] ELSE pair.columns
                         /\ RowEnd(r) = IF pair.end[r] <= pair.columns THEN pair.end[r] ELSE pair.columns
  BY <1>1, <1>2 DEF RowStart, RowEnd
<1>4. PICK m : m = Max({RowEnd(r) : r \in PairRow})
  OBVIOUS
<1>5. m \in Nat /\ \A r \in PairRow : RowEnd(r) <= m
  <2>1. {RowEnd(r) : r \in PairRow} = {RowEnd(0), RowEnd(1)}
    BY DEF PairRow
  <2>2. RowEnd(0) \in Nat /\ RowEnd(1) \in Nat
    BY <1>1, <1>3 DEF PairRow
  <2>3. \A a, b \in Nat : Max({a, b}) = IF a >= b THEN a ELSE b
    BY DEF Max
  <2>4. m = IF RowEnd(0) >= RowEnd(1) THEN RowEnd(0) ELSE RowEnd(1)
    BY <1>4, <2>1, <2>2, <2>3
  <2> QED BY <2>2, <2>4 DEF PairRow
<1>6. ScanTiles \in Nat /\ m <= ScanTiles * TileWidth
  <2>1. PICK d : d = TileWidth
    OBVIOUS
  <2>2. d \in Nat \ {0}
    BY ProducerAssumption, <2>1, Products DEF TileWidth
  <2>3. PICK a : a = m + d - 1
    OBVIOUS
  <2>4. PICK q : q = a \div d
    OBVIOUS
  <2>5. a \in Nat
    BY <1>5, <2>2, <2>3
  <2>6. q \in Nat /\ a = q * d + (a % d) /\ a % d \in 0 .. d - 1
    BY ONLY <2>2, <2>4, <2>5
  <2>7. m <= q * d
    <3>1. q * d \in Nat
      BY <2>2, <2>6
    <3> QED BY <1>5, <2>2, <2>3, <2>6, <3>1
  <2>8. ScanTiles = q
    BY <1>4, <2>1, <2>3, <2>4 DEF ScanTiles
  <2> QED BY <2>1, <2>6, <2>7, <2>8
<1>7. \A r \in PairRow : RowStart(r) \in Nat /\ RowEnd(r) \in Nat /\ RowEnd(r) <= ScanTiles * TileWidth
  <2>1. ScanTiles * TileWidth \in Int
    BY <1>6, ProducerAssumption, Products DEF TileWidth
  <2> QED BY <1>1, <1>3, <1>5, <1>6, <2>1
<1>8. \A r \in PairRow, id \in Nat :
        RowStart(r) <= id /\ id < RowEnd(r) <=>
          id < pair.columns /\ pair.start[r] <= id /\ id < pair.end[r]
  BY <1>1, <1>3
<1> QED BY <1>1, <1>6, <1>7, <1>8

\* A warp's share of a row fits the segment, for the capacity the host asks.
LEMMA ShareFits ==
  ASSUME ProducerTyped, NEW w \in MathWarp, NEW r \in PairRow, NEW n \in Nat
  PROVE  /\ IsFiniteSet(Share(w, r, n)) /\ Share(w, r, n) \subseteq Nat
         /\ Cardinality(Share(w, r, n)) \in Nat /\ Cardinality(Share(w, r, n)) <= WarpCapacity
<1> DEFINE S == Share(w, r, n)
           k == WarpWidth
           f == [id \in S |-> (id \div TileWidth) * k + (id % k)]
<1>1. k \in Nat \ {0} /\ WarpCapacity \in Nat \ {0} /\ TileWidth \in Nat \ {0} /\ NumMathWarps \in Nat \ {0}
      /\ TileWidth = NumMathWarps * k
  BY ProducerAssumption, Products DEF TileWidth
<1>2. \A id \in S : /\ id \in Nat /\ id < pair.columns /\ (id \div k) % NumMathWarps = w
  <2>1. \A id \in S : id \in Nat /\ RowStart(r) <= id /\ id < RowEnd(r)
    BY DEF Share
  <2> QED BY <2>1, RowsTyped DEF Share
<1>3. PICK c \in Nat : WarpCapacity = c * k
  <2>1. WarpCapacity % k = 0
    BY ProducerAssumption
  <2>2. PICK q : q = WarpCapacity \div k
    OBVIOUS
  <2>3. q \in Nat /\ WarpCapacity = q * k
    BY ONLY <1>1, <2>1, <2>2
  <2> QED BY <2>3
<1>4. pair.columns \in Nat /\ pair.columns <= c * TileWidth
  <2>1. pair.columns \in 1 .. NumMathWarps * WarpCapacity
    BY ProducerAssumption DEF ProducerTyped
  <2>2. NumMathWarps * (c * k) = c * (NumMathWarps * k)
    BY <1>1, <1>3
  <2> QED BY <1>1, <1>3, <2>1, <2>2
<1>5. \A id \in S : /\ id \div TileWidth \in 0 .. c - 1 /\ id % k \in 0 .. k - 1
                    /\ id = PositionOf(w, id \div TileWidth, id % k)
  <2> SUFFICES ASSUME NEW id \in S
               PROVE  /\ id \div TileWidth \in 0 .. c - 1 /\ id % k \in 0 .. k - 1
                      /\ id = PositionOf(w, id \div TileWidth, id % k)
    OBVIOUS
  <2>1. id \in Nat /\ id < pair.columns /\ (id \div k) % NumMathWarps = w
    BY <1>2
  <2>2. PICK t : t = id \div TileWidth
    OBVIOUS
  <2>3. PICK d : d = TileWidth
    OBVIOUS
  <2>4. d \in Nat \ {0} /\ t = id \div d /\ id \in Nat
    BY <1>1, <2>1, <2>2, <2>3
  <2>5. t \in Nat /\ id = t * d + (id % d) /\ id % d \in 0 .. d - 1
    BY ONLY <2>4
  <2>6. t < c
    <3> SUFFICES ASSUME c <= t PROVE FALSE
      BY <1>3, <2>5
    <3>1. c * d <= t * d /\ c * d \in Int /\ t * d \in Int
      <4>1. c = t \/ c < t
        BY <1>3, <2>5
      <4> QED BY <1>3, <2>4, <2>5, <4>1, Products
    <3>2. t * d <= id
      BY <2>4, <2>5, <3>1
    <3> QED BY <1>4, <2>1, <2>3, <3>1, <3>2
  <2>7. id = PositionOf(w, t, id % k) /\ id % k \in 0 .. k - 1
    BY <2>1, <2>2, <2>5, PositionIs
  <2> QED BY <1>3, <2>2, <2>5, <2>6, <2>7
<1> HIDE DEF k, S
<1>6. \A id \in S : f[id] \in 0 .. WarpCapacity - 1
  <2> SUFFICES ASSUME NEW id \in S PROVE f[id] \in 0 .. WarpCapacity - 1
    OBVIOUS
  <2>1. PICK t, o : t = id \div TileWidth /\ o = id % k
    OBVIOUS
  <2>2. t \in 0 .. c - 1 /\ o \in 0 .. k - 1
    BY <1>5, <2>1
  <2>3. t * k \in Nat /\ t * k + k <= c * k
    BY <1>1, <1>3, <2>2, Products
  <2>4. f[id] = t * k + o
    BY <2>1
  <2> HIDE DEF f
  <2> QED BY <1>1, <1>3, <2>2, <2>3, <2>4
<1>7. ASSUME NEW x \in S, NEW y \in S, f[x] = f[y] PROVE x = y
  <2>1. PICK t, o, u, p : /\ t = x \div TileWidth /\ o = x % k /\ u = y \div TileWidth /\ p = y % k
    OBVIOUS
  <2>2. t \in Int /\ o \in 0 .. k - 1 /\ u \in Int /\ p \in 0 .. k - 1
    BY <1>5, <2>1
  <2>3. t * k + o = u * k + p
    BY <1>7, <2>1
  <2>4. PICK a : a = t * k + o
    OBVIOUS
  <2>5. a \in Int
    BY <1>1, <2>2, <2>4
  <2>6. t = u /\ o = p
    <3>1. a \div k = t /\ a % k = o
      BY <1>1, <2>2, <2>4, <2>5, DivUnique
    <3>2. a \div k = u /\ a % k = p
      BY <1>1, <2>2, <2>3, <2>4, <2>5, DivUnique
    <3> QED BY <3>1, <3>2
  <2> QED BY <1>5, <2>1, <2>6
<1>8. f \in Injection(S, 0 .. WarpCapacity - 1)
  BY <1>6, <1>7 DEF Injection, IsInjective
<1>9. IsFiniteSet(0 .. WarpCapacity - 1) /\ Cardinality(0 .. WarpCapacity - 1) = WarpCapacity
  <2>1. PICK e : e = WarpCapacity - 1
    OBVIOUS
  <2>2. e \in Int /\ e >= 0 /\ e + 1 = WarpCapacity
    BY <1>1, <2>1
  <2>3. IsFiniteSet(0 .. e) /\ Cardinality(0 .. e) = e + 1
    BY <2>2, FS_Interval
  <2> QED BY <2>1, <2>2, <2>3
<1>10. IsFiniteSet(S) /\ Cardinality(S) <= WarpCapacity
  <2> HIDE DEF f
  <2> QED BY <1>8, <1>9, FS_Injection
<1>11. Cardinality(S) \in Nat
  BY <1>10, FS_CardinalityType
<1> QED BY <1>2, <1>10, <1>11 DEF S

-----------------------------------------------------------------------------
(* The places of a tile's positions.                                         *)

\* Each lane has two positions of a part, one of each role, in an order.
LEMMA LanesDistinct ==
  ASSUME NEW a \in 0 .. WarpWidth - 1, NEW b \in 0 .. WarpWidth - 1,
         LaneOfPosition(a) = LaneOfPosition(b)
  PROVE  a = b
<1>1. PICK h : h = WarpWidth \div 2
  OBVIOUS
<1>2. h \in Nat \ {0} /\ WarpWidth = 2 * h
  BY <1>1, ProducerAssumption
<1>3. \A o \in 0 .. (2 * h) - 1 : \/ o < h /\ o % h = o /\ o \div h = 0
                                  \/ o >= h /\ o % h = o - h /\ o \div h = 1
  <2> SUFFICES ASSUME NEW o \in 0 .. (2 * h) - 1
               PROVE  \/ o < h /\ o % h = o /\ o \div h = 0
                      \/ o >= h /\ o % h = o - h /\ o \div h = 1
    OBVIOUS
  <2>1. CASE o < h
    <3>1. o \in Int /\ h \in Nat \ {0} /\ 0 \in Int /\ o \in 0 .. h - 1 /\ o = 0 * h + o
      BY <1>2, <2>1
    <3> QED BY <2>1, <3>1, DivUnique
  <2>2. CASE o >= h
    <3>1. PICK c : c = o - h
      OBVIOUS
    <3>2. o \in Int /\ h \in Nat \ {0} /\ 1 \in Int /\ c \in 0 .. h - 1 /\ o = 1 * h + c
      BY <1>2, <2>2, <3>1
    <3> QED BY <2>2, <3>1, <3>2, DivUnique
  <2> QED BY <1>2, <2>1, <2>2
<1>4. a \in 0 .. (2 * h) - 1 /\ b \in 0 .. (2 * h) - 1
  BY <1>2
<1>5. 2 * (a % h) + (a \div h) = 2 * (b % h) + (b \div h)
  BY <1>1 DEF LaneOfPosition
<1>6. PICK ar, aq, br, bq : ar = a % h /\ aq = a \div h /\ br = b % h /\ bq = b \div h
  OBVIOUS
<1>7. /\ \/ a < h /\ ar = a /\ aq = 0
         \/ a >= h /\ ar = a - h /\ aq = 1
      /\ \/ b < h /\ br = b /\ bq = 0
         \/ b >= h /\ br = b - h /\ bq = 1
  BY <1>3, <1>4, <1>6
<1>8. 2 * ar + aq = 2 * br + bq
  BY <1>5, <1>6
<1> QED BY ONLY <1>2, <1>4, <1>7, <1>8

\* The numbers of positions in lower lanes are the places 0, 1, 2 and so on,
\* each of one position.
Below(A, o) == {a \in A : LaneOfPosition(a) < LaneOfPosition(o)}
Places(A)   == [o \in A |-> Cardinality(Below(A, o))]

LEMMA PlacesAreDense ==
  ASSUME NEW A \in SUBSET (0 .. WarpWidth - 1)
  PROVE  /\ IsFiniteSet(A) /\ Cardinality(A) \in Nat
         /\ \A o \in A : Places(A)[o] \in 0 .. Cardinality(A) - 1
         /\ \A o, a \in A : Places(A)[o] = Places(A)[a] => o = a
         /\ \A m \in 0 .. Cardinality(A) - 1 : \E o \in A : Places(A)[o] = m
<1> DEFINE n == Cardinality(A)
           below(o) == Below(A, o)
           place == Places(A)
<1>1. IsFiniteSet(A) /\ n \in Nat
  <2>1. IsFiniteSet(0 .. WarpWidth - 1)
    BY ProducerAssumption, FS_Interval
  <2>2. IsFiniteSet(A)
    BY <2>1, FS_Subset
  <2> QED BY <2>2, FS_CardinalityType
<1>2. \A o \in A : LaneOfPosition(o) \in Int
  <2>1. PICK h : h = WarpWidth \div 2
    OBVIOUS
  <2>2. h \in Nat \ {0}
    BY <2>1, ProducerAssumption
  <2>3. \A o \in A : o \in Int /\ o % h \in Int /\ o \div h \in Int
    BY <2>2, ProducerAssumption
  <2> QED BY <2>1, <2>3 DEF LaneOfPosition
<1>3. \A o \in A : IsFiniteSet(below(o)) /\ Cardinality(below(o)) \in Nat
  <2>1. \A o \in A : below(o) \in SUBSET A
    BY DEF Below
  <2> QED BY <1>1, <2>1, FS_Subset, FS_CardinalityType
<1>4. \A o \in A : Cardinality(below(o)) < n
  <2> TAKE o \in A
  <2>1. below(o) \in SUBSET (A \ {o})
    BY <1>2 DEF Below
  <2>2. IsFiniteSet(A \ {o}) /\ Cardinality(A \ {o}) = n - 1
    BY <1>1, FS_RemoveElement
  <2>3. Cardinality(below(o)) <= n - 1
    BY <2>1, <2>2, FS_Subset
  <2> QED BY <1>1, <1>3, <2>3
<1>5. ASSUME NEW o \in A, NEW a \in A, LaneOfPosition(o) < LaneOfPosition(a)
      PROVE  Cardinality(below(o)) < Cardinality(below(a))
  <2>1. below(o) \in SUBSET below(a) /\ o \in below(a) /\ o \notin below(o)
    <3>1. \A c \in A : LaneOfPosition(c) < LaneOfPosition(o) => LaneOfPosition(c) < LaneOfPosition(a)
      BY <1>2, <1>5
    <3>2. ~(LaneOfPosition(o) < LaneOfPosition(o))
      BY <1>2
    <3> QED BY <1>5, <3>1, <3>2, Zenon DEF Below
  <2>2. PICK s, b : s = below(o) /\ b = below(a)
    OBVIOUS
  <2>3. IsFiniteSet(b) /\ s \in SUBSET b /\ s # b
    BY <1>3, <2>1, <2>2
  <2>4. Cardinality(s) <= Cardinality(b) /\ (Cardinality(b) = Cardinality(s) => b = s)
    BY <2>3, FS_Subset
  <2>5. Cardinality(s) \in Nat /\ Cardinality(b) \in Nat
    BY <1>3, <2>2
  <2>6. Cardinality(s) < Cardinality(b)
    BY <2>3, <2>4, <2>5
  <2> QED BY <2>2, <2>6
<1>6. \A o, a \in A : Cardinality(below(o)) = Cardinality(below(a)) => o = a
  <2> SUFFICES ASSUME NEW o \in A, NEW a \in A, Cardinality(below(o)) = Cardinality(below(a)), o # a
               PROVE  FALSE
    OBVIOUS
  <2>1. LaneOfPosition(o) # LaneOfPosition(a)
    BY LanesDistinct
  <2>2. LaneOfPosition(o) < LaneOfPosition(a) \/ LaneOfPosition(a) < LaneOfPosition(o)
    BY <1>2, <2>1
  <2>3. Cardinality(below(o)) < Cardinality(below(a)) \/ Cardinality(below(a)) < Cardinality(below(o))
    BY <1>5, <2>2
  <2>4. Cardinality(below(o)) \in Nat /\ Cardinality(below(a)) \in Nat
    BY <1>3
  <2> HIDE DEF below
  <2> QED BY <2>3, <2>4
<1>7. \A o \in A : place[o] = Cardinality(below(o))
  BY DEF Places
<1> HIDE DEF below, n
<1>8. place \in [A -> 0 .. n - 1]
  BY <1>1, <1>3, <1>4, <1>7 DEF Places, below
<1>9. \A o, a \in A : place[o] = place[a] => o = a
  BY <1>6, <1>7
<1> HIDE DEF place
<1>10. place \in Injection(A, 0 .. n - 1)
  BY <1>8, <1>9 DEF Injection, IsInjective
<1>11. IsFiniteSet(0 .. n - 1) /\ Cardinality(0 .. n - 1) = n
  <2>1. PICK e : e = n - 1
    OBVIOUS
  <2>2. e \in Int /\ e + 1 = n /\ n >= 0
    BY <1>1, <2>1
  <2>3. IsFiniteSet(0 .. e) /\ Cardinality(0 .. e) = IF 0 > e THEN 0 ELSE e - 0 + 1
    BY <2>2, FS_Interval
  <2> QED BY <2>1, <2>2, <2>3
<1>12. place \in Surjection(A, 0 .. n - 1)
  BY <1>10, <1>11, FS_Injection DEF n
<1>13. \A m \in 0 .. n - 1 : \E o \in A : place[o] = m
  BY <1>12 DEF Surjection
<1> QED BY <1>1, <1>8, <1>9, <1>13 DEF place, n

-----------------------------------------------------------------------------
(* A segment grows by a warp's share of a tile.                              *)

\* A segment goes on where it ended: what is added has the places after its
\* last, each once, and the positions that are added to the share.
GoesOn(segment, share, size, A, n, place, position, turn, longer, wider) ==
  /\ segment \in SUBSET Triple /\ share \in SUBSET Nat /\ size \in Nat /\ n \in Nat /\ turn \in Nat
  /\ HoldsExactly(segment, share, size)
  /\ place \in [A -> 0 .. n - 1]
  /\ \A o, a \in A : place[o] = place[a] => o = a
  /\ \A m \in 0 .. n - 1 : \E o \in A : place[o] = m
  /\ position \in [A -> Nat] /\ \A o \in A : position[o] \div TileWidth = turn
  /\ longer = segment \cup {<<size + place[o], position[o], turn>> : o \in A}
  /\ wider = share \cup {position[o] : o \in A} /\ Cardinality(wider) = size + n

LEMMA SegmentGoesOn ==
  ASSUME NEW segment, NEW share, NEW size, NEW A, NEW n, NEW place, NEW position, NEW turn,
         NEW longer, NEW wider,
         GoesOn(segment, share, size, A, n, place, position, turn, longer, wider)
  PROVE  HoldsExactly(longer, wider, size + n)
<1> DEFINE added == {<<size + place[o], position[o], turn>> : o \in A}
<1>0. /\ segment \in SUBSET Triple /\ share \in SUBSET Nat /\ size \in Nat /\ n \in Nat /\ turn \in Nat
      /\ HoldsExactly(segment, share, size)
      /\ place \in [A -> 0 .. n - 1]
      /\ \A o, a \in A : place[o] = place[a] => o = a
      /\ \A m \in 0 .. n - 1 : \E o \in A : place[o] = m
      /\ position \in [A -> Nat] /\ \A o \in A : position[o] \div TileWidth = turn
      /\ longer = segment \cup added
      /\ wider = share \cup {position[o] : o \in A} /\ Cardinality(wider) = size + n
  BY DEF GoesOn
<1>1. \A x \in segment : /\ x[1] \in 0 .. size - 1 /\ x[2] \in share /\ x[3] = x[2] \div TileWidth
                         /\ x[1] \in Nat /\ x[1] < size
  BY <1>0 DEF HoldsExactly
<1>2. \A x \in added : \E o \in A : x = <<size + place[o], position[o], turn>>
  OBVIOUS
<1>3. \A o \in A : place[o] \in Nat /\ place[o] < n /\ size + place[o] \in size .. (size + n) - 1
  BY <1>0
<1>4. \A x \in longer : x[1] \in 0 .. (size + n) - 1 /\ x[2] \in wider /\ x[3] = x[2] \div TileWidth
  <2> TAKE x \in longer
  <2>1. CASE x \in segment
    BY <1>0, <1>1, <2>1
  <2>2. CASE x \in added
    <3>1. PICK o \in A : x = <<size + place[o], position[o], turn>>
      BY <1>2, <2>2
    <3>2. x[1] = size + place[o] /\ x[2] = position[o] /\ x[3] = turn
      BY <3>1
    <3> QED BY <1>0, <1>3, <3>2
  <2> QED BY <1>0, <2>1, <2>2
<1>5. \A x, y \in longer : x[1] = y[1] => x = y
  <2> SUFFICES ASSUME NEW x \in longer, NEW y \in longer, x[1] = y[1] PROVE x = y
    OBVIOUS
  <2>1. ASSUME NEW z \in segment PROVE z[1] \in Nat /\ z[1] < size
    BY <1>1
  <2>2. ASSUME NEW z \in added PROVE ~(z[1] < size)
    <3>1. PICK o \in A : z = <<size + place[o], position[o], turn>>
      BY <1>2
    <3> QED BY <1>0, <1>3, <3>1
  <2>3. CASE x \in segment /\ y \in segment
    BY <1>0, <2>3 DEF HoldsExactly
  <2>4. CASE x \in added /\ y \in added
    <3>1. PICK o \in A : x = <<size + place[o], position[o], turn>>
      BY <1>2, <2>4
    <3>2. PICK a \in A : y = <<size + place[a], position[a], turn>>
      BY <1>2, <2>4
    <3>3. size + place[o] = size + place[a]
      BY <3>1, <3>2
    <3>4. place[o] = place[a]
      BY <1>0, <1>3, <3>3
    <3>5. o = a
      BY <1>0, <3>4
    <3> QED BY <3>1, <3>2, <3>5
  <2>5. x \in segment \/ x \in added
    BY <1>0
  <2>6. y \in segment \/ y \in added
    BY <1>0
  <2> HIDE DEF added
  <2> QED BY <1>0, <2>1, <2>2, <2>3, <2>4, <2>5, <2>6
<1>6. \A p \in 0 .. (size + n) - 1 : \E x \in longer : x[1] = p
  <2> TAKE p \in 0 .. (size + n) - 1
  <2>1. CASE p < size
    BY <1>0, <2>1, SMTT(30) DEF HoldsExactly
  <2>2. CASE p >= size
    <3>1. PICK m : m = p - size
      OBVIOUS
    <3>2. m \in 0 .. n - 1 /\ p = size + m
      BY <1>0, <2>2, <3>1
    <3>3. PICK o \in A : place[o] = m
      BY <1>0, <3>2
    <3>4. <<size + place[o], position[o], turn>> \in longer
      BY <1>0
    <3>5. <<size + place[o], position[o], turn>>[1] = p
      BY <3>2, <3>3
    <3> QED BY <3>4, <3>5
  <2> QED BY <1>0, <2>1, <2>2
<1>7. \A id \in wider : \E x \in longer : x[2] = id
  <2> TAKE id \in wider
  <2>1. CASE id \in share
    BY <1>0, <2>1 DEF HoldsExactly
  <2>2. CASE id \notin share
    <3>1. PICK o \in A : id = position[o]
      BY <1>0, <2>2
    <3>2. <<size + place[o], position[o], turn>> \in longer /\ <<size + place[o], position[o], turn>>[2] = id
      BY <1>0, <3>1
    <3> QED BY <3>2
  <2> QED BY <2>1, <2>2
<1>8. size + n = Cardinality(wider)
  BY <1>0
<1> HIDE DEF added
<1> QED BY ONLY <1>4, <1>5, <1>6, <1>7, <1>8 DEF HoldsExactly

\* A warp's share of one tile more is that of the tiles before with the
\* positions that are active in it.
LEMMA ShareOfATile ==
  ASSUME ProducerTyped, NEW w \in MathWarp, NEW r \in PairRow,
         NEW t, t = mathWarp[w].tile, t \in Nat
  PROVE  /\ Active(w, r) \in SUBSET (0 .. WarpWidth - 1)
         /\ Share(w, r, t + 1) = Share(w, r, t) \cup {PositionOf(w, t, o) : o \in Active(w, r)}
         /\ Share(w, r, t) \cap {PositionOf(w, t, o) : o \in Active(w, r)} = {}
<1> DEFINE A == Active(w, r)
           N == {PositionOf(w, t, o) : o \in A}
           In(id) == pair.flag[r] /\ RowStart(r) <= id /\ id < RowEnd(r)
<1>1. A = {o \in 0 .. WarpWidth - 1 : In(PositionOf(w, t, o))}
  BY RowsTyped DEF Active
<1>2. TileWidth \in Nat \ {0} /\ t * TileWidth \in Nat /\ (t + 1) * TileWidth = t * TileWidth + TileWidth
      /\ (t + 1) * TileWidth \in Nat
  <2>1. TileWidth \in Nat \ {0}
    BY PositionIs
  <2> QED BY <2>1, Products
<1>3. \A o \in 0 .. WarpWidth - 1 :
        /\ PositionOf(w, t, o) \in Nat /\ PositionOf(w, t, o) \div TileWidth = t
        /\ (PositionOf(w, t, o) \div WarpWidth) % NumMathWarps = w
  BY PositionIs
<1>4. \A id \in Nat : /\ id \div TileWidth = t => t * TileWidth <= id /\ id < (t + 1) * TileWidth
                      /\ t * TileWidth <= id /\ id < (t + 1) * TileWidth => id \div TileWidth = t
  <2> SUFFICES ASSUME NEW id \in Nat
               PROVE  /\ id \div TileWidth = t => t * TileWidth <= id /\ id < (t + 1) * TileWidth
                      /\ t * TileWidth <= id /\ id < (t + 1) * TileWidth => id \div TileWidth = t
    OBVIOUS
  <2>1. PICK d, b : d = TileWidth /\ b = t * TileWidth
    OBVIOUS
  <2>2. d \in Nat \ {0} /\ b \in Nat /\ b = t * d /\ (t + 1) * TileWidth = b + d
    BY <1>2, <2>1
  <2>3. id \div d = t => b <= id /\ id < b + d
    <3> SUFFICES ASSUME id \div d = t PROVE b <= id /\ id < b + d
      OBVIOUS
    <3>1. t = id \div d /\ id \in Int /\ d \in Nat \ {0}
      BY <2>2
    <3>2. id = t * d + (id % d) /\ id % d \in 0 .. d - 1
      BY ONLY <3>1
    <3> QED BY <2>2, <3>2
  <2>4. b <= id /\ id < b + d => id \div d = t
    <3> SUFFICES ASSUME b <= id, id < b + d PROVE id \div d = t
      OBVIOUS
    <3>1. PICK o : o = id - b
      OBVIOUS
    <3>2. o \in 0 .. d - 1 /\ id = t * d + o /\ id \in Int /\ t \in Int
      BY <2>2, <3>1
    <3> QED BY <2>2, <3>2, DivUnique
  <2> QED BY <2>1, <2>2, <2>3, <2>4
<1>5. ASSUME NEW id \in N
      PROVE  /\ id \in Nat /\ id \div TileWidth = t /\ (id \div WarpWidth) % NumMathWarps = w /\ In(id)
             /\ t * TileWidth <= id /\ id < (t + 1) * TileWidth
  <2>1. PICK o \in A : id = PositionOf(w, t, o)
    OBVIOUS
  <2>2. o \in 0 .. WarpWidth - 1 /\ In(id)
    BY <1>1, <2>1
  <2>3. id \in Nat /\ id \div TileWidth = t /\ (id \div WarpWidth) % NumMathWarps = w
    BY <1>3, <2>1, <2>2
  <2> QED BY <1>4, <2>2, <2>3
<1>6. ASSUME NEW id \in Nat, t * TileWidth <= id, id < (t + 1) * TileWidth,
             (id \div WarpWidth) % NumMathWarps = w, In(id)
      PROVE  id \in N
  <2>1. id \div TileWidth = t
    BY <1>4, <1>6
  <2>2. id = PositionOf(w, t, id % WarpWidth) /\ id % WarpWidth \in 0 .. WarpWidth - 1
    BY <1>6, <2>1, PositionIs
  <2>3. id % WarpWidth \in A
    BY <1>1, <1>6, <2>2
  <2> QED BY <2>2, <2>3
<1>7. \A n \in {t, t + 1} : \A id : id \in Share(w, r, n) <=>
        /\ id \in Nat /\ id < n * TileWidth
        /\ (id \div WarpWidth) % NumMathWarps = w /\ In(id)
  <2> SUFFICES ASSUME NEW n \in {t, t + 1}, NEW id
               PROVE  id \in Share(w, r, n) <=>
                        /\ id \in Nat /\ id < n * TileWidth
                        /\ (id \div WarpWidth) % NumMathWarps = w /\ In(id)
    OBVIOUS
  <2>1. PICK b : b = n * TileWidth
    OBVIOUS
  <2>2. b \in Nat
    BY <1>2, <2>1
  <2>3. id \in 0 .. b - 1 <=> id \in Nat /\ id < b
    BY <2>2
  <2> QED BY <2>1, <2>3 DEF Share
<1> HIDE DEF N, In
<1>8. \A id : id \in Share(w, r, t) => id \in Share(w, r, t + 1) /\ id \notin N
  <2> SUFFICES ASSUME NEW id, id \in Share(w, r, t) PROVE id \in Share(w, r, t + 1) /\ id \notin N
    OBVIOUS
  <2>1. id \in Nat /\ id < t * TileWidth /\ (id \div WarpWidth) % NumMathWarps = w /\ In(id)
    BY <1>7
  <2>2. id < (t + 1) * TileWidth
    BY <1>2, <2>1
  <2>3. id \notin N
    BY <1>2, <1>5, <2>1
  <2> QED BY <1>7, <2>1, <2>2, <2>3
<1>9. \A id : id \in Share(w, r, t + 1) => id \in Share(w, r, t) \/ id \in N
  <2> SUFFICES ASSUME NEW id, id \in Share(w, r, t + 1), id \notin N PROVE id \in Share(w, r, t)
    OBVIOUS
  <2>1. id \in Nat /\ id < (t + 1) * TileWidth /\ (id \div WarpWidth) % NumMathWarps = w /\ In(id)
    BY <1>7
  <2>2. id < t * TileWidth
    BY <1>2, <1>6, <2>1
  <2> QED BY <1>7, <2>1, <2>2
<1>10. \A id : id \in N => id \in Share(w, r, t + 1)
  BY <1>5, <1>7
<1>11. A \in SUBSET (0 .. WarpWidth - 1)
  BY DEF Active
<1>12. Share(w, r, t + 1) = Share(w, r, t) \cup N /\ Share(w, r, t) \cap N = {}
  BY <1>8, <1>9, <1>10
<1> QED BY <1>11, <1>12 DEF N

\* What a warp appends of a tile it has read right.
LEMMA AppendsShare ==
  ASSUME ProducerInv, NEW w \in MathWarp, NEW r \in PairRow, mathWarp[w].pc = "reduce",
         NEW t, t = mathWarp[w].tile, NEW A, A = Active(w, r), NEW longer,
         longer = produced[r][w] \cup
           {<<PlaceOf(w, r, o), PositionOf(w, t, o), Reduction(mathWarp[w])>> :
              o \in {a \in A : PlaceOf(w, r, a) < WarpCapacity}}
  PROVE  /\ Cardinality(A) \in Nat /\ longer \in SUBSET Triple
         /\ HoldsExactly(longer, Share(w, r, t + 1), mathWarp[w].counts[r] + Cardinality(A))
<1> DEFINE segment == produced[r][w]
           share == Share(w, r, t)
           size == mathWarp[w].counts[r]
           n == Cardinality(A)
           place == Places(A)
           position == [o \in A |-> PositionOf(w, t, o)]
           N == {position[o] : o \in A}
<1>1. ProducerTyped /\ t \in Nat /\ size \in Nat /\ segment \in SUBSET Triple
  BY DEF ProducerInv, ProducerTyped, WarpStates
<1>2. HoldsExactly(segment, share, size)
  BY DEF ProducerInv, SegmentsRight
<1>3. /\ A \in SUBSET (0 .. WarpWidth - 1)
      /\ Share(w, r, t + 1) = share \cup N /\ share \cap N = {}
  <2>1. N = {PositionOf(w, t, o) : o \in A}
    OBVIOUS
  <2> QED BY <1>1, <2>1, ShareOfATile
<1>4. /\ IsFiniteSet(A) /\ n \in Nat
      /\ \A o \in A : place[o] \in 0 .. n - 1
      /\ \A o, a \in A : place[o] = place[a] => o = a
      /\ \A m \in 0 .. n - 1 : \E o \in A : place[o] = m
  BY <1>3, PlacesAreDense
<1>5. \A o \in A : position[o] \in Nat /\ position[o] \div TileWidth = t
  <2>1. \A o \in 0 .. WarpWidth - 1 : PositionOf(w, t, o) \in Nat /\ PositionOf(w, t, o) \div TileWidth = t
    BY <1>1, PositionIs
  <2> QED BY <1>3, <2>1
<1>6. \A o, a \in A : position[o] = position[a] => o = a
  <2>1. \A o \in 0 .. WarpWidth - 1 : PositionOf(w, t, o) % WarpWidth = o
    BY <1>1, PositionIs
  <2> QED BY <1>3, <2>1
<1>7. position \in [A -> Nat] /\ place \in [A -> 0 .. n - 1]
  BY <1>4, <1>5 DEF Places
<1> HIDE DEF position, place, size, share, segment, n
<1>8. IsFiniteSet(N) /\ Cardinality(N) = n
  <2>1. position \in Bijection(A, N)
    BY <1>6, <1>7 DEF Bijection, Injection, Surjection, IsInjective
  <2>2. ExistsBijection(A, N)
    BY <2>1 DEF ExistsBijection
  <2> HIDE DEF N
  <2> QED BY <1>4, <2>2, FS_Bijection DEF n
<1>9. IsFiniteSet(share) /\ share \subseteq Nat /\ Cardinality(share) = size
  <2>1. IsFiniteSet(share) /\ share \subseteq Nat
    BY <1>1, ShareFits DEF share
  <2> QED BY <1>2, <2>1 DEF HoldsExactly
<1>10. Cardinality(share \cup N) = size + n
  <2> HIDE DEF N
  <2>1. Cardinality(share \cup N) = Cardinality(share) + Cardinality(N) - Cardinality(share \cap N)
    BY <1>8, <1>9, FS_Union
  <2>2. Cardinality({}) = 0
    BY FS_EmptySet
  <2>3. PICK c : c = share \cap N
    OBVIOUS
  <2>4. Cardinality(share \cup N) = Cardinality(share) + Cardinality(N) - Cardinality(c) /\ Cardinality(c) = 0
    BY <1>3, <2>1, <2>2, <2>3
  <2>5. n \in Nat /\ size \in Nat
    BY <1>1, <1>4
  <2> QED BY ONLY <1>8, <1>9, <2>4, <2>5
<1>11. size + n <= WarpCapacity
  <2>1. Cardinality(Share(w, r, t + 1)) <= WarpCapacity
    BY <1>1, ShareFits
  <2> QED BY <1>3, <1>10, <2>1
<1>12. \A o \in A : PlaceOf(w, r, o) = size + place[o]
  BY DEF PlaceOf, Places, Below, place, size
<1>13. {a \in A : PlaceOf(w, r, a) < WarpCapacity} = A
  <2>1. \A o \in A : place[o] \in Nat /\ place[o] < n
    BY <1>4
  <2>2. WarpCapacity \in Nat
    BY ProducerAssumption
  <2>3. \A o \in A : size + place[o] < WarpCapacity
    BY <1>1, <1>4, <1>11, <2>1, <2>2
  <2> QED BY <1>12, <2>3
<1>14. Reduction(mathWarp[w]) = t
  <2>1. mathWarp[w].weights = OwnQ
    BY DEF ProducerInv, QHeld
  <2>2. mathWarp[w].scales = t /\ mathWarp[w].product = t
    BY DEF ProducerInv, ReadsRight
  <2> QED BY <2>1, <2>2 DEF Reduction
<1>15. longer = segment \cup {<<size + place[o], position[o], t>> : o \in A}
  <2>1. \A o \in A : <<PlaceOf(w, r, o), PositionOf(w, t, o), Reduction(mathWarp[w])>>
                       = <<size + place[o], position[o], t>>
    BY <1>12, <1>14 DEF position
  <2>2. longer = segment \cup {<<PlaceOf(w, r, o), PositionOf(w, t, o), Reduction(mathWarp[w])>> : o \in A}
    BY <1>13 DEF segment
  <2> QED BY <2>1, <2>2
<1>16. HoldsExactly(longer, share \cup N, size + n)
  <2> HIDE DEF N
  <2>1. N = {position[o] : o \in A}
    BY DEF N
  <2>2. share \in SUBSET Nat
    BY <1>9
  <2>3. Cardinality(share \cup {position[o] : o \in A}) = size + n
    BY ONLY <1>10, <2>1
  <2>4. segment \in SUBSET Triple /\ size \in Nat /\ n \in Nat /\ t \in Nat
    BY <1>1, <1>4
  <2>5. GoesOn(segment, share, size, A, n, place, position, t, longer, share \cup N)
    BY <1>2, <1>4, <1>5, <1>7, <1>15, <2>1, <2>2, <2>3, <2>4 DEF GoesOn
  <2> QED BY ONLY <2>5, SegmentGoesOn
<1>17. longer \in SUBSET Triple
  <2>1. \A o \in A : <<size + place[o], position[o], t>> \in Triple
    BY <1>1, <1>4, <1>5 DEF Triple
  <2> QED BY <1>1, <1>15, <2>1
<1> QED BY <1>3, <1>4, <1>16, <1>17 DEF n, size

-----------------------------------------------------------------------------
(* What a step leaves alone stays right.                                     *)

\* The rows of a CTA decide what it scans.
LEMMA PairFixed ==
  ASSUME pair' = pair
  PROVE  /\ Scans' = Scans /\ ScanTiles' = ScanTiles
         /\ \A w, r, n : Share(w, r, n)' = Share(w, r, n)
BY DEF Scans, ScanTiles, Share, RowStart, RowEnd

\* The part of a warp's state that the segments depend on.
SameProgress(v) ==
  /\ mathWarp'[v].tile = mathWarp[v].tile /\ mathWarp'[v].counts = mathWarp[v].counts
  /\ mathWarp'[v].pc = "done" /\ Scans => mathWarp[v].pc = "done"

LEMMA SegmentsStay ==
  ASSUME SegmentsRight, pair' = pair, UNCHANGED producerOut, \A v \in MathWarp : SameProgress(v)
  PROVE  SegmentsRight'
<1>1. Scans' = Scans
  BY PairFixed
<1>2. produced' = produced /\ segmentCounts' = segmentCounts
  BY DEF producerOut
<1>3. ASSUME NEW w \in MathWarp, NEW r \in PairRow
      PROVE  /\ HoldsExactly(produced[r][w], Share(w, r, mathWarp[w].tile), mathWarp[w].counts[r])
             /\ Share(w, r, mathWarp[w].tile)' = Share(w, r, mathWarp[w].tile)
             /\ mathWarp'[w].pc = "done" /\ Scans => segmentCounts[r][w] = mathWarp[w].counts[r]
  <2>1. Share(w, r, mathWarp[w].tile)' = Share(w, r, mathWarp[w].tile)
    BY DEF Share, RowStart, RowEnd, SameProgress
  <2> QED BY <2>1 DEF SegmentsRight, SameProgress
<1>4. ASSUME NEW w \in MathWarp, NEW r \in PairRow
      PROVE  HoldsExactly(produced[r][w], Share(w, r, mathWarp[w].tile), mathWarp[w].counts[r])'
  BY <1>2, <1>3 DEF SameProgress, HoldsExactly
<1> QED BY <1>1, <1>2, <1>3, <1>4 DEF SegmentsRight, SameProgress

\* The arguments the ring of the KV stages has.
KVRingIs(issued, waited, released, full, empty, pending) ==
  /\ RingType(3, MathWarp, issued, waited, released, full, empty, pending)
  /\ RingInv(3, MathWarp, issued, waited, released, full, empty, pending)

LEMMA KVRingHolds ==
  ASSUME KVHeld
  PROVE  KVRingIs(tma.tile, WaitedKV, ReleasedKV, fullKV, emptyKV, PendingKV)
BY DEF KVHeld, KVRingIs

LEMMA KVStays ==
  ASSUME KVHeld, tma'.tile = tma.tile, UNCHANGED <<kvStage, fullKV, emptyKV>>,
         \A v \in MathWarp : WaitedKV'[v] = WaitedKV[v] /\ ReleasedKV'[v] = ReleasedKV[v]
  PROVE  KVHeld'
<1>1. WaitedKV' = WaitedKV /\ ReleasedKV' = ReleasedKV
  BY DEF WaitedKV, ReleasedKV
<1>2. PendingKV' = PendingKV
  BY DEF PendingKV
<1> QED BY <1>1, <1>2 DEF KVHeld

\* A math warp that changes its own state.
LEMMA WarpMoves ==
  ASSUME mathWarp \in [MathWarp -> WarpStates], NEW w \in MathWarp, NEW m \in WarpStates,
         mathWarp' = [mathWarp EXCEPT ![w] = m]
  PROVE  /\ mathWarp' \in [MathWarp -> WarpStates] /\ mathWarp'[w] = m
         /\ \A v \in MathWarp : v # w => mathWarp'[v] = mathWarp[v]
OBVIOUS

LEMMA StagesAre == KVRing = RingStage(3) /\ KVRing = {0, 1, 2} /\ QRing = {0, 1, 2} /\ MathWarp # {}
<1>1. 0 \in MathWarp
  BY ProducerAssumption DEF MathWarp
<1>2. 0 .. 3 - 1 = {0, 1, 2}
  OBVIOUS
<1> QED BY <1>1, <1>2 DEF KVRing, QRing, NumKVStages, NumQStages, RingStage

-----------------------------------------------------------------------------
(* The start, and the steps of the TMA thread.                               *)

LEMMA ProducerStarts ==
  ASSUME ProducerInit
  PROVE  ProducerInv
<1> USE DEF ProducerInit
<1>1. ProducerTyped
  BY DEF ProducerTyped, WarpStates, MathPcs, TmaPcs, Holding, Nothing
<1>2. Scanning
  BY <1>1, RowsTyped DEF Scanning
<1>3. QHeld
  BY StagesAre DEF QHeld, Holding
<1>4. KVHeld
  <2>1. WaitedKV = [w \in MathWarp |-> 0] /\ ReleasedKV = [w \in MathWarp |-> 0]
    BY DEF WaitedKV, ReleasedKV
  <2>2. PendingKV = {}
    BY DEF PendingKV, Holding
  <2>3. fullKV = [s \in RingStage(3) |-> 0] /\ emptyKV = [s \in RingStage(3) |-> NewBarrier]
    BY StagesAre
  <2>4. /\ RingType(3, MathWarp, 0, WaitedKV, ReleasedKV, fullKV, emptyKV, {})
        /\ RingInv(3, MathWarp, 0, WaitedKV, ReleasedKV, fullKV, emptyKV, {})
    BY <2>1, <2>3, StagesAre, RingStart
  <2>5. tma.tile = 0
    OBVIOUS
  <2> QED BY <2>2, <2>4, <2>5 DEF KVHeld
<1>5. ReadsRight
  BY DEF ReadsRight
<1>6. SegmentsRight
  <2> SUFFICES ASSUME NEW w \in MathWarp, NEW r \in PairRow
               PROVE  /\ HoldsExactly(produced[r][w], Share(w, r, mathWarp[w].tile), mathWarp[w].counts[r])
                      /\ mathWarp[w].pc # "done"
    BY DEF SegmentsRight
  <2>1. produced[r][w] = {} /\ mathWarp[w].tile = 0 /\ mathWarp[w].counts[r] = 0 /\ mathWarp[w].pc = "start"
    OBVIOUS
  <2>2. Share(w, r, 0) = {}
    <3>1. 0 * TileWidth = 0
      BY PositionIs
    <3>2. 0 .. 0 - 1 = {}
      OBVIOUS
    <3> QED BY <3>1, <3>2 DEF Share
  <2>3. HoldsExactly({}, {}, 0)
    BY FS_EmptySet DEF HoldsExactly
  <2> QED BY <2>1, <2>2, <2>3
<1> QED BY <1>1, <1>2, <1>3, <1>4, <1>5, <1>6 DEF ProducerInv

LEMMA EnterProducerKeeps ==
  ASSUME ProducerInv, EnterProducer
  PROVE  ProducerInv'
<1> USE DEF ProducerInv
<1>0. /\ tma.pc = "start" /\ pair' = pair /\ UNCHANGED producerOut
      /\ UNCHANGED <<running, qStage, kvStage, fullQ, fullKV, emptyKV>>
      /\ tma' = [tma EXCEPT !.pc = IF Scans THEN "prefetch" ELSE "done"]
      /\ mathWarp' = [w \in MathWarp |-> [mathWarp[w] EXCEPT !.pc = IF Scans THEN "q" ELSE "done"]]
  BY DEF EnterProducer, Scans, producerRings
<1>1. Scans' = Scans /\ ScanTiles' = ScanTiles
  BY <1>0, PairFixed
<1>2. \A w \in MathWarp : mathWarp[w].pc = "start"
  BY <1>0 DEF Scanning
<1>3. \A w \in MathWarp : /\ mathWarp'[w] \in WarpStates
                          /\ mathWarp'[w].pc = (IF Scans THEN "q" ELSE "done")
                          /\ mathWarp'[w].tile = mathWarp[w].tile
                          /\ mathWarp'[w].counts = mathWarp[w].counts
  <2> SUFFICES ASSUME NEW w \in MathWarp
               PROVE  /\ mathWarp'[w] \in WarpStates
                      /\ mathWarp'[w].pc = (IF Scans THEN "q" ELSE "done")
                      /\ mathWarp'[w].tile = mathWarp[w].tile
                      /\ mathWarp'[w].counts = mathWarp[w].counts
    OBVIOUS
  <2>1. PICK m, p : m = mathWarp[w] /\ p = (IF Scans THEN "q" ELSE "done")
    OBVIOUS
  <2>2. m \in WarpStates /\ p \in MathPcs
    BY <2>1 DEF ProducerTyped, MathPcs
  <2>3. mathWarp'[w] = [m EXCEPT !.pc = p]
    BY <1>0, <2>1
  <2>4. [m EXCEPT !.pc = p] \in WarpStates /\ [m EXCEPT !.pc = p].pc = p
        /\ [m EXCEPT !.pc = p].tile = m.tile /\ [m EXCEPT !.pc = p].counts = m.counts
    BY ONLY <2>2 DEF WarpStates
  <2> QED BY ONLY <2>1, <2>3, <2>4
<1>4. tma'.tile = tma.tile /\ tma'.pc = (IF Scans THEN "prefetch" ELSE "done")
      /\ tma' \in [pc : TmaPcs, tile : Nat]
  BY <1>0 DEF ProducerTyped, TmaPcs
<1>5. ProducerTyped'
  BY <1>0, <1>3, <1>4 DEF ProducerTyped, producerOut
<1>6. Scanning'
  <2>1. \A w \in MathWarp : mathWarp[w].tile <= ScanTiles
    BY DEF Scanning
  <2> QED BY <1>1, <1>3, <1>4, <2>1 DEF Scanning
<1>7. QHeld'
  <2>1. qStage[0].due = {} /\ fullQ[0] = 0
    BY <1>0 DEF QHeld
  <2> QED BY <1>0, <1>1, <1>3, <1>4, <2>1, SMTT(30) DEF QHeld
<1>8. KVHeld'
  <2>1. \A v \in MathWarp : WaitedKV'[v] = WaitedKV[v] /\ ReleasedKV'[v] = ReleasedKV[v]
    BY <1>2, <1>3 DEF WaitedKV, ReleasedKV
  <2> QED BY <1>0, <1>4, <2>1, KVStays
<1>9. ReadsRight'
  <2>1. running = {}
    BY <1>2 DEF ReadsRight, ProducerTyped
  <2> QED BY <1>0, <1>3, <2>1 DEF ReadsRight
<1>10. SegmentsRight'
  <2>1. \A v \in MathWarp : SameProgress(v)
    BY <1>3 DEF SameProgress
  <2> QED BY <1>0, <2>1, SegmentsStay
<1> QED BY <1>5, <1>6, <1>7, <1>8, <1>9, <1>10

\* The steps of the TMA thread leave what the warps have done alone.
WarpsStay == pair' = pair /\ mathWarp' = mathWarp /\ running' = running /\ UNCHANGED producerOut

LEMMA WarpsUndisturbed ==
  ASSUME ProducerInv, WarpsStay
  PROVE  /\ Scans' = Scans /\ ScanTiles' = ScanTiles
         /\ WaitedKV' = WaitedKV /\ ReleasedKV' = ReleasedKV
         /\ ReadsRight' /\ SegmentsRight'
         /\ tma'.pc # "start" /\ tma.pc # "start" /\ (tma'.pc # "done" => Scans) => Scanning'
<1>1. Scans' = Scans /\ ScanTiles' = ScanTiles
  BY PairFixed DEF WarpsStay
<1>2. WaitedKV' = WaitedKV /\ ReleasedKV' = ReleasedKV
  BY DEF WarpsStay, WaitedKV, ReleasedKV
<1>3. ReadsRight'
  BY DEF ProducerInv, ReadsRight, WarpsStay
<1>4. SegmentsRight'
  <2>1. \A v \in MathWarp : SameProgress(v)
    BY DEF SameProgress, WarpsStay
  <2> QED BY <2>1, SegmentsStay DEF ProducerInv, WarpsStay
<1>5. ASSUME tma'.pc # "start", tma.pc # "start", tma'.pc # "done" => Scans PROVE Scanning'
  BY <1>1, <1>5 DEF ProducerInv, Scanning, WarpsStay
<1> QED BY <1>1, <1>2, <1>3, <1>4, <1>5

LEMMA PrefetchQKeeps ==
  ASSUME ProducerInv, PrefetchQ
  PROVE  ProducerInv'
<1> USE DEF ProducerInv
<1>0. /\ WarpsStay /\ tma.pc = "prefetch" /\ tma' = [tma EXCEPT !.pc = "next"]
      /\ qStage' = [qStage EXCEPT ![0] = [what |-> 0, due |-> {"q", "weights"}]]
      /\ UNCHANGED <<kvStage, fullQ, fullKV, emptyKV>>
  BY DEF PrefetchQ, WarpsStay, Holding, OwnQ
<1>1. tma'.pc = "next" /\ tma'.tile = tma.tile /\ tma' \in [pc : TmaPcs, tile : Nat]
  BY <1>0 DEF ProducerTyped, TmaPcs
<1>2. Scans
  BY <1>0 DEF Scanning
<1>3. /\ qStage' \in [QRing -> [what : Int, due : SUBSET {"q", "weights"}]]
      /\ qStage'[0] = [what |-> 0, due |-> {"q", "weights"}]
      /\ \A s \in QRing : s # 0 => qStage'[s] = qStage[s]
  BY <1>0, StagesAre DEF ProducerTyped
<1>4. ProducerTyped'
  BY <1>0, <1>1, <1>3 DEF ProducerTyped, WarpsStay, producerOut
<1>5. Scanning' /\ ReadsRight' /\ SegmentsRight' /\ Scans' = Scans
      /\ WaitedKV' = WaitedKV /\ ReleasedKV' = ReleasedKV
  BY <1>0, <1>1, <1>2, WarpsUndisturbed
<1>6. QHeld'
  <2>1. fullQ[0] = 0
    BY <1>0 DEF QHeld
  <2> QED BY <1>0, <1>1, <1>2, <1>3, <1>5, <2>1 DEF QHeld, WarpsStay, OwnQ
<1>7. KVHeld'
  BY <1>0, <1>1, <1>5, KVStays
<1> QED BY <1>4, <1>5, <1>6, <1>7

LEMMA TmaMoves ==
  ASSUME ProducerInv, AwaitNextQ \/ EndTma
  PROVE  ProducerInv'
<1> USE DEF ProducerInv
<1>0. /\ WarpsStay /\ tma.pc \in {"next", "kv"}
      /\ tma' = [tma EXCEPT !.pc = "kv"] \/ tma' = [tma EXCEPT !.pc = "done"]
      /\ UNCHANGED <<qStage, kvStage, fullQ, fullKV, emptyKV>>
  BY DEF AwaitNextQ, EndTma, WarpsStay, producerRings
<1>1. tma'.pc \in {"kv", "done"} /\ tma'.tile = tma.tile /\ tma' \in [pc : TmaPcs, tile : Nat]
  BY <1>0 DEF ProducerTyped, TmaPcs
<1>2. Scans
  BY <1>0 DEF Scanning
<1>3. ProducerTyped'
  BY <1>0, <1>1 DEF ProducerTyped, WarpsStay, producerOut
<1>4. Scanning' /\ ReadsRight' /\ SegmentsRight' /\ Scans' = Scans
      /\ WaitedKV' = WaitedKV /\ ReleasedKV' = ReleasedKV
  BY <1>0, <1>1, <1>2, WarpsUndisturbed
<1>5. QHeld'
  BY <1>0, <1>1, <1>2, <1>4 DEF QHeld, WarpsStay
<1>6. KVHeld'
  BY <1>0, <1>1, <1>4, KVStays
<1> QED BY <1>3, <1>4, <1>5, <1>6

\* The next tile is issued into a stage that all warps have released.
LEMMA IssueKVKeeps ==
  ASSUME ProducerInv, IssueKV
  PROVE  ProducerInv'
<1> USE DEF ProducerInv
<1> DEFINE t == tma.tile
           s == t % 3
<1>0. /\ WarpsStay /\ tma.pc = "kv" /\ t < ScanTiles
      /\ ParityPasses(emptyKV[s].done, Flip(ParityOf(t \div 3)))
      /\ kvStage' = [kvStage EXCEPT ![s] = [what |-> t, due |-> {"kv", "scales"}]]
      /\ tma' = [tma EXCEPT !.tile = @ + 1]
      /\ UNCHANGED <<qStage, fullQ, fullKV, emptyKV>>
  BY DEF IssueKV, WarpsStay, Holding, KVStageOf, KVPhaseOf, NumKVStages
<1>1. KVRingIs(t, WaitedKV, ReleasedKV, fullKV, emptyKV, PendingKV)
  BY KVRingHolds
<1>2. t \in Nat /\ tma'.pc = "kv" /\ tma'.tile = t + 1 /\ tma' \in [pc : TmaPcs, tile : Nat]
  BY <1>0 DEF ProducerTyped, TmaPcs
<1>3. s \in RingStage(3) /\ s \in KVRing /\ t \div 3 \in Nat
  BY <1>2, StageAndUse, StagesAre
<1> HIDE DEF t, s
<1>4. /\ kvStage' \in [KVRing -> [what : Int, due : SUBSET {"kv", "scales"}]]
      /\ kvStage'[s] = [what |-> t, due |-> {"kv", "scales"}]
      /\ \A d \in KVRing : d # s => kvStage'[d] = kvStage[d]
  BY <1>0, <1>2, <1>3 DEF ProducerTyped
<1>5. ProducerTyped'
  BY <1>0, <1>2, <1>4 DEF ProducerTyped, WarpsStay, producerOut
<1>6. Scans
  BY <1>0 DEF Scanning
<1>7. Scanning' /\ ReadsRight' /\ SegmentsRight' /\ Scans' = Scans
      /\ WaitedKV' = WaitedKV /\ ReleasedKV' = ReleasedKV
  BY <1>0, <1>2, <1>6, WarpsUndisturbed
<1>8. QHeld'
  BY <1>0, <1>2, <1>7 DEF QHeld, WarpsStay
<1>9. \A p \in MathWarp : t + 1 <= ReleasedKV[p] + 3
  <2>1. /\ emptyKV[s].done \in {(t \div 3) - 1, t \div 3}
        /\ emptyKV[s].done >= t \div 3 => \A p \in MathWarp : t + 1 <= ReleasedKV[p] + 3
    BY <1>1, StagesAre, ProducerWait DEF KVRingIs, s
  <2>2. emptyKV[s].done \in Nat
    BY <1>1, <1>3 DEF KVRingIs, RingType, BarrierOver
  <2>3. emptyKV[s].done >= t \div 3
    BY <1>0, <1>3, <2>1, <2>2, ParityIsExact
  <2> QED BY <2>1, <2>3
<1>10. PendingKV' = PendingKV \cup {s}
  BY <1>3, <1>4 DEF PendingKV
<1>11. KVRingIs(t + 1, WaitedKV, ReleasedKV, fullKV, emptyKV, PendingKV \cup {s})
  BY <1>1, <1>9, StagesAre, FillStep DEF KVRingIs, s
<1>12. \A n \in Nat : t + 1 - 3 <= n /\ n < t + 1 => kvStage'[n % 3].what = n
  <2> SUFFICES ASSUME NEW n \in Nat, t + 1 - 3 <= n, n < t + 1 PROVE kvStage'[n % 3].what = n
    OBVIOUS
  <2>1. CASE n = t
    BY <1>4, <2>1 DEF s
  <2>2. CASE n # t
    <3>1. n % 3 # s
      BY <1>2, <2>2 DEF s
    <3>2. n % 3 \in KVRing
      BY StageAndUse, StagesAre
    <3>3. t - 3 <= n /\ n < t
      BY <1>2, <2>2
    <3> QED BY <1>4, <3>1, <3>2, <3>3 DEF KVHeld, t
  <2> QED BY <2>1, <2>2
<1>13. KVHeld'
  BY <1>0, <1>2, <1>7, <1>10, <1>11, <1>12 DEF KVHeld, KVRingIs
<1> QED BY <1>5, <1>7, <1>8, <1>13

-----------------------------------------------------------------------------
(* The copies arrive.                                                        *)

LEMMA QCopiedKeeps ==
  ASSUME ProducerInv, NEW s \in QRing, NEW part \in {"q", "weights"}, QCopied(s, part)
  PROVE  ProducerInv'
<1> USE DEF ProducerInv
<1>0. /\ WarpsStay /\ tma' = tma /\ part \in qStage[s].due
      /\ qStage' = [qStage EXCEPT ![s].due = @ \ {part}]
      /\ fullQ' = IF qStage[s].due = {part} THEN [fullQ EXCEPT ![s] = @ + 1] ELSE fullQ
      /\ UNCHANGED <<kvStage, fullKV, emptyKV>>
  BY DEF QCopied, WarpsStay, Arrived, Completed
<1>1. s = 0
  BY <1>0 DEF QHeld
<1>2. PICK held : held = qStage[0]
  OBVIOUS
<1>3. held \in [what : Int, due : SUBSET {"q", "weights"}] /\ held.due # {} /\ held.what = OwnQ /\ fullQ[0] = 0
      /\ ~(tma.pc \in {"start", "prefetch"} \/ ~Scans)
  BY <1>0, <1>1, <1>2, StagesAre DEF QHeld, ProducerTyped
<1>4. /\ qStage' \in [QRing -> [what : Int, due : SUBSET {"q", "weights"}]]
      /\ qStage'[0].what = OwnQ /\ qStage'[0].due = held.due \ {part}
      /\ \A d \in QRing : d # 0 => qStage'[d] = qStage[d]
  <2>1. [held EXCEPT !.due = @ \ {part}] \in [what : Int, due : SUBSET {"q", "weights"}]
        /\ [held EXCEPT !.due = @ \ {part}].what = OwnQ
        /\ [held EXCEPT !.due = @ \ {part}].due = held.due \ {part}
    BY <1>3
  <2>2. qStage' = [qStage EXCEPT ![0] = [held EXCEPT !.due = @ \ {part}]]
    BY <1>0, <1>1, <1>2 DEF ProducerTyped
  <2> QED BY <2>1, <2>2, StagesAre DEF ProducerTyped
<1>5. fullQ' \in [QRing -> Nat] /\ fullQ'[0] = IF qStage'[0].due = {} THEN 1 ELSE 0
  BY <1>0, <1>1, <1>2, <1>3, <1>4, StagesAre DEF ProducerTyped
<1>6. ProducerTyped'
  BY <1>0, <1>4, <1>5 DEF ProducerTyped, WarpsStay, producerOut
<1>7. ReadsRight' /\ SegmentsRight' /\ Scans' = Scans /\ ScanTiles' = ScanTiles
      /\ WaitedKV' = WaitedKV /\ ReleasedKV' = ReleasedKV
  BY <1>0, WarpsUndisturbed
<1>8. Scanning'
  BY <1>0, <1>7 DEF Scanning, WarpsStay
<1>9. QHeld'
  <2>1. \A w \in MathWarp : mathWarp[w].pc \notin {"tiles", "release", "reduce"}
    BY <1>3 DEF QHeld
  <2> QED BY <1>0, <1>3, <1>4, <1>5, <1>7, <2>1 DEF QHeld, WarpsStay
<1>10. KVHeld'
  BY <1>0, <1>7, KVStays
<1> QED BY <1>6, <1>7, <1>8, <1>9, <1>10

LEMMA KVCopiedKeeps ==
  ASSUME ProducerInv, NEW s \in KVRing, NEW part \in {"kv", "scales"}, KVCopied(s, part)
  PROVE  ProducerInv'
<1> USE DEF ProducerInv
<1>0. /\ WarpsStay /\ tma' = tma /\ part \in kvStage[s].due
      /\ kvStage' = [kvStage EXCEPT ![s].due = @ \ {part}]
      /\ fullKV' = IF kvStage[s].due = {part} THEN [fullKV EXCEPT ![s] = @ + 1] ELSE fullKV
      /\ UNCHANGED <<qStage, fullQ, emptyKV>>
  BY DEF KVCopied, WarpsStay, Arrived, Completed
<1>1. PICK held : held = kvStage[s]
  OBVIOUS
<1>2. held \in [what : Int, due : SUBSET {"kv", "scales"}]
  BY <1>1 DEF ProducerTyped
<1>3. /\ kvStage' \in [KVRing -> [what : Int, due : SUBSET {"kv", "scales"}]]
      /\ kvStage'[s].what = held.what /\ kvStage'[s].due = held.due \ {part}
      /\ \A d \in KVRing : d # s => kvStage'[d] = kvStage[d]
  <2>1. [held EXCEPT !.due = @ \ {part}] \in [what : Int, due : SUBSET {"kv", "scales"}]
        /\ [held EXCEPT !.due = @ \ {part}].what = held.what
        /\ [held EXCEPT !.due = @ \ {part}].due = held.due \ {part}
    BY <1>2
  <2>2. kvStage' = [kvStage EXCEPT ![s] = [held EXCEPT !.due = @ \ {part}]]
    BY <1>0, <1>1 DEF ProducerTyped
  <2> QED BY <2>1, <2>2 DEF ProducerTyped
<1>4. KVRingIs(tma.tile, WaitedKV, ReleasedKV, fullKV, emptyKV, PendingKV)
  BY KVRingHolds
<1>5. fullKV \in [KVRing -> Nat] /\ s \in PendingKV
  BY <1>0, <1>4, StagesAre DEF KVRingIs, RingType, PendingKV
<1>6. ProducerTyped'
  BY <1>0, <1>3 DEF ProducerTyped, WarpsStay, producerOut
<1>7. ReadsRight' /\ SegmentsRight' /\ Scans' = Scans /\ ScanTiles' = ScanTiles
      /\ WaitedKV' = WaitedKV /\ ReleasedKV' = ReleasedKV
  BY <1>0, WarpsUndisturbed
<1>8. Scanning'
  BY <1>0, <1>7 DEF Scanning, WarpsStay
<1>9. QHeld'
  BY <1>0, <1>7 DEF QHeld, WarpsStay
<1>10. KVRingIs(tma.tile, WaitedKV, ReleasedKV, fullKV', emptyKV, PendingKV')
  <2>1. CASE kvStage[s].due = {part}
    <3>1. fullKV' = [fullKV EXCEPT ![s] = @ + 1]
      BY <1>0, <2>1
    <3>2. PendingKV' = PendingKV \ {s}
      BY <1>1, <1>3, <2>1 DEF PendingKV
    <3>3. PICK newFull : newFull = fullKV'
      OBVIOUS
    <3>4. KVRingIs(tma.tile, WaitedKV, ReleasedKV, newFull, emptyKV, PendingKV \ {s})
      BY <1>4, <1>5, <3>1, <3>3, StagesAre, CopyStep DEF KVRingIs
    <3> QED BY <3>2, <3>3, <3>4
  <2>2. CASE kvStage[s].due # {part}
    <3>1. fullKV' = fullKV
      BY <1>0, <2>2
    <3>2. PendingKV' = PendingKV
      BY <1>0, <1>1, <1>2, <1>3, <2>2 DEF PendingKV
    <3> QED BY <1>4, <3>1, <3>2
  <2> QED BY <2>1, <2>2
<1>11. \A n \in Nat : tma.tile - 3 <= n /\ n < tma.tile => kvStage'[n % 3].what = n
  <2> SUFFICES ASSUME NEW n \in Nat, tma.tile - 3 <= n, n < tma.tile PROVE kvStage'[n % 3].what = n
    OBVIOUS
  <2>1. kvStage[n % 3].what = n /\ n % 3 \in KVRing
    BY StageAndUse, StagesAre DEF KVHeld
  <2>2. kvStage'[n % 3].what = kvStage[n % 3].what
    BY <1>1, <1>3, <2>1
  <2> QED BY <2>1, <2>2
<1>12. KVHeld'
  BY <1>0, <1>7, <1>10, <1>11 DEF KVHeld, KVRingIs
<1> QED BY <1>6, <1>7, <1>8, <1>9, <1>12

-----------------------------------------------------------------------------
(* The steps of the math warps.                                              *)

\* A step of warp w: it goes to state m, and leaves the TMA thread and what
\* the copies have brought alone.
WarpStep(w, m) ==
  /\ pair' = pair /\ tma' = tma /\ UNCHANGED producerRings
  /\ mathWarp' = [mathWarp EXCEPT ![w] = m]

LEMMA AfterWarpStep ==
  ASSUME ProducerInv, NEW w \in MathWarp, NEW m \in WarpStates, WarpStep(w, m)
  PROVE  /\ Scans' = Scans /\ ScanTiles' = ScanTiles
         /\ mathWarp' \in [MathWarp -> WarpStates] /\ mathWarp'[w] = m
         /\ \A v \in MathWarp : v # w => mathWarp'[v] = mathWarp[v]
         /\ mathWarp[w] \in WarpStates
<1>1. mathWarp \in [MathWarp -> WarpStates]
  BY DEF ProducerInv, ProducerTyped
<1>2. mathWarp' = [mathWarp EXCEPT ![w] = m] /\ pair' = pair
  BY DEF WarpStep
<1>3. Scans' = Scans /\ ScanTiles' = ScanTiles
  BY <1>2, PairFixed
<1> QED BY <1>1, <1>2, <1>3, WarpMoves

\* The counts of the ring move with the warp.
Waits(m)    == m.tile + (IF m.pc \in {"release", "reduce"} THEN 1 ELSE 0)
Releases(m) == m.tile + (IF m.pc = "reduce" THEN 1 ELSE 0)

LEMMA CountsAfter ==
  ASSUME ProducerInv, NEW w \in MathWarp, NEW m \in WarpStates, WarpStep(w, m)
  PROVE  /\ WaitedKV' = [WaitedKV EXCEPT ![w] = Waits(m)]
         /\ ReleasedKV' = [ReleasedKV EXCEPT ![w] = Releases(m)]
         /\ tma' = tma /\ UNCHANGED <<kvStage, fullKV>> /\ PendingKV' = PendingKV
         /\ UNCHANGED emptyKV /\ Waits(m) = WaitedKV[w] /\ Releases(m) = ReleasedKV[w] => KVHeld'
<1>1. mathWarp'[w] = m /\ \A v \in MathWarp : v # w => mathWarp'[v] = mathWarp[v]
  BY AfterWarpStep
<1>2. WaitedKV' = [WaitedKV EXCEPT ![w] = Waits(m)]
  <2>1. WaitedKV'[w] = Waits(m) /\ \A v \in MathWarp : v # w => WaitedKV'[v] = WaitedKV[v]
    BY <1>1 DEF WaitedKV, Waits
  <2> QED BY <2>1 DEF WaitedKV
<1>3. ReleasedKV' = [ReleasedKV EXCEPT ![w] = Releases(m)]
  <2>1. ReleasedKV'[w] = Releases(m) /\ \A v \in MathWarp : v # w => ReleasedKV'[v] = ReleasedKV[v]
    BY <1>1 DEF ReleasedKV, Releases
  <2> QED BY <2>1 DEF ReleasedKV
<1>4. tma' = tma /\ UNCHANGED <<kvStage, fullKV>> /\ PendingKV' = PendingKV
  BY DEF WarpStep, producerRings, PendingKV
<1>5. ASSUME UNCHANGED emptyKV, Waits(m) = WaitedKV[w], Releases(m) = ReleasedKV[w] PROVE KVHeld'
  <2>1. \A v \in MathWarp : WaitedKV'[v] = WaitedKV[v] /\ ReleasedKV'[v] = ReleasedKV[v]
    BY <1>2, <1>3, <1>5 DEF WaitedKV, ReleasedKV
  <2> QED BY <1>4, <1>5, <2>1, KVStays DEF ProducerInv
<1> QED BY <1>2, <1>3, <1>4, <1>5

\* What has to be seen of the warp that moved.
RightAfter(w, m) ==
  /\ m \in WarpStates /\ WarpStep(w, m) /\ m.pc # "start" /\ mathWarp[w].pc # "start"
  /\ m.pc # "done" => Scans
  /\ m.tile <= ScanTiles
  /\ m.pc \in {"release", "reduce"} => m.tile < ScanTiles
  /\ m.pc = "done" /\ Scans => m.tile = ScanTiles
  /\ m.pc \in {"tiles", "release", "reduce"} => fullQ[0] = 1 /\ m.weights = OwnQ
  /\ running' \in SUBSET MathWarp /\ running' \ {w} = running \ {w}
  /\ w \in running' => m.pc = "release"
  /\ m.pc = "release" => m.scales = m.tile /\ (w \notin running' => m.product = m.tile)
  /\ m.pc = "reduce" => m.scales = m.tile /\ m.product = m.tile

LEMMA WarpStepKeeps ==
  ASSUME ProducerInv, NEW w \in MathWarp, NEW m, RightAfter(w, m)
  PROVE  /\ Scanning' /\ QHeld' /\ ReadsRight'
         /\ UNCHANGED producerOut => ProducerTyped'
         /\ /\ UNCHANGED producerOut /\ m.tile = mathWarp[w].tile /\ m.counts = mathWarp[w].counts
            /\ m.pc = "done" /\ Scans => mathWarp[w].pc = "done"
            => SegmentsRight'
<1> USE DEF ProducerInv
<1>0. m \in WarpStates /\ WarpStep(w, m)
  BY DEF RightAfter
<1>1. /\ Scans' = Scans /\ ScanTiles' = ScanTiles
      /\ mathWarp' \in [MathWarp -> WarpStates] /\ mathWarp'[w] = m
      /\ \A v \in MathWarp : v # w => mathWarp'[v] = mathWarp[v]
  BY <1>0, AfterWarpStep
<1>2. pair' = pair /\ tma' = tma /\ UNCHANGED <<qStage, kvStage, fullQ, fullKV>>
  BY <1>0 DEF WarpStep, producerRings
<1>3. Scanning'
  <2>1. tma.pc # "start"
    BY DEF Scanning, RightAfter
  <2> QED BY <1>1, <1>2, <2>1 DEF Scanning, RightAfter
<1>4. QHeld'
  BY <1>1, <1>2 DEF QHeld, RightAfter
<1>5. ReadsRight'
  <2> SUFFICES ASSUME NEW v \in MathWarp
               PROVE  /\ v \in running' => mathWarp'[v].pc = "release"
                      /\ mathWarp'[v].pc = "release" =>
                           mathWarp'[v].scales = mathWarp'[v].tile
                           /\ (v \notin running' => mathWarp'[v].product = mathWarp'[v].tile)
                      /\ mathWarp'[v].pc = "reduce" =>
                           mathWarp'[v].scales = mathWarp'[v].tile /\ mathWarp'[v].product = mathWarp'[v].tile
    BY DEF ReadsRight
  <2>1. CASE v = w
    BY <1>1, <2>1 DEF RightAfter
  <2>2. CASE v # w
    <3>1. v \in running' <=> v \in running
      BY <2>2 DEF RightAfter
    <3>2. mathWarp'[v] = mathWarp[v]
      BY <1>1, <2>2
    <3> QED BY <3>1, <3>2 DEF ReadsRight
  <2> QED BY <2>1, <2>2
<1>6. ASSUME UNCHANGED producerOut PROVE ProducerTyped'
  BY <1>1, <1>2, <1>6 DEF ProducerTyped, producerOut, RightAfter
<1>7. ASSUME UNCHANGED producerOut, m.tile = mathWarp[w].tile, m.counts = mathWarp[w].counts,
             m.pc = "done" /\ Scans => mathWarp[w].pc = "done"
      PROVE  SegmentsRight'
  <2>1. \A v \in MathWarp : SameProgress(v)
    BY <1>1, <1>7 DEF SameProgress
  <2> QED BY <1>2, <1>7, <2>1, SegmentsStay
<1> QED BY <1>3, <1>4, <1>5, <1>6, <1>7

\* What a warp that scans has to go by.
LEMMA WarpFacts ==
  ASSUME ProducerInv, NEW w \in MathWarp, NEW old, old = mathWarp[w]
  PROVE  /\ old \in WarpStates /\ old.tile \in Nat /\ ScanTiles \in Nat
         /\ old.pc \in {"q", "tiles", "release", "reduce"} => Scans
         /\ old.tile <= ScanTiles
         /\ old.pc \in {"release", "reduce"} => old.tile < ScanTiles
         /\ old.pc \in {"tiles", "release", "reduce"} => fullQ[0] = 1 /\ old.weights = OwnQ
         /\ w \in running => old.pc = "release"
         /\ old.pc = "release" => old.scales = old.tile /\ (w \notin running => old.product = old.tile)
         /\ old.pc = "reduce" => old.scales = old.tile /\ old.product = old.tile
         /\ WaitedKV[w] = old.tile + (IF old.pc \in {"release", "reduce"} THEN 1 ELSE 0)
         /\ ReleasedKV[w] = old.tile + (IF old.pc = "reduce" THEN 1 ELSE 0)
<1> USE DEF ProducerInv
<1>1. old \in WarpStates /\ ScanTiles \in Nat /\ old.tile \in Nat
  BY RowsTyped DEF ProducerTyped, WarpStates
<1>2. /\ old.pc \in {"q", "tiles", "release", "reduce"} => Scans
      /\ old.tile <= ScanTiles /\ (old.pc \in {"release", "reduce"} => old.tile < ScanTiles)
  BY DEF Scanning
<1>3. old.pc \in {"tiles", "release", "reduce"} => fullQ[0] = 1 /\ old.weights = OwnQ
  BY DEF QHeld
<1>4. /\ w \in running => old.pc = "release"
      /\ old.pc = "release" => old.scales = old.tile /\ (w \notin running => old.product = old.tile)
      /\ old.pc = "reduce" => old.scales = old.tile /\ old.product = old.tile
  BY DEF ReadsRight
<1> QED BY <1>1, <1>2, <1>3, <1>4 DEF WaitedKV, ReleasedKV

\* Q is there when its barrier has completed the first phase.
LEMMA QIsHeld ==
  ASSUME ProducerInv, fullQ[0] = 1
  PROVE  Held(qStage[0], "q") = OwnQ /\ Held(qStage[0], "weights") = OwnQ
BY DEF ProducerInv, QHeld, Held

\* A tile that a warp has waited for and not released is in its stage.
LEMMA KVIsHeld ==
  ASSUME ProducerInv, NEW w \in MathWarp, NEW t \in Nat, ReleasedKV[w] <= t, t < WaitedKV[w]
  PROVE  Held(kvStage[KVStageOf(t)], "kv") = t /\ Held(kvStage[KVStageOf(t)], "scales") = t
<1>1. KVRingIs(tma.tile, WaitedKV, ReleasedKV, fullKV, emptyKV, PendingKV)
  BY KVRingHolds DEF ProducerInv
<1>2. tma.tile - 3 <= t /\ t < tma.tile /\ t % 3 \notin PendingKV
  BY <1>1, StagesAre, HeldStable DEF KVRingIs
<1>3. kvStage[t % 3].what = t /\ t % 3 \in KVRing
  BY <1>2, StageAndUse, StagesAre DEF ProducerInv, KVHeld
<1>4. kvStage[t % 3].due = {}
  BY <1>2, <1>3 DEF PendingKV
<1> QED BY <1>3, <1>4 DEF Held, KVStageOf, NumKVStages

\* The two states a warp reads into.
Weighed(old, p, x)      == [old EXCEPT !.pc = p, !.weights = x]
Committed(old, p, x, y) == [old EXCEPT !.pc = p, !.product = x, !.scales = y]

LEMMA WarpUpdates ==
  ASSUME NEW old \in WarpStates, NEW p \in MathPcs, NEW x \in Int, NEW y \in Int
  PROVE  /\ /\ Weighed(old, p, x) \in WarpStates
            /\ Weighed(old, p, x).pc = p /\ Weighed(old, p, x).weights = x
            /\ Weighed(old, p, x).tile = old.tile /\ Weighed(old, p, x).counts = old.counts
         /\ /\ Committed(old, p, x, y) \in WarpStates
            /\ Committed(old, p, x, y).pc = p /\ Committed(old, p, x, y).product = x
            /\ Committed(old, p, x, y).scales = y /\ Committed(old, p, x, y).weights = old.weights
            /\ Committed(old, p, x, y).tile = old.tile /\ Committed(old, p, x, y).counts = old.counts
<1>1. \A r \in WarpStates : /\ [r EXCEPT !.pc = p] \in WarpStates /\ [r EXCEPT !.pc = p].pc = p
                            /\ [r EXCEPT !.pc = p].tile = r.tile /\ [r EXCEPT !.pc = p].counts = r.counts
                            /\ [r EXCEPT !.pc = p].weights = r.weights
                            /\ [r EXCEPT !.pc = p].scales = r.scales /\ [r EXCEPT !.pc = p].product = r.product
  BY DEF WarpStates
<1>2. \A r \in WarpStates : /\ [r EXCEPT !.weights = x] \in WarpStates /\ [r EXCEPT !.weights = x].weights = x
                            /\ [r EXCEPT !.weights = x].tile = r.tile
                            /\ [r EXCEPT !.weights = x].counts = r.counts
                            /\ [r EXCEPT !.weights = x].pc = r.pc
  BY DEF WarpStates
<1>3. \A r \in WarpStates : /\ [r EXCEPT !.product = x] \in WarpStates /\ [r EXCEPT !.product = x].product = x
                            /\ [r EXCEPT !.product = x].tile = r.tile
                            /\ [r EXCEPT !.product = x].counts = r.counts
                            /\ [r EXCEPT !.product = x].pc = r.pc /\ [r EXCEPT !.product = x].weights = r.weights
  BY DEF WarpStates
<1>4. \A r \in WarpStates : /\ [r EXCEPT !.scales = y] \in WarpStates /\ [r EXCEPT !.scales = y].scales = y
                            /\ [r EXCEPT !.scales = y].tile = r.tile
                            /\ [r EXCEPT !.scales = y].counts = r.counts
                            /\ [r EXCEPT !.scales = y].pc = r.pc /\ [r EXCEPT !.scales = y].weights = r.weights
                            /\ [r EXCEPT !.scales = y].product = r.product
  BY DEF WarpStates
<1>5. PICK a : a = [old EXCEPT !.pc = p]
  OBVIOUS
<1>6. PICK b : b = [a EXCEPT !.product = x]
  OBVIOUS
<1>7. a \in WarpStates /\ b \in WarpStates
  BY <1>1, <1>3, <1>5, <1>6
<1>8. PICK c, d : c = [a EXCEPT !.weights = x] /\ d = [b EXCEPT !.scales = y]
  OBVIOUS
<1>9. /\ a.pc = p /\ a.tile = old.tile /\ a.counts = old.counts /\ a.weights = old.weights
      /\ b.pc = p /\ b.tile = old.tile /\ b.counts = old.counts /\ b.weights = old.weights /\ b.product = x
  BY <1>1, <1>3, <1>5, <1>6, <1>7
<1>10. c \in WarpStates /\ c.weights = x /\ c.tile = a.tile /\ c.counts = a.counts /\ c.pc = a.pc
  BY <1>2, <1>7, <1>8
<1>11. /\ d \in WarpStates /\ d.scales = y /\ d.tile = b.tile /\ d.counts = b.counts /\ d.pc = b.pc
       /\ d.weights = b.weights /\ d.product = b.product
  BY <1>4, <1>7, <1>8
<1>12. Weighed(old, p, x) = c /\ Committed(old, p, x, y) = d
  BY <1>5, <1>6, <1>8 DEF Weighed, Committed
<1> QED BY ONLY <1>9, <1>10, <1>11, <1>12

LEMMA AwaitQKeeps ==
  ASSUME ProducerInv, NEW w \in MathWarp, AwaitQ(w)
  PROVE  ProducerInv'
<1>1. PICK old, m : old = mathWarp[w] /\ m = [old EXCEPT !.pc = "tiles", !.weights = OwnQ]
  OBVIOUS
<1>2. fullQ[0] = 1
  <2>1. fullQ[0] \in {0, 1}
    BY DEF ProducerInv, QHeld
  <2> QED BY <2>1 DEF AwaitQ, ParityPasses, ParityOf
<1>3. /\ old \in WarpStates /\ old.pc = "q" /\ Scans /\ old.tile <= ScanTiles /\ w \notin running
      /\ WaitedKV[w] = old.tile /\ ReleasedKV[w] = old.tile /\ old.tile \in Nat
  BY <1>1, WarpFacts DEF AwaitQ
<1>4. m \in WarpStates /\ m.pc = "tiles" /\ m.weights = OwnQ /\ m.tile = old.tile /\ m.counts = old.counts
  <2>1. "tiles" \in MathPcs /\ OwnQ \in Int
    BY DEF MathPcs, OwnQ
  <2>2. PICK p, x : p = "tiles" /\ x = OwnQ
    OBVIOUS
  <2>3. old \in WarpStates /\ p \in MathPcs /\ x \in Int /\ 0 \in Int /\ m = Weighed(old, p, x)
    BY <1>1, <1>3, <2>1, <2>2 DEF Weighed
  <2>4. m \in WarpStates /\ m.pc = p /\ m.weights = x /\ m.tile = old.tile /\ m.counts = old.counts
    BY ONLY <2>3, WarpUpdates
  <2> QED BY ONLY <2>2, <2>4
<1>5. WarpStep(w, m) /\ running' = running /\ UNCHANGED producerOut /\ emptyKV' = emptyKV
  <2>1. mathWarp' = [mathWarp EXCEPT ![w] = m]
    BY <1>1, <1>2, QIsHeld DEF AwaitQ, ProducerInv, ProducerTyped
  <2> QED BY <2>1 DEF AwaitQ, WarpStep
<1>6. running \in SUBSET MathWarp
  BY DEF ProducerInv, ProducerTyped
<1>7. Scanning' /\ QHeld' /\ ReadsRight' /\ ProducerTyped' /\ SegmentsRight'
  <2>1. RightAfter(w, m)
    BY ONLY <1>1, <1>2, <1>3, <1>4, <1>5, <1>6 DEF RightAfter
  <2>2. m.tile = mathWarp[w].tile /\ m.counts = mathWarp[w].counts /\ m.pc # "done"
    BY <1>1, <1>2, <1>3, <1>4, <1>5, <1>6
  <2> QED BY <1>5, <2>1, <2>2, WarpStepKeeps
<1>8. KVHeld'
  <2>1. Waits(m) = WaitedKV[w] /\ Releases(m) = ReleasedKV[w]
    BY <1>1, <1>3, <1>4 DEF Waits, Releases
  <2> QED BY <1>4, <1>5, <2>1, CountsAfter
<1> QED BY <1>7, <1>8 DEF ProducerInv

LEMMA MultiplyTileKeeps ==
  ASSUME ProducerInv, NEW w \in MathWarp, MultiplyTile(w)
  PROVE  ProducerInv'
<1>1. PICK old, t, m : /\ old = mathWarp[w] /\ t = old.tile
                       /\ m = [old EXCEPT !.pc = "release", !.product = Torn, !.scales = t]
  OBVIOUS
<1>2. /\ old \in WarpStates /\ old.pc = "tiles" /\ Scans /\ t \in Nat /\ t < ScanTiles
      /\ fullQ[0] = 1 /\ old.weights = OwnQ /\ w \notin running /\ ScanTiles \in Nat
      /\ WaitedKV[w] = t /\ ReleasedKV[w] = t
  BY <1>1, WarpFacts DEF MultiplyTile
<1>3. m \in WarpStates /\ m.pc = "release" /\ m.weights = OwnQ /\ m.tile = t /\ m.scales = t
      /\ m.counts = old.counts
  <2>1. "release" \in MathPcs /\ Torn \in Int /\ t \in Int
    BY <1>2 DEF MathPcs, Torn
  <2>2. PICK p, x : p = "release" /\ x = Torn
    OBVIOUS
  <2>3. old \in WarpStates /\ p \in MathPcs /\ x \in Int /\ t \in Int
        /\ m = Committed(old, p, x, t)
    BY <1>1, <1>2, <2>1, <2>2 DEF Committed
  <2>4. /\ m \in WarpStates /\ m.pc = p /\ m.product = x /\ m.scales = t
        /\ m.weights = old.weights /\ m.tile = old.tile /\ m.counts = old.counts
    BY ONLY <2>3, WarpUpdates
  <2> QED BY <1>1, <1>2, <2>2, <2>4
<1>4. KVRingIs(tma.tile, WaitedKV, ReleasedKV, fullKV, emptyKV, PendingKV)
  BY KVRingHolds DEF ProducerInv
<1>5. fullKV[t % 3] > t \div 3
  <2>1. fullKV[t % 3] \in {t \div 3, (t \div 3) + 1}
    BY <1>2, <1>4, StagesAre, ConsumerWait DEF KVRingIs
  <2>2. ParityPasses(fullKV[t % 3], ParityOf(t \div 3))
    BY <1>1 DEF MultiplyTile, KVStageOf, KVPhaseOf, NumKVStages
  <2>3. t \div 3 \in Nat
    BY <1>2, StageAndUse
  <2> QED BY <2>1, <2>2, <2>3, ParityIsExact
<1>6. PICK waited : waited = [WaitedKV EXCEPT ![w] = t + 1]
  OBVIOUS
<1>7. KVRingIs(tma.tile, waited, ReleasedKV, fullKV, emptyKV, PendingKV)
  BY <1>2, <1>4, <1>5, <1>6, StagesAre, WaitStep DEF KVRingIs
<1>8. t % 3 \in KVRing /\ kvStage[t % 3].what = t /\ kvStage[t % 3].due = {}
  <2>1. waited[w] = t + 1
    BY <1>4, <1>6 DEF KVRingIs, RingType
  <2>2. ReleasedKV[w] <= t /\ t < waited[w]
    BY <1>2, <2>1
  <2>3. tma.tile - 3 <= t /\ t < tma.tile /\ t % 3 \notin PendingKV
    BY <1>2, <1>7, <2>2, StagesAre, HeldStable DEF KVRingIs
  <2>4. kvStage[t % 3].what = t /\ t % 3 \in KVRing
    BY <1>2, <2>3, StageAndUse, StagesAre DEF ProducerInv, KVHeld
  <2> QED BY <2>3, <2>4 DEF PendingKV
<1>9. WarpStep(w, m) /\ running' = running \cup {w} /\ UNCHANGED producerOut /\ emptyKV' = emptyKV
  <2>1. Held(kvStage[KVStageOf(t)], "scales") = t
    BY <1>8 DEF Held, KVStageOf, NumKVStages
  <2>2. mathWarp' = [mathWarp EXCEPT ![w] = m]
    BY <1>1, <2>1 DEF MultiplyTile, ProducerInv, ProducerTyped
  <2> QED BY <2>2 DEF MultiplyTile, WarpStep
<1>10. running' \in SUBSET MathWarp /\ w \in running' /\ running' \ {w} = running \ {w}
  BY <1>9 DEF ProducerInv, ProducerTyped
<1>11. Scanning' /\ QHeld' /\ ReadsRight' /\ ProducerTyped' /\ SegmentsRight'
  <2>1. RightAfter(w, m)
    BY ONLY <1>1, <1>2, <1>3, <1>9, <1>10 DEF RightAfter
  <2>2. m.tile = mathWarp[w].tile /\ m.counts = mathWarp[w].counts /\ m.pc # "done"
    BY <1>1, <1>2, <1>3, <1>9, <1>10
  <2> QED BY <1>9, <2>1, <2>2, WarpStepKeeps
<1>12. KVHeld'
  <2>1. Waits(m) = t + 1 /\ Releases(m) = t
    BY <1>2, <1>3 DEF Waits, Releases
  <2>2. WaitedKV' = waited /\ ReleasedKV' = ReleasedKV
    <3>1. /\ WaitedKV' = [WaitedKV EXCEPT ![w] = t + 1]
          /\ ReleasedKV' = [ReleasedKV EXCEPT ![w] = ReleasedKV[w]]
      BY <1>2, <1>3, <1>9, <2>1, CountsAfter
    <3> QED BY <1>4, <1>6, <3>1 DEF KVRingIs, RingType
  <2>3. UNCHANGED <<tma, kvStage, fullKV>> /\ PendingKV' = PendingKV
    BY <1>3, <1>9, CountsAfter
  <2> QED BY <1>7, <1>9, <2>1, <2>2, <2>3 DEF KVHeld, KVRingIs, ProducerInv
<1> QED BY <1>11, <1>12 DEF ProducerInv

LEMMA GroupCompletesKeeps ==
  ASSUME ProducerInv, NEW w \in MathWarp, GroupCompletes(w)
  PROVE  ProducerInv'
<1>1. PICK old, t, m : /\ old = mathWarp[w] /\ t = old.tile /\ m = [old EXCEPT !.product = t]
  OBVIOUS
<1>2. /\ old \in WarpStates /\ old.pc = "release" /\ Scans /\ t \in Nat /\ t < ScanTiles /\ ScanTiles \in Nat
      /\ fullQ[0] = 1 /\ old.weights = OwnQ /\ old.scales = t /\ w \in running
      /\ WaitedKV[w] = t + 1 /\ ReleasedKV[w] = t
  BY <1>1, WarpFacts DEF GroupCompletes
<1>3. m \in WarpStates /\ m.pc = "release" /\ m.weights = OwnQ /\ m.tile = t /\ m.scales = t
      /\ m.product = t /\ m.counts = old.counts
  BY ONLY <1>1, <1>2 DEF WarpStates
<1>4. Held(kvStage[KVStageOf(t)], "kv") = t
  BY <1>2, KVIsHeld
<1>5. WarpStep(w, m) /\ running' = running \ {w} /\ UNCHANGED producerOut /\ emptyKV' = emptyKV
  <2>1. mathWarp' = [mathWarp EXCEPT ![w] = m]
    BY <1>1, <1>2, <1>4, QIsHeld DEF GroupCompletes, ProducerInv, ProducerTyped
  <2> QED BY <2>1 DEF GroupCompletes, WarpStep
<1>6. running' \in SUBSET MathWarp /\ w \notin running' /\ running' \ {w} = running \ {w}
  BY <1>5 DEF ProducerInv, ProducerTyped
<1>7. Scanning' /\ QHeld' /\ ReadsRight' /\ ProducerTyped' /\ SegmentsRight'
  <2>1. RightAfter(w, m)
    BY ONLY <1>1, <1>2, <1>3, <1>5, <1>6 DEF RightAfter
  <2>2. m.tile = mathWarp[w].tile /\ m.counts = mathWarp[w].counts /\ m.pc # "done"
    BY <1>1, <1>2, <1>3, <1>5, <1>6
  <2> QED BY <1>5, <2>1, <2>2, WarpStepKeeps
<1>8. KVHeld'
  <2>1. Waits(m) = WaitedKV[w] /\ Releases(m) = ReleasedKV[w]
    BY <1>1, <1>2, <1>3 DEF Waits, Releases
  <2> QED BY <1>3, <1>5, <2>1, CountsAfter
<1> QED BY <1>7, <1>8 DEF ProducerInv

LEMMA ReleaseKVKeeps ==
  ASSUME ProducerInv, NEW w \in MathWarp, ReleaseKV(w)
  PROVE  ProducerInv'
<1>1. PICK old, t, m : /\ old = mathWarp[w] /\ t = old.tile /\ m = [old EXCEPT !.pc = "reduce"]
  OBVIOUS
<1>2. /\ old \in WarpStates /\ old.pc = "release" /\ Scans /\ t \in Nat /\ t < ScanTiles /\ ScanTiles \in Nat
      /\ fullQ[0] = 1 /\ old.weights = OwnQ /\ old.scales = t /\ w \notin running /\ old.product = t
      /\ WaitedKV[w] = t + 1 /\ ReleasedKV[w] = t
  BY <1>1, WarpFacts DEF ReleaseKV
<1>3. m \in WarpStates /\ m.pc = "reduce" /\ m.weights = OwnQ /\ m.tile = t /\ m.scales = t
      /\ m.product = t /\ m.counts = old.counts
  BY ONLY <1>1, <1>2 DEF WarpStates, MathPcs
<1>4. WarpStep(w, m) /\ running' = running /\ UNCHANGED producerOut
      /\ emptyKV' = [emptyKV EXCEPT ![t % 3] = Arrive(@, w, MathWarp)]
  <2>1. mathWarp' = [mathWarp EXCEPT ![w] = m]
    BY <1>1 DEF ReleaseKV, ProducerInv, ProducerTyped
  <2> QED BY <1>1, <2>1 DEF ReleaseKV, WarpStep, KVStageOf, NumKVStages
<1>5. running' \in SUBSET MathWarp
  BY <1>4 DEF ProducerInv, ProducerTyped
<1>6. Scanning' /\ QHeld' /\ ReadsRight' /\ ProducerTyped' /\ SegmentsRight'
  <2>1. RightAfter(w, m)
    BY ONLY <1>1, <1>2, <1>3, <1>4, <1>5 DEF RightAfter
  <2>2. m.tile = mathWarp[w].tile /\ m.counts = mathWarp[w].counts /\ m.pc # "done"
    BY <1>1, <1>2, <1>3, <1>4, <1>5
  <2> QED BY <1>4, <2>1, <2>2, WarpStepKeeps
<1>7. KVHeld'
  <2>1. KVRingIs(tma.tile, WaitedKV, ReleasedKV, fullKV, emptyKV, PendingKV)
    BY KVRingHolds DEF ProducerInv
  <2>2. PICK released, empty : /\ released = [ReleasedKV EXCEPT ![w] = t + 1]
                               /\ empty = emptyKV'
    OBVIOUS
  <2>3. KVRingIs(tma.tile, WaitedKV, released, fullKV, empty, PendingKV)
    <3>1. t = ReleasedKV[w] /\ t < WaitedKV[w]
      BY <1>2
    <3>2. empty = [emptyKV EXCEPT ![t % 3] = Arrive(@, w, MathWarp)]
      BY <1>4, <2>2
    <3> QED BY <2>1, <2>2, <3>1, <3>2, StagesAre, ReleaseStep DEF KVRingIs
  <2>4. Waits(m) = t + 1 /\ Releases(m) = t + 1
    BY <1>2, <1>3 DEF Waits, Releases
  <2>5. WaitedKV' = WaitedKV /\ ReleasedKV' = released
    <3>1. /\ WaitedKV' = [WaitedKV EXCEPT ![w] = WaitedKV[w]]
          /\ ReleasedKV' = [ReleasedKV EXCEPT ![w] = t + 1]
      BY <1>2, <1>3, <1>4, <2>4, CountsAfter
    <3> QED BY <2>1, <2>2, <3>1 DEF KVRingIs, RingType
  <2>6. UNCHANGED <<tma, kvStage, fullKV>> /\ PendingKV' = PendingKV
    BY <1>3, <1>4, CountsAfter
  <2> QED BY <2>2, <2>3, <2>4, <2>5, <2>6 DEF KVHeld, KVRingIs, ProducerInv
<1> QED BY <1>6, <1>7 DEF ProducerInv

LEMMA AppendTileKeeps ==
  ASSUME ProducerInv, NEW w \in MathWarp, AppendTile(w)
  PROVE  ProducerInv'
<1> DEFINE n(r) == Cardinality(Active(w, r))
           longer(r) == produced[r][w] \cup
             {<<PlaceOf(w, r, o), PositionOf(w, mathWarp[w].tile, o), Reduction(mathWarp[w])>> :
                o \in {a \in Active(w, r) : PlaceOf(w, r, a) < WarpCapacity}}
<1>1. PICK old, t, c, m : /\ old = mathWarp[w] /\ t = old.tile
                          /\ c = [r \in PairRow |-> old.counts[r] + n(r)]
                          /\ m = [old EXCEPT !.pc = "tiles", !.tile = t + 1, !.counts = c]
  OBVIOUS
<1>2. /\ old \in WarpStates /\ old.pc = "reduce" /\ Scans /\ t \in Nat /\ t < ScanTiles /\ ScanTiles \in Nat
      /\ fullQ[0] = 1 /\ old.weights = OwnQ /\ w \notin running
      /\ WaitedKV[w] = t + 1 /\ ReleasedKV[w] = t + 1
  BY <1>1, WarpFacts DEF AppendTile
<1>3. \A r \in PairRow : /\ n(r) \in Nat /\ longer(r) \in SUBSET Triple
                         /\ HoldsExactly(longer(r), Share(w, r, t + 1), old.counts[r] + n(r))
  <2> SUFFICES ASSUME NEW r \in PairRow
               PROVE  /\ n(r) \in Nat /\ longer(r) \in SUBSET Triple
                      /\ HoldsExactly(longer(r), Share(w, r, t + 1), old.counts[r] + n(r))
    OBVIOUS
  <2>1. PICK A, l : A = Active(w, r) /\ l = longer(r)
    OBVIOUS
  <2>2. mathWarp[w].pc = "reduce" /\ t = mathWarp[w].tile
    BY <1>1, <1>2
  <2>3. l = produced[r][w] \cup
           {<<PlaceOf(w, r, o), PositionOf(w, t, o), Reduction(mathWarp[w])>> :
              o \in {a \in A : PlaceOf(w, r, a) < WarpCapacity}}
    BY <2>1, <2>2
  <2> HIDE DEF longer
  <2>4. /\ Cardinality(A) \in Nat /\ l \in SUBSET Triple
        /\ HoldsExactly(l, Share(w, r, t + 1), mathWarp[w].counts[r] + Cardinality(A))
    BY <2>1, <2>2, <2>3, AppendsShare
  <2> QED BY <1>1, <2>1, <2>4
<1>4. /\ mathWarp' = [mathWarp EXCEPT ![w] = m]
      /\ produced' = [r \in PairRow |-> [produced[r] EXCEPT ![w] = longer(r)]]
      /\ pair' = pair /\ tma' = tma /\ UNCHANGED producerRings
      /\ running' = running /\ emptyKV' = emptyKV /\ segmentCounts' = segmentCounts
  <2>1. \A r \in PairRow : [produced[r] EXCEPT ![w] = longer(r)]
          = [produced[r] EXCEPT ![w] = @ \cup
               {<<PlaceOf(w, r, o), PositionOf(w, mathWarp[w].tile, o), Reduction(mathWarp[w])>> :
                  o \in {a \in Active(w, r) : PlaceOf(w, r, a) < WarpCapacity}}]
    BY DEF ProducerInv, ProducerTyped
  <2> HIDE DEF n, longer
  <2>2. mathWarp' = [mathWarp EXCEPT ![w] = [old EXCEPT !.pc = "tiles", !.tile = @ + 1,
                       !.counts = [r \in PairRow |-> @[r] + n(r)]]]
    BY <1>1 DEF AppendTile, n
  <2>3. [old EXCEPT !.pc = "tiles", !.tile = @ + 1, !.counts = [r \in PairRow |-> @[r] + n(r)]] = m
    BY ONLY <1>1, <1>2 DEF WarpStates
  <2>4. produced' = [r \in PairRow |-> [produced[r] EXCEPT ![w] = longer(r)]]
    BY <2>1 DEF AppendTile
  <2> QED BY <2>2, <2>3, <2>4 DEF AppendTile
<1> HIDE DEF n, longer
<1>5. c \in [PairRow -> Nat]
  <2>1. \A r \in PairRow : old.counts[r] \in Nat
    BY <1>2 DEF WarpStates
  <2> QED BY <1>1, <1>3, <2>1
<1>6. m \in WarpStates /\ m.pc = "tiles" /\ m.weights = OwnQ /\ m.tile = t + 1 /\ m.counts = c
  <2>1. "tiles" \in MathPcs
    BY DEF MathPcs
  <2>2. PICK p, u : p = "tiles" /\ u = t + 1
    OBVIOUS
  <2>3. p \in MathPcs /\ u \in Nat
    BY <1>2, <2>1, <2>2
  <2>4. PICK a : a = [old EXCEPT !.pc = p]
    OBVIOUS
  <2>5. PICK b : b = [a EXCEPT !.tile = u]
    OBVIOUS
  <2>6. a \in WarpStates /\ a.pc = p /\ a.weights = old.weights
    BY ONLY <1>2, <2>3, <2>4 DEF WarpStates
  <2>7. b \in WarpStates /\ b.pc = p /\ b.weights = old.weights /\ b.tile = u
    BY ONLY <2>3, <2>5, <2>6 DEF WarpStates
  <2>8. m = [b EXCEPT !.counts = c]
    BY <1>1, <2>2, <2>4, <2>5
  <2>9. m \in WarpStates /\ m.pc = p /\ m.weights = old.weights /\ m.tile = u /\ m.counts = c
    BY ONLY <1>5, <2>7, <2>8 DEF WarpStates
  <2> QED BY <1>2, <2>2, <2>9
<1>7. WarpStep(w, m)
  BY <1>4 DEF WarpStep
<1>8. /\ Scans' = Scans /\ mathWarp'[w] = m
      /\ \A v \in MathWarp : v # w => mathWarp'[v] = mathWarp[v]
  BY <1>6, <1>7, AfterWarpStep
<1>9. Scanning' /\ QHeld' /\ ReadsRight'
  <2>1. running' \in SUBSET MathWarp /\ w \notin running'
    BY <1>2, <1>4 DEF ProducerInv, ProducerTyped
  <2>2. t + 1 <= ScanTiles /\ mathWarp[w].pc # "start"
    BY <1>1, <1>2
  <2>3. RightAfter(w, m)
    BY ONLY <1>2, <1>4, <1>6, <1>7, <2>1, <2>2 DEF RightAfter
  <2> QED BY <2>3, WarpStepKeeps
<1>10. \A r \in PairRow : /\ produced'[r] \in [MathWarp -> SUBSET Triple] /\ produced'[r][w] = longer(r)
                          /\ \A v \in MathWarp : v # w => produced'[r][v] = produced[r][v]
  BY <1>3, <1>4 DEF ProducerInv, ProducerTyped
<1>11. ProducerTyped'
  <2>1. produced' \in [PairRow -> [MathWarp -> SUBSET Triple]]
    BY <1>4, <1>10
  <2>2. mathWarp' \in [MathWarp -> WarpStates]
    BY <1>6, <1>7, AfterWarpStep
  <2> QED BY <1>4, <2>1, <2>2 DEF ProducerInv, ProducerTyped, producerRings
<1>12. KVHeld'
  <2>1. Waits(m) = WaitedKV[w] /\ Releases(m) = ReleasedKV[w]
    BY <1>2, <1>6 DEF Waits, Releases
  <2> QED BY <1>4, <1>6, <1>7, <2>1, CountsAfter
<1>13. SegmentsRight'
  <2>1. ASSUME NEW v \in MathWarp, NEW r \in PairRow
        PROVE  /\ HoldsExactly(produced[r][v], Share(v, r, mathWarp[v].tile), mathWarp[v].counts[r])'
               /\ mathWarp'[v].pc = "done" /\ Scans' => segmentCounts'[r][v] = mathWarp'[v].counts[r]
    <3>1. \A k : Share(v, r, k)' = Share(v, r, k)
      BY <1>4, PairFixed
    <3>2. CASE v = w
      <4>1. Share(v, r, mathWarp[v].tile)' = Share(w, r, t + 1)
        <5>1. mathWarp'[v].tile = t + 1
          BY <1>6, <1>8, <3>2
        <5> QED BY <1>4, <3>2, <5>1 DEF Share, RowStart, RowEnd
      <4>2. mathWarp'[v].counts[r] = old.counts[r] + n(r) /\ mathWarp'[v].pc = "tiles"
        <5>1. mathWarp'[v].counts = c /\ mathWarp'[v].pc = "tiles"
          BY <1>6, <1>8, <3>2
        <5> QED BY <1>1, <5>1
      <4>3. produced'[r][v] = longer(r)
        BY <1>10, <3>2
      <4>4. HoldsExactly(longer(r), Share(w, r, t + 1), old.counts[r] + n(r))
        BY <1>3
      <4> QED BY <4>1, <4>2, <4>3, <4>4 DEF HoldsExactly
    <3>3. CASE v # w
      <4>1. mathWarp'[v] = mathWarp[v] /\ produced'[r][v] = produced[r][v]
        BY <1>8, <1>10, <3>3
      <4>2. Share(v, r, mathWarp[v].tile)' = Share(v, r, mathWarp[v].tile)
        BY <1>4, <4>1 DEF Share, RowStart, RowEnd
      <4>3. /\ HoldsExactly(produced[r][v], Share(v, r, mathWarp[v].tile), mathWarp[v].counts[r])
            /\ mathWarp[v].pc = "done" /\ Scans => segmentCounts[r][v] = mathWarp[v].counts[r]
        BY DEF ProducerInv, SegmentsRight
      <4> QED BY <1>4, <1>8, <4>1, <4>2, <4>3 DEF HoldsExactly
    <3> QED BY <3>2, <3>3
  <2> QED BY <2>1 DEF SegmentsRight
<1> QED BY <1>9, <1>11, <1>12, <1>13 DEF ProducerInv

LEMMA PublishCountsKeeps ==
  ASSUME ProducerInv, NEW w \in MathWarp, PublishCounts(w)
  PROVE  ProducerInv'
<1>1. PICK old, m : /\ old = mathWarp[w] /\ m = [old EXCEPT !.pc = "done"]
  OBVIOUS
<1>2. /\ old \in WarpStates /\ old.pc = "tiles" /\ Scans /\ old.tile = ScanTiles /\ ScanTiles \in Nat
      /\ w \notin running /\ WaitedKV[w] = old.tile /\ ReleasedKV[w] = old.tile
  BY <1>1, WarpFacts DEF PublishCounts
<1>3. m \in WarpStates /\ m.pc = "done" /\ m.tile = old.tile /\ m.counts = old.counts
  BY ONLY <1>1, <1>2 DEF WarpStates, MathPcs
<1>4. /\ WarpStep(w, m) /\ running' = running /\ produced' = produced /\ emptyKV' = emptyKV
      /\ segmentCounts' = [r \in PairRow |-> [segmentCounts[r] EXCEPT ![w] = old.counts[r]]]
  <2>1. mathWarp' = [mathWarp EXCEPT ![w] = m]
    BY <1>1 DEF PublishCounts, ProducerInv, ProducerTyped
  <2> QED BY <1>1, <2>1 DEF PublishCounts, WarpStep
<1>5. /\ Scans' = Scans /\ mathWarp'[w] = m /\ mathWarp' \in [MathWarp -> WarpStates]
      /\ \A v \in MathWarp : v # w => mathWarp'[v] = mathWarp[v]
  BY <1>3, <1>4, AfterWarpStep
<1>6. Scanning' /\ QHeld' /\ ReadsRight'
  <2>1. running' \in SUBSET MathWarp /\ w \notin running' /\ mathWarp[w].pc # "start"
    BY <1>1, <1>2, <1>4 DEF ProducerInv, ProducerTyped
  <2>2. RightAfter(w, m)
    BY ONLY <1>2, <1>3, <1>4, <2>1 DEF RightAfter
  <2> QED BY <2>2, WarpStepKeeps
<1>7. \A r \in PairRow : /\ segmentCounts'[r] \in [MathWarp -> Nat] /\ segmentCounts'[r][w] = old.counts[r]
                         /\ \A v \in MathWarp : v # w => segmentCounts'[r][v] = segmentCounts[r][v]
  BY <1>2, <1>4 DEF ProducerInv, ProducerTyped, WarpStates
<1>8. ProducerTyped'
  <2>1. segmentCounts' \in [PairRow -> [MathWarp -> Nat]]
    BY <1>4, <1>7
  <2> QED BY <1>4, <1>5, <2>1 DEF ProducerInv, ProducerTyped, WarpStep, producerRings
<1>9. KVHeld'
  <2>1. Waits(m) = WaitedKV[w] /\ Releases(m) = ReleasedKV[w]
    BY <1>2, <1>3 DEF Waits, Releases, WarpStates
  <2> QED BY <1>3, <1>4, <2>1, CountsAfter
<1>10. SegmentsRight'
  <2>1. ASSUME NEW v \in MathWarp, NEW r \in PairRow
        PROVE  /\ HoldsExactly(produced[r][v], Share(v, r, mathWarp[v].tile), mathWarp[v].counts[r])'
               /\ mathWarp'[v].pc = "done" /\ Scans' => segmentCounts'[r][v] = mathWarp'[v].counts[r]
    <3>1. mathWarp'[v].tile = mathWarp[v].tile /\ mathWarp'[v].counts = mathWarp[v].counts
      BY <1>1, <1>3, <1>5
    <3>2. Share(v, r, mathWarp[v].tile)' = Share(v, r, mathWarp[v].tile)
      BY <1>4, <3>1 DEF Share, RowStart, RowEnd, WarpStep
    <3>3. /\ HoldsExactly(produced[r][v], Share(v, r, mathWarp[v].tile), mathWarp[v].counts[r])
          /\ mathWarp[v].pc = "done" /\ Scans => segmentCounts[r][v] = mathWarp[v].counts[r]
      BY DEF ProducerInv, SegmentsRight
    <3>4. mathWarp'[v].pc = "done" /\ Scans' => segmentCounts'[r][v] = mathWarp'[v].counts[r]
      <4>1. CASE v = w
        BY <1>1, <1>7, <3>1, <4>1
      <4>2. CASE v # w
        BY <1>5, <1>7, <3>3, <4>2
      <4> QED BY <4>1, <4>2
    <3> QED BY <1>4, <3>1, <3>2, <3>3, <3>4 DEF HoldsExactly
  <2> QED BY <2>1 DEF SegmentsRight
<1> QED BY <1>6, <1>8, <1>9, <1>10 DEF ProducerInv

LEMMA ProducerStep ==
  ASSUME ProducerInv, [ProducerNext]_producerVars
  PROVE  ProducerInv'
<1>1. CASE EnterProducer
  BY <1>1, EnterProducerKeeps
<1>2. CASE TmaStep
  BY <1>2, PrefetchQKeeps, TmaMoves, IssueKVKeeps DEF TmaStep
<1>3. ASSUME NEW s \in QRing, NEW part \in {"q", "weights"}, QCopied(s, part) PROVE ProducerInv'
  BY <1>3, QCopiedKeeps
<1>4. ASSUME NEW s \in KVRing, NEW part \in {"kv", "scales"}, KVCopied(s, part) PROVE ProducerInv'
  BY <1>4, KVCopiedKeeps
<1>5. ASSUME NEW w \in MathWarp, MathStep(w) \/ GroupCompletes(w) PROVE ProducerInv'
  BY <1>5, AwaitQKeeps, MultiplyTileKeeps, GroupCompletesKeeps, ReleaseKVKeeps, AppendTileKeeps,
     PublishCountsKeeps DEF MathStep
<1>6. CASE UNCHANGED producerVars
  <2>1. WarpsStay /\ tma' = tma /\ UNCHANGED <<qStage, kvStage, fullQ, fullKV, emptyKV>>
    BY <1>6 DEF producerVars, producerRings, producerOut, WarpsStay
  <2>2. /\ Scans' = Scans /\ ScanTiles' = ScanTiles /\ ReadsRight' /\ SegmentsRight'
        /\ WaitedKV' = WaitedKV /\ ReleasedKV' = ReleasedKV
    BY <2>1, WarpsUndisturbed
  <2>3. KVHeld'
    BY <2>1, <2>2, KVStays DEF ProducerInv
  <2>4. ProducerTyped' /\ Scanning' /\ QHeld'
    BY <2>1, <2>2 DEF ProducerInv, ProducerTyped, Scanning, QHeld, WarpsStay, producerOut
  <2> QED BY <2>2, <2>3, <2>4 DEF ProducerInv
<1> QED BY <1>1, <1>2, <1>3, <1>4, <1>5, <1>6 DEF ProducerNext

-----------------------------------------------------------------------------
(* What the invariant says when a warp has published.                        *)

LEMMA ShareIsWanted ==
  ASSUME ProducerTyped, NEW w \in MathWarp, NEW r \in PairRow
  PROVE  Share(w, r, ScanTiles) = Wanted(w, r)
<1>1. /\ pair.columns \in Nat /\ RowStart(r) \in Nat /\ RowEnd(r) \in Nat
      /\ RowEnd(r) <= ScanTiles * TileWidth
      /\ \A id \in Nat : RowStart(r) <= id /\ id < RowEnd(r) <=>
                           id < pair.columns /\ pair.start[r] <= id /\ id < pair.end[r]
  BY RowsTyped
<1>2. PICK b : b = ScanTiles * TileWidth
  OBVIOUS
<1>3. b \in Int
  BY <1>2, RowsTyped, PositionIs, Products
<1>4. \A id : id \in 0 .. b - 1 /\ RowStart(r) <= id /\ id < RowEnd(r) <=>
                id \in 0 .. pair.columns - 1 /\ pair.start[r] <= id /\ id < pair.end[r]
  <2>1. \A id : id \in 0 .. b - 1 <=> id \in Nat /\ id < b
    BY <1>3
  <2>2. \A id : id \in 0 .. pair.columns - 1 <=> id \in Nat /\ id < pair.columns
    BY <1>1
  <2> QED BY <1>1, <1>2, <1>3, <2>1, <2>2
<1> QED BY <1>2, <1>4 DEF Share, Wanted

LEMMA SegmentIsExact ==
  ASSUME NEW segment, NEW share, NEW size \in Nat, segment \in SUBSET Triple,
         HoldsExactly(segment, share, size)
  PROVE  /\ size = Cardinality(share) /\ Cardinality(segment) = size
         /\ {x[1] : x \in segment} = 0 .. size - 1
         /\ {<<x[2], x[3]>> : x \in segment} = {<<id, id \div TileWidth>> : id \in share}
<1>1. /\ size = Cardinality(share)
      /\ \A x \in segment : x[1] \in 0 .. size - 1 /\ x[2] \in share /\ x[3] = x[2] \div TileWidth
      /\ \A x, y \in segment : x[1] = y[1] => x = y
      /\ \A p \in 0 .. size - 1 : \E x \in segment : x[1] = p
      /\ \A id \in share : \E x \in segment : x[2] = id
  BY DEF HoldsExactly
<1>2. {x[1] : x \in segment} = 0 .. size - 1
  BY <1>1
<1>3. {<<x[2], x[3]>> : x \in segment} = {<<id, id \div TileWidth>> : id \in share}
  <2>1. \A x \in segment : <<x[2], x[3]>> \in {<<id, id \div TileWidth>> : id \in share}
    BY <1>1
  <2>2. ASSUME NEW id \in share PROVE <<id, id \div TileWidth>> \in {<<x[2], x[3]>> : x \in segment}
    <3>1. PICK x \in segment : x[2] = id
      BY <1>1
    <3>2. x[3] = id \div TileWidth
      BY <1>1, <3>1
    <3> QED BY <3>1, <3>2
  <2> QED BY <2>1, <2>2
<1>4. Cardinality(segment) = size
  <2> DEFINE f == [x \in segment |-> x[1]]
  <2>1. f \in [segment -> 0 .. size - 1] /\ \A x \in segment : f[x] = x[1]
    BY <1>1
  <2> HIDE DEF f
  <2>2. f \in Injection(segment, 0 .. size - 1)
    BY <1>1, <2>1 DEF Injection, IsInjective
  <2>3. f \in Surjection(segment, 0 .. size - 1)
    BY <1>1, <2>1 DEF Surjection
  <2>4. IsFiniteSet(0 .. size - 1) /\ Cardinality(0 .. size - 1) = size
    <3>1. PICK e : e = size - 1
      OBVIOUS
    <3>2. e \in Int /\ e + 1 = size /\ size >= 0
      BY <3>1
    <3>3. IsFiniteSet(0 .. e) /\ Cardinality(0 .. e) = IF 0 > e THEN 0 ELSE e - 0 + 1
      BY <3>2, FS_Interval
    <3> QED BY <3>1, <3>2, <3>3
  <2> QED BY <2>2, <2>3, <2>4, FS_Injection
<1> QED BY <1>1, <1>2, <1>3, <1>4

\* What a math warp of the repair producer publishes of a row is its share of
\* the row's range, every position once, without gaps and scored right, for
\* any number of warps, any width and capacity, and any pair of rows.
THEOREM ProducerIsExact == ProducerInit /\ [][ProducerNext]_producerVars => []ProducerExact
<1>1. ProducerInit => ProducerInv
  BY ProducerStarts
<1>2. ProducerInv /\ [ProducerNext]_producerVars => ProducerInv'
  BY ProducerStep
<1>3. ProducerInv => ProducerExact
  <2> SUFFICES ASSUME ProducerInv, NEW w \in MathWarp, NEW r \in PairRow, mathWarp[w].pc = "done", Scans
               PROVE  /\ segmentCounts[r][w] = Cardinality(Wanted(w, r))
                      /\ Cardinality(produced[r][w]) = segmentCounts[r][w]
                      /\ {x[1] : x \in produced[r][w]} = 0 .. segmentCounts[r][w] - 1
                      /\ {<<x[2], x[3]>> : x \in produced[r][w]}
                           = {<<id, id \div TileWidth>> : id \in Wanted(w, r)}
    BY DEF ProducerExact, Scans
  <2>1. segmentCounts[r][w] = mathWarp[w].counts[r] /\ mathWarp[w].tile = ScanTiles
    BY DEF ProducerInv, SegmentsRight, Scanning
  <2>2. HoldsExactly(produced[r][w], Wanted(w, r), segmentCounts[r][w])
    BY <2>1, ShareIsWanted DEF ProducerInv, SegmentsRight
  <2>3. segmentCounts[r][w] \in Nat /\ produced[r][w] \in SUBSET Triple
    BY DEF ProducerInv, ProducerTyped
  <2> QED BY <2>2, <2>3, SegmentIsExact
<1> QED BY <1>1, <1>2, <1>3, PTL

---------------------------------------------------------------------------
(* SampledThreshold.  The threshold of a row is the score of the guarded     *)
(* rank among the samples the row sees.                                      *)

ThresholdSpec == ThresholdInit /\ [][ThresholdNext]_thresholdVars

\* Of a sampling: the samples the row sees, their keys, whether they are too
\* few, and the key of the rank, which the digits are fixed to one by one.
SeenOf(s)   == {i \in DOMAIN s.ids : s.ids[i] \in s.start .. s.end - 1 /\ s.key[s.ids[i]] # NotFinite}
KeyIn(s)    == [i \in DOMAIN s.ids |-> s.key[s.ids[i]]]
KeepsAll(s) == s.end - s.start <= Target
TooFew(s)   == Cardinality(SeenOf(s)) < s.rank
IsCut(s, t) ==
  t \in Nat /\ t < Weight[Digits] /\ CutsAt(SeenOf(s), KeyIn(s), s.rank, t)
Cut(s) == IF TooFew(s) THEN 0 ELSE CHOOSE t : IsCut(s, t)

\* What the registers and a bin must hold when the digits above d are fixed.
Before(s, d)    == Cardinality(KeysOf(SeenOf(s), KeyIn(s), Weight[d], Cut(s)))
PrefixAt(s, d)  == (Cut(s) \div Weight[d + 1]) * Weight[d + 1]
RankAt(s, d)    == s.rank - Before(s, d + 1)
Bucket(s, d, b) == BucketOf(SeenOf(s), KeyIn(s), Weight[d], Radix, Cut(s), b)

\* The rounds of __syncthreads a warp has arrived at in each place.
ClearAt(d)  == IF d = Digits - 1 THEN 0 ELSE 1 + 3 * (Digits - 1 - d)
CountAt(d)  == ClearAt(d) + 1
SelectAt(d) == 3 + 3 * (Digits - 1 - d)
RoundsAt(pc, d) ==
  CASE pc \in {"gather", "range"} -> 0
    [] pc = "clear"  -> ClearAt(d)
    [] pc = "count"  -> CountAt(d)
    [] pc = "total"  -> 2
    [] pc = "check"  -> 3
    [] pc = "select" -> SelectAt(d)
    [] pc = "narrow" -> SelectAt(d) + 1

ThresholdPcs == {"gather", "range", "clear", "count", "total", "check", "select", "narrow", "done"}
Stands(s, m, e) ==
  /\ m \in [pc : ThresholdPcs, digit : 0 .. Digits - 1, rank : Int, prefix : Int] /\ e \in Nat
  /\ m.pc # "done" => /\ e = RoundsAt(m.pc, m.digit)
                      /\ m.rank = RankAt(s, m.digit) /\ m.prefix = PrefixAt(s, m.digit)
  /\ m.pc \in {"gather", "range", "total", "check"} => m.digit = Digits - 1
  /\ KeepsAll(s) => m.pc \in {"gather", "range", "done"} /\ e = 0
  /\ ~KeepsAll(s) /\ TooFew(s) =>
       m.pc \notin {"select", "narrow"} /\ m.digit = Digits - 1 /\ (m.pc = "done" => e = 3)
  /\ ~KeepsAll(s) /\ ~TooFew(s) /\ m.pc = "done" => e = SelectAt(0) + 1

\* Who clears a bin and who reads a sample.
Owner(b)  == (b \div Lanes) % NumWarps
Reader(i) == ((i - 1) \div Lanes) % NumWarps

\* No warp is more than a round ahead, and none clears before all have done
\* with the histogram.
Paced ==
  /\ \A v, w \in Warp : entered[v] <= entered[w] + 1
  /\ \A v, w \in Warp : warp[w].pc = "clear" => entered[v] >= entered[w]

\* While all are in the rounds of a digit, a bin that was cleared holds what
\* the warps that have counted found of it.
Counted(d, b) == {i \in Bucket(sampling, d, b) : entered[Reader(i)] > CountAt(d)}
InDigit(d) == \A v \in Warp : ClearAt(d) <= entered[v] /\ entered[v] <= SelectAt(d) + 1
BinsRight ==
  /\ histogram = [b \in Bin |-> histogram[b]]
  /\ \A d \in 0 .. Digits - 1, b \in Bin :
       InDigit(d) /\ CountAt(d) <= entered[Owner(b)] => histogram[b] = Cardinality(Counted(d, b))

\* What warp 0 left for the others, until it writes the next.
SharedRight ==
  /\ entered[0] >= 3 => shared.valid = Cardinality(SeenOf(sampling))
  /\ \A d \in 0 .. Digits - 1 :
       SelectAt(d) < entered[0] /\ entered[0] <= SelectAt(d) + 3 =>
         /\ shared.byte = DigitOf(Cut(sampling), d)
         /\ shared.greater = Before(sampling, d) - Before(sampling, d + 1)

Concluded ==
  warp[0].pc = "done" =>
    threshold = IF KeepsAll(sampling) \/ TooFew(sampling) THEN MinusInfinity ELSE Cut(sampling)

\* Where the warps are, and what the samples are.
InStep ==
  /\ sampling \in Samplings
  /\ warp = [w \in Warp |-> warp[w]] /\ entered = [w \in Warp |-> entered[w]]
  /\ \A w \in Warp : Stands(sampling, warp[w], entered[w])
  /\ \A w \in Warp : warp[w].pc # "gather" => gathered = [i \in DOMAIN sampling.ids |-> sampling.ids[i]]
  /\ Paced

ThresholdInv ==
  /\ shared \in [byte : Int, greater : Int, valid : Int]
  /\ InStep /\ BinsRight /\ SharedRight /\ Concluded

LEMMA WeightIs ==
  /\ Weight[0] = 1
  /\ \A d \in Nat : Weight[d] \in Nat \ {0} /\ Weight[d + 1] = Radix * Weight[d]
<1>1. Radix \in Nat \ {0}
  BY ThresholdAssumption
<1>2. Weight = CHOOSE g : g = [d \in Nat |-> IF d = 0 THEN 1 ELSE Radix * g[d - 1]]
  BY DEF Weight
<1> QED BY <1>1, <1>2, PowersOf

\* What a sampling has.
LEMMA SamplingIs ==
  ASSUME NEW s \in Samplings
  PROVE  /\ s.rank \in Nat \ {0}
         /\ SeenOf(s) \subseteq 1 .. Len(s.ids) /\ IsFiniteSet(SeenOf(s)) /\ DOMAIN s.ids = 1 .. Len(s.ids)
         /\ Cardinality(SeenOf(s)) \in Nat
         /\ \A i \in SeenOf(s) : /\ KeyIn(s)[i] = s.key[s.ids[i]]
                                 /\ KeyIn(s)[i] \in Nat /\ KeyIn(s)[i] < Weight[Digits]
<1>1. /\ s.ids \in Seq(Nat) /\ s.rank \in 1 .. Len(s.ids) /\ Digits \in Nat
      /\ \A i \in DOMAIN s.ids : s.key[s.ids[i]] \in {NotFinite} \cup 1 .. Weight[Digits] - 1
  BY ThresholdAssumption
<1>2. DOMAIN s.ids = 1 .. Len(s.ids) /\ Len(s.ids) \in Nat /\ SeenOf(s) \subseteq 1 .. Len(s.ids)
  BY <1>1 DEF SeenOf
<1>3. IsFiniteSet(SeenOf(s))
  BY <1>2, NumbersAreFinite, FS_Subset
<1>4. \A i \in SeenOf(s) : KeyIn(s)[i] = s.key[s.ids[i]]
  BY DEF SeenOf, KeyIn
<1>5. Weight[Digits] \in Nat \ {0}
  BY <1>1, WeightIs
<1>6. ASSUME NEW i \in SeenOf(s) PROVE KeyIn(s)[i] \in Nat /\ KeyIn(s)[i] < Weight[Digits]
  <2>1. s.key[s.ids[i]] # NotFinite /\ i \in DOMAIN s.ids
    BY DEF SeenOf
  <2>2. s.key[s.ids[i]] \in 1 .. Weight[Digits] - 1
    BY <1>1, <2>1
  <2> QED BY <2>2, <1>4, <1>5
<1> QED BY <1>1, <1>2, <1>3, <1>4, <1>6, FS_CardinalityType

LEMMA CutIs ==
  ASSUME NEW s \in Samplings
  PROVE  /\ Cut(s) \in Nat /\ Cut(s) < Weight[Digits]
         /\ ~TooFew(s) => IsCut(s, Cut(s))
<1>1. Weight[Digits] \in Nat \ {0}
  BY WeightIs, ThresholdAssumption
<1>2. CASE TooFew(s)
  BY <1>1, <1>2 DEF Cut
<1>3. CASE ~TooFew(s)
  <2>1. s.rank <= Cardinality(SeenOf(s))
    BY <1>3, SamplingIs DEF TooFew
  <2>2. \E t : IsCut(s, t)
    <3> DEFINE S == SeenOf(s)
               k == KeyIn(s)
               r == s.rank
               n == Weight[Digits]
    <3>1. /\ IsFiniteSet(S) /\ r \in Nat \ {0} /\ r <= Cardinality(S) /\ n \in Nat
          /\ (\A i \in S : k[i] \in Nat) /\ (\A i \in S : k[i] < n)
      BY <1>1, <2>1, SamplingIs
    <3> HIDE DEF S, k, r, n
    <3>2. \E t \in Nat : t < n /\ CutsAt(S, k, r, t)
      BY ONLY <3>1, CutExists
    <3> QED BY <3>2 DEF IsCut, S, k, r, n
  <2>3. IsCut(s, Cut(s))
    BY <1>3, <2>2 DEF Cut
  <2> QED BY <2>3 DEF IsCut
<1> QED BY <1>2, <1>3

\* Above the first digit nothing is fixed, and nothing is greater.
LEMMA TopIs ==
  ASSUME NEW s \in Samplings
  PROVE  /\ Cut(s) \div Weight[Digits] = 0
         /\ \A i \in SeenOf(s) : KeyIn(s)[i] \div Weight[Digits] = 0
         /\ RankAt(s, Digits - 1) = s.rank /\ PrefixAt(s, Digits - 1) = 0
<1> DEFINE n == Weight[Digits]
<1>1. n \in Nat \ {0} /\ Digits - 1 + 1 = Digits
  BY WeightIs, ThresholdAssumption
<1>2. ASSUME NEW x \in Nat, x < n PROVE x \div n = 0
  <2> HIDE DEF n
  <2>1. x = 0 * n + x /\ x \in 0 .. n - 1
    BY <1>1, <1>2
  <2> QED BY <1>1, <2>1, DivUnique
<1>3. Cut(s) \div n = 0
  BY <1>2, CutIs
<1>4. \A i \in SeenOf(s) : KeyIn(s)[i] \div n = 0
  BY <1>2, SamplingIs
<1>5. Before(s, Digits) = 0
  <2>1. KeysOf(SeenOf(s), KeyIn(s), n, Cut(s)) = {}
    <3> HIDE DEF n
    <3> QED BY <1>3, <1>4 DEF KeysOf
  <2> QED BY <2>1, FS_EmptySet DEF Before
<1>6. 0 * n = 0
  BY <1>1
<1> QED BY <1>1, <1>3, <1>4, <1>5, <1>6, SamplingIs DEF RankAt, PrefixAt

\* The registers before a digit and after it.
LEMMA PrefixIs ==
  ASSUME NEW s \in Samplings, NEW d \in 0 .. Digits - 1
  PROVE  /\ DigitOf(Cut(s), d) \in Bin
         /\ PrefixAt(s, d) \in Int /\ RankAt(s, d) \in Int
         /\ Before(s, d) \in Nat /\ Before(s, d + 1) \in Nat
         /\ AboveDigit(PrefixAt(s, d), d) = Cut(s) \div Weight[d + 1]
         /\ PrefixAt(s, d) + DigitOf(Cut(s), d) * Weight[d] = (Cut(s) \div Weight[d]) * Weight[d]
         /\ Cut(s) \div Weight[0] = Cut(s)
<1> DEFINE t == Cut(s)
           w == Weight[d]
           v == Weight[d + 1]
           p == t \div v
           e == (t \div w) % Radix
<1>1. w \in Nat \ {0} /\ v \in Nat \ {0} /\ v = Radix * w /\ Radix \in Nat \ {0} /\ t \in Nat
  <2>1. d \in Nat /\ Radix \in Nat \ {0}
    BY ThresholdAssumption
  <2>2. w \in Nat \ {0} /\ v = Radix * w
    BY <2>1, WeightIs
  <2>3. v \in Nat \ {0}
    <3>1. d + 1 \in Nat
      BY <2>1
    <3> QED BY <3>1, WeightIs
  <2>4. t \in Nat
    BY CutIs
  <2> QED BY <2>1, <2>2, <2>3, <2>4
<1>2. /\ p \in Nat /\ e \in 0 .. Radix - 1 /\ t \div w \in Nat /\ t \div w = p * Radix + e
  <2> HIDE DEF w, t
  <2> QED BY <1>1, DigitSplits
<1>3. \A x \in {d, d + 1} : Before(s, x) \in Nat
  <2> TAKE x \in {d, d + 1}
  <2>1. KeysOf(SeenOf(s), KeyIn(s), Weight[x], Cut(s)) \subseteq SeenOf(s)
    BY DEF KeysOf
  <2> QED BY <2>1, SamplingIs, FS_Subset, FS_CardinalityType DEF Before
<1>4. PrefixAt(s, d) = p * v /\ DigitOf(t, d) = e /\ AboveDigit(PrefixAt(s, d), d) = (p * v) \div v
  BY DEF PrefixAt, DigitOf, AboveDigit
<1>5. (p * v) \div v = p
  <2> HIDE DEF p, v
  <2>1. p * v = p * v + 0 /\ p * v \in Int /\ 0 \in 0 .. v - 1
    BY <1>1, <1>2
  <2> QED BY <1>1, <1>2, <2>1, DivUnique
<1>6. p * v + e * w = (t \div w) * w
  <2> DEFINE q == t \div w
  <2>1. q = p * Radix + e
    BY <1>2
  <2> HIDE DEF q, p, e, w, v
  <2> QED BY <1>1, <1>2, <2>1, Z3
<1>7. t \div 1 = t
  <2> HIDE DEF t
  <2>1. t \in Int /\ t = t * 1 + 0 /\ 0 \in 0 .. 1 - 1 /\ 1 \in Nat \ {0}
    BY <1>1
  <2> QED BY ONLY <2>1, DivUnique
<1>8. p * v \in Int /\ s.rank \in Int /\ DigitOf(t, d) \in Bin
  <2> HIDE DEF t, p, v, e
  <2>1. p * v \in Int
    BY <1>1, <1>2
  <2>2. s.rank \in Int
    BY SamplingIs
  <2>3. DigitOf(t, d) \in Bin
    BY <1>2, <1>4 DEF Bin
  <2> QED BY <2>1, <2>2, <2>3
<1>9. RankAt(s, d) \in Int
  BY <1>3, <1>8 DEF RankAt
<1>10. t \div Weight[0] = t
  BY <1>7, WeightIs
<1> QED BY <1>3, <1>4, <1>5, <1>6, <1>8, <1>9, <1>10

\* The bin that holds the rank is the digit of the cut.
LEMMA BinIsFound ==
  ASSUME NEW s \in Samplings, ~TooFew(s), NEW d \in 0 .. Digits - 1,
         NEW h, \A b \in Bin : h[b] = Cardinality(Bucket(s, d, b))
  PROVE  /\ BinsOfRank(h, RankAt(s, d), Bin) = {DigitOf(Cut(s), d)}
         /\ CountAbove(h, DigitOf(Cut(s), d)) = Before(s, d) - Before(s, d + 1)
<1> DEFINE S == SeenOf(s)
           k == KeyIn(s)
           t == Cut(s)
           r == s.rank
           w == Weight[d]
           before == Cardinality(KeysOf(S, k, Radix * w, t))
           digit == (t \div w) % Radix
<1>1. /\ IsFiniteSet(S) /\ (\A i \in S : k[i] \in Nat) /\ r \in Nat
      /\ t \in Nat /\ CutsAt(S, k, r, t)
  BY SamplingIs, CutIs DEF IsCut
<1>2. d \in Nat /\ w \in Nat \ {0} /\ Radix \in Nat \ {0} /\ Weight[d + 1] = Radix * w
  <2>1. d \in Nat /\ Radix \in Nat \ {0}
    BY ThresholdAssumption
  <2> QED BY <2>1, WeightIs
<1>3. \A b \in 0 .. Radix - 1 : h[b] = Cardinality(BucketOf(S, k, w, Radix, t, b))
  BY DEF Bin, Bucket
<1>4. /\ Before(s, d + 1) = before /\ Before(s, d) = Cardinality(KeysOf(S, k, w, t))
      /\ RankAt(s, d) = r - before /\ DigitOf(t, d) = digit
  BY <1>2 DEF Before, RankAt, DigitOf
<1> HIDE DEF S, k, t, r, w
<1>5. RankIsAt(S, k, w, Radix, t, r, h)
  BY ONLY <1>1, <1>2, <1>3, RankBin
<1>10. /\ before \in Nat /\ digit \in 0 .. Radix - 1
      /\ SumOver(h, digit + 1 .. Radix - 1) = Cardinality(KeysOf(S, k, w, t)) - before
      /\ \A b \in 0 .. Radix - 1 :
           /\ SumOver(h, b + 1 .. Radix - 1) \in Nat /\ h[b] \in Nat
           /\ SumOver(h, b + 1 .. Radix - 1) < r - before
              /\ r - before <= SumOver(h, b + 1 .. Radix - 1) + h[b]
              <=> b = digit
  BY <1>5 DEF RankIsAt
<1>6. \A b : CountAbove(h, b) = SumOver(h, b + 1 .. Radix - 1)
  BY DEF CountAbove, CountIn, SumOver
<1> HIDE DEF before, digit
<1>7. \A b \in Bin : CountAbove(h, b) < r - before /\ r - before <= CountAbove(h, b) + h[b] <=> b = digit
  BY <1>10, <1>6 DEF Bin
<1>8. BinsOfRank(h, r - before, Bin) = {digit}
  BY <1>10, <1>7 DEF BinsOfRank, Bin
<1>9. CountAbove(h, digit) = Cardinality(KeysOf(S, k, w, t)) - before
  BY <1>10, <1>6
<1> QED BY <1>4, <1>8, <1>9 DEF t

\* At the first digit the bins count every sample that is seen.
LEMMA AllAreCounted ==
  ASSUME NEW s \in Samplings, NEW h, \A b \in Bin : h[b] = Cardinality(Bucket(s, Digits - 1, b))
  PROVE  CountIn(h, Bin) = Cardinality(SeenOf(s))
<1> DEFINE A == [b \in Bin |-> Bucket(s, Digits - 1, b)]
           w == Weight[Digits - 1]
<1>1. /\ Digits - 1 \in Nat /\ w \in Nat \ {0} /\ Radix \in Nat \ {0} /\ Weight[Digits] = Radix * w
  <2>1. Digits - 1 \in Nat /\ (Digits - 1) + 1 = Digits /\ Radix \in Nat \ {0}
    BY ThresholdAssumption
  <2>2. Weight[(Digits - 1) + 1] = Radix * w /\ w \in Nat \ {0}
    BY <2>1, WeightIs
  <2> QED BY <2>1, <2>2
<1>2. IsFiniteSet(Bin)
  BY <1>1, FS_Interval DEF Bin
<1>3. \A b \in Bin : A[b] \subseteq SeenOf(s) /\ A[b] = Bucket(s, Digits - 1, b)
  BY DEF Bucket, BucketOf
<1>4. \A b \in Bin : IsFiniteSet(A[b]) /\ h[b] = Cardinality(A[b])
  BY <1>3, SamplingIs, FS_Subset
<1>5. \A b, c \in Bin : b # c => A[b] \cap A[c] = {}
  BY DEF Bucket, BucketOf
<1>6. UnionOver(Bin, A) = SeenOf(s)
  <2>1. ASSUME NEW i \in SeenOf(s) PROVE \E b \in Bin : i \in A[b]
    <3> DEFINE b == (KeyIn(s)[i] \div w) % Radix
    <3>1. b \in Bin
      <4>1. KeyIn(s)[i] \in Nat
        BY SamplingIs
      <4> HIDE DEF w
      <4>2. b \in 0 .. Radix - 1
        BY <1>1, <4>1, DigitSplits
      <4> QED BY <4>2 DEF Bin
    <3>2. KeyIn(s)[i] \div (Radix * w) = Cut(s) \div (Radix * w)
      BY <1>1, TopIs
    <3>3. i \in A[b]
      BY <3>1, <3>2 DEF Bucket, BucketOf
    <3> QED BY <3>1, <3>3
  <2> HIDE DEF A
  <2> QED BY <2>1, <1>3 DEF UnionOver
<1>7. CountIn(h, Bin) = SumOver(h, Bin)
  BY DEF CountIn, SumOver
<1> HIDE DEF A
<1> QED BY <1>2, <1>4, <1>5, <1>6, <1>7, SumOfSizes

\* Every bin is cleared, and every sample read, by one warp.
LEMMA WarpOf ==
  /\ \A b \in Bin : Owner(b) \in Warp
  /\ \A i \in Nat \ {0} : Reader(i) \in Warp
  /\ 0 \in Warp /\ Digits \in Nat \ {0}
<1>1. NumWarps \in Nat \ {0} /\ Lanes \in Nat \ {0} /\ Digits \in Nat \ {0}
  BY ThresholdAssumption
<1>2. \A n \in Nat : (n \div Lanes) % NumWarps \in Warp
  <2> TAKE n \in Nat
  <2>1. n \div Lanes \in Nat
    BY <1>1, DivFloor
  <2> DEFINE q == n \div Lanes
  <2> HIDE DEF q
  <2>2. q % NumWarps \in 0 .. NumWarps - 1
    BY <1>1, <2>1, DivFloor DEF q
  <2> QED BY <2>2 DEF Warp, q
<1>3. \A i \in Nat \ {0} : i - 1 \in Nat
  OBVIOUS
<1>4. \A b \in Bin : b \in Nat
  BY DEF Bin
<1> QED BY <1>1, <1>2, <1>3, <1>4 DEF Owner, Reader, Warp

\* The rounds of different digits do not meet.
LEMMA RoundsApart ==
  ASSUME NEW d \in 0 .. Digits - 1, NEW c \in 0 .. Digits - 1, NEW e \in Nat,
         ClearAt(c) <= e, e <= SelectAt(c) + 1
  PROVE  /\ CountAt(d) <= e /\ e <= SelectAt(d) => c = d
         /\ e = SelectAt(d) + 1 => c = d \/ CountAt(c) = e + 1
  BY ThresholdAssumption DEF ClearAt, CountAt, SelectAt

\* The rounds of a digit follow each other.
LEMMA RoundsFollow ==
  ASSUME NEW d \in 0 .. Digits - 1
  PROVE  /\ ClearAt(d) \in Nat /\ CountAt(d) = ClearAt(d) + 1 /\ SelectAt(d) \in Nat
         /\ CountAt(d) < SelectAt(d)
         /\ d = Digits - 1 => ClearAt(d) = 0 /\ SelectAt(d) = 3
         /\ d # Digits - 1 => /\ CountAt(d) + 1 = SelectAt(d) /\ d + 1 \in 0 .. Digits - 1
                              /\ ClearAt(d) = SelectAt(d + 1) + 1 /\ SelectAt(d) = SelectAt(d + 1) + 3
         /\ d # 0 => d - 1 \in 0 .. Digits - 1 /\ ClearAt(d - 1) = SelectAt(d) + 1
  BY ThresholdAssumption DEF ClearAt, CountAt, SelectAt

\* A warp that goes on alone keeps pace with the others.
LEMMA StepKeeps ==
  ASSUME InStep, NEW w \in Warp, NEW m, warp' = [warp EXCEPT ![w] = m],
         sampling' = sampling, gathered' = gathered, warp[w].pc # "gather", Synced(w),
         \/ entered' = entered
         \/ entered' = [entered EXCEPT ![w] = @ + 1] /\ m.pc # "clear",
         Stands(sampling, m, entered'[w])
  PROVE  InStep'
<1>1. /\ warp = [v \in Warp |-> warp[v]] /\ entered = [v \in Warp |-> entered[v]]
      /\ \A v \in Warp : Stands(sampling, warp[v], entered[v]) /\ entered[v] \in Nat
      /\ \A u, v \in Warp : entered[v] <= entered[u] + 1
      /\ \A u, v \in Warp : warp[u].pc = "clear" => entered[v] >= entered[u]
  BY DEF InStep, Paced, Stands
<1>2. /\ warp' = [v \in Warp |-> warp'[v]] /\ warp'[w] = m
      /\ \A v \in Warp : v # w => warp'[v] = warp[v]
  <2> HIDE DEF InStep
  <2> QED BY <1>1
<1>3. /\ entered' = [v \in Warp |-> entered'[v]]
      /\ \A v \in Warp : v # w => entered'[v] = entered[v]
      /\ entered'[w] = entered[w] \/ entered'[w] = entered[w] + 1
      /\ m.pc = "clear" => entered'[w] = entered[w]
  <2>1. CASE entered' = entered
    BY <1>1, <2>1
  <2>2. CASE entered' = [entered EXCEPT ![w] = @ + 1] /\ m.pc # "clear"
    BY <1>1, <2>2
  <2> QED BY <2>1, <2>2
<1>4. \A v \in Warp : entered[v] >= entered[w]
  BY DEF Synced
<1>5. \A v \in Warp : Stands(sampling', warp'[v], entered'[v])
  <2> TAKE v \in Warp
  <2>1. CASE v = w
    BY <2>1, <1>2
  <2>2. CASE v # w
    BY <2>2, <1>1, <1>2, <1>3
  <2> QED BY <2>1, <2>2
<1>6. ASSUME NEW u \in Warp, NEW v \in Warp
      PROVE  /\ entered'[v] <= entered'[u] + 1
             /\ warp'[u].pc = "clear" => entered'[v] >= entered'[u]
  <2>1. entered[w] \in Nat /\ entered[u] \in Nat /\ entered[v] \in Nat
    BY <1>1
  <2>2. entered[v] <= entered[u] + 1 /\ entered[v] >= entered[w] /\ entered[u] >= entered[w]
    BY <1>1, <1>4
  <2>3. entered[v] <= entered[w] + 1 /\ entered[w] <= entered[u] + 1
    BY <1>1
  <2>4. entered'[v] <= entered'[u] + 1
    BY <1>3, <2>1, <2>2, <2>3
  <2>5. ASSUME warp'[u].pc = "clear" PROVE entered'[v] >= entered'[u]
    <3>1. CASE u = w
      BY <3>1, <2>5, <2>1, <2>2, <1>2, <1>3
    <3>2. CASE u # w
      BY <3>2, <2>5, <2>1, <1>1, <1>2, <1>3
    <3> QED BY <3>1, <3>2
  <2> QED BY <2>4, <2>5
<1>7. gathered' = [i \in DOMAIN sampling'.ids |-> sampling'.ids[i]] /\ sampling' \in Samplings
  BY DEF InStep
<1> QED BY <1>2, <1>3, <1>5, <1>6, <1>7 DEF InStep, Paced

\* What the invariant says of one warp.
LEMMA WarpStands ==
  ASSUME InStep, NEW w \in Warp
  PROVE  /\ sampling \in Samplings /\ Stands(sampling, warp[w], entered[w])
         /\ entered[w] \in Nat /\ warp[w].digit \in 0 .. Digits - 1
         /\ warp[w] \in [pc : ThresholdPcs, digit : 0 .. Digits - 1, rank : Int, prefix : Int]
         /\ \A v \in Warp : entered[v] \in Nat /\ entered[v] <= entered[w] + 1
BY DEF InStep, Stands, Paced

\* Steps that leave the histogram, or the shared numbers, alone.
LEMMA BinsKept ==
  ASSUME BinsRight, sampling' = sampling, entered' = entered, histogram' = histogram
  PROVE  BinsRight'
BY DEF BinsRight, InDigit, Counted

LEMMA SharedKept ==
  ASSUME SharedRight, sampling' = sampling, shared' = shared, entered'[0] = entered[0]
  PROVE  SharedRight'
BY DEF SharedRight

LEMMA ConcludedKept ==
  ASSUME InStep, Concluded, sampling' = sampling, threshold' = threshold,
         NEW w \in Warp, NEW m, warp' = [warp EXCEPT ![w] = m],  m.pc # "done"
  PROVE  Concluded'
<1>1. warp' = [warp EXCEPT ![w] = m] /\ warp = [v \in Warp |-> warp[v]] /\ 0 \in Warp
  BY WarpOf DEF InStep
<1>2. warp'[0] = m \/ warp'[0] = warp[0]
  BY <1>1
<1> QED BY <1>2 DEF Concluded

\* Once every warp is past its count, the bins hold all of the digit.
LEMMA BinsAreFull ==
  ASSUME InStep, BinsRight, NEW w \in Warp, Synced(w), NEW d \in 0 .. Digits - 1,
         entered[w] > CountAt(d), entered[w] <= SelectAt(d)
  PROVE  \A b \in Bin : histogram[b] = Cardinality(Bucket(sampling, d, b))
<1> TAKE b \in Bin
<1>1. CountAt(d) \in Nat /\ ClearAt(d) < CountAt(d) /\ SelectAt(d) \in Nat /\ entered[w] \in Nat
  BY RoundsFollow, WarpStands
<1>2. \A v \in Warp : /\ entered[v] \in Nat /\ entered[v] >= entered[w] /\ entered[v] <= entered[w] + 1
                      /\ ClearAt(d) <= entered[v]
  BY <1>1, WarpStands, RoundsFollow DEF Synced
<1>3. \A v \in Warp : entered[v] > CountAt(d) /\ entered[v] <= SelectAt(d) + 1
  BY <1>1, <1>2
<1>4. InDigit(d) /\ CountAt(d) <= entered[Owner(b)]
  BY <1>1, <1>2, <1>3, WarpOf DEF InDigit
<1>5. Counted(d, b) = Bucket(sampling, d, b)
  <2>1. \A i \in Bucket(sampling, d, b) : Reader(i) \in Warp
    <3>1. SeenOf(sampling) \subseteq 1 .. Len(sampling.ids)
      BY SamplingIs DEF InStep
    <3> QED BY <3>1, WarpOf DEF Bucket, BucketOf
  <2> QED BY <2>1, <1>3 DEF Counted
<1> QED BY <1>4, <1>5 DEF BinsRight

\* Arriving at a later round of the digit changes nothing about the bins.
LEMMA BinsPast ==
  ASSUME InStep, BinsRight, NEW w \in Warp, Synced(w), NEW d \in 0 .. Digits - 1,
         entered[w] > CountAt(d), entered[w] <= SelectAt(d),
         sampling' = sampling, histogram' = histogram, entered' = [entered EXCEPT ![w] = @ + 1]
  PROVE  BinsRight'
<1>1. /\ CountAt(d) \in Nat /\ ClearAt(d) \in Nat /\ SelectAt(d) \in Nat
      /\ ClearAt(d) < CountAt(d) /\ CountAt(d) < SelectAt(d)
  BY RoundsFollow
<1>2. \A v \in Warp : /\ entered[v] \in Nat /\ entered[v] >= entered[w] /\ entered[v] <= entered[w] + 1
                      /\ entered'[v] = IF v = w THEN entered[w] + 1 ELSE entered[v]
  BY WarpStands DEF Synced, InStep
<1>3. \A v \in Warp : entered'[v] \in Nat /\ entered'[v] <= entered'[w] /\ entered'[w] = entered[w] + 1
  BY <1>2
<1>4. ASSUME NEW c \in 0 .. Digits - 1, NEW b \in Bin, InDigit(c)', CountAt(c) <= entered'[Owner(b)]
      PROVE  histogram'[b] = Cardinality(Counted(c, b)')
  <2>1. ClearAt(c) <= entered'[w] /\ entered'[w] <= SelectAt(c) + 1
    BY <1>4 DEF InDigit
  <2>2. c = d
    <3>1. CASE entered'[w] <= SelectAt(d)
      BY <3>1, <2>1, <1>1, <1>2, <1>3, RoundsApart
    <3>2. CASE entered'[w] = SelectAt(d) + 1
      <4>1. Owner(b) \in Warp
        BY WarpOf
      <4>2. CountAt(c) \in Nat /\ CountAt(c) <= entered'[w] /\ entered'[w] \in Nat
        BY <4>1, <1>3, <1>4, RoundsFollow
      <4>3. c = d \/ CountAt(c) = entered'[w] + 1
        BY <4>2, <3>2, <2>1, RoundsApart
      <4> QED BY <4>2, <4>3
    <3> QED BY <3>1, <3>2, <1>1, <1>2, <1>3
  <2>3. histogram[b] = Cardinality(Bucket(sampling, d, b))
    BY BinsAreFull
  <2>4. Counted(d, b)' = Bucket(sampling, d, b)
    <3>1. \A i \in Bucket(sampling, d, b) : Reader(i) \in Warp
      <4>1. SeenOf(sampling) \subseteq 1 .. Len(sampling.ids)
        BY SamplingIs DEF InStep
      <4> QED BY <4>1, WarpOf DEF Bucket, BucketOf
    <3>2. \A v \in Warp : entered'[v] > CountAt(d)
      BY <1>1, <1>2
    <3> QED BY <3>1, <3>2 DEF Counted
  <2> QED BY <2>2, <2>3, <2>4
<1>5. histogram' = [b \in Bin |-> histogram'[b]]
  BY DEF BinsRight
<1> QED BY <1>4, <1>5 DEF BinsRight

\* What warp 0 published stays, while it clears and counts.
LEMMA SharedPast ==
  ASSUME InStep, SharedRight, NEW w \in Warp, NEW d \in 0 .. Digits - 1,
         entered[w] = ClearAt(d) \/ entered[w] = CountAt(d),
         sampling' = sampling, shared' = shared, entered' = [entered EXCEPT ![w] = @ + 1]
  PROVE  SharedRight'
<1>1. 0 \in Warp /\ entered[0] \in Nat
  BY WarpOf, WarpStands
<1>2. CASE w # 0
  <2>1. entered'[0] = entered[0]
    BY <1>1, <1>2 DEF InStep
  <2> QED BY <2>1, SharedKept
<1>3. CASE w = 0
  <2>1. entered'[0] = entered[0] + 1
    BY <1>1, <1>3 DEF InStep
  <2>2. Digits \in Nat \ {0} /\ (entered[0] = ClearAt(d) \/ entered[0] = CountAt(d))
    BY <1>3, WarpOf
  <2>3. entered'[0] >= 3 => entered[0] >= 3
    BY <1>1, <2>1, <2>2 DEF ClearAt, CountAt
  <2>4. \A c \in 0 .. Digits - 1 : SelectAt(c) < entered'[0] => SelectAt(c) < entered[0]
    BY <1>1, <2>1, <2>2 DEF ClearAt, CountAt, SelectAt
  <2>5. \A c \in 0 .. Digits - 1 : entered'[0] <= SelectAt(c) + 3 => entered[0] <= SelectAt(c) + 3
    BY <1>1, <2>1, <2>2 DEF SelectAt
  <2> QED BY <2>3, <2>4, <2>5 DEF SharedRight
<1> QED BY <1>2, <1>3

---------------------------------------------------------------------------
(* Every step keeps the invariant.                                          *)

LEMMA InvStarts == ThresholdInit => ThresholdInv
<1> SUFFICES ASSUME ThresholdInit PROVE ThresholdInv
  OBVIOUS
<1>1. sampling \in Samplings /\ Digits \in Nat \ {0} /\ Radix \in Nat \ {0, 1} /\ sampling.rank \in Int
  <2>1. sampling \in Samplings
    BY DEF ThresholdInit
  <2> QED BY <2>1, ThresholdAssumption, SamplingIs
<1>2. \A w \in Warp : /\ warp[w] = [pc |-> "gather", digit |-> Digits - 1, rank |-> sampling.rank, prefix |-> 0]
                      /\ entered[w] = 0
  BY DEF ThresholdInit
<1>3. \A w \in Warp : Stands(sampling, warp[w], entered[w])
  <2> TAKE w \in Warp
  <2>1. RankAt(sampling, Digits - 1) = sampling.rank /\ PrefixAt(sampling, Digits - 1) = 0
    BY <1>1, TopIs
  <2> QED BY <1>1, <1>2, <2>1 DEF Stands, ThresholdPcs, RoundsAt
<1>4. warp = [w \in Warp |-> warp[w]] /\ entered = [w \in Warp |-> entered[w]]
  BY DEF ThresholdInit
<1>5. InStep
  BY <1>1, <1>2, <1>3, <1>4 DEF InStep, Paced
<1>6. BinsRight
  <2>1. \A d \in 0 .. Digits - 1, b \in Bin : ~(CountAt(d) <= entered[Owner(b)])
    <3> TAKE d \in 0 .. Digits - 1, b \in Bin
    <3>1. entered[Owner(b)] = 0 /\ CountAt(d) \in Nat /\ CountAt(d) > 0
      BY <1>2, WarpOf, RoundsFollow
    <3> QED BY <3>1
  <2> QED BY <2>1 DEF BinsRight, ThresholdInit
<1>7. SharedRight
  <2>1. \A d \in 0 .. Digits - 1 : SelectAt(d) \in Nat
    BY RoundsFollow
  <2>2. entered[0] = 0
    BY <1>2, WarpOf
  <2> QED BY <2>1, <2>2 DEF SharedRight
<1>8. Concluded
  BY <1>2, WarpOf DEF Concluded
<1>9. shared \in [byte : Int, greater : Int, valid : Int]
  BY <1>1 DEF ThresholdInit, Bin
<1> QED BY <1>5, <1>6, <1>7, <1>8, <1>9 DEF ThresholdInv

LEMMA GatherKeeps ==
  ASSUME ThresholdInv, Gather
  PROVE  ThresholdInv'
<1>1. /\ InStep /\ BinsRight /\ SharedRight /\ 0 \in Warp
      /\ shared \in [byte : Int, greater : Int, valid : Int]
  BY WarpOf DEF ThresholdInv
<1>2. /\ sampling' = sampling /\ entered' = entered /\ histogram' = histogram /\ shared' = shared
      /\ gathered' = [i \in DOMAIN sampling.ids |-> sampling.ids[i]]
      /\ warp' = [w \in Warp |-> [warp[w] EXCEPT !.pc = "range"]]
      /\ \A w \in Warp : warp[w].pc = "gather"
  BY DEF Gather
<1>3. \A w \in Warp : Stands(sampling', warp'[w], entered'[w]) /\ warp'[w].pc = "range"
  <2> TAKE w \in Warp
  <2> DEFINE m == warp[w]
             n == [m EXCEPT !.pc = "range"]
  <2>1. /\ m \in [pc : ThresholdPcs, digit : 0 .. Digits - 1, rank : Int, prefix : Int]
        /\ Stands(sampling, m, entered[w]) /\ m.pc = "gather" /\ warp'[w] = n
    BY <1>1, <1>2, WarpStands
  <2> HIDE DEF m
  <2>2. /\ n \in [pc : ThresholdPcs, digit : 0 .. Digits - 1, rank : Int, prefix : Int]
        /\ n.pc = "range" /\ n.digit = m.digit /\ n.rank = m.rank /\ n.prefix = m.prefix
    BY <2>1 DEF ThresholdPcs
  <2> HIDE DEF n
  <2>3. Stands(sampling, n, entered[w])
    BY <2>1, <2>2 DEF Stands, RoundsAt
  <2> QED BY <2>1, <2>2, <2>3, <1>2
<1>4. InStep'
  BY <1>1, <1>2, <1>3 DEF InStep, Paced
<1>5. BinsRight' /\ SharedRight'
  BY <1>1, <1>2, BinsKept, SharedKept
<1>6. Concluded'
  BY <1>1, <1>3 DEF Concluded
<1> QED BY <1>1, <1>2, <1>4, <1>5, <1>6 DEF ThresholdInv

LEMMA CheckRangeKeeps ==
  ASSUME ThresholdInv, NEW w \in Warp, CheckRange(w)
  PROVE  ThresholdInv'
<1> DEFINE keeps == sampling.end - sampling.start <= Target
           pc == IF keeps THEN "done" ELSE "clear"
           m == [warp[w] EXCEPT !.pc = pc]
<1>1. /\ InStep /\ BinsRight /\ SharedRight /\ Concluded /\ 0 \in Warp
      /\ shared \in [byte : Int, greater : Int, valid : Int]
  BY WarpOf DEF ThresholdInv
<1>2. /\ sampling' = sampling /\ gathered' = gathered /\ entered' = entered
      /\ histogram' = histogram /\ shared' = shared
      /\ warp[w].pc = "range" /\ warp' = [warp EXCEPT ![w] = m]
      /\ threshold' = IF keeps /\ w = 0 THEN MinusInfinity ELSE threshold
  BY DEF CheckRange, Goto
<1>3. keeps <=> KeepsAll(sampling)
  BY DEF KeepsAll
<1>4. /\ warp[w] \in [pc : ThresholdPcs, digit : 0 .. Digits - 1, rank : Int, prefix : Int]
      /\ Stands(sampling, warp[w], entered[w]) /\ entered[w] \in Nat
  BY <1>1, WarpStands
<1>5. /\ m \in [pc : ThresholdPcs, digit : 0 .. Digits - 1, rank : Int, prefix : Int]
      /\ m.pc = pc /\ m.digit = warp[w].digit /\ m.rank = warp[w].rank /\ m.prefix = warp[w].prefix
  BY <1>4 DEF ThresholdPcs
<1> HIDE DEF m, keeps
<1>6. entered[w] = 0 /\ warp[w].digit = Digits - 1
  BY <1>2, <1>4 DEF Stands, RoundsAt
<1>7. Stands(sampling, m, entered[w])
  <2>1. Digits - 1 \in 0 .. Digits - 1
    BY WarpOf
  <2>2. ClearAt(Digits - 1) = 0
    BY <2>1, RoundsFollow
  <2> QED BY <1>2, <1>3, <1>4, <1>5, <1>6, <2>2 DEF Stands, RoundsAt
<1>8. Synced(w)
  BY <1>1, <1>6, WarpStands DEF Synced
<1>9. InStep'
  BY <1>1, <1>2, <1>7, <1>8, StepKeeps
<1>10. BinsRight' /\ SharedRight'
  BY <1>1, <1>2, BinsKept, SharedKept
<1>11. Concluded'
  <2>1. CASE keeps /\ w = 0
    BY <2>1, <1>2, <1>3 DEF Concluded
  <2>2. CASE keeps /\ w # 0
    <3>1. warp'[0] = warp[0]
      BY <2>2, <1>1, <1>2
    <3> QED BY <2>2, <3>1, <1>1, <1>2 DEF Concluded
  <2>3. CASE ~keeps
    <3>1. m.pc # "done" /\ threshold' = threshold
      BY <2>3, <1>2, <1>5
    <3> QED BY <3>1, <1>1, <1>2, ConcludedKept
  <2> QED BY <2>1, <2>2, <2>3
<1> QED BY <1>1, <1>2, <1>9, <1>10, <1>11 DEF ThresholdInv

LEMMA ClearKeeps ==
  ASSUME ThresholdInv, NEW w \in Warp, ClearHistogram(w)
  PROVE  ThresholdInv'
<1> DEFINE m == [warp[w] EXCEPT !.pc = "count"]
<1>1. /\ InStep /\ BinsRight /\ SharedRight /\ Concluded
      /\ shared \in [byte : Int, greater : Int, valid : Int]
  BY DEF ThresholdInv
<1>2. /\ sampling' = sampling /\ gathered' = gathered /\ shared' = shared /\ threshold' = threshold
      /\ warp[w].pc = "clear" /\ warp' = [warp EXCEPT ![w] = m]
      /\ entered' = [entered EXCEPT ![w] = @ + 1]
      /\ histogram' = [b \in Bin |-> IF Owner(b) = w THEN 0 ELSE histogram[b]]
  BY DEF ClearHistogram, Sync, Goto, Owner
<1>3. /\ warp[w] \in [pc : ThresholdPcs, digit : 0 .. Digits - 1, rank : Int, prefix : Int]
      /\ Stands(sampling, warp[w], entered[w]) /\ entered[w] \in Nat
      /\ warp[w].digit \in 0 .. Digits - 1
  BY <1>1, WarpStands
<1> PICK d \in 0 .. Digits - 1 : d = warp[w].digit
  BY <1>3
<1>4. /\ m \in [pc : ThresholdPcs, digit : 0 .. Digits - 1, rank : Int, prefix : Int]
      /\ m.pc = "count" /\ m.digit = d /\ m.rank = warp[w].rank /\ m.prefix = warp[w].prefix
  BY <1>3 DEF ThresholdPcs
<1> HIDE DEF m
<1>5. entered[w] = ClearAt(d) /\ CountAt(d) = ClearAt(d) + 1 /\ ClearAt(d) \in Nat
  BY <1>2, <1>3, RoundsFollow DEF Stands, RoundsAt
<1>6. entered'[w] = CountAt(d) /\ \A v \in Warp : v # w => entered'[v] = entered[v]
  BY <1>1, <1>2, <1>5 DEF InStep
<1>7. Stands(sampling, m, entered'[w])
  BY <1>2, <1>3, <1>4, <1>5, <1>6 DEF Stands, RoundsAt
<1>8. Synced(w)
  BY <1>1, <1>2 DEF Synced, InStep, Paced
<1>9. InStep'
  BY <1>1, <1>2, <1>4, <1>7, <1>8, StepKeeps
<1>10. SharedRight'
  BY <1>1, <1>2, <1>3, <1>5, SharedPast
<1>11. Concluded'
  BY <1>1, <1>2, <1>4, ConcludedKept
<1>12. ASSUME NEW c \in 0 .. Digits - 1, NEW b \in Bin, InDigit(c)', CountAt(c) <= entered'[Owner(b)]
       PROVE  histogram'[b] = Cardinality(Counted(c, b)')
  <2>1. ClearAt(c) <= CountAt(d) /\ CountAt(d) <= SelectAt(c) + 1 /\ CountAt(d) \in Nat /\ CountAt(d) < SelectAt(d)
    BY <1>3, <1>5, <1>6, <1>12, RoundsFollow DEF InDigit
  <2>2. c = d
    <3>1. CountAt(d) <= CountAt(d) /\ CountAt(d) <= SelectAt(d)
      BY <2>1, RoundsFollow
    <3> QED BY <2>1, <3>1, RoundsApart
  <2>3. \A v \in Warp : entered[v] \in Nat /\ entered[v] <= CountAt(d) /\ entered[v] >= ClearAt(d)
    BY <1>1, <1>5, <1>8, WarpStands DEF Synced
  <2>4. \A v \in Warp : entered[v] \in Nat /\ ~(entered[v] > CountAt(d)) /\ ~(entered'[v] > CountAt(d))
    BY <1>5, <1>6, <2>3
  <2>5. \A i \in Bucket(sampling, d, b) : Reader(i) \in Warp
    <3>1. SeenOf(sampling) \subseteq 1 .. Len(sampling.ids)
      BY <1>1, SamplingIs DEF InStep
    <3> QED BY <3>1, WarpOf DEF Bucket, BucketOf
  <2>6. Counted(c, b)' = {} /\ Counted(c, b) = {}
    BY <1>2, <2>2, <2>4, <2>5 DEF Counted
  <2>7. CASE Owner(b) = w
    <3>1. histogram'[b] = 0
      BY <2>7, <1>2
    <3>2. Cardinality(Counted(c, b)') = 0
      BY <2>6, FS_EmptySet
    <3> QED BY <3>1, <3>2
  <2>8. CASE Owner(b) # w
    <3>1. InDigit(d)
      BY <2>1, <2>3, <1>5, RoundsFollow DEF InDigit
    <3>2. CountAt(d) <= entered[Owner(b)]
      BY <2>2, <2>8, <1>6, <1>12, WarpOf
    <3>3. histogram[b] = Cardinality(Counted(c, b))
      BY <1>1, <2>2, <3>1, <3>2 DEF BinsRight
    <3> QED BY <2>2, <2>6, <2>8, <3>3, <1>2
  <2> QED BY <2>7, <2>8
<1>13. BinsRight'
  <2>1. histogram' = [b \in Bin |-> histogram'[b]]
    BY <1>2
  <2> QED BY <2>1, <1>12 DEF BinsRight
<1> QED BY <1>1, <1>2, <1>9, <1>10, <1>11, <1>13 DEF ThresholdInv

\* What a warp counts of a bin is what it reads of it.
LEMMA ReadOfBin ==
  ASSUME NEW s \in Samplings, sampling = s, gathered = [i \in DOMAIN s.ids |-> s.ids[i]],
         NEW w \in Warp, NEW d \in 0 .. Digits - 1, NEW p, p = PrefixAt(s, d), NEW b \in Bin,
         NEW active, active = {i \in ReadBy(w) : Valid(i) /\ AboveDigit(SampledScore(i), d) = AboveDigit(p, d)}
  PROVE  {i \in active : DigitOf(SampledScore(i), d) = b} = {i \in Bucket(s, d, b) : Reader(i) = w}
<1> DEFINE v == Weight[d]
           t == Cut(s)
<1>1. /\ Weight[d + 1] = Radix * v /\ AboveDigit(p, d) = t \div Weight[d + 1]
      /\ s.start \in Int /\ s.end \in Int /\ s.ids \in Seq(Nat)
  <2>1. d \in Nat
    BY WarpOf
  <2> QED BY <2>1, WeightIs, PrefixIs, ThresholdAssumption
<1>2. \A i \in DOMAIN s.ids : /\ SampledScore(i) = s.key[s.ids[i]] /\ KeyIn(s)[i] = s.key[s.ids[i]]
                              /\ s.ids[i] \in Int
  BY <1>1 DEF SampledScore, KeyIn
<1>3. \A i \in DOMAIN s.ids : Valid(i) <=> i \in SeenOf(s)
  BY <1>1, <1>2 DEF Valid, SeenOf
<1>4. \A i : i \in ReadBy(w) <=> i \in DOMAIN s.ids /\ Reader(i) = w
  BY DEF ReadBy, Reader
<1>5. \A i \in DOMAIN s.ids : /\ DigitOf(SampledScore(i), d) = (KeyIn(s)[i] \div v) % Radix
                              /\ AboveDigit(SampledScore(i), d) = KeyIn(s)[i] \div (Radix * v)
                              /\ AboveDigit(p, d) = t \div (Radix * v)
  BY <1>1, <1>2 DEF DigitOf, AboveDigit
<1>6. SeenOf(s) \subseteq DOMAIN s.ids
  BY DEF SeenOf
<1>7. \A i : i \in Bucket(s, d, b) <=>
        /\ i \in SeenOf(s) /\ KeyIn(s)[i] \div (Radix * v) = t \div (Radix * v)
        /\ (KeyIn(s)[i] \div v) % Radix = b
  BY DEF Bucket, BucketOf
<1> HIDE DEF v, t
<1>8. \A i : i \in {j \in active : DigitOf(SampledScore(j), d) = b} <=> i \in Bucket(s, d, b) /\ Reader(i) = w
  BY <1>3, <1>4, <1>5, <1>6, <1>7
<1> QED BY <1>8

LEMMA CountKeeps ==
  ASSUME ThresholdInv, NEW w \in Warp, CountSamples(w)
  PROVE  ThresholdInv'
<1> DEFINE m == [warp[w] EXCEPT !.pc = IF warp[w].digit = Digits - 1 THEN "total" ELSE "select"]
<1>1. /\ InStep /\ BinsRight /\ SharedRight /\ Concluded
      /\ shared \in [byte : Int, greater : Int, valid : Int]
  BY DEF ThresholdInv
<1>2. /\ warp[w] \in [pc : ThresholdPcs, digit : 0 .. Digits - 1, rank : Int, prefix : Int]
      /\ Stands(sampling, warp[w], entered[w]) /\ entered[w] \in Nat
      /\ warp[w].digit \in 0 .. Digits - 1 /\ sampling \in Samplings
  BY <1>1, WarpStands
<1> PICK d \in 0 .. Digits - 1 : d = warp[w].digit
  BY <1>2
<1> PICK s \in Samplings : s = sampling
  BY <1>2
<1> DEFINE active == {i \in ReadBy(w) : Valid(i) /\ AboveDigit(SampledScore(i), d)
                                                      = AboveDigit(warp[w].prefix, d)}
           More(b) == {i \in active : DigitOf(SampledScore(i), d) = b}
           Mine(b) == {i \in Bucket(s, d, b) : Reader(i) = w}
<1>3. /\ sampling' = sampling /\ gathered' = gathered /\ shared' = shared /\ threshold' = threshold
      /\ warp[w].pc = "count" /\ Synced(w) /\ warp' = [warp EXCEPT ![w] = m]
      /\ entered' = [entered EXCEPT ![w] = @ + 1]
      /\ histogram' = [b \in Bin |-> histogram[b] + Cardinality(More(b))]
  BY DEF CountSamples, Sync, Goto, At
<1>4. /\ m \in [pc : ThresholdPcs, digit : 0 .. Digits - 1, rank : Int, prefix : Int]
      /\ m.pc = IF d = Digits - 1 THEN "total" ELSE "select"
      /\ m.digit = d /\ m.rank = warp[w].rank /\ m.prefix = warp[w].prefix
  BY <1>2 DEF ThresholdPcs
<1>5. /\ entered[w] = CountAt(d) /\ warp[w].prefix = PrefixAt(s, d) /\ CountAt(d) \in Nat
      /\ CountAt(d) < SelectAt(d) /\ SelectAt(d) \in Nat /\ CountAt(d) = ClearAt(d) + 1 /\ ClearAt(d) \in Nat
      /\ d = Digits - 1 => CountAt(d) = 1
      /\ d # Digits - 1 => CountAt(d) + 1 = SelectAt(d)
  BY <1>2, <1>3, RoundsFollow DEF Stands, RoundsAt
<1>6. gathered = [i \in DOMAIN s.ids |-> s.ids[i]]
  BY <1>1, <1>3 DEF InStep
<1>7. \A b \in Bin : More(b) = Mine(b)
  <2> TAKE b \in Bin
  <2> DEFINE p == warp[w].prefix
             a == active
  <2>1. a = {i \in ReadBy(w) : Valid(i) /\ AboveDigit(SampledScore(i), d) = AboveDigit(p, d)}
    OBVIOUS
  <2>2. p = PrefixAt(s, d)
    BY <1>5
  <2> HIDE DEF a, p
  <2>3. {i \in a : DigitOf(SampledScore(i), d) = b} = Mine(b)
    BY <2>1, <2>2, <1>6, ReadOfBin
  <2> QED BY <2>3 DEF a
<1> HIDE DEF m, active, More
<1>8. entered'[w] = CountAt(d) + 1 /\ \A v \in Warp : v # w => entered'[v] = entered[v]
  BY <1>1, <1>3, <1>5 DEF InStep
<1>9. Stands(sampling, m, entered'[w])
  BY <1>2, <1>3, <1>4, <1>5, <1>8 DEF Stands, RoundsAt
<1>10. m.pc \notin {"clear", "done"}
  BY <1>4
<1>11. InStep'
  BY <1>1, <1>3, <1>9, <1>10, StepKeeps
<1>12. SharedRight'
  BY <1>1, <1>3, <1>5, SharedPast
<1>13. Concluded'
  BY <1>1, <1>3, <1>10, ConcludedKept
<1>14. \A v \in Warp : /\ entered[v] \in Nat /\ CountAt(d) <= entered[v] /\ entered[v] <= CountAt(d) + 1
  BY <1>1, <1>3, <1>5, WarpStands DEF Synced
<1>15. ASSUME NEW c \in 0 .. Digits - 1, NEW b \in Bin, InDigit(c)'
       PROVE  histogram'[b] = Cardinality(Counted(c, b)')
  <2>1. /\ ClearAt(c) <= CountAt(d) + 1 /\ CountAt(d) + 1 <= SelectAt(c) + 1
        /\ CountAt(d) + 1 \in Nat /\ CountAt(d) <= CountAt(d) + 1 /\ CountAt(d) + 1 <= SelectAt(d)
    BY <1>5, <1>8, <1>15 DEF InDigit
  <2>2. c = d
    BY <2>1, RoundsApart
  <2>3. histogram[b] = Cardinality(Counted(c, b))
    <3>1. InDigit(c)
      BY <1>5, <1>14, <2>2 DEF InDigit
    <3>2. CountAt(c) <= entered[Owner(b)]
      BY <1>14, <2>2, WarpOf
    <3> QED BY <1>1, <3>1, <3>2 DEF BinsRight
  <2>4. Counted(c, b)' = Counted(c, b) \cup Mine(b) /\ Counted(c, b) \cap Mine(b) = {}
    <3>1. \A i \in Bucket(s, d, b) : Reader(i) \in Warp
      <4>1. SeenOf(s) \subseteq 1 .. Len(s.ids)
        BY SamplingIs
      <4> QED BY <4>1, WarpOf DEF Bucket, BucketOf
    <3>2. \A v \in Warp : entered'[v] > CountAt(d) <=> entered[v] > CountAt(d) \/ v = w
      BY <1>5, <1>8
    <3>3. ~(entered[w] > CountAt(d))
      BY <1>5
    <3> QED BY <2>2, <3>1, <3>2, <3>3, <1>3 DEF Counted
  <2>5. IsFiniteSet(Counted(c, b)) /\ IsFiniteSet(Mine(b))
    <3>1. Counted(c, b) \subseteq SeenOf(s) /\ Mine(b) \subseteq SeenOf(s)
      BY <2>2 DEF Counted, Bucket, BucketOf
    <3> QED BY <3>1, SamplingIs, FS_Subset
  <2>6. histogram'[b] = histogram[b] + Cardinality(Mine(b))
    BY <1>3, <1>7
  <2> DEFINE A == Counted(c, b)
             B == Mine(b)
  <2>7. Cardinality(A) \in Nat /\ Cardinality(B) \in Nat /\ Cardinality(A \cap B) = 0
    BY <2>4, <2>5, FS_CardinalityType, FS_EmptySet
  <2>8. Cardinality(A \cup B) = Cardinality(A) + Cardinality(B) - Cardinality(A \cap B)
    BY <2>5, FS_Union
  <2>9. Cardinality(A \cup B) = histogram'[b]
    <3> HIDE DEF A, B
    <3> QED BY <2>7, <2>8, <2>3, <2>6 DEF A, B
  <2> QED BY <2>4, <2>9
<1>16. BinsRight'
  <2>1. histogram' = [b \in Bin |-> histogram'[b]]
    BY <1>3
  <2> QED BY <2>1, <1>15 DEF BinsRight
<1> QED BY <1>1, <1>3, <1>11, <1>12, <1>13, <1>16 DEF ThresholdInv

LEMMA TotalKeeps ==
  ASSUME ThresholdInv, NEW w \in Warp, Total(w)
  PROVE  ThresholdInv'
<1> DEFINE m == [warp[w] EXCEPT !.pc = "check"]
           d == Digits - 1
           n == CountIn(histogram, Bin)
<1>1. /\ InStep /\ BinsRight /\ SharedRight /\ Concluded /\ 0 \in Warp /\ Digits \in Nat \ {0}
      /\ shared \in [byte : Int, greater : Int, valid : Int]
  BY WarpOf DEF ThresholdInv
<1>2. /\ sampling' = sampling /\ gathered' = gathered /\ histogram' = histogram /\ threshold' = threshold
      /\ warp[w].pc = "total" /\ Synced(w) /\ warp' = [warp EXCEPT ![w] = m]
      /\ entered' = [entered EXCEPT ![w] = @ + 1]
      /\ shared' = IF w = 0 THEN [shared EXCEPT !.valid = n] ELSE shared
  BY DEF Total, Sync, Goto, At
<1>3. /\ warp[w] \in [pc : ThresholdPcs, digit : 0 .. Digits - 1, rank : Int, prefix : Int]
      /\ Stands(sampling, warp[w], entered[w]) /\ entered[w] \in Nat /\ sampling \in Samplings
  BY <1>1, WarpStands
<1>4. /\ m \in [pc : ThresholdPcs, digit : 0 .. Digits - 1, rank : Int, prefix : Int]
      /\ m.pc = "check" /\ m.digit = warp[w].digit /\ m.rank = warp[w].rank /\ m.prefix = warp[w].prefix
  BY <1>3 DEF ThresholdPcs
<1>5. entered[w] = 2 /\ warp[w].digit = d /\ d \in 0 .. Digits - 1 /\ CountAt(d) = 1 /\ SelectAt(d) = 3
  <2>1. d \in 0 .. Digits - 1
    BY <1>1
  <2>2. CountAt(d) = 1 /\ SelectAt(d) = 3
    BY <2>1, RoundsFollow
  <2> HIDE DEF d
  <2> QED BY <2>1, <2>2, <1>2, <1>3 DEF Stands, RoundsAt, d
<1> HIDE DEF m, d, n
<1>6. entered'[w] = 3 /\ \A v \in Warp : v # w => entered'[v] = entered[v]
  BY <1>1, <1>2, <1>5 DEF InStep
<1>7. Stands(sampling, m, entered'[w])
  BY <1>2, <1>3, <1>4, <1>5, <1>6 DEF Stands, RoundsAt
<1>8. InStep'
  BY <1>1, <1>2, <1>4, <1>7, StepKeeps
<1>9. BinsRight'
  <2>1. entered[w] > CountAt(d) /\ entered[w] <= SelectAt(d)
    BY <1>5
  <2> QED BY <2>1, <1>1, <1>2, <1>5, BinsPast
<1>10. n = Cardinality(SeenOf(sampling)) /\ n \in Nat
  <2>1. entered[w] > CountAt(d) /\ entered[w] <= SelectAt(d)
    BY <1>5
  <2>2. \A b \in Bin : histogram[b] = Cardinality(Bucket(sampling, Digits - 1, b))
    BY <2>1, <1>1, <1>2, <1>5, BinsAreFull DEF d
  <2>3. CountIn(histogram, Bin) = Cardinality(SeenOf(sampling))
    BY <2>2, <1>3, AllAreCounted
  <2> QED BY <2>3, <1>3, SamplingIs DEF n
<1>11. shared' \in [byte : Int, greater : Int, valid : Int]
  BY <1>1, <1>2, <1>10
<1>12. SharedRight'
  <2>1. CASE w = 0
    <3>1. shared'.valid = Cardinality(SeenOf(sampling'))
      BY <2>1, <1>1, <1>2, <1>10
    <3>2. \A c \in 0 .. Digits - 1 : ~(SelectAt(c) < entered'[0])
      BY <2>1, <1>1, <1>6 DEF SelectAt
    <3> QED BY <3>1, <3>2 DEF SharedRight
  <2>2. CASE w # 0
    <3>1. entered'[0] = entered[0] /\ shared' = shared
      BY <2>2, <1>1, <1>2, <1>6
    <3> QED BY <3>1, <1>1, <1>2, SharedKept
  <2> QED BY <2>1, <2>2
<1>13. Concluded'
  BY <1>1, <1>2, <1>4, ConcludedKept
<1> QED BY <1>8, <1>9, <1>11, <1>12, <1>13 DEF ThresholdInv

LEMMA CheckSamplesKeeps ==
  ASSUME ThresholdInv, NEW w \in Warp, CheckSamples(w)
  PROVE  ThresholdInv'
<1> DEFINE tooFew == shared.valid < sampling.rank
           pc == IF tooFew THEN "done" ELSE "select"
           m == [warp[w] EXCEPT !.pc = pc]
<1>1. /\ InStep /\ BinsRight /\ SharedRight /\ Concluded /\ 0 \in Warp /\ Digits \in Nat \ {0}
      /\ shared \in [byte : Int, greater : Int, valid : Int]
  BY WarpOf DEF ThresholdInv
<1>2. /\ sampling' = sampling /\ gathered' = gathered /\ entered' = entered
      /\ histogram' = histogram /\ shared' = shared
      /\ warp[w].pc = "check" /\ Synced(w) /\ warp' = [warp EXCEPT ![w] = m]
      /\ threshold' = IF tooFew /\ w = 0 THEN MinusInfinity ELSE threshold
  BY DEF CheckSamples, Goto, At
<1>3. /\ warp[w] \in [pc : ThresholdPcs, digit : 0 .. Digits - 1, rank : Int, prefix : Int]
      /\ Stands(sampling, warp[w], entered[w]) /\ entered[w] \in Nat /\ entered[0] \in Nat
  BY <1>1, WarpStands
<1>4. /\ m \in [pc : ThresholdPcs, digit : 0 .. Digits - 1, rank : Int, prefix : Int]
      /\ m.pc = pc /\ m.digit = warp[w].digit /\ m.rank = warp[w].rank /\ m.prefix = warp[w].prefix
  BY <1>3 DEF ThresholdPcs
<1>5. entered[w] = 3 /\ warp[w].digit = Digits - 1 /\ ~KeepsAll(sampling)
  BY <1>2, <1>3 DEF Stands, RoundsAt
<1>6. tooFew <=> TooFew(sampling)
  <2>1. entered[0] >= 3
    BY <1>1, <1>2, <1>5 DEF Synced
  <2>2. shared.valid = Cardinality(SeenOf(sampling))
    BY <2>1, <1>1 DEF SharedRight
  <2> QED BY <2>2 DEF TooFew
<1> HIDE DEF m, tooFew
<1>7. Stands(sampling, m, entered[w])
  <2>1. Digits - 1 \in 0 .. Digits - 1
    BY <1>1
  <2>2. SelectAt(Digits - 1) = 3
    BY <2>1, RoundsFollow
  <2> QED BY <1>2, <1>3, <1>4, <1>5, <1>6, <2>2 DEF Stands, RoundsAt
<1>8. InStep'
  BY <1>1, <1>2, <1>7, StepKeeps
<1>9. BinsRight' /\ SharedRight'
  BY <1>1, <1>2, BinsKept, SharedKept
<1>10. Concluded'
  <2>1. CASE tooFew /\ w = 0
    BY <2>1, <1>2, <1>6 DEF Concluded
  <2>2. CASE tooFew /\ w # 0
    <3>1. warp'[0] = warp[0]
      BY <2>2, <1>1, <1>2
    <3> QED BY <2>2, <3>1, <1>1, <1>2 DEF Concluded
  <2>3. CASE ~tooFew
    <3>1. m.pc # "done" /\ threshold' = threshold
      BY <2>3, <1>2, <1>4
    <3> QED BY <3>1, <1>1, <1>2, ConcludedKept
  <2> QED BY <2>1, <2>2, <2>3
<1> QED BY <1>1, <1>2, <1>8, <1>9, <1>10 DEF ThresholdInv

LEMMA SelectKeeps ==
  ASSUME ThresholdInv, NEW w \in Warp, SelectByte(w)
  PROVE  ThresholdInv'
<1> DEFINE m == [warp[w] EXCEPT !.pc = "narrow"]
           found == BinsOfRank(histogram, warp[w].rank, Bin)
<1>1. /\ InStep /\ BinsRight /\ SharedRight /\ Concluded /\ 0 \in Warp
      /\ shared \in [byte : Int, greater : Int, valid : Int]
  BY WarpOf DEF ThresholdInv
<1>2. /\ warp[w] \in [pc : ThresholdPcs, digit : 0 .. Digits - 1, rank : Int, prefix : Int]
      /\ Stands(sampling, warp[w], entered[w]) /\ entered[w] \in Nat
      /\ warp[w].digit \in 0 .. Digits - 1 /\ sampling \in Samplings
  BY <1>1, WarpStands
<1> PICK d \in 0 .. Digits - 1 : d = warp[w].digit
  BY <1>2
<1> PICK s \in Samplings : s = sampling
  BY <1>2
<1>3. /\ sampling' = sampling /\ gathered' = gathered /\ histogram' = histogram /\ threshold' = threshold
      /\ warp[w].pc = "select" /\ Synced(w) /\ warp' = [warp EXCEPT ![w] = m]
      /\ entered' = [entered EXCEPT ![w] = @ + 1]
      /\ \/ (w # 0 \/ found = {}) /\ shared' = shared
         \/ w = 0 /\ \E b \in found :
              shared' = [shared EXCEPT !.byte = b, !.greater = CountAbove(histogram, b)]
  BY DEF SelectByte, Sync, Goto, At
<1>4. /\ m \in [pc : ThresholdPcs, digit : 0 .. Digits - 1, rank : Int, prefix : Int]
      /\ m.pc = "narrow" /\ m.digit = d /\ m.rank = warp[w].rank /\ m.prefix = warp[w].prefix
  BY <1>2 DEF ThresholdPcs
<1> HIDE DEF m
<1>5. /\ entered[w] = SelectAt(d) /\ SelectAt(d) \in Nat /\ CountAt(d) \in Nat /\ CountAt(d) < SelectAt(d)
      /\ warp[w].rank = RankAt(s, d) /\ ~TooFew(s) /\ ~KeepsAll(s)
  <2>1. SelectAt(d) \in Nat /\ CountAt(d) \in Nat /\ CountAt(d) < SelectAt(d)
    BY RoundsFollow
  <2>2. entered[w] = SelectAt(d) /\ warp[w].rank = RankAt(s, d) /\ ~TooFew(s) /\ ~KeepsAll(s)
    BY <1>2, <1>3 DEF Stands, RoundsAt
  <2> QED BY <2>1, <2>2
<1>6. entered'[w] = SelectAt(d) + 1 /\ \A v \in Warp : v # w => entered'[v] = entered[v]
  BY <1>1, <1>3, <1>5 DEF InStep
<1>7. Stands(sampling, m, entered'[w])
  <2>1. RoundsAt(m.pc, d) = SelectAt(d) + 1
    BY <1>4 DEF RoundsAt
  <2>2. m.rank = RankAt(s, d) /\ m.prefix = PrefixAt(s, d)
    BY <1>2, <1>3, <1>4 DEF Stands
  <2>3. entered'[w] \in Nat /\ entered'[w] = RoundsAt(m.pc, d)
    BY <2>1, <1>5, <1>6
  <2>4. Stands(s, m, entered'[w])
    BY <2>2, <2>3, <1>4, <1>5 DEF Stands
  <2> QED BY <2>4
<1>8. InStep'
  BY <1>1, <1>3, <1>4, <1>7, StepKeeps
<1>9. entered[w] > CountAt(d) /\ entered[w] <= SelectAt(d)
  BY <1>5
<1>10. BinsRight'
  BY <1>1, <1>3, <1>9, BinsPast
<1>11. /\ found = {DigitOf(Cut(s), d)}
       /\ CountAbove(histogram, DigitOf(Cut(s), d)) = Before(s, d) - Before(s, d + 1)
  <2>1. \A b \in Bin : histogram[b] = Cardinality(Bucket(s, d, b))
    BY <1>1, <1>3, <1>9, BinsAreFull
  <2> DEFINE h == histogram
  <2>2. \A b \in Bin : h[b] = Cardinality(Bucket(s, d, b))
    BY <2>1
  <2> HIDE DEF h
  <2>3. /\ BinsOfRank(h, RankAt(s, d), Bin) = {DigitOf(Cut(s), d)}
        /\ CountAbove(h, DigitOf(Cut(s), d)) = Before(s, d) - Before(s, d + 1)
    BY <2>2, <1>5, BinIsFound
  <2> QED BY <2>3, <1>5 DEF h
<1> HIDE DEF found
<1>12. shared' \in [byte : Int, greater : Int, valid : Int] /\ SharedRight'
  <2>1. CASE w = 0
    <3> DEFINE b == DigitOf(Cut(s), d)
               n == CountAbove(histogram, b)
    <3>1. shared' = [shared EXCEPT !.byte = b, !.greater = n]
      BY <2>1, <1>3, <1>11
    <3>2. b \in Int /\ n = Before(s, d) - Before(s, d + 1) /\ n \in Int
      BY <1>11, PrefixIs DEF Bin
    <3> HIDE DEF b, n
    <3>3. /\ shared'.byte = b /\ shared'.greater = n /\ shared'.valid = shared.valid
          /\ shared' \in [byte : Int, greater : Int, valid : Int]
      BY <3>1, <3>2, <1>1
    <3>4. SelectAt(d) >= 3 /\ Digits \in Nat
      BY WarpOf DEF SelectAt
    <3>5. entered[0] >= 3 /\ entered'[0] = SelectAt(d) + 1
      BY <2>1, <1>5, <1>6, <3>4
    <3>6. \A c \in 0 .. Digits - 1 : SelectAt(c) < entered'[0] /\ entered'[0] <= SelectAt(c) + 3 => c = d
      BY <3>4, <3>5 DEF SelectAt
    <3>7. shared'.valid = Cardinality(SeenOf(sampling'))
      BY <3>3, <3>5, <1>1, <1>3 DEF SharedRight
    <3>8. \A c \in 0 .. Digits - 1 : SelectAt(c) < entered'[0] /\ entered'[0] <= SelectAt(c) + 3 =>
            /\ shared'.byte = DigitOf(Cut(sampling'), c)
            /\ shared'.greater = Before(sampling', c) - Before(sampling', c + 1)
      BY <3>2, <3>3, <3>6, <1>3 DEF b
    <3> QED BY <3>3, <3>7, <3>8 DEF SharedRight
  <2>2. CASE w # 0
    <3>1. shared' = shared /\ entered'[0] = entered[0]
      BY <2>2, <1>1, <1>3, <1>6
    <3> QED BY <3>1, <1>1, <1>3, SharedKept
  <2> QED BY <2>1, <2>2
<1>13. Concluded'
  BY <1>1, <1>3, <1>4, ConcludedKept
<1> QED BY <1>8, <1>10, <1>12, <1>13 DEF ThresholdInv

LEMMA NarrowKeeps ==
  ASSUME ThresholdInv, NEW w \in Warp, Narrow(w)
  PROVE  ThresholdInv'
<1> DEFINE prefix == warp[w].prefix + shared.byte * Weight[warp[w].digit]
           last == warp[w].digit = 0
           m == [warp[w] EXCEPT !.rank = @ - shared.greater, !.prefix = prefix,
                   !.digit = IF last THEN 0 ELSE @ - 1, !.pc = IF last THEN "done" ELSE "clear"]
<1>1. /\ InStep /\ BinsRight /\ SharedRight /\ Concluded /\ 0 \in Warp
      /\ shared \in [byte : Int, greater : Int, valid : Int]
  BY WarpOf DEF ThresholdInv
<1>2. /\ warp[w] \in [pc : ThresholdPcs, digit : 0 .. Digits - 1, rank : Int, prefix : Int]
      /\ Stands(sampling, warp[w], entered[w]) /\ entered[w] \in Nat /\ entered[0] \in Nat
      /\ entered[0] <= entered[w] + 1
      /\ warp[w].digit \in 0 .. Digits - 1 /\ sampling \in Samplings
  BY <1>1, WarpStands
<1> PICK d \in 0 .. Digits - 1 : d = warp[w].digit
  BY <1>2
<1> PICK s \in Samplings : s = sampling
  BY <1>2
<1>3. /\ sampling' = sampling /\ gathered' = gathered /\ entered' = entered
      /\ histogram' = histogram /\ shared' = shared
      /\ warp[w].pc = "narrow" /\ Synced(w) /\ warp' = [warp EXCEPT ![w] = m]
      /\ threshold' = IF last /\ w = 0 THEN prefix ELSE threshold
  <2>1. /\ sampling' = sampling /\ gathered' = gathered /\ entered' = entered
        /\ histogram' = histogram /\ shared' = shared /\ warp[w].pc = "narrow" /\ Synced(w)
    BY DEF Narrow, At
  <2>2. threshold' = IF last /\ w = 0 THEN prefix ELSE threshold
    BY DEF Narrow
  <2>3. warp' = [warp EXCEPT ![w] = m]
    BY DEF Narrow
  <2> QED BY <2>1, <2>2, <2>3
<1>4. /\ entered[w] = SelectAt(d) + 1 /\ SelectAt(d) \in Nat
      /\ warp[w].rank = RankAt(s, d) /\ warp[w].prefix = PrefixAt(s, d)
      /\ ~TooFew(s) /\ ~KeepsAll(s)
  <2>1. SelectAt(d) \in Nat
    BY RoundsFollow
  <2>2. RoundsAt("narrow", d) = SelectAt(d) + 1
    BY DEF RoundsAt
  <2> QED BY <2>1, <2>2, <1>2, <1>3 DEF Stands
<1>5. shared.byte = DigitOf(Cut(s), d) /\ shared.greater = Before(s, d) - Before(s, d + 1)
  <2>1. entered[0] >= entered[w]
    BY <1>1, <1>3 DEF Synced
  <2>2. SelectAt(d) < entered[0] /\ entered[0] <= SelectAt(d) + 3
    BY <2>1, <1>2, <1>4
  <2> QED BY <2>2, <1>1 DEF SharedRight
<1>6. /\ prefix = (Cut(s) \div Weight[d]) * Weight[d]
      /\ warp[w].rank - shared.greater = s.rank - Before(s, d)
      /\ prefix \in Int /\ s.rank - Before(s, d) \in Int
  <2>1. prefix = PrefixAt(s, d) + DigitOf(Cut(s), d) * Weight[d]
    BY <1>4, <1>5
  <2>2. prefix = (Cut(s) \div Weight[d]) * Weight[d]
    BY <2>1, PrefixIs
  <2>3. Before(s, d) \in Nat /\ Before(s, d + 1) \in Nat /\ s.rank \in Int
    BY PrefixIs, SamplingIs
  <2>4. warp[w].rank - shared.greater = s.rank - Before(s, d)
    BY <2>3, <1>4, <1>5 DEF RankAt
  <2>5. PrefixAt(s, d) \in Int /\ DigitOf(Cut(s), d) \in Int /\ Weight[d] \in Int
    <3>1. d \in Nat
      OBVIOUS
    <3> QED BY <3>1, PrefixIs, WeightIs DEF Bin
  <2>6. prefix \in Int
    BY <2>1, <2>5
  <2> QED BY <2>2, <2>3, <2>4, <2>6
<1> HIDE DEF prefix
<1>7. /\ m \in [pc : ThresholdPcs, digit : 0 .. Digits - 1, rank : Int, prefix : Int]
      /\ m.pc = (IF d = 0 THEN "done" ELSE "clear") /\ m.digit = (IF d = 0 THEN 0 ELSE d - 1)
      /\ m.rank = s.rank - Before(s, d) /\ m.prefix = prefix
  <2>1. (IF d = 0 THEN 0 ELSE d - 1) \in 0 .. Digits - 1
    BY WarpOf
  <2> QED BY <2>1, <1>2, <1>6 DEF ThresholdPcs
<1> HIDE DEF m
<1>8. Stands(sampling, m, entered[w])
  <2>1. CASE d = 0
    <3>1. m.pc = "done" /\ m.digit = 0 /\ entered[w] = SelectAt(0) + 1
      BY <2>1, <1>4, <1>7
    <3> QED BY <3>1, <1>2, <1>4, <1>7 DEF Stands
  <2>2. CASE d # 0
    <3>1. /\ d - 1 \in 0 .. Digits - 1 /\ ClearAt(d - 1) = SelectAt(d) + 1 /\ (d - 1) + 1 = d
      BY <2>2, RoundsFollow
    <3>2. RoundsAt("clear", d - 1) = entered[w]
      BY <3>1, <1>4 DEF RoundsAt
    <3>3. m.rank = RankAt(s, d - 1) /\ m.prefix = PrefixAt(s, d - 1)
      BY <3>1, <1>6, <1>7 DEF RankAt, PrefixAt
    <3>4. m.pc = "clear" /\ m.digit = d - 1
      BY <2>2, <1>7
    <3> QED BY <3>2, <3>3, <3>4, <1>2, <1>4, <1>7 DEF Stands
  <2> QED BY <2>1, <2>2
<1>9. InStep'
  BY <1>1, <1>3, <1>8, StepKeeps
<1>10. BinsRight' /\ SharedRight'
  BY <1>1, <1>3, BinsKept, SharedKept
<1>11. Concluded'
  <2>1. CASE d = 0 /\ w = 0
    <3>1. prefix = Cut(s)
      <4>1. Weight[0] = 1 /\ Cut(s) \div Weight[0] = Cut(s) /\ Cut(s) \in Nat
        BY WeightIs, PrefixIs, CutIs
      <4> QED BY <4>1, <2>1, <1>6
    <3>2. threshold' = Cut(s)
      BY <2>1, <3>1, <1>3
    <3> QED BY <3>2, <1>3, <1>4 DEF Concluded
  <2>2. CASE d = 0 /\ w # 0
    <3>1. warp'[0] = warp[0] /\ threshold' = threshold
      BY <2>2, <1>1, <1>3
    <3> QED BY <3>1, <1>1, <1>3 DEF Concluded
  <2>3. CASE d # 0
    <3>1. m.pc # "done" /\ threshold' = threshold
      BY <2>3, <1>3, <1>7
    <3> QED BY <3>1, <1>1, <1>3, ConcludedKept
  <2> QED BY <2>1, <2>2, <2>3
<1> QED BY <1>1, <1>3, <1>9, <1>10, <1>11 DEF ThresholdInv

LEMMA StutterKeeps ==
  ASSUME ThresholdInv, UNCHANGED thresholdVars
  PROVE  ThresholdInv'
<1>1. /\ sampling' = sampling /\ gathered' = gathered /\ warp' = warp /\ entered' = entered
      /\ histogram' = histogram /\ shared' = shared /\ threshold' = threshold
  BY DEF thresholdVars
<1>2. InStep'
  BY <1>1 DEF ThresholdInv, InStep, Paced
<1>3. BinsRight' /\ SharedRight' /\ Concluded'
  BY <1>1, BinsKept, SharedKept DEF ThresholdInv, Concluded
<1> QED BY <1>1, <1>2, <1>3 DEF ThresholdInv

\* The bins, the registers and the numbers left for the others are those of
\* the digits fixed so far, whatever the warps' order (ThresholdInv).
THEOREM ThresholdInvariant == ThresholdSpec => []ThresholdInv
<1>1. ThresholdInit => ThresholdInv
  BY InvStarts
<1>2. ThresholdInv /\ [ThresholdNext]_thresholdVars => ThresholdInv'
  <2> SUFFICES ASSUME ThresholdInv, [ThresholdNext]_thresholdVars PROVE ThresholdInv'
    OBVIOUS
  <2>1. CASE Gather
    BY <2>1, GatherKeeps
  <2>2. ASSUME NEW w \in Warp, ThresholdStep(w) PROVE ThresholdInv'
    BY <2>2, CheckRangeKeeps, ClearKeeps, CountKeeps, TotalKeeps, CheckSamplesKeeps,
       SelectKeeps, NarrowKeeps DEF ThresholdStep
  <2>3. CASE UNCHANGED thresholdVars
    BY <2>3, StutterKeeps
  <2> QED BY <2>1, <2>2, <2>3 DEF ThresholdNext
<1> QED BY <1>1, <1>2, PTL DEF ThresholdSpec

\* Once all warps have ended, the threshold of the row is the score of the
\* guarded rank among the samples the row sees, ties included; a row with few
\* keys or too few samples keeps everything.
THEOREM ThresholdIsExact == ThresholdSpec => []ThresholdExact
<1>1. ThresholdInv => ThresholdExact
  <2> SUFFICES ASSUME ThresholdInv, ThresholdEnded PROVE
        IF KeepsAll(sampling) \/ TooFew(sampling) THEN threshold = MinusInfinity
        ELSE /\ Reach(threshold) >= sampling.rank
             /\ Reach(threshold + 1) < sampling.rank
    BY DEF ThresholdExact, KeepsAll, TooFew, Seen, SeenOf
  <2>1. InStep /\ Concluded /\ warp[0].pc = "done" /\ sampling \in Samplings
    BY WarpOf DEF ThresholdInv, InStep, ThresholdEnded
  <2>2. CASE KeepsAll(sampling) \/ TooFew(sampling)
    BY <2>1, <2>2 DEF Concluded
  <2>3. CASE ~(KeepsAll(sampling) \/ TooFew(sampling))
    <3> DEFINE t == Cut(sampling)
               key == KeyIn(sampling)
    <3>1. threshold = t /\ t \in Nat /\ CutsAt(Seen, key, sampling.rank, t)
      BY <2>1, <2>3, CutIs DEF Concluded, IsCut, Seen, SeenOf
    <3>2. \A i \in Seen : key[i] = sampling.key[sampling.ids[i]] /\ key[i] \in Nat
      BY <2>1, SamplingIs DEF Seen, SeenOf
    <3> HIDE DEF t, key
    <3>3. Reach(threshold) = Cardinality({i \in Seen : key[i] >= t})
      <4>1. {i \in Seen : sampling.key[sampling.ids[i]] >= t} = {i \in Seen : key[i] >= t}
        BY <3>2
      <4> QED BY <4>1, <3>1 DEF Reach
    <3>4. Reach(threshold + 1) = Cardinality({i \in Seen : key[i] > t})
      <4>1. {i \in Seen : sampling.key[sampling.ids[i]] >= t + 1} = {i \in Seen : key[i] > t}
        BY <3>1, <3>2
      <4> QED BY <4>1, <3>1 DEF Reach
    <3> QED BY <2>3, <3>1, <3>3, <3>4 DEF CutsAt
  <2> QED BY <2>2, <2>3
<1> QED BY <1>1, ThresholdInvariant, PTL
=============================================================================
