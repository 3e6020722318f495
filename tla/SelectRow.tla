----------------------------- MODULE SelectRow -----------------------------
(***************************************************************************)
(* select_row: the exact selection of the K best candidates of a row by the *)
(* Top-K warps of a CTA, called for one row after another on the scratch of *)
(* one candidate slot.                                                      *)
(*                                                                         *)
(* The warps meet only at selection_sync, a named barrier; between two of   *)
(* its rounds they run freely, and the shared fields of the scratch have a  *)
(* single writer per round only if the rounds are placed right.  Here the   *)
(* work of a warp between two rounds is one action or a few, cut wherever   *)
(* another warp could tell.                                                 *)
(*                                                                         *)
(* Abstractions.  A score is its ordered bit pattern, a natural number of   *)
(* Digits digits in base Radix (four digits in base 256 in the code).  The  *)
(* candidates a math warp stored are those of its segment whose score       *)
(* reaches the row's sampled threshold, in the order of their positions.    *)
(* Writes of an output row are kept as a set of <<place, position>> pairs,  *)
(* so that a place written twice or never can be seen.                      *)
(***************************************************************************)
EXTENDS RadixSelect, Sequences, FiniteSets

CONSTANTS
  K,                 \* kTopK
  NumWarps,          \* Top-K warps: 96 threads
  Lanes,             \* lanes of a warp
  Segments,          \* kSegments
  SegmentCapacity,   \* kSegmentCapacity: candidates in shared memory
  SpillPerSegment,   \* kSpillPerSegment: candidates in the overflow workspace
  Digits,            \* radix rounds
  Inputs             \* sequences of rows (start, end, floor, score) one scratch may get

ASSUME SelectAssumption ==
  /\ K \in Nat \ {0} /\ NumWarps \in Nat \ {0} /\ Lanes \in Nat \ {0}
  /\ Segments \in Nat \ {0} /\ SegmentCapacity \in Nat /\ SpillPerSegment \in Nat
  /\ Radix \in Nat \ {0} /\ Radix % Lanes = 0 /\ Digits \in Nat \ {0}

\* The sequences end, and every position of a row has a score of Digits digits.
ASSUME InputsAssumption ==
  \A input \in Inputs :
    /\ Len(input) \in Nat
    /\ \A r \in 1 .. Len(input) :
         /\ input[r].start \in Nat /\ input[r].end \in Nat /\ input[r].floor \in Nat
         /\ \A id \in input[r].start .. input[r].end - 1 :
              input[r].score[id] \in 0 .. Weight[Digits] - 1

Warp    == 0 .. NumWarps - 1
Lane    == 0 .. Lanes - 1
Segment == 0 .. Segments - 1
Place   == 0 .. K - 1

-----------------------------------------------------------------------------
(* A row and the candidates the math warps left of it.                      *)

Valid(row) == IF row.end > row.start THEN row.end - row.start ELSE 0
Positions(row) == row.start .. row.end - 1

\* Every math warp owns one segment: a fixed residue of the positions.
SegmentOf(id) == id % Segments

CandidatesIn(row, s) ==
  {id \in Positions(row) : SegmentOf(id) = s /\ row.score[id] >= row.floor}

\* A candidate follows those of its segment at earlier positions.
Offset(row, id) == Cardinality({i \in CandidatesIn(row, SegmentOf(id)) : i < id})

\* The counts are of all of them, stored or not.
Counts(row) == [s \in Segment |-> Cardinality(CandidatesIn(row, s))]
Stored(row, s) == {id \in CandidatesIn(row, s) : Offset(row, id) < SegmentCapacity}
Spilled(row, s) ==
  {id \in CandidatesIn(row, s) : Offset(row, id) - SegmentCapacity \in 0 .. SpillPerSegment - 1}

Total(row)     == CountIn(Counts(row), Segment)
Excess(row)    == [s \in Segment |-> Max({0, Counts(row)[s] - SegmentCapacity})]
Spills(row)    == CountIn(Excess(row), Segment)
Overflows(row) == \E s \in Segment : Counts(row)[s] > SegmentCapacity + SpillPerSegment

\* The segments warp w walks: every NumWarps-th from its own number.
Own(w) == {s \in Segment : s % NumWarps = w}

\* The candidates warp w finds, the overflow read only if the row has any.
Live(row, w, spills) ==
  UNION {Stored(row, s) \cup (IF spills # 0 THEN Spilled(row, s) ELSE {}) : s \in Own(w)}

-----------------------------------------------------------------------------
VARIABLES
  rows,       \* the rows to select, in order
  warp,       \* per warp: pc, row, digit, batch to emit next, place reserved for it
  entered,    \* per warp: selection_sync rounds it has arrived at
  scratch,    \* failed, threshold, rank, greater and equal counters, spill count
  histogram,
  lane,       \* per lane of warp 0: rank and threshold as it read them
  written,    \* per row: the <<place, position>> pairs written
  failure     \* per row: the failure flag, or Unset

vars == <<rows, warp, entered, scratch, histogram, lane, written, failure>>

Unset  == -1
Unread == [step |-> "read", rank |-> 0, threshold |-> 0]

\* Shared memory is not initialised: it holds what an earlier row left.
Init ==
  /\ rows \in Inputs
  /\ warp = [w \in Warp |-> [pc |-> "begin", row |-> 1, digit |-> 0, batch |-> 0, place |-> 0]]
  /\ entered = [w \in Warp |-> 0]
  /\ scratch = [failed |-> TRUE, threshold |-> 1, rank |-> 1, greater |-> 1,
                equal |-> 1, spills |-> 1]
  /\ histogram = [b \in Bin |-> 1]
  /\ lane = [l \in Lane |-> Unread]
  /\ written = [r \in 1 .. Len(rows) |-> {}]
  /\ failure = [r \in 1 .. Len(rows) |-> Unset]

Row(w) == rows[warp[w].row]

\* A warp goes on from the round of selection_sync it arrived at last when all
\* the warps have arrived at that round.
Synced(w) == \A v \in Warp : entered[v] >= entered[w]
Sync(w)   == entered' = [entered EXCEPT ![w] = @ + 1]

Goto(w, label) == warp' = [warp EXCEPT ![w] = [@ EXCEPT !.pc = label]]
NextRow(w)     == warp' = [warp EXCEPT ![w] = [@ EXCEPT !.pc = "begin", !.row = warp[w].row + 1]]

\* The places warp w fills when the row is written by a strided loop.
Strided(w) == {p \in Place : p % NumWarps = w}
Fill(w, value) ==
  written' = [written EXCEPT ![warp[w].row] = @ \cup {<<p, value[p]>> : p \in Strided(w)}]
-----------------------------------------------------------------------------
\* A short row needs no selection: all its positions, then -1.
ShortRow(w) ==
  /\ warp[w].pc = "begin" /\ warp[w].row <= Len(rows) /\ Synced(w)
  /\ Valid(Row(w)) <= K
  /\ Fill(w, [p \in Place |-> IF p < Valid(Row(w)) THEN Row(w).start + p ELSE -1])
  /\ failure' = IF w = 0 THEN [failure EXCEPT ![warp[w].row] = 0] ELSE failure
  /\ Sync(w) /\ NextRow(w)
  /\ UNCHANGED <<rows, scratch, histogram, lane>>

\* Otherwise thread 0 inspects the counts and sets up the scratch.
Failed(row) == Overflows(row) \/ Total(row) < K

Setup(w) ==
  /\ warp[w].pc = "begin" /\ warp[w].row <= Len(rows) /\ Synced(w)
  /\ Valid(Row(w)) > K
  /\ IF w = 0
     THEN /\ scratch' = [failed |-> Failed(Row(w)), threshold |-> 0, rank |-> K,
                         greater |-> 0, equal |-> 0, spills |-> Spills(Row(w))]
          /\ failure' = [failure EXCEPT ![warp[w].row] = IF Failed(Row(w)) THEN 1 ELSE 0]
     ELSE UNCHANGED <<scratch, failure>>
  /\ Sync(w) /\ Goto(w, "check")
  /\ UNCHANGED <<rows, histogram, lane, written>>

\* Bug: a failed row ends without the last round of selection_sync.
GiveUpUnsynced(w) ==
  /\ warp[w].pc = "check" /\ Synced(w) /\ scratch.failed
  /\ Fill(w, [p \in Place |-> -1])
  /\ NextRow(w)
  /\ UNCHANGED <<rows, entered, scratch, histogram, lane, failure>>

GiveUp(w) ==
  /\ warp[w].pc = "check" /\ Synced(w) /\ scratch.failed
  /\ Fill(w, [p \in Place |-> -1])
  /\ Sync(w) /\ NextRow(w)
  /\ UNCHANGED <<rows, scratch, histogram, lane, failure>>

\* The four radix rounds, from the most significant digit.
StartRadix(w) ==
  /\ warp[w].pc = "check" /\ Synced(w) /\ ~scratch.failed
  /\ warp' = [warp EXCEPT ![w] = [@ EXCEPT !.pc = "zero", !.digit = Digits - 1]]
  /\ UNCHANGED <<rows, entered, scratch, histogram, lane, written, failure>>

ZeroHistogram(w) ==
  /\ warp[w].pc = "zero"
  /\ histogram' = [b \in Bin |-> IF b % NumWarps = w THEN 0 ELSE histogram[b]]
  /\ Sync(w) /\ Goto(w, "count")
  /\ UNCHANGED <<rows, scratch, lane, written, failure>>

\* The candidates of the row that agree with the threshold's digits above d
\* and have digit b at d.
Bucket(row, ids, threshold, d, b) ==
  {id \in ids : /\ AboveDigit(row.score[id], d) = AboveDigit(threshold, d)
                /\ DigitOf(row.score[id], d) = b}

CountDigits(w) ==
  LET d == warp[w].digit
      mine == Live(Row(w), w, scratch.spills)
  IN  /\ warp[w].pc = "count" /\ Synced(w)
      /\ histogram' = [b \in Bin |-> histogram[b]
                         + Cardinality(Bucket(Row(w), mine, scratch.threshold, d, b))]
      /\ Sync(w) /\ Goto(w, "pick")
      /\ UNCHANGED <<rows, scratch, lane, written, failure>>

\* Bug: the other warps leave out the round that ends the scan of warp 0.
SkipPickUnsynced(w) ==
  /\ warp[w].pc = "pick" /\ Synced(w) /\ w # 0
  /\ Goto(w, "next")
  /\ UNCHANGED <<rows, entered, scratch, histogram, lane, written, failure>>

\* Only warp 0 scans the histogram; the others go to the next round at once.
SkipPick(w) ==
  /\ warp[w].pc = "pick" /\ Synced(w) /\ w # 0
  /\ Sync(w) /\ Goto(w, "next")
  /\ UNCHANGED <<rows, scratch, histogram, lane, written, failure>>

\* Each lane reads rank and threshold, and all have read them (__syncwarp)
\* before the lane that finds the rank in one of its bins replaces them.
ReadRank(l) ==
  /\ warp[0].pc = "pick" /\ Synced(0) /\ lane[l].step = "read"
  /\ lane' = [lane EXCEPT ![l] =
                [step |-> "find", rank |-> scratch.rank, threshold |-> scratch.threshold]]
  /\ UNCHANGED <<rows, warp, entered, scratch, histogram, written, failure>>

BinsOf(l) == {b \in Bin : b \div (Radix \div Lanes) = l}

\* Candidates in the bins above b: the suffix sums of the shuffles.
Greater(b) == CountAbove(histogram, b)

RankBins(l) == BinsOfRank(histogram, lane[l].rank, BinsOf(l))

\* Bug: the lane that finds the rank writes before all lanes have read it.
FindBinEarly(l) ==
  /\ warp[0].pc = "pick" /\ lane[l].step = "find"
  /\ \/ RankBins(l) = {} /\ UNCHANGED scratch
     \/ \E b \in RankBins(l) :
          scratch' = [scratch EXCEPT
            !.threshold = lane[l].threshold + b * Weight[warp[0].digit],
            !.rank = lane[l].rank - Greater(b)]
  /\ lane' = [lane EXCEPT ![l].step = "done"]
  /\ UNCHANGED <<rows, warp, entered, histogram, written, failure>>

FindBin(l) ==
  /\ warp[0].pc = "pick" /\ lane[l].step = "find"
  /\ \A j \in Lane : lane[j].step # "read"
  /\ \/ RankBins(l) = {} /\ UNCHANGED scratch
     \/ \E b \in RankBins(l) :
          scratch' = [scratch EXCEPT
            !.threshold = lane[l].threshold + b * Weight[warp[0].digit],
            !.rank = lane[l].rank - Greater(b)]
  /\ lane' = [lane EXCEPT ![l].step = "done"]
  /\ UNCHANGED <<rows, warp, entered, histogram, written, failure>>

EndPick ==
  /\ warp[0].pc = "pick" /\ \A l \in Lane : lane[l].step = "done"
  /\ lane' = [l \in Lane |-> Unread]
  /\ Sync(0) /\ Goto(0, "next")
  /\ UNCHANGED <<rows, scratch, histogram, written, failure>>

NextDigit(w) ==
  /\ warp[w].pc = "next" /\ Synced(w)
  /\ warp' = [warp EXCEPT ![w] = IF warp[w].digit > 0
                THEN [@ EXCEPT !.pc = "zero", !.digit = warp[w].digit - 1]
                ELSE [@ EXCEPT !.pc = "emit", !.batch = 0]]
  /\ UNCHANGED <<rows, entered, scratch, histogram, lane, written, failure>>

-----------------------------------------------------------------------------
(* Emission.  A warp takes its candidates a batch of lanes at a time and    *)
(* reserves places for the batch, first among the greater, then among the   *)
(* equal ones.                                                              *)

\* The batches in the order they are taken: those of the stored candidates,
\* segment after segment, and then those of the overflow.
BatchOf(row, id) ==
  LET n == Offset(row, id)
  IN  IF n < SegmentCapacity
      THEN SegmentOf(id) * SegmentCapacity + n \div Lanes
      ELSE Segments * SegmentCapacity + SegmentOf(id) * SpillPerSegment
             + (n - SegmentCapacity) \div Lanes

Batch(w, n) == {id \in Live(Row(w), w, scratch.spills) : BatchOf(Row(w), id) = n}
Left(w)     == {BatchOf(Row(w), id) : id \in Live(Row(w), w, scratch.spills)}
                 \ (0 .. warp[w].batch - 1)

Above(w, n) == {id \in Batch(w, n) : Row(w).score[id] > scratch.threshold}
Level(w, n) == {id \in Batch(w, n) : Row(w).score[id] = scratch.threshold}

\* reserve: the active lanes of a batch get consecutive places.
Reserve(base, ids, id) == base + Cardinality({i \in ids : i < id})

ReserveGreater(w) ==
  /\ warp[w].pc = "emit" /\ Left(w) # {}
  /\ LET n == Min(Left(w))
     IN  /\ scratch' = [scratch EXCEPT !.greater = @ + Cardinality(Above(w, n))]
         /\ warp' = [warp EXCEPT ![w] =
                       [@ EXCEPT !.pc = "place", !.batch = n, !.place = scratch.greater]]
  /\ UNCHANGED <<rows, entered, histogram, lane, written, failure>>

PlaceBatch(w) ==
  LET above == Above(w, warp[w].batch)
      level == Level(w, warp[w].batch)
      equal(id) == Reserve(scratch.equal, level, id)
  IN  /\ warp[w].pc = "place"
      /\ written' = [written EXCEPT ![warp[w].row] = @
           \cup {<<Reserve(warp[w].place, above, id), id>> : id \in above}
           \cup {<<K - scratch.rank + equal(id), id>> :
                   id \in {i \in level : equal(i) < scratch.rank}}]
      /\ scratch' = [scratch EXCEPT !.equal = @ + Cardinality(level)]
      /\ warp' = [warp EXCEPT ![w] = [@ EXCEPT !.pc = "emit", !.batch = warp[w].batch + 1]]
      /\ UNCHANGED <<rows, entered, histogram, lane, failure>>

EndRow(w) ==
  /\ warp[w].pc = "emit" /\ Left(w) = {}
  /\ Sync(w) /\ NextRow(w)
  /\ UNCHANGED <<rows, scratch, histogram, lane, written, failure>>

-----------------------------------------------------------------------------
Finished    == \A w \in Warp : warp[w].row > Len(rows)
Terminating == Finished /\ UNCHANGED vars

WarpStep(w) ==
  \/ ShortRow(w) \/ Setup(w) \/ GiveUp(w) \/ StartRadix(w) \/ ZeroHistogram(w)
  \/ CountDigits(w) \/ SkipPick(w) \/ NextDigit(w)
  \/ ReserveGreater(w) \/ PlaceBatch(w) \/ EndRow(w)

LaneStep(l) == ReadRank(l) \/ FindBin(l)

Next ==
  \/ \E w \in Warp : WarpStep(w)
  \/ \E l \in Lane : LaneStep(l)
  \/ EndPick \/ Terminating

Spec == Init /\ [][Next]_vars

\* The threads of a resident CTA are all scheduled.
FairSpec ==
  /\ Spec /\ WF_vars(EndPick)
  /\ \A w \in Warp : WF_vars(WarpStep(w))
  /\ \A l \in Lane : WF_vars(LaneStep(l))

-----------------------------------------------------------------------------
(* Properties.                                                              *)

\* The type invariant of the warps' registers and the scratch.
TypeOK ==
  /\ rows \in Inputs
  /\ warp \in [Warp -> [pc : {"begin", "check", "zero", "count", "pick", "next", "emit", "place"},
                        row : 1 .. Len(rows) + 1, digit : 0 .. Digits - 1,
                        batch : Nat, place : Nat]]
  /\ entered \in [Warp -> Nat]
  /\ scratch \in [failed : BOOLEAN, threshold : Nat, rank : Nat, greater : Nat,
                  equal : Nat, spills : Nat]
  /\ histogram \in [Bin -> Nat]
  /\ lane \in [Lane -> [step : {"read", "find", "done"}, rank : Nat, threshold : Nat]]
  /\ failure \in [1 .. Len(rows) -> {Unset, 0, 1}]

\* Where in select_row a warp stands: its row and the rounds of selection_sync
\* it has arrived at in that row.
Rounds(w) ==
  LET m == warp[w] radix == 1 + 3 * (Digits - 1 - m.digit)
  IN  CASE m.pc = "begin" -> 0
        [] m.pc = "check" -> 1
        [] m.pc = "zero"  -> radix
        [] m.pc = "count" -> radix + 1
        [] m.pc = "pick"  -> radix + 2
        [] m.pc \in {"next", "emit", "place"} -> radix + 3

\* All the calls of selection_sync share one barrier, so warps that arrived at
\* the same round must have arrived from the same call: the same place of the
\* same row.  A warp that took another branch would release the others early.
SyncSitesAgree ==
  \A v, w \in Warp :
    entered[v] = entered[w] => warp[v].row = warp[w].row /\ Rounds(v) = Rounds(w)

\* What a row's result must be: its K best positions, in any order and with
\* equal scores chosen freely; or all positions and -1 when there are no more.
IsExact(row, out) ==
  IF Valid(row) <= K
  THEN out = {<<p, IF p < Valid(row) THEN row.start + p ELSE -1>> : p \in Place}
  ELSE LET chosen == {x[2] : x \in out}
       IN  /\ {x[1] : x \in out} = Place
           /\ Cardinality(out) = K /\ Cardinality(chosen) = K
           /\ chosen \subseteq Positions(row)
           /\ \A i \in chosen, j \in Positions(row) \ chosen : row.score[i] >= row.score[j]

\* A row the kernel accepts is exact for ALL its positions, whatever threshold
\* was sampled; any other row is flagged, with every place -1.
RowsExact ==
  \A r \in 1 .. Len(rows) : (\A w \in Warp : warp[w].row > r) =>
    \/ failure[r] = 0 /\ IsExact(rows[r], written[r])
    \/ failure[r] = 1 /\ written[r] = {<<p, -1>> : p \in Place}

\* No warp waits forever at a round of selection_sync.
AllSelected == <>Finished
=============================================================================
