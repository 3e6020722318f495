---------------------------- MODULE SelectPairs ----------------------------
(***************************************************************************)
(* select_topk_pairs: the K best of the pairs in shared memory, chosen by    *)
(* all threads of a CTA, for one row after another on the same shared        *)
(* counters.  This is the selection that the repair kernels make; Repair     *)
(* takes its outcome.                                                        *)
(*                                                                         *)
(* Abstractions.  A warp is one process: its lanes run together through the *)
(* ballots and shuffles of the code.  A score is its ordered key, a number   *)
(* of Digits digits in base Radix.  What is written of a row is kept as a    *)
(* set of <<place, index of the pair>>.                                     *)
(***************************************************************************)
EXTENDS RadixSelect, Sequences, FiniteSets

CONSTANTS
  K,         \* kTopK
  NumWarps,  \* warps of the CTA
  Lanes,     \* lanes of a warp
  Digits,    \* radix rounds
  Inputs     \* sequences of rows to select, each a sequence of scores

ASSUME PairsAssumption ==
  /\ K \in Nat \ {0} /\ NumWarps \in Nat \ {0} /\ Lanes \in Nat \ {0}
  /\ Radix \in Nat \ {0} /\ Digits \in Nat \ {0}

\* A score has Digits digits.
ASSUME InputsAssumption == Inputs \subseteq Seq(Seq(0 .. Weight[Digits] - 1))

Warp == 0 .. NumWarps - 1

VARIABLES
  rows,      \* the rows to select, in order
  warp,      \* per warp: pc, row and its registers
  entered,   \* per warp: rounds of __syncthreads it has arrived at
  histogram,
  shared,    \* selected_byte, selected_greater, the two counters, selection_error
  written,   \* per row: the <<place, index>> pairs written
  error      \* per row: selection_error as the caller read it, or Unset

vars == <<rows, warp, entered, histogram, shared, written, error>>

Unset == -1

\* Shared memory is not initialised.
Init ==
  /\ rows \in Inputs
  /\ warp = [w \in Warp |-> [pc |-> "begin", row |-> 1, digit |-> 0, rank |-> 0,
                             threshold |-> 0, total |-> 0, base |-> 0, place |-> 0]]
  /\ entered = [w \in Warp |-> 0]
  /\ histogram = [b \in Bin |-> 1]
  /\ \E byte \in Bin :
       shared = [byte |-> byte, selected |-> 1, greater |-> 1, equal |-> 1, error |-> 1]
  /\ written = [r \in 1 .. Len(rows) |-> {}]
  /\ error = [r \in 1 .. Len(rows) |-> Unset]

Row(w)   == rows[warp[w].row]
Count(w) == Len(Row(w))

Synced(w) == \A v \in Warp : entered[v] >= entered[w]
Sync(w)   == entered' = [entered EXCEPT ![w] = @ + 1]

At(w, pc)   == warp[w].pc = pc /\ Synced(w)
Become(w, m) == warp' = [warp EXCEPT ![w] = m]
Goto(w, pc)  == Become(w, [warp[w] EXCEPT !.pc = pc])
NextRow(w)   == Become(w, [warp[w] EXCEPT !.pc = "begin", !.row = @ + 1])

-----------------------------------------------------------------------------
Begin(w) ==
  /\ At(w, "begin") /\ warp[w].row <= Len(rows)
  /\ shared' = IF w = 0 THEN [shared EXCEPT !.error = 0] ELSE shared
  /\ Sync(w) /\ Goto(w, IF Count(w) <= K THEN "copy" ELSE "start")
  /\ UNCHANGED <<rows, histogram, written, error>>

\* Up to K pairs are copied; the places after them get no pair.
Copy(w) ==
  /\ At(w, "copy")
  /\ written' = [written EXCEPT ![warp[w].row] = @ \cup
       {<<p, IF p < Count(w) THEN p + 1 ELSE 0>> :
          p \in {q \in 0 .. K - 1 : (q \div Lanes) % NumWarps = w}}]
  /\ Sync(w) /\ Goto(w, "report")
  /\ UNCHANGED <<rows, histogram, shared, error>>

(* radix_select_score.                                                      *)
StartRadix(w) ==
  /\ At(w, "start")
  /\ Become(w, [warp[w] EXCEPT !.pc = "zero", !.digit = Digits - 1, !.rank = K, !.threshold = 0])
  /\ UNCHANGED <<rows, entered, histogram, shared, written, error>>

ZeroHistogram(w) ==
  /\ warp[w].pc = "zero"
  /\ histogram' = [b \in Bin |-> IF (b \div Lanes) % NumWarps = w THEN 0 ELSE histogram[b]]
  /\ Sync(w) /\ Goto(w, "count")
  /\ UNCHANGED <<rows, shared, written, error>>

\* The indexes warp w reads: its lanes of every CTA-wide batch.
BatchAt(w, base) ==
  {i \in 1 .. Count(w) : i - 1 >= base + w * Lanes /\ i - 1 < base + (w + 1) * Lanes}
Mine(w) == {i \in 1 .. Count(w) : ((i - 1) \div Lanes) % NumWarps = w}

CountDigits(w) ==
  LET d == warp[w].digit
      active == {i \in Mine(w) : /\ Row(w)[i] # 0
                                 /\ AboveDigit(Row(w)[i], d) = AboveDigit(warp[w].threshold, d)}
  IN  /\ At(w, "count")
      /\ histogram' = [b \in Bin |-> histogram[b]
                         + Cardinality({i \in active : DigitOf(Row(w)[i], d) = b})]
      /\ Sync(w) /\ Goto(w, "pick")
      /\ UNCHANGED <<rows, shared, written, error>>

\* Pairs in the bins above b.
Greater(b) == CountAbove(histogram, b)

RankBins(rank) == BinsOfRank(histogram, rank, Bin)

\* Bug: the warps that do not look leave out the round.
PickByteAlone(w) ==
  /\ At(w, "pick")
  /\ \/ (w # 0 \/ RankBins(warp[w].rank) = {}) /\ UNCHANGED shared
     \/ w = 0 /\ \E b \in RankBins(warp[w].rank) :
                   shared' = [shared EXCEPT !.byte = b, !.selected = Greater(b)]
  /\ (IF w = 0 THEN Sync(w) ELSE UNCHANGED entered) /\ Goto(w, "take")
  /\ UNCHANGED <<rows, histogram, written, error>>

\* Warp 0 looks for the bin of the rank; if there is none, byte and count stay
\* what they were.
PickByte(w) ==
  /\ At(w, "pick")
  /\ \/ (w # 0 \/ RankBins(warp[w].rank) = {}) /\ UNCHANGED shared
     \/ w = 0 /\ \E b \in RankBins(warp[w].rank) :
                   shared' = [shared EXCEPT !.byte = b, !.selected = Greater(b)]
  /\ Sync(w) /\ Goto(w, "take")
  /\ UNCHANGED <<rows, histogram, written, error>>

TakeByte(w) ==
  /\ At(w, "take")
  /\ Become(w, [warp[w] EXCEPT
       !.rank = @ - shared.selected,
       !.threshold = @ + shared.byte * Weight[warp[w].digit],
       !.pc = IF warp[w].digit > 0 THEN "zero" ELSE "clear",
       !.digit = IF @ > 0 THEN @ - 1 ELSE 0])
  /\ UNCHANGED <<rows, entered, histogram, shared, written, error>>

(* The count of the greater pairs, and its hand-off.                        *)
ClearCounters(w) ==
  /\ warp[w].pc = "clear"
  /\ shared' = IF w = 0 THEN [shared EXCEPT !.greater = 0, !.equal = 0] ELSE shared
  /\ Sync(w) /\ Goto(w, "greater")
  /\ UNCHANGED <<rows, histogram, written, error>>

CountGreater(w) ==
  /\ At(w, "greater")
  /\ shared' = [shared EXCEPT
       !.greater = @ + Cardinality({i \in Mine(w) : Row(w)[i] > warp[w].threshold})]
  /\ Sync(w) /\ Goto(w, "handoff")
  /\ UNCHANGED <<rows, histogram, written, error>>

\* Bug: the count is kept, and its counter reset, while others read it.
HandOffUnsynced(w) ==
  /\ At(w, "handoff")
  /\ shared' = IF w = 0 THEN [shared EXCEPT !.selected = shared.greater, !.greater = 0] ELSE shared
  /\ Goto(w, "total")
  /\ UNCHANGED <<rows, entered, histogram, written, error>>

\* Thread 0 keeps the count, then the counter becomes the reservation cursor.
HandOff(w) ==
  /\ At(w, "handoff")
  /\ shared' = IF w = 0 THEN [shared EXCEPT !.selected = shared.greater, !.greater = 0] ELSE shared
  /\ Sync(w) /\ Goto(w, "total")
  /\ UNCHANGED <<rows, histogram, written, error>>

ReadTotal(w) ==
  /\ At(w, "total")
  /\ Become(w, [warp[w] EXCEPT !.total = shared.selected, !.base = 0, !.pc = "emit"])
  /\ UNCHANGED <<rows, entered, histogram, shared, written, error>>

-----------------------------------------------------------------------------
(* Emission: reserve places among the greater, then among the equal.        *)
Above(w) == {i \in BatchAt(w, warp[w].base) : Row(w)[i] > warp[w].threshold}
Level(w) == {i \in BatchAt(w, warp[w].base) : Row(w)[i] # 0 /\ Row(w)[i] = warp[w].threshold}

\* The active lanes below that of index i.
Lower(i, active) == Cardinality({j \in active : j < i})

ReserveGreater(w) ==
  /\ warp[w].pc = "emit" /\ warp[w].base < Count(w)
  /\ shared' = [shared EXCEPT !.greater = @ + Cardinality(Above(w))]
  /\ Become(w, [warp[w] EXCEPT !.place = shared.greater, !.pc = "place"])
  /\ UNCHANGED <<rows, entered, histogram, written, error>>

PlaceBatch(w) ==
  LET above == {<<warp[w].place + Lower(i, Above(w)), i>> : i \in Above(w)}
      level == {<<warp[w].total + shared.equal + Lower(i, Level(w)), i>> :
                  i \in {j \in Level(w) :
                           shared.equal + Lower(j, Level(w)) < K - warp[w].total}}
  IN  /\ warp[w].pc = "place"
      /\ written' = [written EXCEPT ![warp[w].row] =
           @ \cup {x \in above \cup level : x[1] >= 0 /\ x[1] < K}]
      /\ shared' = [shared EXCEPT !.equal = @ + Cardinality(Level(w))]
      /\ Become(w, [warp[w] EXCEPT !.base = @ + NumWarps * Lanes, !.pc = "emit"])
      /\ UNCHANGED <<rows, entered, histogram, error>>

EndEmission(w) ==
  /\ warp[w].pc = "emit" /\ warp[w].base >= Count(w)
  /\ Sync(w) /\ Goto(w, "check")
  /\ UNCHANGED <<rows, histogram, shared, written, error>>

\* Bug: only the greater pairs are checked.
ShortOfGreater(w) == warp[w].total >= K \/ shared.greater # warp[w].total

Short(w) ==
  \/ warp[w].total < 0 \/ warp[w].total >= K
  \/ shared.greater # warp[w].total
  \/ K - warp[w].total <= 0 \/ shared.equal < K - warp[w].total

CheckCounters(w) ==
  /\ At(w, "check")
  /\ shared' = IF w = 0 /\ Short(w) THEN [shared EXCEPT !.error = 1] ELSE shared
  /\ Sync(w) /\ Goto(w, "report")
  /\ UNCHANGED <<rows, histogram, written, error>>

\* The caller's thread 0 reads the error; the row ends with a round.
Report(w) ==
  /\ At(w, "report")
  /\ error' = IF w = 0 THEN [error EXCEPT ![warp[w].row] = shared.error] ELSE error
  /\ Sync(w) /\ NextRow(w)
  /\ UNCHANGED <<rows, histogram, shared, written>>

-----------------------------------------------------------------------------
Finished == \A w \in Warp : warp[w].row > Len(rows)

WarpStep(w) ==
  \/ Begin(w) \/ Copy(w) \/ StartRadix(w) \/ ZeroHistogram(w) \/ CountDigits(w)
  \/ PickByte(w) \/ TakeByte(w) \/ ClearCounters(w) \/ CountGreater(w) \/ HandOff(w)
  \/ ReadTotal(w) \/ ReserveGreater(w) \/ PlaceBatch(w) \/ EndEmission(w)
  \/ CheckCounters(w) \/ Report(w)

Next == (\E w \in Warp : WarpStep(w)) \/ (Finished /\ UNCHANGED vars)

Spec     == Init /\ [][Next]_vars
FairSpec == Spec /\ \A w \in Warp : WF_vars(WarpStep(w))

-----------------------------------------------------------------------------
(* Properties.                                                              *)

Counted(r) == {i \in DOMAIN rows[r] : rows[r][i] # 0}

\* The type invariant.  No warp is ever more than one round ahead of another.
TypeOK ==
  /\ \A v, w \in Warp : entered[v] - entered[w] \in -1 .. 1
  /\ shared.byte \in Bin /\ shared.error \in {0, 1}
  /\ \A r \in 1 .. Len(rows) :
       written[r] \subseteq (0 .. K - 1) \X (0 .. Len(rows[r]))

\* Every warp that emits works with the same number of greater pairs, the true
\* one, though its counter has become the cursor of the reservations: the
\* hand-off the comment in the code asks for.
GreaterHandedOff ==
  \A w \in Warp : warp[w].pc \in {"emit", "place"} =>
    warp[w].total = Cardinality({i \in 1 .. Count(w) : Row(w)[i] > warp[w].threshold})

\* An error is reported exactly when pairs must be left out and fewer than K
\* have a key above 0, whatever shared memory held before.  A row reported
\* without error holds K different best pairs, one per place; or all of them,
\* in order, if there are no more than K.
PairsExact ==
  \A r \in 1 .. Len(rows) : error[r] # Unset =>
    IF Len(rows[r]) > K /\ Cardinality(Counted(r)) < K
    THEN error[r] = 1
    ELSE LET chosen == {x[2] : x \in written[r]}
         IN  /\ error[r] = 0
             /\ {x[1] : x \in written[r]} = 0 .. K - 1 /\ Cardinality(written[r]) = K
             /\ IF Len(rows[r]) <= K
                THEN chosen \ {0} = DOMAIN rows[r]
                ELSE /\ Cardinality(chosen) = K
                     /\ \A i \in chosen, j \in DOMAIN rows[r] \ chosen :
                          rows[r][i] >= rows[r][j]

\* Every row is selected: no warp is left waiting at a round.
AllSelected == <>Finished
=============================================================================
