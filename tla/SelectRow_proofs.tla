------------------------- MODULE SelectRow_proofs --------------------------
(***************************************************************************)
(* select_row is exact, for any number of warps, lanes, segments and digits, *)
(* any radix, any K, any capacities, and any rows one after another on one  *)
(* scratch; and the warps meet in selection_sync from one call only.        *)
(*                                                                         *)
(* The rounds of selection_sync a warp has arrived at give away its row and *)
(* its place in the row.  So every part of the invariant can say when it    *)
(* holds by the rounds alone, whatever the interleaving: what the scratch   *)
(* and a bin hold, and which candidates have a place in the row's output.   *)
(***************************************************************************)
EXTENDS SelectRow, KernelLemmas

---------------------------------------------------------------------------
(* The invariant.                                                           *)

Selects(row) == Valid(row) > K /\ ~Failed(row)

\* The rounds of selection_sync of a row, those of all rows before one, and
\* those a warp has arrived at when it picks digit d (when it begins, for
\* d = Digits).
RoundsOf(row) == IF Valid(row) <= K THEN 1 ELSE IF Failed(row) THEN 2 ELSE 3 * Digits + 2
RoundsBefore(in, r) ==
  Cardinality({x \in (1 .. r - 1) \X (1 .. 3 * Digits + 2) : x[2] <= RoundsOf(in[x[1]])})
PickAt(in, r, d) == RoundsBefore(in, r) + 3 * (Digits - d)

RoundsIn(m) ==
  LET radix == 1 + 3 * (Digits - 1 - m.digit)
  IN  CASE m.pc = "begin" -> 0
        [] m.pc = "check" -> 1
        [] m.pc = "zero"  -> radix
        [] m.pc = "count" -> radix + 1
        [] m.pc = "pick"  -> radix + 2
        [] m.pc \in {"next", "emit", "place"} -> radix + 3

Pcs == {"begin", "check", "zero", "count", "pick", "next", "emit", "place"}

\* What a warp's registers say after e rounds.
Stands(in, m, e) ==
  /\ m \in [pc : Pcs, row : 1 .. Len(in) + 1, digit : 0 .. Digits - 1, batch : Nat, place : Nat]
  /\ e \in Nat /\ e = RoundsBefore(in, m.row) + RoundsIn(m)
  /\ m.pc # "begin" => m.row <= Len(in) /\ Valid(in[m.row]) > K
  /\ m.pc \notin {"begin", "check"} => ~Failed(in[m.row])
  /\ m.pc \in {"emit", "place"} => m.digit = 0

\* No warp is more than a round ahead, and none clears or emits before all
\* have arrived.
Paced ==
  /\ \A v, w \in Warp : entered[v] <= entered[w] + 1
  /\ \A v, w \in Warp :
       warp[w].pc \in {"zero", "emit", "place"} => entered[v] >= entered[w]

InStep ==
  /\ rows \in Inputs
  /\ warp = [w \in Warp |-> warp[w]] /\ entered = [w \in Warp |-> entered[w]]
  /\ \A w \in Warp : Stands(rows, warp[w], entered[w])
  /\ Paced

\* The candidates of a row, the key of the K-th of them, and what threshold,
\* rank and a bin must hold when the digits from d on are fixed.
Candidates(row)  == {id \in Positions(row) : row.score[id] >= row.floor}
Cut(row)         == CHOOSE t \in 0 .. Weight[Digits] - 1 : CutsAt(Candidates(row), row.score, K, t)
Passed(row, d)   == Cardinality(KeysOf(Candidates(row), row.score, Weight[d], Cut(row)))
ThresholdAt(row, d) == (Cut(row) \div Weight[d]) * Weight[d]
RankAt(row, d)   == K - Passed(row, d)
BucketAt(row, d, b) == BucketOf(Candidates(row), row.score, Weight[d], Radix, Cut(row), b)

WarpOf(id)     == SegmentOf(id) % NumWarps
LaneOf(row, d) == DigitOf(Cut(row), d) \div (Radix \div Lanes)

\* The lanes of warp 0 hold what the scratch had before the digit.
LanesRight ==
  \A l \in Lane : lane[l].step # "read" =>
    /\ warp[0].pc = "pick" /\ \A v \in Warp : entered[v] >= entered[0]
    /\ lane[l].rank = RankAt(rows[warp[0].row], warp[0].digit + 1)
    /\ lane[l].threshold = ThresholdAt(rows[warp[0].row], warp[0].digit + 1)
    /\ lane[l].step = "done" => \A j \in Lane : lane[j].step # "read"

FixedTo(row, d) == scratch.threshold = ThresholdAt(row, d) /\ scratch.rank = RankAt(row, d)

\* The scratch while warp 0 is in row r.
InRow(r) == RoundsBefore(rows, r) < entered[0] /\ entered[0] <= RoundsBefore(rows, r) + RoundsOf(rows[r])
ScratchOf(r) ==
  LET row == rows[r] At(d) == PickAt(rows, r, d)
  IN  /\ scratch.failed = Failed(row)
      /\ scratch.spills = Spills(row)
      /\ ~Failed(row) =>
           /\ \A d \in 0 .. Digits :
                At(d) < entered[0] /\ entered[0] <= At(d) + 2 => FixedTo(row, d)
           /\ \A d \in 0 .. Digits - 1 : entered[0] = At(d) =>
                FixedTo(row, IF lane[LaneOf(row, d)].step = "done" THEN d ELSE d + 1)
ScratchRight == \A r \in 1 .. Len(rows) : Valid(rows[r]) > K /\ InRow(r) => ScratchOf(r)

\* While all are in the rounds of a digit, a bin that was cleared holds what
\* the warps that have counted found of it.
InDigit(r, d) ==
  \A v \in Warp : /\ PickAt(rows, r, d) - 2 <= entered[v]
                  /\ entered[v] <= PickAt(rows, r, d) + 1
Counted(r, d, b) ==
  {id \in BucketAt(rows[r], d, b) : entered[WarpOf(id)] >= PickAt(rows, r, d)}
BinsRight ==
  \A r \in 1 .. Len(rows) : Selects(rows[r]) =>
    \A d \in 0 .. Digits - 1, b \in Bin :
      InDigit(r, d) /\ PickAt(rows, r, d) - 1 <= entered[b % NumWarps] =>
        histogram[b] = Cardinality(Counted(r, d, b))

\* Of a row's candidates, those above its cut and those at it.
Beyond(row) == {id \in Candidates(row) : row.score[id] > Cut(row)}
Ties(row)   == {id \in Candidates(row) : row.score[id] = Cut(row)}

\* The candidates whose batch was placed; those above the cut that have a
\* place reserved; and the places each warp has reserved and not filled.
HasPlaced(in, m, r, id) ==
  \/ m.row > r
  \/ m.row = r /\ m.pc \in {"emit", "place"} /\ BatchOf(in[r], id) < m.batch
IsPlacing(m, r) == m.row = r /\ m.pc = "place"
Done(r)       == {id \in Candidates(rows[r]) : HasPlaced(rows, warp[WarpOf(id)], r, id)}
Placing(r, w) == IsPlacing(warp[w], r)
Pending(r, w) ==
  {id \in Beyond(rows[r]) : WarpOf(id) = w /\ BatchOf(rows[r], id) = warp[w].batch}
Reserved(r) ==
  {id \in Beyond(rows[r]) : \/ id \in Done(r)
                            \/ Placing(r, WarpOf(id)) /\ id \in Pending(r, WarpOf(id))}
Spans(r) ==
  [w \in {v \in Warp : Placing(r, v)} |-> PlacesFrom(warp[w].place, Cardinality(Pending(r, w)))]

\* An output with the candidates of done that belong in it.
RowOutput(row, out, done, reserved, spans) ==
  IsOutput(Beyond(row), Ties(row), K - RankAt(row, 0), RankAt(row, 0), out, done, reserved, spans)

OutputRight(r) ==
  /\ RowOutput(rows[r], written[r], Done(r), Cardinality(Reserved(r)), Spans(r))
  /\ InRow(r) => /\ scratch.greater = Cardinality(Reserved(r))
                 /\ scratch.equal = Cardinality(Done(r) \cap Ties(rows[r]))

\* What a short or failed row has so far.
FilledRight(r, value) ==
  written[r] = {<<p, value[p]>> : p \in {q \in Place : warp[q % NumWarps].row > r}}

Filler(row) == [p \in Place |-> IF Valid(row) <= K /\ p < Valid(row) THEN row.start + p ELSE -1]
FlagRight(r) ==
  failure[r] = IF entered[0] <= RoundsBefore(rows, r) THEN Unset
               ELSE IF Valid(rows[r]) > K /\ Failed(rows[r]) THEN 1 ELSE 0
RowRight(r) ==
  /\ FlagRight(r)
  /\ Selects(rows[r]) => OutputRight(r)
  /\ ~Selects(rows[r]) => FilledRight(r, Filler(rows[r]))

RowsRight ==
  /\ written = [r \in 1 .. Len(rows) |-> written[r]]
  /\ \A r \in 1 .. Len(rows) : RowRight(r)

\* SyncInv is inductive by itself; the outputs need it at every step.
SyncInv == TypeOK /\ InStep /\ LanesRight /\ ScratchRight /\ BinsRight
IInv    == SyncInv /\ RowsRight

---------------------------------------------------------------------------
(* Rounds.                                                                  *)

IsRow(row) ==
  /\ row.start \in Nat /\ row.end \in Nat /\ row.floor \in Nat
  /\ \A id \in Positions(row) : row.score[id] \in Nat /\ row.score[id] < Weight[Digits]
  /\ Valid(row) \in Nat

LEMMA WeightIs ==
  /\ Weight[0] = 1
  /\ \A d \in Nat : Weight[d] \in Nat \ {0} /\ Weight[d + 1] = Radix * Weight[d]
<1>1. Radix \in Nat \ {0}
  BY SelectAssumption
<1>2. Weight = CHOOSE g : g = [d \in Nat |-> IF d = 0 THEN 1 ELSE Radix * g[d - 1]]
  BY DEF Weight
<1> QED BY <1>1, <1>2, PowersOf

LEMMA RowsAre ==
  ASSUME NEW in \in Inputs, NEW r \in 1 .. Len(in)
  PROVE  IsRow(in[r]) /\ Valid(in[r]) \in Nat
<1>1. /\ in[r].start \in Nat /\ in[r].end \in Nat /\ in[r].floor \in Nat
      /\ \A id \in in[r].start .. in[r].end - 1 : in[r].score[id] \in 0 .. Weight[Digits] - 1
  BY InputsAssumption
<1>2. Weight[Digits] \in Nat \ {0}
  BY SelectAssumption, WeightIs
<1>3. Valid(in[r]) \in Nat
  BY <1>1 DEF Valid
<1> QED BY <1>1, <1>2, <1>3 DEF IsRow, Positions

LEMMA RoundsOfRow ==
  ASSUME NEW row PROVE RoundsOf(row) \in 1 .. 3 * Digits + 2
BY SelectAssumption DEF RoundsOf

LEMMA RoundsAdd ==
  ASSUME NEW in, NEW r \in Nat \ {0}
  PROVE  /\ RoundsBefore(in, 1) = 0
         /\ RoundsBefore(in, r) \in Nat
         /\ RoundsBefore(in, r + 1) = RoundsBefore(in, r) + RoundsOf(in[r])
<1> DEFINE most == 3 * Digits + 2
           S(q) == {x \in (1 .. q - 1) \X (1 .. most) : x[2] <= RoundsOf(in[x[1]])}
           T == {r} \X (1 .. RoundsOf(in[r]))
<1>1. most \in Nat
  BY SelectAssumption
<1>2. \A q \in Nat \ {0} : IsFiniteSet(S(q)) /\ Cardinality(S(q)) \in Nat
  <2> HIDE DEF most
  <2> TAKE q \in Nat \ {0}
  <2>1. IsFiniteSet(1 .. q - 1) /\ IsFiniteSet(1 .. most)
    BY <1>1, FS_Interval
  <2>2. IsFiniteSet((1 .. q - 1) \X (1 .. most))
    BY <2>1, FS_Product
  <2> QED BY <2>2, FS_Subset, FS_CardinalityType
<1>3. S(1) = {}
  OBVIOUS
<1>4. RoundsOf(in[r]) \in 1 .. most
  BY RoundsOfRow
<1> HIDE DEF most
<1>5. S(r + 1) = S(r) \cup T /\ S(r) \cap T = {}
  <2>1. \A x : x \in S(r + 1) <=> x \in S(r) \/ x \in T
    <3> TAKE x
    <3>1. x \in S(r + 1) <=> /\ x \in Nat \X Nat /\ x[1] \in 1 .. r /\ x[2] \in 1 .. most
                            /\ x[2] <= RoundsOf(in[x[1]])
      OBVIOUS
    <3>2. x \in S(r) <=> /\ x \in Nat \X Nat /\ x[1] \in 1 .. r - 1 /\ x[2] \in 1 .. most
                        /\ x[2] <= RoundsOf(in[x[1]])
      OBVIOUS
    <3>3. x \in T <=> /\ x \in Nat \X Nat /\ x[1] = r /\ x[2] \in 1 .. most
                     /\ x[2] <= RoundsOf(in[x[1]])
      BY <1>1, <1>4
    <3>4. \A n \in Nat : n \in 1 .. r <=> n \in 1 .. r - 1 \/ n = r
      OBVIOUS
    <3> HIDE DEF S, T
    <3> QED BY <3>1, <3>2, <3>3, <3>4
  <2>2. S(r) \cap T = {}
    OBVIOUS
  <2> QED BY <2>1, <2>2
<1>6. IsFiniteSet(T) /\ Cardinality(T) = RoundsOf(in[r])
  <2> DEFINE n == RoundsOf(in[r])
  <2>1. n \in Nat
    BY <1>1, <1>4
  <2>2. IsFiniteSet(1 .. n) /\ Cardinality(1 .. n) = n
    BY <2>1, IntervalSize
  <2>3. IsFiniteSet({r}) /\ Cardinality({r}) = 1
    BY FS_Singleton
  <2>4. IsFiniteSet({r} \X (1 .. n)) /\ Cardinality({r} \X (1 .. n)) = 1 * Cardinality(1 .. n)
    BY <2>2, <2>3, FS_Product
  <2> HIDE DEF n
  <2> QED BY <2>1, <2>2, <2>4 DEF n, T
<1> HIDE DEF S, T
<1>7. Cardinality(S(r + 1)) = Cardinality(S(r)) + RoundsOf(in[r])
  <2>1. Cardinality(S(r) \cup T) = Cardinality(S(r)) + Cardinality(T) - Cardinality(S(r) \cap T)
    BY <1>2, <1>6, FS_Union
  <2>2. Cardinality(S(r) \cap T) = 0
    BY <1>5, FS_EmptySet
  <2> DEFINE n == RoundsOf(in[r])
             c == Cardinality(S(r))
             u == Cardinality(S(r) \cup T)
             i == Cardinality(S(r) \cap T)
             t == Cardinality(T)
  <2>3. n \in Nat /\ c \in Nat /\ u = c + t - i /\ i = 0 /\ t = n
    BY <1>1, <1>2, <1>4, <1>6, <2>1, <2>2
  <2> HIDE DEF n, c, u, i, t
  <2>4. u = c + n
    BY <2>3
  <2> QED BY <2>4, <1>5 DEF u, c, n
<1>8. Cardinality(S(1)) = 0
  BY <1>3, FS_EmptySet
<1> QED BY <1>2, <1>7, <1>8 DEF RoundsBefore, S, most

LEMMA RoundsGrow ==
  ASSUME NEW in, NEW q \in Nat \ {0}, NEW r \in Nat \ {0}, q < r
  PROVE  RoundsBefore(in, q) + RoundsOf(in[q]) <= RoundsBefore(in, r)
<1> DEFINE S == {n \in Nat : RoundsBefore(in, q + 1) <= RoundsBefore(in, q + 1 + n)}
<1>1. 0 \in S
  BY RoundsAdd
<1>2. ASSUME NEW n \in Nat, n \in S PROVE n + 1 \in S
  <2>1. /\ q + 1 + n \in Nat \ {0} /\ q + 1 \in Nat \ {0}
        /\ (q + 1 + n) + 1 = q + 1 + (n + 1)
    OBVIOUS
  <2>2. RoundsBefore(in, q + 1 + (n + 1))
          = RoundsBefore(in, q + 1 + n) + RoundsOf(in[q + 1 + n])
    BY <2>1, RoundsAdd
  <2>3. RoundsOf(in[q + 1 + n]) \in Nat
    BY RoundsOfRow, SelectAssumption
  <2>4. RoundsBefore(in, q + 1 + n) \in Nat /\ RoundsBefore(in, q + 1) \in Nat
    BY <2>1, RoundsAdd
  <2>5. RoundsBefore(in, q + 1) <= RoundsBefore(in, q + 1 + n)
    BY <1>2
  <2>6. RoundsBefore(in, q + 1) <= RoundsBefore(in, q + 1 + (n + 1))
    BY <2>2, <2>3, <2>4, <2>5
  <2> QED BY <2>6
<1> HIDE DEF S
<1>3. r - q - 1 \in S
  <2>1. r - q - 1 \in Nat
    OBVIOUS
  <2> QED BY <1>1, <1>2, <2>1, NatSetInduction
<1>4. q + 1 + (r - q - 1) = r
  OBVIOUS
<1>5. RoundsBefore(in, q + 1) <= RoundsBefore(in, r)
  BY <1>3, <1>4 DEF S
<1> QED BY <1>5, RoundsAdd

\* Where a warp is in its row: every place has its own round.
PcRounds(in, m, e) ==
  LET b == RoundsBefore(in, m.row) p == PickAt(in, m.row, m.digit)
  IN  /\ b \in Nat /\ e \in Nat /\ m.row \in Nat \ {0}
      /\ m.digit \in Nat /\ m.digit < Digits
      /\ p = b + 3 * (Digits - m.digit) /\ p \in Nat
      /\ m.pc = "begin" => e = b
      /\ m.pc = "check" => e = b + 1
      /\ m.pc = "zero"  => e = p - 2
      /\ m.pc = "count" => e = p - 1
      /\ m.pc = "pick"  => e = p
      /\ m.pc \in {"next", "emit", "place"} => e = p + 1

LEMMA PcIsRound ==
  ASSUME NEW in \in Inputs, NEW m, NEW e, Stands(in, m, e)
  PROVE  PcRounds(in, m, e)
<1>0. Len(in) \in Nat
  BY InputsAssumption
<1>1. /\ m.pc \in Pcs /\ m.row \in 1 .. Len(in) + 1 /\ m.digit \in 0 .. Digits - 1
      /\ e \in Nat /\ e = RoundsBefore(in, m.row) + RoundsIn(m)
  BY DEF Stands
<1>2. m.row \in Nat \ {0} /\ Digits \in Nat
  BY <1>0, <1>1, SelectAssumption
<1>3. RoundsBefore(in, m.row) \in Nat
  BY <1>2, RoundsAdd
<1> DEFINE b == RoundsBefore(in, m.row)
           p == PickAt(in, m.row, m.digit)
<1>4. m.digit \in Nat /\ m.digit < Digits
  BY <1>1, <1>2
<1>5. p = b + 3 * (Digits - m.digit)
  BY DEF PickAt
<1>6. e = b + RoundsIn(m)
  BY <1>1
<1> HIDE DEF b, p
<1>7. b \in Nat
  BY <1>3 DEF b
<1>8. p \in Nat
  BY <1>2, <1>4, <1>5, <1>7
<1>9. /\ m.pc = "begin" => e = b
      /\ m.pc = "check" => e = b + 1
      /\ m.pc = "zero"  => e = p - 2
      /\ m.pc = "count" => e = p - 1
      /\ m.pc = "pick"  => e = p
      /\ m.pc \in {"next", "emit", "place"} => e = p + 1
  <2> DEFINE x == 1 + 3 * (Digits - 1 - m.digit)
  <2>1. /\ m.pc = "begin" => RoundsIn(m) = 0
        /\ m.pc = "check" => RoundsIn(m) = 1
        /\ m.pc = "zero"  => RoundsIn(m) = x
        /\ m.pc = "count" => RoundsIn(m) = x + 1
        /\ m.pc = "pick"  => RoundsIn(m) = x + 2
        /\ m.pc \in {"next", "emit", "place"} => RoundsIn(m) = x + 3
    BY DEF RoundsIn
  <2>2. b + x = p - 2 /\ x \in Int
    BY <1>2, <1>4, <1>5, <1>7
  <2> HIDE DEF x
  <2> QED BY <1>6, <1>7, <1>8, <2>1, <2>2
<1> QED BY <1>1, <1>2, <1>4, <1>5, <1>7, <1>8, <1>9 DEF PcRounds, b, p

\* The rounds tell the row.
LEMMA RoundsTellRow ==
  ASSUME NEW in \in Inputs, NEW m, NEW e, Stands(in, m, e), NEW r \in 1 .. Len(in)
  PROVE  /\ m.row < r => e < RoundsBefore(in, r)
         /\ m.row = r => /\ RoundsBefore(in, r) <= e
                         /\ e < RoundsBefore(in, r) + RoundsOf(in[r])
         /\ m.row > r => e >= RoundsBefore(in, r) + RoundsOf(in[r])
<1>1. PcRounds(in, m, e)
  BY PcIsRound
<1> DEFINE q == m.row
           b == RoundsBefore(in, q)
           n == RoundsOf(in[q])
<1>2. /\ q \in Nat \ {0} /\ b \in Nat /\ e \in Nat /\ Digits \in Nat \ {0} /\ n \in 1 .. 3 * Digits + 2
  BY <1>1, SelectAssumption, RoundsOfRow DEF PcRounds
<1>0. Len(in) \in Nat
  BY InputsAssumption
<1>8. m.pc \in Pcs /\ m.digit \in 0 .. Digits - 1
  BY DEF Stands
<1>9. m.pc # "begin" => Valid(in[q]) > K
  BY DEF Stands
<1>10. /\ m.pc # "begin" => ~(Valid(in[q]) <= K)
       /\ m.pc \notin {"begin", "check"} => ~Failed(in[q])
  <2>1. m.pc # "begin" => q \in 1 .. Len(in)
    BY <1>0, <1>2 DEF Stands
  <2>2. q \in 1 .. Len(in) => Valid(in[q]) \in Nat
    BY RowsAre
  <2>3. Valid(in[q]) \in Nat /\ Valid(in[q]) > K => ~(Valid(in[q]) <= K)
    BY SelectAssumption
  <2> QED BY <1>9, <2>1, <2>2, <2>3 DEF Stands
<1> DEFINE p == PickAt(in, q, m.digit)
<1>12. /\ p = b + 3 * (Digits - m.digit) /\ p \in Nat /\ m.digit < Digits /\ m.digit \in Nat
       /\ m.pc = "begin" => e = b
       /\ m.pc = "check" => e = b + 1
       /\ m.pc = "zero"  => e = p - 2
       /\ m.pc = "count" => e = p - 1
       /\ m.pc = "pick"  => e = p
       /\ m.pc \in {"next", "emit", "place"} => e = p + 1
  BY <1>1 DEF PcRounds
<1>13. /\ m.pc \notin {"begin", "check"} => b <= e /\ e <= p + 1
       /\ b <= e
  <2> HIDE DEF b, p
  <2>1. p >= b + 3 /\ p \in Nat /\ b \in Nat /\ e \in Nat
    <3>1. /\ p = b + 3 * (Digits - m.digit) /\ p \in Nat /\ m.digit < Digits /\ m.digit \in Nat
          /\ b \in Nat /\ e \in Nat /\ Digits \in Nat
      BY <1>2, <1>12, SelectAssumption
    <3> QED BY ONLY <3>1
  <2>2. e \in {b, b + 1, p - 2, p - 1, p, p + 1}
    BY <1>8, <1>12 DEF Pcs
  <2>3. m.pc \notin {"begin", "check"} => e \in {p - 2, p - 1, p, p + 1}
    BY <1>8, <1>12 DEF Pcs
  <2> QED BY <2>1, <2>2, <2>3
<1>11. b <= e
  BY <1>13
<1>3. q <= Len(in) => e < b + n
  <2> SUFFICES ASSUME q <= Len(in) PROVE e < b + n
    OBVIOUS
  <2>2. CASE m.pc = "begin"
    <3>1. e = b
      BY <1>1, <2>2 DEF PcRounds
    <3> HIDE DEF b, n
    <3> QED BY <1>2, <3>1
  <2>3. CASE m.pc = "check"
    <3>1. e = b + 1
      BY <1>1, <2>3 DEF PcRounds
    <3>2. n = 2 \/ n = 3 * Digits + 2
      BY <2>3, <1>10 DEF RoundsOf
    <3> HIDE DEF b, n
    <3> QED BY <1>2, <3>1, <3>2
  <2>4. CASE m.pc \notin {"begin", "check"}
    <3>1. n = 3 * Digits + 2
      BY <2>4, <1>10 DEF RoundsOf
    <3> HIDE DEF b, n, p
    <3>2. /\ b \in Nat /\ e \in Nat /\ e <= p + 1 /\ Digits \in Nat
          /\ p = b + 3 * (Digits - m.digit) /\ m.digit \in Nat /\ m.digit < Digits
      BY <1>2, <1>12, <1>13, <2>4, SelectAssumption
    <3> QED BY ONLY <3>1, <3>2
  <2> QED BY <2>2, <2>3, <2>4
<1>4. r \in Nat \ {0} /\ RoundsBefore(in, r) \in Nat /\ RoundsOf(in[r]) \in Nat
  <2>1. r \in Nat \ {0}
    OBVIOUS
  <2> QED BY <2>1, RoundsAdd, RoundsOfRow, SelectAssumption
<1> HIDE DEF b, n
<1>5. ASSUME q < r PROVE e < RoundsBefore(in, r)
  <2>1. b + n <= RoundsBefore(in, r)
    BY <1>2, <1>4, <1>5, RoundsGrow DEF b, n
  <2>2. n \in Nat
    BY RoundsOfRow, SelectAssumption DEF n
  <2> QED BY <1>2, <1>3, <1>4, <1>5, <2>1, <2>2
<1>6. ASSUME q = r PROVE RoundsBefore(in, r) <= e /\ e < RoundsBefore(in, r) + RoundsOf(in[r])
  BY <1>2, <1>3, <1>6, <1>11 DEF b, n
<1>7. ASSUME q > r PROVE e >= RoundsBefore(in, r) + RoundsOf(in[r])
  <2>1. RoundsBefore(in, r) + RoundsOf(in[r]) <= b
    BY <1>2, <1>4, <1>7, RoundsGrow DEF b
  <2> QED BY <1>2, <1>4, <1>11, <2>1 DEF b
<1> QED BY <1>2, <1>4, <1>5, <1>6, <1>7

---------------------------------------------------------------------------
(* The candidates of a row.                                                 *)

LEMMA CandidatesAre ==
  ASSUME NEW row, IsRow(row)
  PROVE  /\ Candidates(row) \in SUBSET Nat /\ IsFiniteSet(Candidates(row))
         /\ Cardinality(Candidates(row)) \in Nat
         /\ Candidates(row) \subseteq Positions(row) /\ Positions(row) \subseteq Nat
         /\ \A id \in Candidates(row) :
              /\ row.score[id] \in Nat /\ row.score[id] < Weight[Digits]
              /\ SegmentOf(id) \in Segment /\ WarpOf(id) \in Warp
         /\ \A s \in Segment :
              /\ CandidatesIn(row, s) = {id \in Candidates(row) : SegmentOf(id) = s}
              /\ IsFiniteSet(CandidatesIn(row, s)) /\ Counts(row)[s] = Cardinality(CandidatesIn(row, s))
              /\ Counts(row)[s] \in Nat
<1>1. /\ row.start \in Nat /\ row.end \in Nat
      /\ Positions(row) \subseteq Nat /\ IsFiniteSet(Positions(row))
  <2>1. row.start \in Nat /\ row.end - 1 \in Int
    BY DEF IsRow
  <2>2. IsFiniteSet(row.start .. row.end - 1)
    BY <2>1, FS_Interval
  <2> QED BY <2>1, <2>2 DEF IsRow, Positions
<1>2. Candidates(row) \subseteq Positions(row)
  BY DEF Candidates
<1>3. /\ IsFiniteSet(Candidates(row)) /\ Candidates(row) \in SUBSET Nat
      /\ Cardinality(Candidates(row)) \in Nat
  BY <1>1, <1>2, FS_Subset, FS_CardinalityType
<1>4. ASSUME NEW id \in Candidates(row)
      PROVE  /\ row.score[id] \in Nat /\ row.score[id] < Weight[Digits]
             /\ SegmentOf(id) \in Segment /\ WarpOf(id) \in Warp
  <2>1. id \in Nat /\ id \in Positions(row)
    BY <1>2, <1>3
  <2>2. Segments \in Nat \ {0} /\ NumWarps \in Nat \ {0}
    BY SelectAssumption
  <2>3. id % Segments \in 0 .. Segments - 1
    BY <2>1, <2>2
  <2>4. (id % Segments) % NumWarps \in 0 .. NumWarps - 1
    BY <2>2, <2>3
  <2> QED BY <2>1, <2>3, <2>4 DEF IsRow, SegmentOf, WarpOf, Segment, Warp
<1>5. ASSUME NEW s \in Segment
      PROVE  /\ CandidatesIn(row, s) = {id \in Candidates(row) : SegmentOf(id) = s}
             /\ IsFiniteSet(CandidatesIn(row, s)) /\ Counts(row)[s] = Cardinality(CandidatesIn(row, s))
             /\ Counts(row)[s] \in Nat
  <2>1. CandidatesIn(row, s) = {id \in Candidates(row) : SegmentOf(id) = s}
    BY DEF CandidatesIn, Candidates
  <2>2. IsFiniteSet(CandidatesIn(row, s))
    BY <1>3, <2>1, FS_Subset
  <2> QED BY <2>1, <2>2, FS_CardinalityType DEF Counts
<1> QED BY <1>1, <1>2, <1>3, <1>4, <1>5

LEMMA SegmentIsFinite == IsFiniteSet(Segment)
BY SelectAssumption, IntervalSize DEF Segment

\* The counts add up to the candidates.
LEMMA TotalIs ==
  ASSUME NEW row, IsRow(row)
  PROVE  Total(row) = Cardinality(Candidates(row))
<1> DEFINE A == [s \in Segment |-> CandidatesIn(row, s)]
           h == Counts(row)
<1>1. \A s \in Segment : IsFiniteSet(A[s]) /\ h[s] = Cardinality(A[s])
  BY CandidatesAre
<1>2. \A s, u \in Segment : s # u => A[s] \cap A[u] = {}
  BY DEF CandidatesIn
<1>3. UnionOver(Segment, A) = Candidates(row)
  <2>1. \A id \in Candidates(row) : SegmentOf(id) \in Segment /\ id \in A[SegmentOf(id)]
    BY CandidatesAre
  <2>2. \A s \in Segment : A[s] \subseteq Candidates(row)
    BY CandidatesAre
  <2> HIDE DEF A
  <2> QED BY <2>1, <2>2 DEF UnionOver
<1>4. Total(row) = SumOver(h, Segment)
  BY DEF Total, CountIn, SumOver
<1> HIDE DEF A, h
<1> QED BY <1>1, <1>2, <1>3, <1>4, SegmentIsFinite, SumOfSizes

\* Candidates follow one another in their segment.
LEMMA OffsetsAre ==
  ASSUME NEW row, IsRow(row), NEW id \in Candidates(row)
  PROVE  /\ Offset(row, id) \in Nat /\ Offset(row, id) < Counts(row)[SegmentOf(id)]
         /\ BatchOf(row, id) \in Nat
<1> DEFINE s == SegmentOf(id)
           A == CandidatesIn(row, s)
<1>1. /\ s \in Segment /\ A = {i \in Candidates(row) : SegmentOf(i) = s}
      /\ IsFiniteSet(A) /\ Counts(row)[s] = Cardinality(A)
  BY CandidatesAre
<1>2. id \in A /\ A \in SUBSET Int
  <2>1. Candidates(row) \in SUBSET Nat
    BY CandidatesAre
  <2> QED BY <1>1, <2>1
<1>3. Offset(row, id) = Smaller(A, id)
  BY DEF Offset, Smaller
<1> HIDE DEF s, A
<1>4. Smaller(A, id) \in 0 .. Cardinality(A) - 1 /\ Cardinality(A) \in Nat
  BY <1>1, <1>2, RanksAreDense
<1>5. Offset(row, id) \in Nat /\ Offset(row, id) < Counts(row)[s]
  BY <1>1, <1>3, <1>4
<1>6. BatchOf(row, id) \in Nat
  <2>1. /\ s \in Nat /\ Segments \in Nat /\ SegmentCapacity \in Nat /\ SpillPerSegment \in Nat
        /\ Lanes \in Nat \ {0}
    BY <1>1, SelectAssumption DEF Segment
  <2>2. /\ s * SegmentCapacity \in Nat /\ Segments * SegmentCapacity \in Nat
        /\ s * SpillPerSegment \in Nat
    BY <2>1
  <2>3. PICK n : n = Offset(row, id)
    OBVIOUS
  <2>4. n \in Nat /\ n \div Lanes \in Nat
    BY <1>5, <2>1, <2>3, DivFloor
  <2>5. n >= SegmentCapacity => (n - SegmentCapacity) \div Lanes \in Nat
    <3>1. n >= SegmentCapacity => n - SegmentCapacity \in Nat
      BY <2>1, <2>4
    <3> QED BY <2>1, <3>1, DivFloor
  <2>6. BatchOf(row, id) = IF n < SegmentCapacity THEN s * SegmentCapacity + n \div Lanes
                           ELSE Segments * SegmentCapacity + s * SpillPerSegment
                                  + (n - SegmentCapacity) \div Lanes
    BY <2>3 DEF BatchOf, s
  <2> QED BY <2>1, <2>2, <2>4, <2>5, <2>6
<1> QED BY <1>5, <1>6 DEF s

MaxIs(a, b) == Max({a, b}) = IF a >= b THEN a ELSE b
LEMMA MaxOfTwo == \A a, b \in Int : MaxIs(a, b)
<1> SUFFICES ASSUME NEW a \in Int, NEW b \in Int PROVE Max({a, b}) = IF a >= b THEN a ELSE b
  BY DEF MaxIs
<1> QED BY DEF Max

\* What is not stored is counted as spilled, so no candidate of a row that did
\* not fail escapes the warp that walks its segment.
LEMMA LiveIs ==
  ASSUME NEW row, IsRow(row), ~Failed(row), NEW w \in Warp
  PROVE  /\ Live(row, w, Spills(row)) = {id \in Candidates(row) : WarpOf(id) = w}
         /\ Spills(row) \in Nat
<1> DEFINE h == Excess(row)
<1>1. /\ SegmentCapacity \in Nat /\ SpillPerSegment \in Nat
      /\ \A s \in Segment : Counts(row)[s] \in Nat
  BY SelectAssumption, CandidatesAre
<1>2. \A s \in Segment : h[s] = IF Counts(row)[s] > SegmentCapacity
                                THEN Counts(row)[s] - SegmentCapacity ELSE 0
  <2> TAKE s \in Segment
  <2> DEFINE x == Counts(row)[s] - SegmentCapacity
  <2>1. x \in Int
    BY <1>1
  <2>2. h[s] = Max({0, x})
    BY DEF Excess
  <2>3. MaxIs(0, x)
    BY <2>1, MaxOfTwo
  <2> QED BY <1>1, <2>2, <2>3 DEF MaxIs
<1>3. \A s \in Segment : h[s] \in Nat
  BY <1>1, <1>2
<1>4. Spills(row) = SumOver(h, Segment)
  BY DEF Spills, CountIn, SumOver
<1> HIDE DEF h
<1>5. Spills(row) \in Nat /\ (Spills(row) = 0 <=> \A s \in Segment : h[s] = 0)
  BY <1>3, <1>4, SegmentIsFinite, SumIsNat
<1>6. \A s \in Segment : Counts(row)[s] <= SegmentCapacity + SpillPerSegment
  BY <1>1 DEF Failed, Overflows
<1>7. ASSUME NEW id \in Candidates(row), WarpOf(id) = w
      PROVE  id \in Live(row, w, Spills(row))
  <2> DEFINE s == SegmentOf(id)
  <2>1. s \in Segment /\ id \in CandidatesIn(row, s) /\ s \in Own(w)
    BY <1>7, CandidatesAre DEF Own, WarpOf
  <2>2. Offset(row, id) \in Nat /\ Offset(row, id) < Counts(row)[s]
    BY OffsetsAre
  <2>3. CASE Offset(row, id) < SegmentCapacity
    <3>1. id \in Stored(row, s)
      BY <2>1, <2>3 DEF Stored
    <3> QED BY <2>1, <3>1 DEF Live
  <2>4. CASE Offset(row, id) >= SegmentCapacity
    <3> HIDE DEF s
    <3>1. Counts(row)[s] > SegmentCapacity /\ Counts(row)[s] \in Nat
      BY <1>1, <2>1, <2>2, <2>4
    <3>2. Spills(row) # 0
      <4>1. h[s] # 0
        BY <1>1, <1>2, <2>1, <3>1
      <4> QED BY <1>5, <2>1, <4>1
    <3>3. Offset(row, id) - SegmentCapacity \in 0 .. SpillPerSegment - 1
      BY <1>1, <1>6, <2>1, <2>2, <2>4
    <3>4. id \in Spilled(row, s)
      BY <2>1, <3>3 DEF Spilled
    <3> QED BY <2>1, <3>2, <3>4 DEF Live
  <2> QED BY <1>1, <2>2, <2>3, <2>4
<1>8. ASSUME NEW id \in Live(row, w, Spills(row))
      PROVE  id \in Candidates(row) /\ WarpOf(id) = w
  <2>1. PICK s \in Own(w) : id \in CandidatesIn(row, s)
    BY DEF Live, Stored, Spilled
  <2>2. s \in Segment /\ s % NumWarps = w
    BY DEF Own
  <2> QED BY <2>1, <2>2, CandidatesAre DEF WarpOf
<1> QED BY <1>5, <1>7, <1>8

---------------------------------------------------------------------------
(* The key of the rank.                                                     *)

LEMMA CutIs ==
  ASSUME NEW row, IsRow(row), ~Failed(row)
  PROVE  /\ Cut(row) \in Nat /\ Cut(row) < Weight[Digits]
         /\ CutsAt(Candidates(row), row.score, K, Cut(row))
<1> DEFINE S == Candidates(row)
           k == row.score
           n == Weight[Digits]
<1>1. n \in Nat \ {0} /\ K \in Nat \ {0}
  BY WeightIs, SelectAssumption
<1>2. K <= Cardinality(S)
  <2>1. Total(row) = Cardinality(S) /\ Cardinality(S) \in Nat
    BY TotalIs, CandidatesAre
  <2>2. ~(Total(row) < K)
    BY DEF Failed
  <2> HIDE DEF S
  <2> QED BY <1>1, <2>1, <2>2
<1>3. IsFiniteSet(S) /\ (\A i \in S : k[i] \in Nat) /\ (\A i \in S : k[i] < n)
  BY CandidatesAre
<1> HIDE DEF S, k, n
<1>4. \E t \in Nat : t < n /\ CutsAt(S, k, K, t)
  BY ONLY <1>1, <1>2, <1>3, CutExists
<1>5. \E t \in 0 .. n - 1 : CutsAt(S, k, K, t)
  <2>1. PICK t \in Nat : t < n /\ CutsAt(S, k, K, t)
    BY <1>4
  <2>2. t \in 0 .. n - 1
    BY <1>1, <2>1
  <2> QED BY <2>1, <2>2
<1>6. Cut(row) = CHOOSE t \in 0 .. n - 1 : CutsAt(S, k, K, t)
  BY DEF Cut, S, k, n
<1>7. Cut(row) \in 0 .. n - 1 /\ CutsAt(S, k, K, Cut(row))
  BY <1>5, <1>6
<1>8. Cut(row) \in Nat /\ Cut(row) < n
  BY <1>1, <1>7
<1> QED BY <1>7, <1>8 DEF S, k, n

\* What is above the cut, and at it.
LEMMA BeyondIs ==
  ASSUME NEW row, IsRow(row), ~Failed(row)
  PROVE  /\ Beyond(row) \subseteq Candidates(row) /\ Ties(row) \subseteq Candidates(row)
         /\ Beyond(row) \cap Ties(row) = {}
         /\ IsFiniteSet(Beyond(row)) /\ IsFiniteSet(Ties(row))
         /\ Cardinality(Beyond(row)) \in Nat /\ Cardinality(Ties(row)) \in Nat
         /\ Cardinality(Beyond(row)) < K /\ K <= Cardinality(Beyond(row)) + Cardinality(Ties(row))
         /\ RankAt(row, 0) = K - Cardinality(Beyond(row)) /\ RankAt(row, 0) \in Nat \ {0}
         /\ RankAt(row, 0) <= Cardinality(Ties(row))
<1> DEFINE S == Candidates(row)
           t == Cut(row)
<1>1. /\ IsFiniteSet(S) /\ \A id \in S : row.score[id] \in Nat
  BY CandidatesAre
<1>2. t \in Nat /\ CutsAt(S, row.score, K, t) /\ K \in Nat
  BY CutIs, SelectAssumption
<1>3. Beyond(row) \subseteq S /\ Ties(row) \subseteq S /\ Beyond(row) \cap Ties(row) = {}
  <2>1. \A id \in S : row.score[id] > t => row.score[id] # t
    BY <1>1, <1>2
  <2> QED BY <2>1 DEF Beyond, Ties
<1>4. /\ IsFiniteSet(Beyond(row)) /\ IsFiniteSet(Ties(row))
      /\ Cardinality(Beyond(row)) \in Nat /\ Cardinality(Ties(row)) \in Nat
  BY <1>1, <1>3, FS_Subset, FS_CardinalityType
<1>5. {i \in S : row.score[i] >= t} = Beyond(row) \cup Ties(row)
  <2>1. \A id \in S : row.score[id] >= t <=> row.score[id] > t \/ row.score[id] = t
    BY <1>1, <1>2
  <2> QED BY <2>1 DEF Beyond, Ties
<1>6. Cardinality(Beyond(row) \cup Ties(row)) = Cardinality(Beyond(row)) + Cardinality(Ties(row))
  <2>1. Cardinality(Beyond(row) \cup Ties(row))
          = Cardinality(Beyond(row)) + Cardinality(Ties(row)) - Cardinality(Beyond(row) \cap Ties(row))
    BY <1>4, FS_Union
  <2>2. Cardinality(Beyond(row) \cap Ties(row)) = 0
    BY <1>3, FS_EmptySet
  <2> QED BY <1>4, <2>1, <2>2
<1>7. {i \in S : row.score[i] > t} = Beyond(row)
  BY DEF Beyond
<1>8. Cardinality(Beyond(row)) < K /\ Cardinality(Beyond(row) \cup Ties(row)) >= K
  BY <1>2, <1>5, <1>7 DEF CutsAt
<1>9. KeysOf(S, row.score, Weight[0], t) = Beyond(row)
  <2>1. \A x \in Nat : x \div 1 = x
    OBVIOUS
  <2> HIDE DEF t, S
  <2>2. KeysOf(S, row.score, 1, t) = {i \in S : row.score[i] > t}
    BY <1>1, <1>2, <2>1 DEF KeysOf
  <2> QED BY <2>2, <1>7, WeightIs
<1>10. RankAt(row, 0) = K - Cardinality(Beyond(row))
  BY <1>9 DEF RankAt, Passed
<1>11. RankAt(row, 0) \in Nat \ {0} /\ RankAt(row, 0) <= Cardinality(Ties(row))
       /\ K <= Cardinality(Beyond(row)) + Cardinality(Ties(row))
  BY <1>2, <1>4, <1>6, <1>8, <1>10
<1> QED BY <1>3, <1>4, <1>8, <1>10, <1>11

\* Before the first digit nothing is fixed.
LEMMA TopIs ==
  ASSUME NEW row, IsRow(row), ~Failed(row)
  PROVE  RankAt(row, Digits) = K /\ ThresholdAt(row, Digits) = 0
<1> DEFINE n == Weight[Digits]
<1>1. n \in Nat \ {0} /\ K \in Nat
  BY WeightIs, SelectAssumption
<1>2. ASSUME NEW x \in Nat, x < n PROVE x \div n = 0
  <2> HIDE DEF n
  <2>1. x = 0 * n + x /\ x \in 0 .. n - 1
    BY <1>1, <1>2
  <2> QED BY <1>1, <2>1, DivUnique
<1>3. Cut(row) \div n = 0
  BY <1>2, CutIs
<1>4. \A i \in Candidates(row) : row.score[i] \div n = 0
  BY <1>2, CandidatesAre
<1>5. Passed(row, Digits) = 0
  <2>1. KeysOf(Candidates(row), row.score, n, Cut(row)) = {}
    <3> HIDE DEF n
    <3> QED BY <1>3, <1>4 DEF KeysOf
  <2> QED BY <2>1, FS_EmptySet DEF Passed
<1>6. 0 * n = 0
  BY <1>1
<1> QED BY <1>1, <1>3, <1>5, <1>6 DEF RankAt, ThresholdAt

\* Fixing one more digit.
LEMMA PrefixIs ==
  ASSUME NEW row, IsRow(row), ~Failed(row), NEW d \in 0 .. Digits - 1
  PROVE  /\ DigitOf(Cut(row), d) \in Bin
         /\ AboveDigit(ThresholdAt(row, d + 1), d) = Cut(row) \div Weight[d + 1]
         /\ ThresholdAt(row, d + 1) + DigitOf(Cut(row), d) * Weight[d] = ThresholdAt(row, d)
         /\ ThresholdAt(row, 0) = Cut(row)
<1> DEFINE t == Cut(row)
           w == Weight[d]
           v == Weight[d + 1]
           p == t \div v
           e == (t \div w) % Radix
<1>1. w \in Nat \ {0} /\ v \in Nat \ {0} /\ v = Radix * w /\ Radix \in Nat \ {0} /\ t \in Nat
  <2>1. d \in Nat /\ Radix \in Nat \ {0} /\ d + 1 \in Nat
    BY SelectAssumption
  <2>2. w \in Nat \ {0} /\ v = Radix * w /\ v \in Nat \ {0}
    BY <2>1, WeightIs
  <2> QED BY <2>1, <2>2, CutIs
<1>2. /\ p \in Nat /\ e \in 0 .. Radix - 1 /\ t \div w \in Nat /\ t \div w = p * Radix + e
  <2> HIDE DEF w, t
  <2> QED BY <1>1, DigitSplits
<1>4. ThresholdAt(row, d + 1) = p * v /\ DigitOf(t, d) = e /\ AboveDigit(ThresholdAt(row, d + 1), d) = (p * v) \div v
  BY DEF ThresholdAt, DigitOf, AboveDigit
<1>5. (p * v) \div v = p
  <2> HIDE DEF p, v
  <2>1. p * v = p * v + 0 /\ p * v \in Int /\ 0 \in 0 .. v - 1
    BY <1>1, <1>2
  <2> QED BY <1>1, <1>2, <2>1, DivUnique
<1>6. p * v + e * w = (t \div w) * w
  <2> DEFINE q == t \div w
  <2>1. q = p * Radix + e
    BY <1>2
  <2> HIDE DEF q, p, e, w, v
  <2> QED BY <1>1, <1>2, <2>1, Z3
<1>7. (t \div 1) * 1 = t
  <2> HIDE DEF t
  <2>1. t \in Int /\ t = t * 1 + 0 /\ 0 \in 0 .. 1 - 1 /\ 1 \in Nat \ {0}
    BY <1>1
  <2>2. t \div 1 = t
    BY ONLY <2>1, DivUnique
  <2> QED BY <1>1, <2>2
<1>8. ThresholdAt(row, 0) = t /\ e \in Bin /\ ThresholdAt(row, d) = (t \div w) * w
  BY <1>2, <1>7, WeightIs DEF ThresholdAt, Bin
<1> QED BY <1>4, <1>5, <1>6, <1>8

LEMMA RanksAre ==
  ASSUME NEW row, IsRow(row), ~Failed(row), NEW d \in 0 .. Digits
  PROVE  RankAt(row, d) \in Nat \ {0} /\ ThresholdAt(row, d) \in Nat
<1> DEFINE S == Candidates(row)
           t == Cut(row)
           w == Weight[d]
           over == KeysOf(S, row.score, w, t)
<1>1. /\ IsFiniteSet(S) /\ (\A id \in S : row.score[id] \in Nat) /\ t \in Nat /\ w \in Nat \ {0}
      /\ K \in Nat
  BY CandidatesAre, CutIs, WeightIs, SelectAssumption
<1>2. over \subseteq Beyond(row)
  <2> SUFFICES ASSUME NEW i \in S, row.score[i] \div w > t \div w, ~(row.score[i] > t) PROVE FALSE
    BY DEF KeysOf, Beyond
  <2> DEFINE k == row.score[i]
  <2>1. k \in Nat /\ k <= t
    BY <1>1
  <2> HIDE DEF k, t, w
  <2>2. k \div w <= t \div w /\ k \div w \in Nat /\ t \div w \in Nat
    BY <1>1, <2>1, DivMonotone, DivFloor
  <2>3. k \div w > t \div w
    BY DEF k
  <2> QED BY <2>2, <2>3
<1>3. /\ Cardinality(over) \in Nat /\ Cardinality(over) <= Cardinality(Beyond(row))
      /\ Cardinality(Beyond(row)) \in Nat /\ Cardinality(Beyond(row)) < K
  <2> HIDE DEF over
  <2>1. IsFiniteSet(Beyond(row))
    BY BeyondIs
  <2> QED BY <1>2, <2>1, BeyondIs, FS_Subset, FS_CardinalityType
<1>4. RankAt(row, d) = K - Cardinality(over) /\ ThresholdAt(row, d) = (t \div w) * w
  BY DEF RankAt, Passed, ThresholdAt
<1>5. (t \div w) * w \in Nat
  <2> HIDE DEF t, w
  <2>1. t \div w \in Nat
    BY <1>1, DivFloor
  <2> QED BY <1>1, <2>1
<1> HIDE DEF over
<1> QED BY <1>1, <1>3, <1>4, <1>5

\* Of any bins, only the cut's digit holds the rank.
FindsBin(row, d, h, bins) ==
  /\ BinsOfRank(h, RankAt(row, d + 1), bins) = bins \cap {DigitOf(Cut(row), d)}
  /\ RankAt(row, d + 1) - CountAbove(h, DigitOf(Cut(row), d)) = RankAt(row, d)

LEMMA BinIsFound ==
  ASSUME NEW row, IsRow(row), ~Failed(row), NEW d \in 0 .. Digits - 1,
         NEW h, \A b \in Bin : h[b] = Cardinality(BucketAt(row, d, b)),
         NEW bins \in SUBSET Bin
  PROVE  FindsBin(row, d, h, bins)
<1> DEFINE S == Candidates(row)
           k == row.score
           t == Cut(row)
           w == Weight[d]
           before == Cardinality(KeysOf(S, k, Radix * w, t))
           digit == (t \div w) % Radix
<1>1. /\ IsFiniteSet(S) /\ (\A i \in S : k[i] \in Nat) /\ K \in Nat
      /\ t \in Nat /\ CutsAt(S, k, K, t)
  BY CandidatesAre, CutIs, SelectAssumption
<1>2. d \in Nat /\ w \in Nat \ {0} /\ Radix \in Nat \ {0} /\ Weight[d + 1] = Radix * w
  <2>1. d \in Nat /\ Radix \in Nat \ {0}
    BY SelectAssumption
  <2> QED BY <2>1, WeightIs
<1>3. \A b \in 0 .. Radix - 1 : h[b] = Cardinality(BucketOf(S, k, w, Radix, t, b))
  BY DEF Bin, BucketAt
<1>4. /\ RankAt(row, d + 1) = K - before /\ RankAt(row, d) = K - Cardinality(KeysOf(S, k, w, t))
      /\ DigitOf(t, d) = digit
  BY <1>2 DEF Passed, RankAt, DigitOf
<1>11. Cardinality(KeysOf(S, k, w, t)) \in Nat
  <2>1. KeysOf(S, k, w, t) \subseteq S
    BY DEF KeysOf
  <2> HIDE DEF S
  <2> QED BY <1>1, <2>1, FS_Subset, FS_CardinalityType
<1> HIDE DEF S, k, t, w
<1>5. RankIsAt(S, k, w, Radix, t, K, h)
  BY ONLY <1>1, <1>2, <1>3, RankBin
<1>10. /\ before \in Nat /\ digit \in 0 .. Radix - 1
      /\ SumOver(h, digit + 1 .. Radix - 1) = Cardinality(KeysOf(S, k, w, t)) - before
      /\ \A b \in 0 .. Radix - 1 :
           /\ SumOver(h, b + 1 .. Radix - 1) \in Nat /\ h[b] \in Nat
           /\ SumOver(h, b + 1 .. Radix - 1) < K - before
              /\ K - before <= SumOver(h, b + 1 .. Radix - 1) + h[b]
              <=> b = digit
  BY <1>5 DEF RankIsAt
<1>6. \A b : CountAbove(h, b) = SumOver(h, b + 1 .. Radix - 1)
  BY DEF CountAbove, CountIn, SumOver
<1> HIDE DEF before, digit
<1>7. \A b \in Bin : CountAbove(h, b) < K - before /\ K - before <= CountAbove(h, b) + h[b] <=> b = digit
  BY <1>10, <1>6 DEF Bin
<1>8. BinsOfRank(h, K - before, bins) = bins \cap {digit}
  BY <1>10, <1>7 DEF BinsOfRank, Bin
<1>9. CountAbove(h, digit) = Cardinality(KeysOf(S, k, w, t)) - before
  BY <1>10, <1>6
<1>12. (K - before) - CountAbove(h, digit) = K - Cardinality(KeysOf(S, k, w, t))
  BY <1>1, <1>9, <1>10, <1>11
<1> QED BY <1>4, <1>8, <1>12 DEF t, FindsBin

LEMMA LaneIs ==
  ASSUME NEW b \in Bin
  PROVE  /\ b \div (Radix \div Lanes) \in Lane
         /\ b \in BinsOf(b \div (Radix \div Lanes))
<1> DEFINE g == Radix \div Lanes
<1>1. /\ Radix \in Nat \ {0} /\ Lanes \in Nat \ {0} /\ Radix % Lanes = 0 /\ b \in 0 .. Radix - 1
  BY SelectAssumption DEF Bin
<1>2. g \in Nat /\ Radix = g * Lanes
  <2>1. Radix \in Nat /\ Lanes \in Nat \ {0} /\ Radix % Lanes = 0
    BY <1>1
  <2>2. g \in Nat /\ Radix = g * Lanes + (Radix % Lanes)
    BY <2>1, DivFloor
  <2> HIDE DEF g
  <2> QED BY <2>1, <2>2
<1> HIDE DEF g
<1>3. g # 0
  BY <1>1, <1>2
<1>4. /\ b \div g \in Nat /\ b % g \in 0 .. g - 1 /\ b = (b \div g) * g + (b % g)
  <2>1. b \in Nat /\ g \in Nat \ {0}
    BY <1>1, <1>2, <1>3
  <2> QED BY <2>1, DivFloor
<1>5. b \div g < Lanes
  <2> DEFINE q == b \div g
             m == b % g
  <2>1. q \in Nat /\ m \in Nat /\ b = q * g + m /\ b < g * Lanes
    BY <1>1, <1>2, <1>4
  <2> HIDE DEF q, m
  <2>2. SUFFICES ASSUME q >= Lanes PROVE FALSE
    BY <1>1, <2>1 DEF q
  <2>3. q - Lanes \in Nat /\ (q - Lanes) * g \in Nat
    BY <1>1, <1>2, <2>1, <2>2
  <2>4. q * g = g * Lanes + (q - Lanes) * g
    BY <1>1, <1>2, <2>1, Z3
  <2> QED BY <1>1, <1>2, <2>1, <2>3, <2>4
<1> QED BY <1>1, <1>4, <1>5 DEF Lane, BinsOf, Bin, g

---------------------------------------------------------------------------
(* The warps stay in step.                                                  *)

\* What the invariant says of one warp.
LEMMA WarpStands ==
  ASSUME InStep, NEW w \in Warp
  PROVE  /\ rows \in Inputs /\ Len(rows) \in Nat /\ 0 \in Warp
         /\ Stands(rows, warp[w], entered[w]) /\ PcRounds(rows, warp[w], entered[w])
         /\ warp[w] \in [pc : Pcs, row : 1 .. Len(rows) + 1, digit : 0 .. Digits - 1,
                         batch : Nat, place : Nat]
         /\ entered[w] \in Nat
         /\ \A v \in Warp : entered[v] \in Nat /\ entered[v] <= entered[w] + 1
<1>1. /\ rows \in Inputs /\ Len(rows) \in Nat /\ Stands(rows, warp[w], entered[w])
      /\ \A v \in Warp : entered[v] <= entered[w] + 1 /\ Stands(rows, warp[v], entered[v])
  BY InputsAssumption DEF InStep, Paced
<1>2. PcRounds(rows, warp[w], entered[w])
  BY <1>1, PcIsRound
<1>3. 0 \in Warp
  BY SelectAssumption DEF Warp
<1> QED BY <1>1, <1>2, <1>3 DEF Stands

\* The row a warp works on.
LEMMA WarpRow ==
  ASSUME InStep, NEW w \in Warp, NEW r, r = warp[w].row, warp[w].pc # "begin"
  PROVE  /\ r \in 1 .. Len(rows) /\ IsRow(rows[r]) /\ Valid(rows[r]) \in Nat
         /\ Valid(rows[r]) > K /\ ~(Valid(rows[r]) <= K)
         /\ RoundsBefore(rows, r) \in Nat /\ RoundsOf(rows[r]) \in Nat
         /\ RoundsBefore(rows, r) < entered[w]
         /\ entered[w] < RoundsBefore(rows, r) + RoundsOf(rows[r])
         /\ Synced(w) => InRow(r)
<1>1. /\ r \in 1 .. Len(rows) /\ r \in Nat \ {0} /\ Valid(rows[r]) > K /\ K \in Nat
  BY WarpStands, SelectAssumption DEF Stands
<1>2. IsRow(rows[r]) /\ Valid(rows[r]) \in Nat /\ ~(Valid(rows[r]) <= K)
  BY <1>1, WarpStands, RowsAre
<1>3. RoundsBefore(rows, r) \in Nat /\ RoundsOf(rows[r]) \in Nat
  BY <1>1, RoundsAdd, RoundsOfRow, SelectAssumption
<1>4. /\ RoundsBefore(rows, r) <= entered[w]
      /\ entered[w] < RoundsBefore(rows, r) + RoundsOf(rows[r])
  BY <1>1, WarpStands, RoundsTellRow
<1>5. RoundsBefore(rows, r) < entered[w]
  <2> DEFINE b == RoundsBefore(rows, r)
             m == warp[w]
             p == PickAt(rows, r, m.digit)
  <2>1. /\ b \in Nat /\ entered[w] \in Nat /\ m.digit \in Nat /\ m.digit < Digits
        /\ Digits \in Nat /\ p = b + 3 * (Digits - m.digit) /\ m.pc \in Pcs
        /\ m.pc = "check" => entered[w] = b + 1
        /\ m.pc = "zero"  => entered[w] = p - 2
        /\ m.pc = "count" => entered[w] = p - 1
        /\ m.pc = "pick"  => entered[w] = p
        /\ m.pc \in {"next", "emit", "place"} => entered[w] = p + 1
    BY <1>3, WarpStands, SelectAssumption DEF PcRounds
  <2>2. entered[w] \in {b + 1, p - 2, p - 1, p, p + 1}
    BY <2>1 DEF Pcs
  <2> HIDE DEF b, m, p
  <2>3. p >= b + 3
    BY <2>1
  <2>4. b < entered[w]
    BY <2>1, <2>2, <2>3
  <2> QED BY <2>4 DEF b
<1>6. ASSUME Synced(w) PROVE InRow(r)
  <2>1. /\ entered[0] \in Nat /\ entered[0] >= entered[w] /\ entered[0] <= entered[w] + 1
        /\ entered[w] \in Nat
    BY <1>6, WarpStands DEF Synced
  <2> QED BY <1>3, <1>4, <1>5, <2>1 DEF InRow
<1> QED BY <1>1, <1>2, <1>3, <1>4, <1>5, <1>6

\* Only the row a warp is in has its next round.
LEMMA OnlyRow ==
  ASSUME InStep, NEW w \in Warp, NEW r \in 1 .. Len(rows),
         RoundsBefore(rows, r) <= entered[w],
         entered[w] < RoundsBefore(rows, r) + RoundsOf(rows[r])
  PROVE  warp[w].row = r
<1>1. /\ warp[w].row \in Nat /\ r \in Nat \ {0} /\ entered[w] \in Nat
      /\ Stands(rows, warp[w], entered[w]) /\ rows \in Inputs
  BY WarpStands
<1>2. RoundsBefore(rows, r) \in Nat /\ RoundsOf(rows[r]) \in Nat
  BY <1>1, RoundsAdd, RoundsOfRow, SelectAssumption
<1>3. /\ warp[w].row < r => entered[w] < RoundsBefore(rows, r)
      /\ warp[w].row > r => entered[w] >= RoundsBefore(rows, r) + RoundsOf(rows[r])
  BY <1>1, RoundsTellRow
<1> QED BY <1>1, <1>2, <1>3

\* What the scratch holds for a warp that goes on in a row.
LEMMA WarpScratch ==
  ASSUME InStep, ScratchRight, NEW w \in Warp, NEW r, r = warp[w].row,
         warp[w].pc # "begin", Synced(w)
  PROVE  scratch.failed = Failed(rows[r]) /\ scratch.spills = Spills(rows[r])
<1>1. r \in 1 .. Len(rows) /\ Valid(rows[r]) > K /\ InRow(r)
  BY WarpRow
<1> QED BY <1>1 DEF ScratchRight, ScratchOf

LEMMA StepKeeps ==
  ASSUME InStep, NEW w \in Warp, NEW m, warp' = [warp EXCEPT ![w] = m], rows' = rows, Synced(w),
         \/ entered' = entered
         \/ entered' = [entered EXCEPT ![w] = @ + 1] /\ m.pc \notin {"zero", "emit", "place"},
         Stands(rows, m, entered'[w])
  PROVE  InStep'
<1>1. /\ warp = [v \in Warp |-> warp[v]] /\ entered = [v \in Warp |-> entered[v]]
      /\ \A v \in Warp : Stands(rows, warp[v], entered[v]) /\ entered[v] \in Nat
      /\ \A u, v \in Warp : entered[v] <= entered[u] + 1
      /\ \A u, v \in Warp : warp[u].pc \in {"zero", "emit", "place"} => entered[v] >= entered[u]
  BY DEF InStep, Paced, Stands
<1>2. /\ warp' = [v \in Warp |-> warp'[v]] /\ warp'[w] = m
      /\ \A v \in Warp : v # w => warp'[v] = warp[v]
  <2> HIDE DEF InStep
  <2> QED BY <1>1
<1>3. /\ entered' = [v \in Warp |-> entered'[v]]
      /\ \A v \in Warp : v # w => entered'[v] = entered[v]
      /\ entered'[w] = entered[w] \/ entered'[w] = entered[w] + 1
      /\ m.pc \in {"zero", "emit", "place"} => entered'[w] = entered[w]
  <2>1. CASE entered' = entered
    BY <1>1, <2>1
  <2>2. CASE entered' = [entered EXCEPT ![w] = @ + 1] /\ m.pc \notin {"zero", "emit", "place"}
    BY <1>1, <2>2
  <2> QED BY <2>1, <2>2
<1>4. \A v \in Warp : entered[v] >= entered[w]
  BY DEF Synced
<1>5. \A v \in Warp : Stands(rows', warp'[v], entered'[v])
  <2> TAKE v \in Warp
  <2>1. CASE v = w
    BY <2>1, <1>2
  <2>2. CASE v # w
    BY <2>2, <1>1, <1>2, <1>3
  <2> QED BY <2>1, <2>2
<1>6. ASSUME NEW u \in Warp, NEW v \in Warp
      PROVE  /\ entered'[v] <= entered'[u] + 1
             /\ warp'[u].pc \in {"zero", "emit", "place"} => entered'[v] >= entered'[u]
  <2>1. entered[w] \in Nat /\ entered[u] \in Nat /\ entered[v] \in Nat
    BY <1>1
  <2>2. entered[v] <= entered[u] + 1 /\ entered[v] >= entered[w] /\ entered[u] >= entered[w]
    BY <1>1, <1>4
  <2>3. entered[v] <= entered[w] + 1 /\ entered[w] <= entered[u] + 1
    BY <1>1
  <2>4. entered'[v] <= entered'[u] + 1
    BY <1>3, <2>1, <2>2, <2>3
  <2>5. ASSUME warp'[u].pc \in {"zero", "emit", "place"} PROVE entered'[v] >= entered'[u]
    <3>1. CASE u = w
      BY <3>1, <2>5, <2>1, <2>2, <1>2, <1>3
    <3>2. CASE u # w
      BY <3>2, <2>5, <2>1, <1>1, <1>2, <1>3
    <3> QED BY <3>1, <3>2
  <2> QED BY <2>4, <2>5
<1>7. rows' \in Inputs
  BY DEF InStep
<1> QED BY <1>2, <1>3, <1>5, <1>6, <1>7 DEF InStep, Paced

Registers(in) ==
  [pc : Pcs, row : 1 .. Len(in) + 1, digit : 0 .. Digits - 1, batch : Nat, place : Nat]

\* A round of a digit.
LEMMA NextStands ==
  ASSUME NEW in, NEW m, NEW e, Stands(in, m, e), NEW n, n \in Registers(in),
         n.row = m.row, n.digit = m.digit,
         \/ m.pc = "zero" /\ n.pc = "count"
         \/ m.pc = "count" /\ n.pc = "pick"
         \/ m.pc = "pick" /\ n.pc = "next"
  PROVE  Stands(in, n, e + 1)
<1> DEFINE x == 1 + 3 * (Digits - 1 - m.digit)
           b == RoundsBefore(in, m.row)
<1>1. /\ m.digit \in 0 .. Digits - 1 /\ Digits \in Nat /\ e \in Nat /\ e = b + RoundsIn(m)
  BY SelectAssumption DEF Stands
<1>2. /\ m.pc = "zero" => RoundsIn(m) = x
      /\ m.pc = "count" => RoundsIn(m) = x + 1
      /\ m.pc = "pick" => RoundsIn(m) = x + 2
      /\ n.pc = "count" => RoundsIn(n) = x + 1
      /\ n.pc = "pick" => RoundsIn(n) = x + 2
      /\ n.pc = "next" => RoundsIn(n) = x + 3
  BY DEF RoundsIn
<1>3. x \in Nat
  BY <1>1
<1> HIDE DEF x
<1>4. RoundsIn(n) = RoundsIn(m) + 1 /\ RoundsIn(m) \in Nat
  <2>1. CASE m.pc = "zero"
    BY <2>1, <1>2, <1>3
  <2>2. CASE m.pc = "count"
    BY <2>2, <1>2, <1>3
  <2>3. CASE m.pc = "pick"
    BY <2>3, <1>2, <1>3
  <2> QED BY <2>1, <2>2, <2>3
<1>5. e + 1 = b + RoundsIn(n) /\ e + 1 \in Nat
  <2>1. m.row \in Nat \ {0} => b \in Nat
    BY RoundsAdd
  <2>2. m.row \in Nat \ {0}
    <3>1. m.row \in 1 .. Len(in) + 1
      BY DEF Stands
    <3> QED BY ONLY <3>1
  <2> HIDE DEF b
  <2>3. b \in Nat
    BY <2>1, <2>2
  <2> QED BY ONLY <1>1, <1>4, <2>3
<1>6. n.pc # "begin" /\ n.pc \notin {"emit", "place"} /\ m.pc \notin {"begin", "check"}
  OBVIOUS
<1> QED BY <1>5, <1>6 DEF Stands, Registers

LEMMA InStepKept ==
  ASSUME InStep, LanesRight, ScratchRight, scratch.greater \in Nat, [Next]_vars
  PROVE  InStep'
<1>1. CASE UNCHANGED vars
  BY <1>1 DEF vars, InStep, Paced
<1> DEFINE d(w) == warp[w].digit
           r(w) == warp[w].row
           Registered(m) == m \in Registers(rows)
<1>2. \A w \in Warp : /\ warp[w] \in Registers(rows) /\ Stands(rows, warp[w], entered[w])
                      /\ entered[w] \in Nat /\ rows \in Inputs /\ Len(rows) \in Nat
                      /\ warp[w].row \in Nat \ {0} /\ RoundsBefore(rows, warp[w].row) \in Nat
                      /\ Digits \in Nat \ {0}
  BY WarpStands, SelectAssumption, RoundsAdd DEF Registers
<1>3. \A w \in Warp : entered' = [entered EXCEPT ![w] = @ + 1] => entered'[w] = entered[w] + 1
  BY DEF InStep
<1>4. ASSUME NEW w \in Warp, ShortRow(w) PROVE InStep'
  <2> DEFINE m == [warp[w] EXCEPT !.pc = "begin", !.row = warp[w].row + 1]
  <2>1. /\ warp[w].pc = "begin" /\ warp[w].row <= Len(rows) /\ Synced(w) /\ rows' = rows
        /\ Valid(rows[warp[w].row]) <= K
        /\ entered' = [entered EXCEPT ![w] = @ + 1] /\ warp' = [warp EXCEPT ![w] = m]
    BY <1>4 DEF ShortRow, Sync, NextRow, Row
  <2>2. /\ m \in Registers(rows) /\ m.pc = "begin" /\ m.row = warp[w].row + 1
    <3>1. warp[w].row + 1 \in 1 .. Len(rows) + 1 /\ "begin" \in Pcs
      BY <1>2, <2>1 DEF Pcs
    <3>2. m = [warp[w] EXCEPT !.pc = "begin", !.row = warp[w].row + 1]
      OBVIOUS
    <3> HIDE DEF m
    <3> QED BY <1>2, <3>1, <3>2 DEF Registers
  <2> HIDE DEF m
  <2>3. RoundsBefore(rows, m.row) = RoundsBefore(rows, warp[w].row) + 1
    BY <1>2, <2>1, <2>2, RoundsAdd DEF RoundsOf
  <2>4. RoundsIn(m) = 0 /\ entered[w] = RoundsBefore(rows, warp[w].row) + 0
    BY <1>2, <2>1, <2>2 DEF Stands, RoundsIn
  <2>5. Stands(rows, m, entered[w] + 1)
    <3>1. entered[w] + 1 \in Nat /\ entered[w] + 1 = RoundsBefore(rows, m.row) + RoundsIn(m)
      BY <1>2, <2>3, <2>4
    <3> QED BY <2>2, <3>1 DEF Stands, Registers
  <2> QED BY <1>3, <2>1, <2>2, <2>5, StepKeeps
<1>5. ASSUME NEW w \in Warp, Setup(w) PROVE InStep'
  <2> DEFINE m == [warp[w] EXCEPT !.pc = "check"]
  <2>1. /\ warp[w].pc = "begin" /\ warp[w].row <= Len(rows) /\ Synced(w) /\ rows' = rows
        /\ Valid(rows[warp[w].row]) > K
        /\ entered' = [entered EXCEPT ![w] = @ + 1] /\ warp' = [warp EXCEPT ![w] = m]
    BY <1>5 DEF Setup, Sync, Goto, Row
  <2>2. /\ m \in Registers(rows) /\ m.pc = "check" /\ m.row = warp[w].row
    BY <1>2 DEF Registers, Pcs
  <2> HIDE DEF m
  <2>3. RoundsIn(m) = 1 /\ entered[w] = RoundsBefore(rows, warp[w].row) + 0
    BY <1>2, <2>1, <2>2 DEF Stands, RoundsIn
  <2>4. Stands(rows, m, entered[w] + 1)
    <3>1. entered[w] + 1 \in Nat /\ entered[w] + 1 = RoundsBefore(rows, m.row) + RoundsIn(m)
      BY <1>2, <2>2, <2>3
    <3> QED BY <2>1, <2>2, <3>1 DEF Stands, Registers
  <2> QED BY <1>3, <2>1, <2>2, <2>4, StepKeeps
<1>6. ASSUME NEW w \in Warp, GiveUp(w) PROVE InStep'
  <2> DEFINE m == [warp[w] EXCEPT !.pc = "begin", !.row = warp[w].row + 1]
  <2>1. /\ warp[w].pc = "check" /\ Synced(w) /\ rows' = rows /\ scratch.failed
        /\ entered' = [entered EXCEPT ![w] = @ + 1] /\ warp' = [warp EXCEPT ![w] = m]
    BY <1>6 DEF GiveUp, Sync, NextRow
  <2>2. warp[w].row <= Len(rows) /\ Failed(rows[warp[w].row]) /\ ~(Valid(rows[warp[w].row]) <= K)
    <3>1. warp[w].pc # "begin"
      BY <2>1
    <3>2. warp[w].row \in 1 .. Len(rows) /\ ~(Valid(rows[warp[w].row]) <= K)
      BY <3>1, WarpRow
    <3>3. scratch.failed = Failed(rows[warp[w].row])
      BY <2>1, <3>1, WarpScratch
    <3> QED BY <1>2, <2>1, <3>2, <3>3
  <2>3. /\ m \in Registers(rows) /\ m.pc = "begin" /\ m.row = warp[w].row + 1
    <3>1. warp[w].row + 1 \in 1 .. Len(rows) + 1 /\ "begin" \in Pcs
      BY <1>2, <2>2 DEF Pcs
    <3>2. m = [warp[w] EXCEPT !.pc = "begin", !.row = warp[w].row + 1]
      OBVIOUS
    <3> HIDE DEF m
    <3> QED BY <1>2, <3>1, <3>2 DEF Registers
  <2> HIDE DEF m
  <2>4. RoundsBefore(rows, m.row) = RoundsBefore(rows, warp[w].row) + 2
    BY <1>2, <2>2, <2>3, RoundsAdd DEF RoundsOf
  <2>5. RoundsIn(m) = 0 /\ entered[w] = RoundsBefore(rows, warp[w].row) + 1
    BY <1>2, <2>1, <2>3 DEF Stands, RoundsIn
  <2>6. Stands(rows, m, entered[w] + 1)
    <3>1. entered[w] + 1 \in Nat /\ entered[w] + 1 = RoundsBefore(rows, m.row) + RoundsIn(m)
      BY <1>2, <2>4, <2>5
    <3> QED BY <2>3, <3>1 DEF Stands, Registers
  <2> QED BY <1>3, <2>1, <2>3, <2>6, StepKeeps
<1>7. ASSUME NEW w \in Warp, StartRadix(w) PROVE InStep'
  <2> DEFINE m == [warp[w] EXCEPT !.pc = "zero", !.digit = Digits - 1]
  <2>1. /\ warp[w].pc = "check" /\ Synced(w) /\ rows' = rows /\ ~scratch.failed
        /\ entered' = entered /\ warp' = [warp EXCEPT ![w] = m]
    BY <1>7 DEF StartRadix
  <2>2. /\ warp[w].row <= Len(rows) /\ ~Failed(rows[warp[w].row]) /\ Valid(rows[warp[w].row]) > K
    BY <1>2, <2>1, WarpRow, WarpScratch
  <2>3. /\ m \in Registers(rows) /\ m.pc = "zero" /\ m.row = warp[w].row /\ m.digit = Digits - 1
    <3>1. Digits - 1 \in 0 .. Digits - 1 /\ "zero" \in Pcs
      BY <1>2 DEF Pcs
    <3>2. m = [warp[w] EXCEPT !.pc = "zero", !.digit = Digits - 1]
      OBVIOUS
    <3> HIDE DEF m
    <3> QED BY <1>2, <3>1, <3>2 DEF Registers
  <2> HIDE DEF m
  <2>4. RoundsIn(m) = 1 /\ entered[w] = RoundsBefore(rows, warp[w].row) + 1
    <3>1. 1 + 3 * (Digits - 1 - (Digits - 1)) = 1
      BY <1>2
    <3> QED BY <1>2, <2>1, <2>3, <3>1 DEF Stands, RoundsIn
  <2>5. Stands(rows, m, entered[w])
    BY <1>2, <2>2, <2>3, <2>4 DEF Stands, Registers
  <2> QED BY <1>2, <2>1, <2>5, StepKeeps
<1>8. ASSUME NEW w \in Warp, NEW m, warp' = [warp EXCEPT ![w] = m], rows' = rows, Synced(w),
             m \in Registers(rows), m.row = warp[w].row, m.digit = warp[w].digit,
             entered' = [entered EXCEPT ![w] = @ + 1],
             \/ warp[w].pc = "zero" /\ m.pc = "count"
             \/ warp[w].pc = "count" /\ m.pc = "pick"
             \/ warp[w].pc = "pick" /\ m.pc = "next"
      PROVE  InStep'
  <2>1. Stands(rows, m, entered[w] + 1)
    BY <1>2, <1>8, NextStands
  <2>2. m.pc \notin {"zero", "emit", "place"}
    BY <1>8
  <2> QED BY <1>3, <1>8, <2>1, <2>2, StepKeeps
<1>9. ASSUME NEW w \in Warp, ZeroHistogram(w) PROVE InStep'
  <2> DEFINE m == [warp[w] EXCEPT !.pc = "count"]
  <2>1. /\ warp[w].pc = "zero" /\ rows' = rows
        /\ entered' = [entered EXCEPT ![w] = @ + 1] /\ warp' = [warp EXCEPT ![w] = m]
    BY <1>9 DEF ZeroHistogram, Sync, Goto
  <2>2. Synced(w)
    BY <2>1 DEF InStep, Paced, Synced
  <2>3. m \in Registers(rows) /\ m.row = warp[w].row /\ m.digit = warp[w].digit /\ m.pc = "count"
    BY <1>2 DEF Registers, Pcs
  <2> HIDE DEF m
  <2> QED BY <1>8, <2>1, <2>2, <2>3
<1>10. ASSUME NEW w \in Warp, CountDigits(w) PROVE InStep'
  <2> DEFINE m == [warp[w] EXCEPT !.pc = "pick"]
  <2>1. /\ warp[w].pc = "count" /\ rows' = rows /\ Synced(w)
        /\ entered' = [entered EXCEPT ![w] = @ + 1] /\ warp' = [warp EXCEPT ![w] = m]
    BY <1>10 DEF CountDigits, Sync, Goto
  <2>3. m \in Registers(rows) /\ m.row = warp[w].row /\ m.digit = warp[w].digit /\ m.pc = "pick"
    BY <1>2 DEF Registers, Pcs
  <2> HIDE DEF m
  <2> QED BY <1>8, <2>1, <2>3
<1>11. ASSUME NEW w \in Warp, SkipPick(w) PROVE InStep'
  <2> DEFINE m == [warp[w] EXCEPT !.pc = "next"]
  <2>1. /\ warp[w].pc = "pick" /\ rows' = rows /\ Synced(w)
        /\ entered' = [entered EXCEPT ![w] = @ + 1] /\ warp' = [warp EXCEPT ![w] = m]
    BY <1>11 DEF SkipPick, Sync, Goto
  <2>3. m \in Registers(rows) /\ m.row = warp[w].row /\ m.digit = warp[w].digit /\ m.pc = "next"
    BY <1>2 DEF Registers, Pcs
  <2> HIDE DEF m
  <2> QED BY <1>8, <2>1, <2>3
<1>12. ASSUME EndPick PROVE InStep'
  <2> DEFINE m == [warp[0] EXCEPT !.pc = "next"]
  <2>0. 0 \in Warp /\ 0 \in Lane
    BY SelectAssumption DEF Warp, Lane
  <2>1. /\ warp[0].pc = "pick" /\ rows' = rows /\ lane[0].step = "done"
        /\ entered' = [entered EXCEPT ![0] = @ + 1] /\ warp' = [warp EXCEPT ![0] = m]
    BY <1>12, <2>0 DEF EndPick, Sync, Goto
  <2>2. Synced(0)
    BY <2>0, <2>1 DEF LanesRight, Synced
  <2>3. m \in Registers(rows) /\ m.row = warp[0].row /\ m.digit = warp[0].digit /\ m.pc = "next"
    BY <1>2, <2>0 DEF Registers, Pcs
  <2> HIDE DEF m
  <2> QED BY <1>8, <2>0, <2>1, <2>2, <2>3
<1>13. ASSUME NEW w \in Warp, NextDigit(w) PROVE InStep'
  <2> DEFINE o == warp[w]
             m == IF o.digit > 0 THEN [o EXCEPT !.pc = "zero", !.digit = o.digit - 1]
                                 ELSE [o EXCEPT !.pc = "emit", !.batch = 0]
             x == 1 + 3 * (Digits - 1 - o.digit)
  <2>1. /\ o.pc = "next" /\ rows' = rows /\ Synced(w)
        /\ entered' = entered /\ warp' = [warp EXCEPT ![w] = m]
    BY <1>13 DEF NextDigit
  <2>2. /\ o \in Registers(rows) /\ o.digit \in Nat /\ o.digit < Digits /\ Digits \in Nat
    BY <1>2 DEF Registers
  <2>3. /\ o.row \in 1 .. Len(rows) /\ Valid(rows[o.row]) > K
        /\ ~Failed(rows[o.row]) /\ entered[w] = RoundsBefore(rows, o.row) + RoundsIn(o)
        /\ RoundsIn(o) = x + 3
    BY <1>2, <2>1, WarpRow DEF Stands, RoundsIn
  <2>4. CASE o.digit > 0
    <3>1. /\ m \in Registers(rows) /\ m.pc = "zero" /\ m.row = o.row /\ m.digit = o.digit - 1
      <4>1. o.digit - 1 \in 0 .. Digits - 1 /\ "zero" \in Pcs
        BY <2>2, <2>4 DEF Pcs
      <4>2. m = [o EXCEPT !.pc = "zero", !.digit = o.digit - 1]
        BY <2>4
      <4> HIDE DEF m, o
      <4> QED BY <2>2, <4>1, <4>2 DEF Registers
    <3>2. RoundsIn(m) = 1 + 3 * (Digits - 1 - m.digit)
      BY <3>1 DEF RoundsIn
    <3> HIDE DEF m, o
    <3>3. RoundsIn(m) = x + 3
      BY <2>2, <3>1, <3>2
    <3>4. Stands(rows, m, entered[w])
      BY <1>2, <2>3, <3>1, <3>3 DEF Stands, Registers
    <3> QED BY <2>1, <3>4, StepKeeps DEF o
  <2>5. CASE ~(o.digit > 0)
    <3>1. /\ m \in Registers(rows) /\ m.pc = "emit" /\ m.row = o.row /\ m.digit = o.digit /\ m.digit = 0
      <4>1. o.digit = 0 /\ "emit" \in Pcs /\ 0 \in Nat
        BY <2>2, <2>5 DEF Pcs
      <4>2. m = [o EXCEPT !.pc = "emit", !.batch = 0]
        BY <2>5
      <4> HIDE DEF m, o
      <4> QED BY <2>2, <4>1, <4>2 DEF Registers
    <3>2. RoundsIn(m) = 1 + 3 * (Digits - 1 - m.digit) + 3
      BY <3>1 DEF RoundsIn
    <3> HIDE DEF m, o
    <3>3. RoundsIn(m) = x + 3
      BY <2>2, <3>1, <3>2
    <3>5. Stands(rows, m, entered[w])
      <4>1. m.pc # "begin" /\ m.pc \notin {"begin", "check"} /\ entered[w] \in Nat
        BY <1>2, <3>1
      <4>2. o.row <= Len(rows)
        BY <1>2, <2>3
      <4>3. entered[w] = RoundsBefore(rows, m.row) + RoundsIn(m)
        BY <2>3, <3>1, <3>3
      <4> QED BY <2>3, <3>1, <4>1, <4>2, <4>3 DEF Stands, Registers
    <3> QED BY <2>1, <3>5, StepKeeps DEF o
  <2> QED BY <2>4, <2>5
<1>14. ASSUME NEW w \in Warp, NEW m, warp' = [warp EXCEPT ![w] = m], rows' = rows,
              warp[w].pc \in {"emit", "place"}, m.pc \in {"emit", "place"},
              m \in Registers(rows), m.row = warp[w].row, m.digit = warp[w].digit,
              entered' = entered
       PROVE  InStep'
  <2>1. RoundsIn(m) = RoundsIn(warp[w])
    BY <1>14 DEF RoundsIn
  <2>2. Stands(rows, m, entered[w])
    BY <1>2, <1>14, <2>1 DEF Stands, Registers
  <2>3. Synced(w)
    BY <1>14 DEF InStep, Paced, Synced
  <2> QED BY <1>14, <2>2, <2>3, StepKeeps
<1>15. ASSUME NEW w \in Warp, ReserveGreater(w) PROVE InStep'
  <2> DEFINE n == Min(Left(w))
             m == [warp[w] EXCEPT !.pc = "place", !.batch = n, !.place = scratch.greater]
  <2>1. /\ warp[w].pc = "emit" /\ rows' = rows /\ Left(w) # {}
        /\ entered' = entered /\ warp' = [warp EXCEPT ![w] = m]
    BY <1>15 DEF ReserveGreater
  <2>2. n \in Nat
    <3>1. IsRow(rows[warp[w].row])
      BY <2>1, WarpRow
    <3>2. Left(w) \in SUBSET Nat
      <4>1. \A id \in Live(Row(w), w, scratch.spills) : id \in Candidates(rows[warp[w].row])
        <5> TAKE id \in Live(Row(w), w, scratch.spills)
        <5>1. PICK s \in Own(w) : id \in CandidatesIn(rows[warp[w].row], s)
          BY DEF Live, Stored, Spilled, Row
        <5>2. s \in Segment
          BY DEF Own
        <5> QED BY <3>1, <5>1, <5>2, CandidatesAre
      <4> QED BY <3>1, <4>1, OffsetsAre DEF Left, Row
    <3> QED BY <2>1, <3>2, HasLeast DEF Min
  <2> HIDE DEF n
  <2>3. /\ m \in Registers(rows) /\ m.pc = "place" /\ m.row = warp[w].row /\ m.digit = warp[w].digit
    BY <1>2, <2>2 DEF Registers, Pcs
  <2> HIDE DEF m
  <2> QED BY <1>14, <2>1, <2>3
<1>16. ASSUME NEW w \in Warp, PlaceBatch(w) PROVE InStep'
  <2> DEFINE m == [warp[w] EXCEPT !.pc = "emit", !.batch = warp[w].batch + 1]
  <2>1. /\ warp[w].pc = "place" /\ rows' = rows
        /\ entered' = entered /\ warp' = [warp EXCEPT ![w] = m]
    BY <1>16 DEF PlaceBatch
  <2>2. /\ m \in Registers(rows) /\ m.pc = "emit" /\ m.row = warp[w].row /\ m.digit = warp[w].digit
    <3>1. warp[w].batch + 1 \in Nat /\ "emit" \in Pcs
      BY <1>2 DEF Registers, Pcs
    <3>2. m = [warp[w] EXCEPT !.pc = "emit", !.batch = warp[w].batch + 1]
      OBVIOUS
    <3> HIDE DEF m
    <3> QED BY <1>2, <3>1, <3>2 DEF Registers
  <2> HIDE DEF m
  <2> QED BY <1>14, <2>1, <2>2
<1>17. ASSUME NEW w \in Warp, EndRow(w) PROVE InStep'
  <2> DEFINE m == [warp[w] EXCEPT !.pc = "begin", !.row = warp[w].row + 1]
             o == warp[w]
  <2>1. /\ warp[w].pc = "emit" /\ rows' = rows
        /\ entered' = [entered EXCEPT ![w] = @ + 1] /\ warp' = [warp EXCEPT ![w] = m]
    BY <1>17 DEF EndRow, Sync, NextRow
  <2>2. /\ warp[w].row <= Len(rows) /\ ~Failed(rows[warp[w].row]) /\ ~(Valid(rows[warp[w].row]) <= K)
        /\ warp[w].digit = 0
    BY <1>2, <2>1, WarpRow DEF Stands
  <2>3. /\ m \in Registers(rows) /\ m.pc = "begin" /\ m.row = warp[w].row + 1
    <3>1. warp[w].row + 1 \in 1 .. Len(rows) + 1 /\ "begin" \in Pcs
      BY <1>2, <2>2 DEF Pcs
    <3>2. m = [warp[w] EXCEPT !.pc = "begin", !.row = warp[w].row + 1]
      OBVIOUS
    <3> HIDE DEF m
    <3> QED BY <1>2, <3>1, <3>2 DEF Registers
  <2> HIDE DEF m
  <2>4. RoundsBefore(rows, m.row) = RoundsBefore(rows, warp[w].row) + (3 * Digits + 2)
    BY <1>2, <2>2, <2>3, RoundsAdd DEF RoundsOf
  <2>5. RoundsIn(m) = 0 /\ entered[w] = RoundsBefore(rows, warp[w].row) + (1 + 3 * (Digits - 1 - 0) + 3)
    BY <1>2, <2>1, <2>2, <2>3 DEF Stands, RoundsIn
  <2>6. Stands(rows, m, entered[w] + 1)
    <3>1. entered[w] + 1 \in Nat /\ entered[w] + 1 = RoundsBefore(rows, m.row) + RoundsIn(m)
      BY <1>2, <2>4, <2>5
    <3> QED BY <2>3, <3>1 DEF Stands, Registers
  <2>7. Synced(w)
    BY <2>1 DEF InStep, Paced, Synced
  <2> QED BY <1>3, <2>1, <2>3, <2>6, <2>7, StepKeeps
<1>18. ASSUME NEW l \in Lane, LaneStep(l) PROVE InStep'
  <2>1. warp' = warp /\ entered' = entered /\ rows' = rows
    BY <1>18 DEF LaneStep, ReadRank, FindBin
  <2> QED BY <2>1 DEF InStep, Paced
<1>19. CASE Terminating
  BY <1>1, <1>19 DEF Terminating
<1> HIDE DEF d, r, Registered
<1> QED
  BY <1>1, <1>4, <1>5, <1>6, <1>7, <1>9, <1>10, <1>11, <1>12, <1>13, <1>15, <1>16, <1>17, <1>18, <1>19
  DEF Next, WarpStep

\* The rounds give away the call a warp arrived from.
LEMMA RoundsTellSite ==
  ASSUME InStep
  PROVE  SyncSitesAgree
<1>1. ASSUME NEW v \in Warp, NEW w \in Warp, warp[v].row < warp[w].row
      PROVE  entered[v] < entered[w]
  <2>1. /\ warp[v].row \in 1 .. Len(rows) + 1 /\ warp[w].row \in 1 .. Len(rows) + 1
        /\ Len(rows) \in Nat /\ entered[v] \in Nat /\ entered[w] \in Nat /\ rows \in Inputs
        /\ Stands(rows, warp[v], entered[v]) /\ Stands(rows, warp[w], entered[w])
    BY WarpStands
  <2>2. PICK r \in 1 .. Len(rows) : r = warp[v].row
    BY <1>1, <2>1
  <2>3. RoundsBefore(rows, r) \in Nat /\ RoundsOf(rows[r]) \in Nat
    BY <2>1, RoundsAdd, RoundsOfRow, SelectAssumption
  <2>4. entered[v] < RoundsBefore(rows, r) + RoundsOf(rows[r])
    BY <2>1, <2>2, RoundsTellRow
  <2>5. entered[w] >= RoundsBefore(rows, r) + RoundsOf(rows[r])
    BY <1>1, <2>1, <2>2, RoundsTellRow
  <2> QED BY <2>1, <2>3, <2>4, <2>5
<1>2. \A w \in Warp : /\ Rounds(w) = RoundsIn(warp[w]) /\ warp[w].row \in Nat
                      /\ warp[w].row \in Nat \ {0} /\ entered[w] \in Nat
                      /\ entered[w] = RoundsBefore(rows, warp[w].row) + RoundsIn(warp[w])
                      /\ RoundsBefore(rows, warp[w].row) \in Nat
  <2> TAKE w \in Warp
  <2>1. Rounds(w) = RoundsIn(warp[w])
    BY DEF Rounds, RoundsIn
  <2>2. warp[w].row \in Nat \ {0} /\ entered[w] \in Nat
    BY WarpStands
  <2>3. entered[w] = RoundsBefore(rows, warp[w].row) + RoundsIn(warp[w])
    BY DEF InStep, Stands
  <2> QED BY <2>1, <2>2, <2>3, RoundsAdd
<1>3. \A w \in Warp : RoundsIn(warp[w]) \in Int
  <2> TAKE w \in Warp
  <2>1. /\ warp[w].pc \in Pcs /\ warp[w].digit \in Nat /\ Digits \in Nat
    BY WarpStands, SelectAssumption
  <2> DEFINE x == 1 + 3 * (Digits - 1 - warp[w].digit)
  <2>2. x \in Int
    BY <2>1
  <2> HIDE DEF x
  <2>3. RoundsIn(warp[w]) \in {0, 1, x, x + 1, x + 2, x + 3}
    BY <2>1 DEF RoundsIn, Pcs, x
  <2> QED BY <2>2, <2>3
<1>4. ASSUME NEW v \in Warp, NEW w \in Warp, entered[v] = entered[w]
      PROVE  warp[v].row = warp[w].row /\ Rounds(v) = Rounds(w)
  <2>1. warp[v].row = warp[w].row
    BY <1>1, <1>2, <1>4
  <2>2. RoundsIn(warp[v]) = RoundsIn(warp[w])
    BY <1>2, <1>3, <1>4, <2>1
  <2> QED BY <1>2, <2>1, <2>2
<1> QED BY <1>4 DEF SyncSitesAgree

---------------------------------------------------------------------------
(* The lanes of warp 0.                                                     *)

LanesTyped == lane \in [Lane -> [step : {"read", "find", "done"}, rank : Nat, threshold : Nat]]

\* Steps that change neither the lanes nor what they are measured by.
LEMMA LanesKept ==
  ASSUME LanesRight, lane' = lane, rows' = rows, warp'[0] = warp[0],
         \A v \in Warp : entered[v] \in Nat /\ entered'[v] \in Nat /\ entered'[v] >= entered[v],
         entered'[0] = entered[0], 0 \in Warp
  PROVE  LanesRight'
<1>1. ASSUME \A v \in Warp : entered[v] >= entered[0]
      PROVE  \A v \in Warp : entered'[v] >= entered'[0]
  BY <1>1
<1> QED BY <1>1 DEF LanesRight

\* A warp's step: what it leaves alone.
LEMMA WarpSteps ==
  ASSUME InStep, NEW w \in Warp, WarpStep(w)
  PROVE  /\ rows' = rows /\ lane' = lane
         /\ w = 0 => warp[0].pc # "pick"
         /\ \A v \in Warp : v # w => warp'[v] = warp[v] /\ entered'[v] = entered[v]
         /\ \A v \in Warp : /\ entered[v] \in Nat /\ entered'[v] \in Nat
                            /\ entered'[v] \in {entered[v], entered[v] + 1}
<1>1. /\ warp = [v \in Warp |-> warp[v]] /\ entered = [v \in Warp |-> entered[v]]
  BY DEF InStep
<1>2. \A v \in Warp : entered[v] \in Nat
  BY WarpStands
<1>3. rows' = rows /\ lane' = lane
  BY DEF WarpStep, ShortRow, Setup, GiveUp, StartRadix, ZeroHistogram, CountDigits, SkipPick,
         NextDigit, ReserveGreater, PlaceBatch, EndRow
<1>4. w = 0 => warp[0].pc # "pick"
  BY DEF WarpStep, ShortRow, Setup, GiveUp, StartRadix, ZeroHistogram, CountDigits, SkipPick,
         NextDigit, ReserveGreater, PlaceBatch, EndRow
<1>5. \E m : warp' = [warp EXCEPT ![w] = m]
  BY DEF WarpStep, ShortRow, Setup, GiveUp, StartRadix, ZeroHistogram, CountDigits, SkipPick,
         NextDigit, ReserveGreater, PlaceBatch, EndRow, Goto, NextRow
<1>6. entered' = entered \/ entered' = [entered EXCEPT ![w] = @ + 1]
  BY DEF WarpStep, ShortRow, Setup, GiveUp, StartRadix, ZeroHistogram, CountDigits, SkipPick,
         NextDigit, ReserveGreater, PlaceBatch, EndRow, Sync
<1>7. \A v \in Warp : v # w => warp'[v] = warp[v]
  BY <1>1, <1>5
<1>8. \A v \in Warp : /\ v # w => entered'[v] = entered[v]
                      /\ entered'[v] = entered[v] \/ entered'[v] = entered[v] + 1
  BY <1>1, <1>6
<1> QED BY <1>2, <1>3, <1>4, <1>7, <1>8

\* What a lane finds in the scratch when warp 0 picks.
LEMMA PickScratch ==
  ASSUME InStep, ScratchRight, warp[0].pc = "pick", Synced(0), NEW r, r = warp[0].row,
         NEW d, d = warp[0].digit
  PROVE  /\ r \in 1 .. Len(rows) /\ IsRow(rows[r]) /\ ~Failed(rows[r]) /\ Selects(rows[r])
         /\ d \in 0 .. Digits - 1 /\ entered[0] = PickAt(rows, r, d) /\ InRow(r)
         /\ lane[LaneOf(rows[r], d)].step = "done" => FixedTo(rows[r], d)
         /\ lane[LaneOf(rows[r], d)].step # "done" => FixedTo(rows[r], d + 1)
<1>1. 0 \in Warp
  BY SelectAssumption DEF Warp
<1>2. /\ r \in 1 .. Len(rows) /\ IsRow(rows[r]) /\ Valid(rows[r]) > K /\ InRow(r)
  BY <1>1, WarpRow
<1>3. ~Failed(rows[r])
  BY <1>1, WarpStands DEF Stands
<1>4. d \in 0 .. Digits - 1 /\ entered[0] = PickAt(rows, r, d)
  BY <1>1, WarpStands DEF PcRounds
<1> QED BY <1>2, <1>3, <1>4 DEF ScratchRight, ScratchOf, Selects

LEMMA LanesRightKept ==
  ASSUME InStep, LanesRight, ScratchRight, LanesTyped, [Next]_vars
  PROVE  LanesRight'
<1>1. 0 \in Warp /\ 0 \in Lane
  BY SelectAssumption DEF Warp, Lane
<1>2. \A v \in Warp : entered[v] \in Nat
  BY WarpStands
<1>3. ASSUME UNCHANGED vars PROVE LanesRight'
  BY <1>1, <1>2, <1>3, LanesKept DEF vars
<1>4. ASSUME NEW w \in Warp, WarpStep(w) PROVE LanesRight'
  <2>1. CASE w = 0
    <3>1. \A l \in Lane : lane[l].step = "read"
      BY <1>4, <2>1, WarpSteps DEF LanesRight
    <3>2. lane' = lane
      BY <1>4, WarpSteps
    <3> QED BY <3>1, <3>2 DEF LanesRight
  <2>2. CASE w # 0
    <3>1. /\ lane' = lane /\ rows' = rows /\ warp'[0] = warp[0] /\ entered'[0] = entered[0]
          /\ \A v \in Warp : /\ entered[v] \in Nat /\ entered'[v] \in Nat
                             /\ entered'[v] \in {entered[v], entered[v] + 1}
      BY <1>1, <1>4, <2>2, WarpSteps
    <3>2. \A v \in Warp : entered'[v] >= entered[v]
      BY <3>1
    <3> QED BY <1>1, <3>1, <3>2, LanesKept
  <2> QED BY <2>1, <2>2
<1>5. ASSUME NEW l \in Lane, ReadRank(l) PROVE LanesRight'
  <2> DEFINE r == warp[0].row
             d == warp[0].digit
             x == [step |-> "find", rank |-> scratch.rank, threshold |-> scratch.threshold]
  <2>1. /\ warp[0].pc = "pick" /\ Synced(0) /\ lane[l].step = "read"
        /\ lane' = [lane EXCEPT ![l] = x]
        /\ rows' = rows /\ warp' = warp /\ entered' = entered
    BY <1>5 DEF ReadRank
  <2>2. \A j \in Lane : lane[j].step # "done"
    BY <2>1 DEF LanesRight
  <2>3. /\ d \in 0 .. Digits - 1 /\ IsRow(rows[r]) /\ ~Failed(rows[r])
        /\ lane[LaneOf(rows[r], d)].step # "done" => FixedTo(rows[r], d + 1)
    BY <2>1, PickScratch
  <2>4. LaneOf(rows[r], d) \in Lane
    <3>1. DigitOf(Cut(rows[r]), d) \in Bin
      BY <2>3, PrefixIs
    <3> QED BY <3>1, LaneIs DEF LaneOf
  <2>5. scratch.rank = RankAt(rows[r], d + 1) /\ scratch.threshold = ThresholdAt(rows[r], d + 1)
    BY <2>2, <2>3, <2>4 DEF FixedTo
  <2>6. ASSUME NEW j \in Lane, lane'[j].step # "read"
        PROVE  /\ warp'[0].pc = "pick" /\ \A v \in Warp : entered'[v] >= entered'[0]
               /\ lane'[j].rank = RankAt(rows'[warp'[0].row], warp'[0].digit + 1)
               /\ lane'[j].threshold = ThresholdAt(rows'[warp'[0].row], warp'[0].digit + 1)
               /\ lane'[j].step # "done"
    <3>1. warp'[0].pc = "pick" /\ \A v \in Warp : entered'[v] >= entered'[0]
      BY <2>1 DEF Synced
    <3>2. CASE j = l
      <4>1. lane'[j] = x
        BY <2>1, <3>2 DEF LanesTyped
      <4> QED BY <2>1, <2>5, <3>1, <4>1
    <3>3. CASE j # l
      <4>1. lane'[j] = lane[j]
        BY <2>1, <3>3 DEF LanesTyped
      <4>2. lane[j].step # "read"
        BY <2>6, <4>1
      <4> QED BY <2>1, <2>2, <3>1, <4>1, <4>2 DEF LanesRight
    <3> QED BY <3>2, <3>3
  <2> QED BY <2>6 DEF LanesRight
<1>6. ASSUME NEW l \in Lane, FindBin(l) PROVE LanesRight'
  <2>1. /\ warp[0].pc = "pick" /\ lane[l].step = "find" /\ \A j \in Lane : lane[j].step # "read"
        /\ lane' = [lane EXCEPT ![l].step = "done"]
        /\ rows' = rows /\ warp' = warp /\ entered' = entered
    BY <1>6 DEF FindBin
  <2>2. \A j \in Lane : /\ lane'[j].rank = lane[j].rank /\ lane'[j].threshold = lane[j].threshold
                        /\ lane'[j].step # "read"
    BY <2>1 DEF LanesTyped
  <2> QED BY <2>1, <2>2 DEF LanesRight
<1>7. ASSUME EndPick PROVE LanesRight'
  <2>1. \A l \in Lane : lane'[l].step = "read"
    BY <1>7 DEF EndPick, Unread
  <2> QED BY <2>1 DEF LanesRight
<1> QED BY <1>3, <1>4, <1>5, <1>6, <1>7 DEF Next, LaneStep, Terminating

---------------------------------------------------------------------------
(* The scratch.                                                             *)

LEMMA PicksApart ==
  ASSUME NEW in, NEW r \in Nat \ {0}, NEW d \in 0 .. Digits
  PROVE  /\ Digits \in Nat \ {0} /\ RoundsBefore(in, r) \in Nat /\ PickAt(in, r, d) \in Nat
         /\ PickAt(in, r, d) <= RoundsBefore(in, r) + 3 * Digits
         /\ d = Digits => PickAt(in, r, d) = RoundsBefore(in, r)
         /\ d # Digits => /\ d + 1 \in 0 .. Digits /\ PickAt(in, r, d + 1) = PickAt(in, r, d) - 3
                          /\ PickAt(in, r, d) >= RoundsBefore(in, r) + 3
         /\ d = 0 => PickAt(in, r, d) = RoundsBefore(in, r) + 3 * Digits
         /\ \A c \in 0 .. Digits :
              /\ PickAt(in, r, c) \in Nat
              /\ c < d => PickAt(in, r, c) >= PickAt(in, r, d) + 3
              /\ c > d => PickAt(in, r, c) <= PickAt(in, r, d) - 3
<1> DEFINE b == RoundsBefore(in, r)
<1>1. b \in Nat /\ Digits \in Nat \ {0}
  BY RoundsAdd, SelectAssumption
<1>2. \A c : PickAt(in, r, c) = b + 3 * (Digits - c)
  BY DEF PickAt
<1> HIDE DEF b
<1> QED BY <1>1, <1>2 DEF b

\* Where the cut's digit is found.
LEMMA LaneOfCut ==
  ASSUME NEW row, IsRow(row), ~Failed(row), NEW d \in 0 .. Digits - 1
  PROVE  /\ LaneOf(row, d) \in Lane /\ DigitOf(Cut(row), d) \in Bin
         /\ DigitOf(Cut(row), d) \in BinsOf(LaneOf(row, d))
         /\ \A l \in Lane : l # LaneOf(row, d) => DigitOf(Cut(row), d) \notin BinsOf(l)
<1>1. DigitOf(Cut(row), d) \in Bin
  BY PrefixIs
<1>2. LaneOf(row, d) \in Lane /\ DigitOf(Cut(row), d) \in BinsOf(LaneOf(row, d))
  BY <1>1, LaneIs DEF LaneOf
<1>3. \A l : DigitOf(Cut(row), d) \in BinsOf(l) => l = LaneOf(row, d)
  BY DEF BinsOf, LaneOf
<1> QED BY <1>1, <1>2, <1>3

\* Steps that leave what the scratch says of the selection, and warp 0's rounds.
LEMMA ScratchKept ==
  ASSUME InStep, ScratchRight, rows' = rows, entered'[0] = entered[0],
         scratch'.failed = scratch.failed, scratch'.spills = scratch.spills,
         scratch'.threshold = scratch.threshold, scratch'.rank = scratch.rank,
         \A l \in Lane : lane'[l].step = "done" <=> lane[l].step = "done"
  PROVE  ScratchRight'
<1> SUFFICES ASSUME NEW r \in 1 .. Len(rows), Valid(rows[r]) > K, InRow(r)'
             PROVE  ScratchOf(r)'
  BY DEF ScratchRight
<1>1. IsRow(rows[r])
  <2>1. rows \in Inputs
    BY DEF InStep
  <2> QED BY <2>1, RowsAre
<1>2. InRow(r)
  BY DEF InRow
<1>3. ScratchOf(r)
  BY <1>2 DEF ScratchRight
<1>4. ASSUME ~Failed(rows[r]), NEW d \in 0 .. Digits - 1
      PROVE  lane'[LaneOf(rows[r], d)].step = "done" <=> lane[LaneOf(rows[r], d)].step = "done"
  BY <1>1, <1>4, LaneOfCut
<1>5. \A d : FixedTo(rows[r], d)' <=> FixedTo(rows[r], d)
  BY DEF FixedTo
<1> QED BY <1>3, <1>4, <1>5 DEF ScratchOf

\* Warp 0 arrives at its next round in a row.
LEMMA ScratchPast ==
  ASSUME InStep, ScratchRight, LanesRight, rows' = rows, scratch' = scratch,
         entered'[0] = entered[0] + 1, NEW r, r = warp[0].row, warp[0].pc # "begin", Synced(0),
         NEW d, d = warp[0].digit,
         \/ warp[0].pc = "check" /\ Failed(rows[r])
         \/ warp[0].pc \in {"zero", "count"} /\ lane' = lane
         \/ warp[0].pc = "pick" /\ \A l \in Lane : lane[l].step = "done"
         \/ warp[0].pc \in {"emit", "place"}
  PROVE  ScratchRight'
<1>1. /\ 0 \in Warp /\ rows \in Inputs /\ Len(rows) \in Nat
      /\ PcRounds(rows, warp[0], entered[0]) /\ Stands(rows, warp[0], entered[0])
      /\ entered[0] \in Nat
  <2>1. 0 \in Warp
    BY SelectAssumption DEF Warp
  <2> QED BY <2>1, WarpStands
<1>2. /\ r \in 1 .. Len(rows) /\ IsRow(rows[r]) /\ InRow(r) /\ r \in Nat \ {0} /\ Valid(rows[r]) > K
  BY <1>1, WarpRow
<1>3. ScratchOf(r)
  BY <1>2 DEF ScratchRight
<1>4. ASSUME NEW q \in 1 .. Len(rows), InRow(q)' PROVE q = r
  <2>1. /\ RoundsBefore(rows, q) < entered[0] + 1
        /\ entered[0] + 1 <= RoundsBefore(rows, q) + RoundsOf(rows[q])
        /\ RoundsBefore(rows, q) \in Nat /\ RoundsOf(rows[q]) \in Nat
    <3>1. q \in Nat \ {0}
      BY <1>1
    <3> QED BY <1>4, <3>1, RoundsAdd, RoundsOfRow, SelectAssumption DEF InRow
  <2>2. RoundsBefore(rows, q) <= entered[0] /\ entered[0] < RoundsBefore(rows, q) + RoundsOf(rows[q])
    BY <1>1, <2>1
  <2> QED BY <1>1, <2>2, OnlyRow
<1>5. ASSUME ~Failed(rows[r])
      PROVE  /\ \A c \in 0 .. Digits :
                  PickAt(rows, r, c) < entered'[0] /\ entered'[0] <= PickAt(rows, r, c) + 2
                    => FixedTo(rows[r], c)
             /\ \A c \in 0 .. Digits - 1 : entered'[0] = PickAt(rows, r, c) =>
                  FixedTo(rows[r], IF lane'[LaneOf(rows[r], c)].step = "done" THEN c ELSE c + 1)
  <2> DEFINE p == PickAt(rows, r, d)
             At(c) == PickAt(rows, r, c)
             e == entered[0]
  <2>1. /\ d \in 0 .. Digits - 1 /\ d \in 0 .. Digits /\ d # Digits /\ Digits \in Nat
        /\ warp[0].pc = "zero"  => e = p - 2
        /\ warp[0].pc = "count" => e = p - 1
        /\ warp[0].pc = "pick"  => e = p
        /\ warp[0].pc \in {"emit", "place"} => e = p + 1
        /\ warp[0].pc \in {"emit", "place"} => d = 0
        /\ ~Failed(rows[r])
    <3>1. d \in 0 .. Digits - 1 /\ d \in 0 .. Digits /\ d # Digits /\ Digits \in Nat
      <4>1. Digits \in Nat /\ d \in Nat /\ d < Digits
        BY <1>1, SelectAssumption DEF PcRounds
      <4> QED BY <4>1
    <3>2. warp[0].pc \in {"emit", "place"} => d = 0
      BY <1>1 DEF Stands
    <3>3. /\ warp[0].pc = "zero"  => e = p - 2
          /\ warp[0].pc = "count" => e = p - 1
          /\ warp[0].pc = "pick"  => e = p
          /\ warp[0].pc \in {"emit", "place"} => e = p + 1
      BY <1>1 DEF PcRounds
    <3>4. ~Failed(rows[r])
      BY <1>1, <1>5 DEF PcRounds
    <3> QED BY <3>1, <3>2, <3>3, <3>4
  <2>2. /\ p \in Nat /\ At(d + 1) = p - 3 /\ d + 1 \in 0 .. Digits
        /\ \A c \in 0 .. Digits : /\ At(c) \in Nat
                                  /\ c < d => At(c) >= p + 3
                                  /\ c > d => At(c) <= p - 3
    <3>0. r \in Nat \ {0} /\ d \in 0 .. Digits /\ d # Digits
      BY <1>2, <2>1
    <3> QED BY ONLY <3>0, PicksApart
  <2>3. \A c \in 0 .. Digits : /\ c > d + 1 => At(c) <= p - 6
    <3>1. \A c \in 0 .. Digits : c > d + 1 => At(c) <= At(d + 1) - 3
      BY <1>2, <2>2, PicksApart
    <3> HIDE DEF At, p
    <3> QED BY <2>2, <3>1
  <2>4. /\ \A c \in 0 .. Digits : At(c) < e /\ e <= At(c) + 2 => FixedTo(rows[r], c)
        /\ \A c \in 0 .. Digits - 1 : e = At(c) =>
             FixedTo(rows[r], IF lane[LaneOf(rows[r], c)].step = "done" THEN c ELSE c + 1)
    BY <1>3, <1>5 DEF ScratchOf
  <2>5. At(d) = p /\ entered'[0] = e + 1 /\ e \in Nat
    BY <1>1
  <2>6. LaneOf(rows[r], d) \in Lane
    BY <1>2, <2>1, LaneOfCut
  <2>0. \A c \in 0 .. Digits : c < d \/ c = d \/ c = d + 1 \/ c > d + 1
    BY <2>1
  <2>10. d + 1 # d /\ \A c \in 0 .. Digits - 1 : c \in 0 .. Digits
    BY <2>1
  <2> HIDE DEF At, p, e
  <2>7. CASE warp[0].pc = "zero" /\ lane' = lane
    <3>1. FixedTo(rows[r], d + 1)
      BY <2>1, <2>2, <2>4, <2>7
    <3>2. \A c \in 0 .. Digits : At(c) < e + 1 /\ e + 1 <= At(c) + 2 => c = d + 1
      BY <2>0, <2>1, <2>2, <2>3, <2>5, <2>7
    <3>3. \A c \in 0 .. Digits : e + 1 # At(c)
      BY <2>0, <2>1, <2>2, <2>3, <2>5, <2>7
    <3> QED BY <2>5, <2>10, <3>1, <3>2, <3>3 DEF At
  <2>8. CASE warp[0].pc = "count" /\ lane' = lane
    <3>1. FixedTo(rows[r], d + 1)
      BY <2>1, <2>2, <2>4, <2>8
    <3>2. \A c \in 0 .. Digits : ~(At(c) < e + 1 /\ e + 1 <= At(c) + 2)
      BY <2>0, <2>1, <2>2, <2>3, <2>5, <2>8
    <3>3. \A c \in 0 .. Digits : e + 1 = At(c) => c = d
      BY <2>0, <2>1, <2>2, <2>3, <2>5, <2>8
    <3>4. lane[LaneOf(rows[r], d)].step = "read"
      BY <2>6, <2>8 DEF LanesRight
    <3>5. lane'[LaneOf(rows[r], d)].step # "done"
      BY <2>8, <3>4
    <3> QED BY <2>5, <2>10, <3>1, <3>2, <3>3, <3>5 DEF At
  <2>9. CASE warp[0].pc = "pick" /\ \A l \in Lane : lane[l].step = "done"
    <3>1. FixedTo(rows[r], d)
      BY <2>1, <2>4, <2>5, <2>6, <2>9
    <3>2. \A c \in 0 .. Digits : At(c) < e + 1 /\ e + 1 <= At(c) + 2 => c = d
      BY <2>0, <2>1, <2>2, <2>3, <2>5, <2>9
    <3>3. \A c \in 0 .. Digits : e + 1 # At(c)
      BY <2>0, <2>1, <2>2, <2>3, <2>5, <2>9
    <3> QED BY <2>5, <2>10, <3>1, <3>2, <3>3 DEF At
  <2>11. CASE warp[0].pc \in {"emit", "place"}
    <3>1. FixedTo(rows[r], d)
      BY <2>1, <2>2, <2>4, <2>5, <2>11
    <3>2. \A c \in 0 .. Digits : At(c) < e + 1 /\ e + 1 <= At(c) + 2 => c = d
      BY <2>0, <2>1, <2>2, <2>3, <2>5, <2>11
    <3>3. \A c \in 0 .. Digits : e + 1 # At(c)
      BY <2>0, <2>1, <2>2, <2>3, <2>5, <2>11
    <3> QED BY <2>5, <2>10, <3>1, <3>2, <3>3 DEF At
  <2>12. ~(warp[0].pc = "check" /\ Failed(rows[r]))
    BY <1>5
  <2> QED BY <2>7, <2>8, <2>9, <2>11, <2>12
<1>6. ScratchOf(r)'
  <2>1. \A c : FixedTo(rows[r], c)' <=> FixedTo(rows[r], c)
    BY DEF FixedTo
  <2> QED BY <1>3, <1>5, <2>1 DEF ScratchOf
<1> QED BY <1>4, <1>6 DEF ScratchRight

ScratchTyped ==
  scratch \in [failed : BOOLEAN, threshold : Nat, rank : Nat, greater : Nat,
               equal : Nat, spills : Nat]

\* Once every warp is past its count, the bins hold all of the digit.
LEMMA BinsAreFull ==
  ASSUME InStep, BinsRight, NEW r \in 1 .. Len(rows), Selects(rows[r]), NEW d \in 0 .. Digits - 1,
         \A v \in Warp : PickAt(rows, r, d) <= entered[v] /\ entered[v] <= PickAt(rows, r, d) + 1
  PROVE  \A b \in Bin : histogram[b] = Cardinality(BucketAt(rows[r], d, b))
<1> TAKE b \in Bin
<1>1. rows \in Inputs /\ Len(rows) \in Nat /\ \A v \in Warp : entered[v] \in Nat
  <2>1. 0 \in Warp
    BY SelectAssumption DEF Warp
  <2> QED BY <2>1, WarpStands
<1>2. IsRow(rows[r]) /\ r \in Nat \ {0} /\ d \in 0 .. Digits
  <2>1. Digits \in Nat
    BY SelectAssumption
  <2> QED BY <1>1, <2>1, RowsAre
<1>3. PickAt(rows, r, d) \in Nat
  BY <1>2, PicksApart
<1>4. InDigit(r, d)
  BY <1>1, <1>3 DEF InDigit
<1>5. b % NumWarps \in Warp
  BY SelectAssumption DEF Bin, Warp
<1>6. PickAt(rows, r, d) - 1 <= entered[b % NumWarps]
  BY <1>1, <1>3, <1>5
<1>7. Counted(r, d, b) = BucketAt(rows[r], d, b)
  <2>1. \A id \in BucketAt(rows[r], d, b) : WarpOf(id) \in Warp
    BY <1>2, CandidatesAre DEF BucketAt, BucketOf
  <2>2. \A id \in BucketAt(rows[r], d, b) : entered[WarpOf(id)] >= PickAt(rows, r, d)
    BY <1>1, <1>3, <2>1
  <2> QED BY <2>2 DEF Counted
<1> QED BY <1>4, <1>6, <1>7 DEF BinsRight

\* What the lane that looks at its bins makes of the scratch.
LEMMA LaneFinds ==
  ASSUME InStep, LanesRight, ScratchRight, BinsRight, ScratchTyped, NEW l \in Lane, FindBin(l),
         NEW r, r = warp[0].row, NEW d, d = warp[0].digit
  PROVE  /\ scratch' = [scratch EXCEPT !.threshold = scratch'.threshold, !.rank = scratch'.rank]
         /\ IF l = LaneOf(rows[r], d) \/ lane[LaneOf(rows[r], d)].step = "done"
            THEN scratch'.threshold = ThresholdAt(rows[r], d) /\ scratch'.rank = RankAt(rows[r], d)
            ELSE scratch'.threshold = ThresholdAt(rows[r], d + 1) /\ scratch'.rank = RankAt(rows[r], d + 1)
<1> DEFINE row == rows[r]
           digit == DigitOf(Cut(row), d)
           k == RankAt(row, d + 1)
<1>1. /\ warp[0].pc = "pick" /\ lane[l].step = "find" /\ \A j \in Lane : lane[j].step # "read"
      /\ \/ RankBins(l) = {} /\ scratch' = scratch
         \/ \E b \in RankBins(l) :
              scratch' = [scratch EXCEPT
                !.threshold = lane[l].threshold + b * Weight[warp[0].digit],
                !.rank = lane[l].rank - Greater(b)]
  BY DEF FindBin
<1>2. /\ lane[l].rank = k /\ lane[l].threshold = ThresholdAt(row, d + 1)
      /\ \A v \in Warp : entered[v] >= entered[0]
  BY <1>1 DEF LanesRight
<1>3. /\ r \in 1 .. Len(rows) /\ IsRow(row) /\ ~Failed(row) /\ Selects(row)
      /\ d \in 0 .. Digits - 1 /\ entered[0] = PickAt(rows, r, d) /\ InRow(r)
      /\ lane[LaneOf(row, d)].step = "done" => FixedTo(row, d)
      /\ lane[LaneOf(row, d)].step # "done" => FixedTo(row, d + 1)
  <2>1. Synced(0)
    BY <1>2 DEF Synced
  <2> QED BY <1>1, <2>1, PickScratch
<1>4. \A b \in Bin : histogram[b] = Cardinality(BucketAt(row, d, b))
  <2>1. 0 \in Warp
    BY SelectAssumption DEF Warp
  <2>2. \A v \in Warp : PickAt(rows, r, d) <= entered[v] /\ entered[v] <= PickAt(rows, r, d) + 1
    BY <1>2, <1>3, <2>1, WarpStands
  <2> QED BY <1>3, <2>2, BinsAreFull
<1>5. BinsOf(l) \in SUBSET Bin
  BY DEF BinsOf
<1>6. /\ BinsOfRank(histogram, k, BinsOf(l)) = BinsOf(l) \cap {digit}
      /\ k - CountAbove(histogram, digit) = RankAt(row, d)
  <2> PICK h : h = histogram
    OBVIOUS
  <2> PICK bins : bins = BinsOf(l)
    OBVIOUS
  <2> PICK o : o = row
    OBVIOUS
  <2>1. \A b \in Bin : h[b] = Cardinality(BucketAt(o, d, b))
    BY <1>4
  <2>2. bins \in SUBSET Bin /\ IsRow(o) /\ ~Failed(o) /\ d \in 0 .. Digits - 1
    BY <1>3, <1>5
  <2> HIDE DEF row
  <2>3. FindsBin(o, d, h, bins)
    BY <2>1, <2>2, BinIsFound
  <2> QED BY <2>3 DEF FindsBin
<1>7. RankBins(l) = BinsOf(l) \cap {digit}
  BY <1>2, <1>6 DEF RankBins
<1>8. /\ LaneOf(row, d) \in Lane /\ digit \in BinsOf(LaneOf(row, d))
      /\ \A j \in Lane : j # LaneOf(row, d) => digit \notin BinsOf(j)
  BY <1>3, LaneOfCut
<1>9. ThresholdAt(row, d + 1) + digit * Weight[d] = ThresholdAt(row, d)
  BY <1>3, PrefixIs
<1> HIDE DEF k, digit
<1>10. CASE l = LaneOf(row, d)
  <2>1. RankBins(l) = {digit}
    BY <1>7, <1>8, <1>10
  <2>2. scratch' = [scratch EXCEPT !.threshold = lane[l].threshold + digit * Weight[warp[0].digit],
                                   !.rank = lane[l].rank - Greater(digit)]
    BY <1>1, <2>1
  <2>3. /\ scratch'.threshold = lane[l].threshold + digit * Weight[d]
        /\ scratch'.rank = lane[l].rank - Greater(digit)
        /\ scratch' = [scratch EXCEPT !.threshold = scratch'.threshold, !.rank = scratch'.rank]
    BY <2>2 DEF ScratchTyped
  <2>4. scratch'.threshold = ThresholdAt(row, d)
    BY <1>2, <1>9, <2>3
  <2>5. scratch'.rank = RankAt(row, d)
    BY <1>2, <1>6, <2>3 DEF Greater
  <2> QED BY <1>10, <2>3, <2>4, <2>5
<1>11. CASE l # LaneOf(row, d)
  <2>1. scratch' = scratch
    BY <1>1, <1>7, <1>8, <1>11
  <2>2. /\ scratch' = [scratch EXCEPT !.threshold = scratch'.threshold, !.rank = scratch'.rank]
    BY <2>1 DEF ScratchTyped
  <2> QED BY <1>3, <1>11, <2>1, <2>2 DEF FixedTo
<1> QED BY <1>10, <1>11

LEMMA FindBinScratch ==
  ASSUME InStep, LanesRight, ScratchRight, BinsRight, ScratchTyped, LanesTyped,
         NEW l \in Lane, FindBin(l)
  PROVE  ScratchRight'
<1> PICK d, r, row : d = warp[0].digit /\ r = warp[0].row /\ row = rows[r]
  OBVIOUS
<1>1. /\ warp[0].pc = "pick" /\ lane' = [lane EXCEPT ![l].step = "done"] /\ lane[l].step # "read"
      /\ rows' = rows /\ warp' = warp /\ entered' = entered
  BY DEF FindBin
<1>2. /\ \A v \in Warp : entered[v] >= entered[0]
  BY <1>1 DEF LanesRight
<1>3. /\ r \in 1 .. Len(rows) /\ IsRow(row) /\ ~Failed(row) /\ Selects(row)
      /\ d \in 0 .. Digits - 1 /\ entered[0] = PickAt(rows, r, d) /\ InRow(r)
  BY <1>1, <1>2, PickScratch DEF Synced
<1>4. /\ scratch' = [scratch EXCEPT !.threshold = scratch'.threshold, !.rank = scratch'.rank]
      /\ IF l = LaneOf(row, d) \/ lane[LaneOf(row, d)].step = "done"
         THEN scratch'.threshold = ThresholdAt(row, d) /\ scratch'.rank = RankAt(row, d)
         ELSE scratch'.threshold = ThresholdAt(row, d + 1) /\ scratch'.rank = RankAt(row, d + 1)
  BY LaneFinds
<1>5. scratch'.failed = scratch.failed /\ scratch'.spills = scratch.spills
  BY <1>4 DEF ScratchTyped
<1>6. /\ entered[0] \in Nat /\ 0 \in Warp /\ rows \in Inputs /\ Len(rows) \in Nat
  <2>1. 0 \in Warp
    BY SelectAssumption DEF Warp
  <2> QED BY <2>1, WarpStands
<1>7. ASSUME NEW q \in 1 .. Len(rows), InRow(q)' PROVE q = r
  <2>1. /\ RoundsBefore(rows, q) < entered[0]
        /\ entered[0] <= RoundsBefore(rows, q) + RoundsOf(rows[q])
        /\ RoundsBefore(rows, q) \in Nat /\ RoundsOf(rows[q]) \in Nat /\ q \in Nat \ {0}
    <3>1. q \in Nat \ {0}
      BY <1>6
    <3>2. RoundsBefore(rows, q) \in Nat /\ RoundsOf(rows[q]) \in Nat
      BY <3>1, RoundsAdd, RoundsOfRow, SelectAssumption
    <3> QED BY <1>1, <1>7, <3>1, <3>2 DEF InRow
  <2>2. CASE entered[0] < RoundsBefore(rows, q) + RoundsOf(rows[q])
    <3>1. RoundsBefore(rows, q) <= entered[0]
      BY <1>6, <2>1
    <3>2. warp[0].row = q
      BY <1>6, <2>2, <3>1, OnlyRow
    <3> QED BY <3>2
  <2>3. CASE entered[0] = RoundsBefore(rows, q) + RoundsOf(rows[q])
    <3>1. entered[0] = RoundsBefore(rows, q + 1)
      BY <2>1, <2>3, RoundsAdd
    <3>2. r \in Nat \ {0} /\ RoundsBefore(rows, r) < entered[0] /\ RoundsBefore(rows, r) \in Nat
          /\ entered[0] < RoundsBefore(rows, r) + RoundsOf(rows[r]) /\ RoundsOf(rows[r]) \in Nat
      BY <1>1, <1>6, WarpRow
    <3>3. CASE r < q
      <4>1. RoundsBefore(rows, r) + RoundsOf(rows[r]) <= RoundsBefore(rows, q)
        BY <2>1, <3>2, <3>3, RoundsGrow
      <4> QED BY ONLY <1>6, <2>1, <3>2, <4>1
    <3>4. CASE r > q
      <4>1. RoundsBefore(rows, q) + RoundsOf(rows[q]) <= RoundsBefore(rows, r)
        BY <2>1, <3>2, <3>4, RoundsGrow
      <4> QED BY ONLY <1>6, <2>3, <3>2, <4>1
    <3>5. r < q \/ r > q \/ r = q
      BY ONLY <2>1, <3>2
    <3> QED BY <3>3, <3>4, <3>5
  <2>4. \/ entered[0] < RoundsBefore(rows, q) + RoundsOf(rows[q])
        \/ entered[0] = RoundsBefore(rows, q) + RoundsOf(rows[q])
    <3> PICK e, x, y : e = entered[0] /\ x = RoundsBefore(rows, q) /\ y = RoundsOf(rows[q])
      OBVIOUS
    <3>1. e \in Nat /\ x \in Nat /\ y \in Nat /\ e <= x + y
      BY <1>6, <2>1
    <3>2. e < x + y \/ e = x + y
      BY <3>1
    <3> QED BY <3>2
  <2> QED BY <2>2, <2>3, <2>4
<1>8. ScratchOf(r)'
  <2>1. ScratchOf(r)
    BY <1>3, <1>7 DEF ScratchRight, Selects
  <2>6. \A c \in 0 .. Digits : /\ c = d => PickAt(rows, r, c) = entered[0]
                               /\ c < d => PickAt(rows, r, c) >= entered[0] + 3
                               /\ c > d => PickAt(rows, r, c) <= entered[0] - 3
                               /\ PickAt(rows, r, c) \in Nat
                               /\ c = d \/ c < d \/ c > d
    <3>1. d \in 0 .. Digits /\ r \in Nat \ {0}
      <4>1. Digits \in Nat /\ r \in 1 .. Len(rows) /\ d \in 0 .. Digits - 1
        BY <1>3, SelectAssumption
      <4> QED BY <1>6, <4>1
    <3>2. \A c \in 0 .. Digits : /\ c < d => PickAt(rows, r, c) >= PickAt(rows, r, d) + 3
                                 /\ c > d => PickAt(rows, r, c) <= PickAt(rows, r, d) - 3
                                 /\ PickAt(rows, r, c) \in Nat
      BY <3>1, PicksApart
    <3>3. \A c \in 0 .. Digits : c = d \/ c < d \/ c > d
      BY <3>1
    <3> QED BY <1>3, <3>2, <3>3
  <2>2. \A c \in 0 .. Digits : ~(PickAt(rows, r, c) < entered[0] /\ entered[0] <= PickAt(rows, r, c) + 2)
    <3> TAKE c \in 0 .. Digits
    <3> PICK v, e : v = PickAt(rows, r, c) /\ e = entered[0]
      OBVIOUS
    <3>1. /\ v \in Nat /\ e \in Nat /\ (c = d \/ c < d \/ c > d)
          /\ c = d => v = e
          /\ c < d => v >= e + 3
          /\ c > d => v <= e - 3
      BY <1>6, <2>6
    <3> QED BY <3>1
  <2>3. \A c \in 0 .. Digits : entered[0] = PickAt(rows, r, c) => c = d
    <3> TAKE c \in 0 .. Digits
    <3> PICK v, e : v = PickAt(rows, r, c) /\ e = entered[0]
      OBVIOUS
    <3>1. /\ v \in Nat /\ e \in Nat /\ (c = d \/ c < d \/ c > d)
          /\ c = d => v = e
          /\ c < d => v >= e + 3
          /\ c > d => v <= e - 3
      BY <1>6, <2>6
    <3> QED BY <3>1
  <2>4. FixedTo(row, IF lane[LaneOf(row, d)].step = "done" THEN d ELSE d + 1)'
    <3>1. LaneOf(row, d) \in Lane
      BY <1>3, LaneOfCut
    <3>2. lane'[LaneOf(row, d)].step = "done" <=> l = LaneOf(row, d) \/ lane[LaneOf(row, d)].step = "done"
      BY <1>1, <3>1 DEF LanesTyped
    <3> QED BY <1>1, <1>4, <3>2 DEF FixedTo
  <2>5. \A c \in 0 .. Digits - 1 : c \in 0 .. Digits
    BY SelectAssumption
  <2>7. \A c : PickAt(rows, r, c)' = PickAt(rows, r, c)
    BY <1>1
  <2>8. /\ \A c \in 0 .. Digits :
             PickAt(rows, r, c) < entered[0] /\ entered[0] <= PickAt(rows, r, c) + 2
               => FixedTo(rows[r], c)'
        /\ \A c \in 0 .. Digits - 1 : entered[0] = PickAt(rows, r, c) =>
             FixedTo(rows[r], IF lane[LaneOf(rows[r], c)].step = "done" THEN c ELSE c + 1)'
    <3>1. (rows[r] = row)' /\ rows' = rows
      BY <1>1
    <3> QED BY <2>2, <2>3, <2>4, <2>5, <3>1
  <2> QED BY <1>1, <1>5, <2>1, <2>8 DEF ScratchOf
<1> QED BY <1>1, <1>7, <1>8 DEF ScratchRight

LEMMA ScratchRightKept ==
  ASSUME InStep, LanesRight, ScratchRight, BinsRight, ScratchTyped, LanesTyped, [Next]_vars
  PROVE  ScratchRight'
<1>1. /\ 0 \in Warp /\ rows \in Inputs /\ Len(rows) \in Nat /\ entered[0] \in Nat
      /\ entered = [w \in Warp |-> entered[w]]
  <2>1. 0 \in Warp
    BY SelectAssumption DEF Warp
  <2> QED BY <2>1, WarpStands DEF InStep
<1>2. CASE UNCHANGED vars
  BY <1>2, ScratchKept DEF vars
<1>3. ASSUME NEW w \in Warp, WarpStep(w), w # 0 PROVE ScratchRight'
  <2>1. rows' = rows /\ lane' = lane /\ entered'[0] = entered[0]
    BY <1>1, <1>3, WarpSteps
  <2>2. \/ scratch' = scratch
        \/ \E x : scratch' = [scratch EXCEPT !.greater = x]
        \/ \E x : scratch' = [scratch EXCEPT !.equal = x]
    BY <1>3 DEF WarpStep, ShortRow, Setup, GiveUp, StartRadix, ZeroHistogram, CountDigits, SkipPick,
                NextDigit, ReserveGreater, PlaceBatch, EndRow
  <2>3. /\ scratch'.failed = scratch.failed /\ scratch'.spills = scratch.spills
        /\ scratch'.threshold = scratch.threshold /\ scratch'.rank = scratch.rank
    BY <2>2 DEF ScratchTyped
  <2> QED BY <2>1, <2>3, ScratchKept
<1>4. ASSUME ShortRow(0) PROVE ScratchRight'
  <2> PICK r : r = warp[0].row
    OBVIOUS
  <2>1. /\ r <= Len(rows) /\ Valid(rows[r]) <= K /\ rows' = rows /\ entered'[0] = entered[0] + 1
        /\ warp[0].pc = "begin"
    BY <1>1, <1>4 DEF ShortRow, Sync, Row
  <2>2. r \in Nat \ {0} /\ RoundsBefore(rows, r) \in Nat /\ entered[0] = RoundsBefore(rows, r)
    BY <1>1, <2>1, WarpStands, RoundsAdd DEF PcRounds
  <2>3. ASSUME NEW q \in 1 .. Len(rows), Valid(rows[q]) > K, InRow(q)' PROVE FALSE
    <3>1. /\ RoundsBefore(rows, q) < entered[0] + 1
          /\ entered[0] + 1 <= RoundsBefore(rows, q) + RoundsOf(rows[q])
          /\ RoundsBefore(rows, q) \in Nat /\ RoundsOf(rows[q]) \in Nat
      <4>1. q \in Nat \ {0}
        BY <1>1
      <4>2. /\ RoundsBefore(rows, q) < entered'[0]
            /\ entered'[0] <= RoundsBefore(rows, q) + RoundsOf(rows[q])
        BY <2>1, <2>3 DEF InRow
      <4>3. RoundsBefore(rows, q) \in Nat /\ RoundsOf(rows[q]) \in Nat
        BY <4>1, RoundsAdd, RoundsOfRow, SelectAssumption
      <4> QED BY <2>1, <4>2, <4>3
    <3>2. RoundsBefore(rows, q) <= entered[0] /\ entered[0] < RoundsBefore(rows, q) + RoundsOf(rows[q])
      BY <1>1, <3>1
    <3>3. warp[0].row = q
      BY <1>1, <3>2, OnlyRow
    <3>4. Valid(rows[q]) \in Nat /\ K \in Nat
      BY <1>1, RowsAre, SelectAssumption
    <3> QED BY <2>1, <2>3, <3>3, <3>4
  <2> QED BY <2>1, <2>3 DEF ScratchRight
<1>5. ASSUME Setup(0) PROVE ScratchRight'
  <2> PICK r, row : r = warp[0].row /\ row = rows[r]
    OBVIOUS
  <2>1. /\ r \in 1 .. Len(rows) /\ Valid(row) > K /\ rows' = rows /\ entered'[0] = entered[0] + 1
        /\ warp[0].pc = "begin"
        /\ scratch' = [failed |-> Failed(row), threshold |-> 0, rank |-> K,
                       greater |-> 0, equal |-> 0, spills |-> Spills(row)]
    <3>1. r \in Nat \ {0}
      BY <1>1, WarpStands
    <3> QED BY <1>1, <1>5, <3>1 DEF Setup, Sync, Row
  <2>2. /\ r \in Nat \ {0} /\ RoundsBefore(rows, r) \in Nat /\ entered[0] = RoundsBefore(rows, r)
        /\ IsRow(row)
    BY <1>1, <2>1, WarpStands, RoundsAdd, RowsAre DEF PcRounds
  <2>3. ASSUME NEW q \in 1 .. Len(rows), InRow(q)' PROVE q = r
    <3>1. /\ RoundsBefore(rows, q) < entered[0] + 1
          /\ entered[0] + 1 <= RoundsBefore(rows, q) + RoundsOf(rows[q])
          /\ RoundsBefore(rows, q) \in Nat /\ RoundsOf(rows[q]) \in Nat
      <4>1. q \in Nat \ {0}
        BY <1>1
      <4>2. /\ RoundsBefore(rows, q) < entered'[0]
            /\ entered'[0] <= RoundsBefore(rows, q) + RoundsOf(rows[q])
        BY <2>1, <2>3 DEF InRow
      <4>3. RoundsBefore(rows, q) \in Nat /\ RoundsOf(rows[q]) \in Nat
        BY <4>1, RoundsAdd, RoundsOfRow, SelectAssumption
      <4> QED BY <2>1, <4>2, <4>3
    <3>2. RoundsBefore(rows, q) <= entered[0] /\ entered[0] < RoundsBefore(rows, q) + RoundsOf(rows[q])
      BY <1>1, <3>1
    <3>3. warp[0].row = q
      BY <1>1, <3>2, OnlyRow
    <3> QED BY <3>3
  <2>4. ASSUME ~Failed(row)
        PROVE  /\ \A c \in 0 .. Digits :
                    PickAt(rows, r, c) < entered'[0] /\ entered'[0] <= PickAt(rows, r, c) + 2
                      => FixedTo(row, c)'
               /\ \A c \in 0 .. Digits - 1 : ~(entered'[0] = PickAt(rows, r, c))
    <3>1. \A c \in 0 .. Digits : /\ c # Digits => PickAt(rows, r, c) >= entered[0] + 3
                                 /\ PickAt(rows, r, c) \in Nat
      BY <2>2, PicksApart
    <3>2. FixedTo(row, Digits)'
      BY <2>1, <2>2, <2>4, TopIs DEF FixedTo
    <3>3. \A c \in 0 .. Digits : PickAt(rows, r, c) < entered'[0] => c = Digits
      <4> TAKE c \in 0 .. Digits
      <4> PICK v, e : v = PickAt(rows, r, c) /\ e = entered[0]
        OBVIOUS
      <4>1. (c # Digits => v >= e + 3) /\ v \in Nat /\ e \in Nat /\ entered'[0] = e + 1
        BY <1>1, <2>1, <3>1
      <4> QED BY <4>1
    <3>4. \A c \in 0 .. Digits - 1 : ~(entered'[0] = PickAt(rows, r, c))
      <4> TAKE c \in 0 .. Digits - 1
      <4> PICK v, e : v = PickAt(rows, r, c) /\ e = entered[0]
        OBVIOUS
      <4>0. c \in 0 .. Digits /\ c # Digits
        BY SelectAssumption
      <4>1. v >= e + 3 /\ v \in Nat /\ e \in Nat /\ entered'[0] = e + 1
        BY <1>1, <2>1, <3>1, <4>0
      <4> QED BY <4>1
    <3> QED BY <3>2, <3>3, <3>4
  <2>5. scratch'.failed = Failed(row) /\ scratch'.spills = Spills(row)
    BY <2>1
  <2>6. ScratchOf(r)'
    BY <2>1, <2>4, <2>5 DEF ScratchOf
  <2> QED BY <2>1, <2>3, <2>6 DEF ScratchRight
<1>6. ASSUME WarpStep(0), UNCHANGED <<scratch, entered>> PROVE ScratchRight'
  BY <1>1, <1>6, WarpSteps, ScratchKept
<1>7. ASSUME ReserveGreater(0) \/ PlaceBatch(0) PROVE ScratchRight'
  <2>1. rows' = rows /\ lane' = lane /\ entered' = entered
    BY <1>7 DEF ReserveGreater, PlaceBatch
  <2>2. \/ \E x : scratch' = [scratch EXCEPT !.greater = x]
        \/ \E x : scratch' = [scratch EXCEPT !.equal = x]
    BY <1>7 DEF ReserveGreater, PlaceBatch
  <2>3. /\ scratch'.failed = scratch.failed /\ scratch'.spills = scratch.spills
        /\ scratch'.threshold = scratch.threshold /\ scratch'.rank = scratch.rank
    BY <2>2 DEF ScratchTyped
  <2> QED BY <2>1, <2>3, ScratchKept
<1>8. ASSUME GiveUp(0) PROVE ScratchRight'
  <2>1. /\ warp[0].pc = "check" /\ Synced(0) /\ scratch.failed /\ rows' = rows /\ scratch' = scratch
        /\ entered'[0] = entered[0] + 1
    BY <1>1, <1>8 DEF GiveUp, Sync
  <2>2. Failed(rows[warp[0].row])
    BY <1>1, <2>1, WarpScratch
  <2> QED BY <2>1, <2>2, ScratchPast
<1>9. ASSUME ZeroHistogram(0) \/ CountDigits(0) PROVE ScratchRight'
  <2>1. /\ warp[0].pc \in {"zero", "count"} /\ rows' = rows /\ scratch' = scratch
        /\ entered'[0] = entered[0] + 1 /\ lane' = lane
    BY <1>1, <1>9 DEF ZeroHistogram, CountDigits, Sync
  <2>2. Synced(0)
    BY <1>1, <1>9 DEF ZeroHistogram, CountDigits, Synced, InStep, Paced
  <2> QED BY <2>1, <2>2, ScratchPast
<1>10. ASSUME EndRow(0) PROVE ScratchRight'
  <2>1. /\ warp[0].pc = "emit" /\ rows' = rows /\ scratch' = scratch
        /\ entered'[0] = entered[0] + 1
    BY <1>1, <1>10 DEF EndRow, Sync
  <2>2. Synced(0)
    BY <1>1, <2>1 DEF Synced, InStep, Paced
  <2> QED BY <2>1, <2>2, ScratchPast
<1>11. ASSUME EndPick PROVE ScratchRight'
  <2>1. /\ warp[0].pc = "pick" /\ rows' = rows /\ scratch' = scratch
        /\ entered'[0] = entered[0] + 1 /\ \A l \in Lane : lane[l].step = "done"
    BY <1>1, <1>11 DEF EndPick, Sync
  <2>2. Synced(0)
    <3>1. 0 \in Lane
      BY SelectAssumption DEF Lane
    <3> QED BY <2>1, <3>1 DEF Synced, LanesRight
  <2> QED BY <2>1, <2>2, ScratchPast
<1>12. ASSUME NEW l \in Lane, ReadRank(l) PROVE ScratchRight'
  <2>1. /\ rows' = rows /\ entered' = entered /\ scratch' = scratch /\ lane[l].step = "read"
        /\ lane' = [lane EXCEPT ![l] =
                [step |-> "find", rank |-> scratch.rank, threshold |-> scratch.threshold]]
    BY <1>12 DEF ReadRank
  <2>2. \A j \in Lane : lane'[j].step = "done" <=> lane[j].step = "done"
    BY <2>1 DEF LanesTyped
  <2> QED BY <2>1, <2>2, ScratchKept
<1>13. ASSUME NEW w \in Warp, WarpStep(w) PROVE ScratchRight'
  <2>1. CASE w # 0
    BY <1>3, <1>13, <2>1
  <2>2. CASE w = 0
    <3>1. ASSUME StartRadix(0) \/ SkipPick(0) \/ NextDigit(0) PROVE UNCHANGED <<scratch, entered>>
      BY <3>1 DEF StartRadix, SkipPick, NextDigit
    <3> QED BY <1>4, <1>5, <1>6, <1>7, <1>8, <1>9, <1>10, <1>13, <2>2, <3>1 DEF WarpStep
  <2> QED BY <2>1, <2>2
<1> QED BY <1>2, <1>11, <1>12, <1>13, FindBinScratch DEF Next, LaneStep, Terminating

---------------------------------------------------------------------------
(* The bins.                                                                *)

\* Where a warp is in the rounds of a digit.
LEMMA SiteOf ==
  ASSUME InStep, NEW w \in Warp, NEW r \in 1 .. Len(rows), Selects(rows[r]),
         NEW d \in 0 .. Digits - 1, NEW p, p = PickAt(rows, r, d),
         p - 2 <= entered[w], entered[w] <= p + 1
  PROVE  /\ p \in Nat /\ entered[w] \in Nat /\ warp[w].row = r
         /\ entered[w] = p - 2 => \/ warp[w].pc = "zero" /\ warp[w].digit = d
                                  \/ warp[w].pc \in {"check", "next"}
         /\ entered[w] = p - 1 => warp[w].pc = "count" /\ warp[w].digit = d
         /\ entered[w] = p => warp[w].pc = "pick" /\ warp[w].digit = d
         /\ entered[w] = p + 1 => warp[w].pc \in {"zero", "next", "emit", "place"}
<1>1. /\ rows \in Inputs /\ Len(rows) \in Nat /\ entered[w] \in Nat /\ warp[w].pc \in Pcs
      /\ Stands(rows, warp[w], entered[w]) /\ PcRounds(rows, warp[w], entered[w])
      /\ r \in Nat \ {0} /\ Digits \in Nat \ {0} /\ d \in 0 .. Digits /\ d # Digits
  <2>1. /\ rows \in Inputs /\ Len(rows) \in Nat /\ entered[w] \in Nat /\ warp[w].pc \in Pcs
        /\ Stands(rows, warp[w], entered[w]) /\ PcRounds(rows, warp[w], entered[w])
    BY WarpStands
  <2>2. Digits \in Nat \ {0}
    BY SelectAssumption
  <2> QED BY <2>1, <2>2
<1> PICK b : b = RoundsBefore(rows, r)
  OBVIOUS
<1>2. /\ b \in Nat /\ p \in Nat /\ p >= b + 3 /\ p <= b + 3 * Digits
      /\ \A c \in 0 .. Digits : /\ PickAt(rows, r, c) \in Nat
                                /\ c < d => PickAt(rows, r, c) >= p + 3
                                /\ c > d => PickAt(rows, r, c) <= p - 3
  BY <1>1, PicksApart
<1>3. RoundsOf(rows[r]) = 3 * Digits + 2
  <2>1. ~(Valid(rows[r]) <= K) /\ ~Failed(rows[r])
    <3>1. Valid(rows[r]) \in Nat /\ K \in Nat
      BY <1>1, RowsAre, SelectAssumption
    <3> QED BY <3>1 DEF Selects
  <2> QED BY <2>1 DEF RoundsOf
<1>4. warp[w].row = r
  <2>1. b <= entered[w] /\ entered[w] < b + (3 * Digits + 2)
    <3> PICK e : e = entered[w]
      OBVIOUS
    <3>1. e \in Nat /\ p - 2 <= e /\ e <= p + 1
      BY <1>1
    <3>2. b <= e /\ e < b + (3 * Digits + 2)
      <4>1. /\ b \in Nat /\ p \in Nat /\ p >= b + 3 /\ p <= b + 3 * Digits /\ Digits \in Nat
        BY <1>1, <1>2
      <4> QED BY ONLY <3>1, <4>1
    <3> QED BY <3>2
  <2> QED BY <1>3, <2>1, OnlyRow
<1> PICK c : c = warp[w].digit
  OBVIOUS
<1> PICK a : a = PickAt(rows, r, c)
  OBVIOUS
<1> PICK e : e = entered[w]
  OBVIOUS
<1>5. /\ c \in Nat /\ c < Digits /\ a \in Nat /\ e \in Nat
      /\ warp[w].pc = "begin" => e = b
      /\ warp[w].pc = "check" => e = b + 1
      /\ warp[w].pc = "zero"  => e = a - 2
      /\ warp[w].pc = "count" => e = a - 1
      /\ warp[w].pc = "pick"  => e = a
      /\ warp[w].pc \in {"next", "emit", "place"} => e = a + 1
  BY <1>1, <1>4 DEF PcRounds
<1>6. /\ c = d \/ c < d \/ c > d
      /\ c = d => a = p
      /\ c < d => a >= p + 3
      /\ c > d => a <= p - 3
  <2>1. c \in 0 .. Digits /\ d \in Nat
    BY <1>1, <1>5
  <2>2. c = d \/ c < d \/ c > d
    BY <1>5, <2>1
  <2>3. c = d => a = p
    OBVIOUS
  <2>4. (c < d => a >= p + 3) /\ (c > d => a <= p - 3)
    BY <1>2, <2>1
  <2> QED BY <2>2, <2>3, <2>4
<1>7. warp[w].pc \in {"emit", "place"} => c = 0
  BY <1>1 DEF Stands
<1>8. a = p \/ a >= p + 3 \/ a <= p - 3
  BY <1>6
<1>9. a = p => c = d
  <2>1. a \in Nat /\ p \in Nat
    BY <1>2, <1>5
  <2> QED BY ONLY <1>6, <2>1
<1>10. p - 2 <= e /\ e <= p + 1
  OBVIOUS
<1>15. /\ e = p - 2 => /\ e # b /\ e # a - 1 /\ e # a
                       /\ e = a - 2 => a = p
                       /\ e = a + 1 => a <= p - 3
       /\ e = p - 1 => /\ e # b /\ e # b + 1 /\ e # a - 2 /\ e # a /\ e # a + 1
                       /\ e = a - 1 => a = p
       /\ e = p     => /\ e # b /\ e # b + 1 /\ e # a - 2 /\ e # a - 1 /\ e # a + 1
                       /\ e = a => a = p
       /\ e = p + 1 => /\ e # b /\ e # b + 1 /\ e # a - 1 /\ e # a
  <2>1. a \in Nat /\ b \in Nat /\ p \in Nat /\ e \in Nat /\ p >= b + 3
    BY <1>2, <1>5
  <2>2. e = p - 2 => /\ e # b /\ e # a - 1 /\ e # a
                     /\ e = a - 2 => a = p
                     /\ e = a + 1 => a <= p - 3
    BY ONLY <1>8, <2>1
  <2>3. e = p - 1 => /\ e # b /\ e # b + 1 /\ e # a - 2 /\ e # a /\ e # a + 1
                     /\ e = a - 1 => a = p
    BY ONLY <1>8, <2>1
  <2>4. e = p     => /\ e # b /\ e # b + 1 /\ e # a - 2 /\ e # a - 1 /\ e # a + 1
                     /\ e = a => a = p
    BY ONLY <1>8, <2>1
  <2>5. e = p + 1 => /\ e # b /\ e # b + 1 /\ e # a - 1 /\ e # a
    BY ONLY <1>8, <2>1
  <2> QED BY <2>2, <2>3, <2>4, <2>5
<1>16. a <= p - 3 => c # 0
  <2>1. a <= p - 3 => ~(c = d) /\ ~(c < d)
    <3>1. a \in Nat /\ p \in Nat
      BY <1>2, <1>5
    <3> QED BY ONLY <1>6, <3>1
  <2>2. d \in Nat
    BY <1>1
  <2> QED BY <1>5, <1>6, <2>1, <2>2
<1>11. ASSUME e = p - 2
       PROVE  \/ warp[w].pc = "zero" /\ c = d
              \/ warp[w].pc \in {"check", "next"}
  <2>1. /\ e # b /\ e # a - 1 /\ e # a
        /\ e = a - 2 => a = p
        /\ e = a + 1 => a <= p - 3
    BY <1>11, <1>15
  <2>2. warp[w].pc \in {"zero", "check", "next", "emit", "place"}
    BY <1>1, <1>5, <2>1 DEF Pcs
  <2> QED BY <1>5, <1>7, <1>9, <1>16, <2>1, <2>2
<1>12. ASSUME e = p - 1 PROVE warp[w].pc = "count" /\ c = d
  <2>1. /\ e # b /\ e # b + 1 /\ e # a - 2 /\ e # a /\ e # a + 1
        /\ e = a - 1 => a = p
    BY <1>12, <1>15
  <2>2. warp[w].pc = "count"
    BY <1>1, <1>5, <2>1 DEF Pcs
  <2> QED BY <1>5, <1>9, <2>1, <2>2
<1>13. ASSUME e = p PROVE warp[w].pc = "pick" /\ c = d
  <2>1. /\ e # b /\ e # b + 1 /\ e # a - 2 /\ e # a - 1 /\ e # a + 1
        /\ e = a => a = p
    BY <1>13, <1>15
  <2>2. warp[w].pc = "pick"
    BY <1>1, <1>5, <2>1 DEF Pcs
  <2> QED BY <1>5, <1>9, <2>1, <2>2
<1>14. ASSUME e = p + 1 PROVE warp[w].pc \in {"zero", "next", "emit", "place"}
  <2>1. e # b /\ e # b + 1 /\ e # a - 1 /\ e # a
    BY <1>14, <1>15
  <2> QED BY <1>1, <1>5, <2>1 DEF Pcs
<1> QED BY <1>1, <1>2, <1>4, <1>11, <1>12, <1>13, <1>14

\* A warp that arrives at a round while all are in a digit was in it already.
LEMMA ArrivesIn ==
  ASSUME InStep, NEW w \in Warp, rows' = rows, entered' = [entered EXCEPT ![w] = @ + 1],
         NEW r \in 1 .. Len(rows), Selects(rows[r]), NEW d \in 0 .. Digits - 1, NEW b \in Bin,
         NEW p, p = PickAt(rows, r, d), InDigit(r, d)', p - 1 <= entered'[b % NumWarps]
  PROVE  /\ InDigit(r, d) /\ p \in Nat /\ b % NumWarps \in Warp
         /\ \A v \in Warp : entered[v] \in Nat /\ entered'[v] = IF v = w THEN entered[v] + 1 ELSE entered[v]
         /\ entered[w] \in {p - 2, p - 1, p}
<1>1. /\ Len(rows) \in Nat /\ b % NumWarps \in Warp /\ \A v \in Warp : entered[v] \in Nat
      /\ entered = [v \in Warp |-> entered[v]] /\ \A u, v \in Warp : entered[v] <= entered[u] + 1
  <2>1. b % NumWarps \in Warp
    BY SelectAssumption DEF Bin, Warp
  <2>2. Len(rows) \in Nat /\ \A v \in Warp : entered[v] \in Nat
    BY WarpStands
  <2> QED BY <2>1, <2>2 DEF InStep, Paced
<1>2. \A v \in Warp : entered'[v] = IF v = w THEN entered[v] + 1 ELSE entered[v]
  BY <1>1
<1>3. p \in Nat
  <2>1. d \in 0 .. Digits
    BY SelectAssumption
  <2>2. r \in Nat \ {0}
    BY <1>1
  <2> QED BY <2>1, <2>2, PicksApart
<1>4. \A v \in Warp : p - 2 <= entered'[v] /\ entered'[v] <= p + 1
  BY DEF InDigit
<1> PICK u : u = b % NumWarps
  OBVIOUS
<1>5. entered[w] # p - 3
  <2> SUFFICES ASSUME entered[w] = p - 3 PROVE FALSE
    OBVIOUS
  <2>1. u \in Warp /\ entered[u] <= entered[w] + 1 /\ p - 1 <= entered'[u] /\ entered[u] \in Nat
    BY <1>1
  <2>2. CASE u = w
    BY <1>1, <1>2, <1>3, <2>1, <2>2
  <2>3. CASE u # w
    BY <1>1, <1>2, <1>3, <2>1, <2>3
  <2> QED BY <2>2, <2>3
<1>6. entered[w] \in {p - 2, p - 1, p}
  <2> PICK e : e = entered[w]
    OBVIOUS
  <2>1. p - 2 <= e + 1 /\ e + 1 <= p + 1 /\ e \in Nat /\ e # p - 3
    BY <1>1, <1>2, <1>4, <1>5
  <2>2. e \in {p - 2, p - 1, p}
    BY ONLY <1>3, <2>1
  <2> QED BY <2>2
<1>7. InDigit(r, d)
  <2> SUFFICES ASSUME NEW v \in Warp PROVE p - 2 <= entered[v] /\ entered[v] <= p + 1
    BY DEF InDigit
  <2>1. CASE v = w
    BY <1>1, <1>3, <1>6, <2>1
  <2>2. CASE v # w
    BY <1>2, <1>4, <2>2
  <2> QED BY <2>1, <2>2
<1> QED BY <1>1, <1>2, <1>3, <1>6, <1>7

LEMMA BinsKept ==
  ASSUME BinsRight, rows' = rows, entered' = entered, histogram' = histogram
  PROVE  BinsRight'
BY DEF BinsRight, InDigit, Counted

\* Arriving where no bin is written.
LEMMA BinsPast ==
  ASSUME InStep, BinsRight, NEW w \in Warp, rows' = rows, histogram' = histogram,
         entered' = [entered EXCEPT ![w] = @ + 1],
         warp[w].pc \in {"begin", "pick", "emit"}
           \/ (warp[w].pc = "check" /\ Failed(rows[warp[w].row]))
  PROVE  BinsRight'
<1> SUFFICES ASSUME NEW r \in 1 .. Len(rows), Selects(rows[r]), NEW d \in 0 .. Digits - 1, NEW b \in Bin,
                    InDigit(r, d)', PickAt(rows, r, d) - 1 <= entered'[b % NumWarps]
             PROVE  histogram'[b] = Cardinality(Counted(r, d, b)')
  BY DEF BinsRight
<1> PICK p : p = PickAt(rows, r, d)
  OBVIOUS
<1>1. /\ InDigit(r, d) /\ p \in Nat /\ b % NumWarps \in Warp
      /\ \A v \in Warp : entered[v] \in Nat /\ entered'[v] = IF v = w THEN entered[v] + 1 ELSE entered[v]
      /\ entered[w] \in {p - 2, p - 1, p}
  BY ArrivesIn
<1>2. entered[w] = p
  <2>1. p - 2 <= entered[w] /\ entered[w] <= p + 1
    BY <1>1
  <2>2. /\ warp[w].row = r
        /\ entered[w] = p - 2 => warp[w].pc = "zero" \/ warp[w].pc \in {"check", "next"}
        /\ entered[w] = p - 1 => warp[w].pc = "count"
    BY <2>1, SiteOf
  <2>3. ~Failed(rows[r])
    BY DEF Selects
  <2> QED BY <1>1, <2>2, <2>3
<1>3. Counted(r, d, b)' = Counted(r, d, b)
  <2>1. IsRow(rows[r])
    <3>1. rows \in Inputs
      BY DEF InStep
    <3> QED BY <3>1, RowsAre
  <2>2. \A id \in BucketAt(rows[r], d, b) : WarpOf(id) \in Warp
    BY <2>1, CandidatesAre DEF BucketAt, BucketOf
  <2>3. \A v \in Warp : entered'[v] >= p <=> entered[v] >= p
    BY <1>1, <1>2
  <2> QED BY <2>2, <2>3 DEF Counted
<1>4. p - 1 <= entered[b % NumWarps]
  BY <1>1, <1>2
<1> QED BY <1>1, <1>3, <1>4 DEF BinsRight

BinsTyped == histogram \in [Bin -> Nat]

LEMMA ZeroKeepsBins ==
  ASSUME InStep, BinsRight, NEW w \in Warp, ZeroHistogram(w)
  PROVE  BinsRight'
<1>1. /\ warp[w].pc = "zero" /\ rows' = rows /\ entered' = [entered EXCEPT ![w] = @ + 1]
      /\ histogram' = [b \in Bin |-> IF b % NumWarps = w THEN 0 ELSE histogram[b]]
  BY DEF ZeroHistogram, Sync
<1> SUFFICES ASSUME NEW r \in 1 .. Len(rows), Selects(rows[r]), NEW d \in 0 .. Digits - 1, NEW b \in Bin,
                    InDigit(r, d)', PickAt(rows, r, d) - 1 <= entered'[b % NumWarps]
             PROVE  histogram'[b] = Cardinality(Counted(r, d, b)')
  BY <1>1 DEF BinsRight
<1> PICK p : p = PickAt(rows, r, d)
  OBVIOUS
<1>2. /\ InDigit(r, d) /\ p \in Nat /\ b % NumWarps \in Warp
      /\ \A v \in Warp : entered[v] \in Nat /\ entered'[v] = IF v = w THEN entered[v] + 1 ELSE entered[v]
      /\ entered[w] \in {p - 2, p - 1, p}
  BY <1>1, ArrivesIn
<1>3. entered[w] = p - 2
  <2>1. p - 2 <= entered[w] /\ entered[w] <= p + 1
    BY <1>2
  <2>2. /\ entered[w] = p - 1 => warp[w].pc = "count"
        /\ entered[w] = p => warp[w].pc = "pick"
    BY <2>1, SiteOf
  <2> QED BY <1>1, <1>2, <2>2
<1>4. \A v \in Warp : entered[v] <= p - 1 /\ entered'[v] <= p - 1
  <2> TAKE v \in Warp
  <2> PICK e : e = entered[v]
    OBVIOUS
  <2>1. e \in Nat /\ e <= (p - 2) + 1
    BY <1>2, <1>3, WarpStands
  <2>2. e <= p - 1
    BY ONLY <1>2, <2>1
  <2>3. CASE v = w
    <3>1. entered'[v] = p - 1
      BY <1>2, <1>3, <2>3
    <3> QED BY <1>2, <2>2, <3>1
  <2>4. CASE v # w
    BY <1>2, <2>2, <2>4
  <2> QED BY <2>3, <2>4
<1>5. \A id \in BucketAt(rows[r], d, b) : WarpOf(id) \in Warp
  <2>1. rows \in Inputs
    BY DEF InStep
  <2> QED BY <2>1, RowsAre, CandidatesAre DEF BucketAt, BucketOf
<1>6. Counted(r, d, b) = {} /\ Counted(r, d, b)' = {}
  <2>1. \A v \in Warp : ~(entered[v] >= p) /\ ~(entered'[v] >= p)
    BY <1>2, <1>4
  <2> QED BY <1>1, <1>5, <2>1 DEF Counted
<1>7. CASE b % NumWarps = w
  BY <1>1, <1>6, <1>7, FS_EmptySet
<1>8. CASE b % NumWarps # w
  <2>1. p - 1 <= entered[b % NumWarps]
    BY <1>2, <1>8
  <2>2. histogram[b] = Cardinality(Counted(r, d, b))
    BY <1>2, <2>1 DEF BinsRight
  <2> QED BY <1>1, <1>6, <1>8, <2>2
<1> QED BY <1>7, <1>8

\* What a warp counts of a bin is its part of the cut's bucket.
LEMMA MineOfBin ==
  ASSUME NEW row, IsRow(row), ~Failed(row), NEW w \in Warp, NEW d \in 0 .. Digits - 1, NEW b \in Bin,
         NEW t, t = ThresholdAt(row, d + 1)
  PROVE  Bucket(row, Live(row, w, Spills(row)), t, d, b) = {id \in BucketAt(row, d, b) : WarpOf(id) = w}
<1> DEFINE v == Weight[d]
           c == Cut(row)
<1>1. Live(row, w, Spills(row)) = {id \in Candidates(row) : WarpOf(id) = w}
  BY LiveIs
<1>2. AboveDigit(t, d) = c \div Weight[d + 1]
  BY PrefixIs
<1>3. Weight[d + 1] = Radix * v
  <2>1. d \in Nat
    BY SelectAssumption
  <2> QED BY <2>1, WeightIs
<1>4. \A x : /\ AboveDigit(x, d) = x \div (Radix * v)
             /\ DigitOf(x, d) = (x \div v) % Radix
  BY <1>3 DEF AboveDigit, DigitOf
<1>5. \A id : id \in BucketAt(row, d, b) <=>
        /\ id \in Candidates(row) /\ row.score[id] \div (Radix * v) = c \div (Radix * v)
        /\ (row.score[id] \div v) % Radix = b
  BY DEF BucketAt, BucketOf
<1> HIDE DEF v, c
<1>6. \A id : id \in Bucket(row, Live(row, w, Spills(row)), t, d, b) <=>
        /\ id \in Candidates(row) /\ WarpOf(id) = w
        /\ row.score[id] \div (Radix * v) = c \div (Radix * v)
        /\ (row.score[id] \div v) % Radix = b
  BY <1>1, <1>2, <1>3, <1>4 DEF Bucket
<1> QED BY <1>5, <1>6

LEMMA CountKeepsBins ==
  ASSUME InStep, BinsRight, LanesRight, ScratchRight, NEW w \in Warp, CountDigits(w)
  PROVE  BinsRight'
<1> PICK c, s, row : c = warp[w].digit /\ s = warp[w].row /\ row = rows[s]
  OBVIOUS
<1> DEFINE Mine(x) == Bucket(row, Live(row, w, scratch.spills), scratch.threshold, c, x)
<1>1. /\ warp[w].pc = "count" /\ Synced(w) /\ rows' = rows /\ entered' = [entered EXCEPT ![w] = @ + 1]
      /\ histogram' = [b \in Bin |-> histogram[b] + Cardinality(Mine(b))]
  BY DEF CountDigits, Sync, Row
<1> SUFFICES ASSUME NEW r \in 1 .. Len(rows), Selects(rows[r]), NEW d \in 0 .. Digits - 1, NEW b \in Bin,
                    InDigit(r, d)', PickAt(rows, r, d) - 1 <= entered'[b % NumWarps]
             PROVE  histogram'[b] = Cardinality(Counted(r, d, b)')
  BY <1>1 DEF BinsRight
<1> PICK p : p = PickAt(rows, r, d)
  OBVIOUS
<1>2. /\ InDigit(r, d) /\ p \in Nat /\ b % NumWarps \in Warp
      /\ \A v \in Warp : entered[v] \in Nat /\ entered'[v] = IF v = w THEN entered[v] + 1 ELSE entered[v]
      /\ entered[w] \in {p - 2, p - 1, p}
  BY <1>1, ArrivesIn
<1>3. entered[w] = p - 1 /\ s = r /\ c = d
  <2>1. p - 2 <= entered[w] /\ entered[w] <= p + 1
    BY <1>2
  <2>2. /\ entered[w] = p - 2 => warp[w].pc \in {"zero", "check", "next"}
        /\ entered[w] = p - 1 => warp[w].digit = d
        /\ entered[w] = p => warp[w].pc = "pick"
        /\ warp[w].row = r
    BY <2>1, SiteOf
  <2> QED BY <1>1, <1>2, <2>2
<1>4. \A v \in Warp : entered[v] \in {p - 1, p}
  <2> TAKE v \in Warp
  <2> PICK e : e = entered[v]
    OBVIOUS
  <2>1. e \in Nat /\ e <= (p - 1) + 1 /\ e >= p - 1
    BY <1>1, <1>2, <1>3, WarpStands DEF Synced
  <2>2. e \in {p - 1, p}
    BY ONLY <1>2, <2>1
  <2> QED BY <2>2
<1>5. /\ IsRow(row) /\ ~Failed(row) /\ row = rows[r] /\ rows \in Inputs /\ r \in Nat \ {0} /\ Len(rows) \in Nat
  <2>1. rows \in Inputs /\ Len(rows) \in Nat
    BY WarpStands
  <2> QED BY <1>3, <2>1, RowsAre DEF Selects
<1>6. scratch.spills = Spills(row)
  BY <1>1, WarpScratch
<1>7. scratch.threshold = ThresholdAt(row, d + 1)
  <2>0. 0 \in Warp /\ entered[0] \in {p - 1, p}
    <3>1. 0 \in Warp
      BY SelectAssumption DEF Warp
    <3> QED BY <1>4, <3>1
  <2>1. ScratchOf(r)
    <3>1. InRow(s) /\ Valid(rows[s]) > K
      BY <1>1, WarpRow
    <3> QED BY <1>3, <3>1 DEF ScratchRight
  <2>2. CASE entered[0] = p - 1
    <3>1. d + 1 \in 0 .. Digits /\ PickAt(rows, r, d + 1) = p - 3
      <4>1. d \in 0 .. Digits /\ d # Digits
        BY SelectAssumption
      <4> QED BY <1>5, <4>1, PicksApart
    <3>2. p - 3 < entered[0] /\ entered[0] <= (p - 3) + 2
      BY <1>2, <2>2
    <3> QED BY <1>5, <2>1, <3>1, <3>2 DEF ScratchOf, FixedTo
  <2>3. CASE entered[0] = p
    <3>1. LaneOf(row, d) \in Lane
      BY <1>5, LaneOfCut
    <3>2. ~(entered[w] >= entered[0])
      BY <1>2, <1>3, <2>3
    <3>3. lane[LaneOf(row, d)].step # "done"
      BY <3>1, <3>2 DEF LanesRight
    <3> QED BY <1>5, <2>1, <2>3, <3>3 DEF ScratchOf, FixedTo
  <2> QED BY <2>0, <2>2, <2>3
<1>8. Mine(b) = {id \in BucketAt(row, d, b) : WarpOf(id) = w}
  <2> PICK t : t = scratch.threshold
    OBVIOUS
  <2>1. Bucket(row, Live(row, w, Spills(row)), t, d, b) = {id \in BucketAt(row, d, b) : WarpOf(id) = w}
    BY <1>5, <1>7, MineOfBin
  <2> QED BY <1>3, <1>6, <2>1
<1> HIDE DEF Mine
<1>9. histogram[b] = Cardinality(Counted(r, d, b))
  <2>1. p - 1 <= entered[b % NumWarps]
    BY <1>2, <1>4
  <2> QED BY <1>2, <2>1 DEF BinsRight
<1>10. Counted(r, d, b)' = Counted(r, d, b) \cup Mine(b) /\ Counted(r, d, b) \cap Mine(b) = {}
  <2>1. \A id \in BucketAt(row, d, b) : WarpOf(id) \in Warp
    BY <1>5, CandidatesAre DEF BucketAt, BucketOf
  <2>2. \A v \in Warp : entered'[v] >= p <=> entered[v] >= p \/ v = w
    <3> TAKE v \in Warp
    <3>1. CASE v = w
      BY <1>2, <1>3, <3>1
    <3>2. CASE v # w
      BY <1>2, <3>2
    <3> QED BY <3>1, <3>2
  <2>3. ~(entered[w] >= p)
    BY <1>2, <1>3
  <2> QED BY <1>1, <1>5, <1>8, <2>1, <2>2, <2>3 DEF Counted
<1>11. IsFiniteSet(Counted(r, d, b)) /\ IsFiniteSet(Mine(b))
  <2>1. Counted(r, d, b) \subseteq Candidates(row) /\ Mine(b) \subseteq Candidates(row)
    BY <1>5, <1>8 DEF Counted, BucketAt, BucketOf
  <2> QED BY <1>5, <2>1, CandidatesAre, FS_Subset
<1>12. histogram'[b] = histogram[b] + Cardinality(Mine(b))
  BY <1>1
<1> PICK A, B : A = Counted(r, d, b) /\ B = Mine(b)
  OBVIOUS
<1>13. Cardinality(A) \in Nat /\ Cardinality(B) \in Nat /\ Cardinality(A \cap B) = 0
  BY <1>10, <1>11, FS_CardinalityType, FS_EmptySet
<1>14. Cardinality(A \cup B) = Cardinality(A) + Cardinality(B) - Cardinality(A \cap B)
  BY <1>11, FS_Union
<1>15. Cardinality(A \cup B) = Cardinality(A) + Cardinality(B)
  BY ONLY <1>13, <1>14
<1> QED BY <1>9, <1>10, <1>12, <1>15

LEMMA BinsRightKept ==
  ASSUME InStep, LanesRight, ScratchRight, BinsRight, [Next]_vars
  PROVE  BinsRight'
<1>0. 0 \in Warp
  BY SelectAssumption DEF Warp
<1>1. CASE UNCHANGED vars
  BY <1>1, BinsKept DEF vars
<1>2. ASSUME NEW w \in Warp, StartRadix(w) \/ NextDigit(w) \/ ReserveGreater(w) \/ PlaceBatch(w)
      PROVE  BinsRight'
  BY <1>2, BinsKept DEF StartRadix, NextDigit, ReserveGreater, PlaceBatch
<1>3. ASSUME NEW w \in Warp, ShortRow(w) \/ Setup(w) \/ SkipPick(w) \/ EndRow(w)
      PROVE  BinsRight'
  <2>1. /\ rows' = rows /\ histogram' = histogram /\ entered' = [entered EXCEPT ![w] = @ + 1]
        /\ warp[w].pc \in {"begin", "pick", "emit"}
    BY <1>3 DEF ShortRow, Setup, SkipPick, EndRow, Sync
  <2> QED BY <2>1, BinsPast
<1>4. ASSUME NEW w \in Warp, GiveUp(w) PROVE BinsRight'
  <2>1. /\ rows' = rows /\ histogram' = histogram /\ entered' = [entered EXCEPT ![w] = @ + 1]
        /\ warp[w].pc = "check" /\ scratch.failed /\ Synced(w)
    BY <1>4 DEF GiveUp, Sync
  <2>2. Failed(rows[warp[w].row])
    <3>1. warp[w].pc # "begin"
      BY <2>1
    <3> QED BY <2>1, <3>1, WarpScratch
  <2> QED BY <2>1, <2>2, BinsPast
<1>5. ASSUME EndPick PROVE BinsRight'
  <2>1. /\ rows' = rows /\ histogram' = histogram /\ entered' = [entered EXCEPT ![0] = @ + 1]
        /\ warp[0].pc = "pick"
    BY <1>5 DEF EndPick, Sync
  <2> QED BY <1>0, <2>1, BinsPast
<1>6. ASSUME NEW l \in Lane, LaneStep(l) PROVE BinsRight'
  BY <1>6, BinsKept DEF LaneStep, ReadRank, FindBin
<1> QED BY <1>1, <1>2, <1>3, <1>4, <1>5, <1>6, ZeroKeepsBins, CountKeepsBins
        DEF Next, WarpStep, Terminating

---------------------------------------------------------------------------
(* The types.                                                               *)

\* Whatever count of spills a warp reads, it walks candidates only.
LEMMA LiveIsSome ==
  ASSUME NEW row, IsRow(row), NEW w \in Warp, NEW x, NEW A, A \subseteq Live(row, w, x)
  PROVE  A \subseteq Candidates(row) /\ A \subseteq Nat /\ IsFiniteSet(A) /\ Cardinality(A) \in Nat
<1>1. ASSUME NEW id \in Live(row, w, x) PROVE id \in Candidates(row)
  <2>1. PICK s \in Own(w) : id \in CandidatesIn(row, s)
    BY DEF Live, Stored, Spilled
  <2>2. s \in Segment
    BY DEF Own
  <2> QED BY <2>1, <2>2, CandidatesAre
<1>2. Candidates(row) \in SUBSET Nat /\ IsFiniteSet(Candidates(row))
  BY CandidatesAre
<1>3. A \subseteq Candidates(row)
  BY <1>1
<1> QED BY <1>2, <1>3, FS_Subset, FS_CardinalityType

LEMMA SpillsIsNat ==
  ASSUME NEW row, IsRow(row)
  PROVE  Spills(row) \in Nat
<1> DEFINE h == Excess(row)
<1>1. SegmentCapacity \in Nat /\ \A s \in Segment : Counts(row)[s] \in Nat
  BY SelectAssumption, CandidatesAre
<1>2. \A s \in Segment : h[s] \in Nat
  <2> TAKE s \in Segment
  <2> DEFINE x == Counts(row)[s] - SegmentCapacity
  <2>1. x \in Int
    BY <1>1
  <2>2. h[s] = Max({0, x})
    BY DEF Excess
  <2>3. MaxIs(0, x)
    BY <2>1, MaxOfTwo
  <2> QED BY <2>1, <2>2, <2>3 DEF MaxIs
<1>3. Spills(row) = SumOver(h, Segment)
  BY DEF Spills, CountIn, SumOver
<1> HIDE DEF h
<1> QED BY <1>2, <1>3, SegmentIsFinite, SumIsNat

LEMMA ScratchStaysTyped ==
  ASSUME InStep, LanesRight, ScratchRight, BinsRight, ScratchTyped, LanesTyped, [Next]_vars
  PROVE  ScratchTyped'
<1>1. CASE UNCHANGED scratch
  BY <1>1 DEF ScratchTyped
<1>2. ASSUME Setup(0) PROVE ScratchTyped'
  <2> PICK r, row : r = warp[0].row /\ row = rows[r]
    OBVIOUS
  <2>1. /\ r \in 1 .. Len(rows) /\ rows \in Inputs
        /\ scratch' = [failed |-> Failed(row), threshold |-> 0, rank |-> K,
                       greater |-> 0, equal |-> 0, spills |-> Spills(row)]
    <3>1. 0 \in Warp
      BY SelectAssumption DEF Warp
    <3>2. r \in Nat \ {0} /\ rows \in Inputs /\ Len(rows) \in Nat
      BY <3>1, WarpStands
    <3> QED BY <1>2, <3>2 DEF Setup, Row
  <2>2. Spills(row) \in Nat /\ K \in Nat /\ Failed(row) \in BOOLEAN
    <3>1. Failed(row) \in BOOLEAN
      BY DEF Failed, Overflows
    <3> QED BY <2>1, <3>1, RowsAre, SpillsIsNat, SelectAssumption
  <2> QED BY <2>1, <2>2 DEF ScratchTyped
<1>3. ASSUME NEW w \in Warp, ReserveGreater(w) PROVE ScratchTyped'
  <2> PICK r, row : r = warp[w].row /\ row = rows[r]
    OBVIOUS
  <2>1. IsRow(row) /\ Row(w) = row
    <3>1. warp[w].pc # "begin"
      BY <1>3 DEF ReserveGreater
    <3> QED BY <3>1, WarpRow DEF Row
  <2>2. PICK n : scratch' = [scratch EXCEPT !.greater = scratch.greater + Cardinality(Above(w, n))]
    BY <1>3 DEF ReserveGreater
  <2>3. Cardinality(Above(w, n)) \in Nat
    <3>1. Above(w, n) \subseteq Live(row, w, scratch.spills)
      BY <2>1 DEF Above, Batch
    <3> QED BY <2>1, <3>1, LiveIsSome
  <2>4. scratch.greater + Cardinality(Above(w, n)) \in Nat
    BY <2>3 DEF ScratchTyped
  <2> QED BY <2>2, <2>4 DEF ScratchTyped
<1>4. ASSUME NEW w \in Warp, PlaceBatch(w) PROVE ScratchTyped'
  <2> PICK r, row : r = warp[w].row /\ row = rows[r]
    OBVIOUS
  <2>1. IsRow(row) /\ Row(w) = row
    <3>1. warp[w].pc # "begin"
      BY <1>4 DEF PlaceBatch
    <3> QED BY <3>1, WarpRow DEF Row
  <2>2. PICK n : scratch' = [scratch EXCEPT !.equal = scratch.equal + Cardinality(Level(w, n))]
    BY <1>4 DEF PlaceBatch
  <2>3. Cardinality(Level(w, n)) \in Nat
    <3>1. Level(w, n) \subseteq Live(row, w, scratch.spills)
      BY <2>1 DEF Level, Batch
    <3> QED BY <2>1, <3>1, LiveIsSome
  <2>4. scratch.equal + Cardinality(Level(w, n)) \in Nat
    BY <2>3 DEF ScratchTyped
  <2> QED BY <2>2, <2>4 DEF ScratchTyped
<1>5. ASSUME NEW l \in Lane, FindBin(l) PROVE ScratchTyped'
  <2> PICK d, r, row : d = warp[0].digit /\ r = warp[0].row /\ row = rows[r]
    OBVIOUS
  <2>1. IsRow(row) /\ ~Failed(row) /\ d \in 0 .. Digits - 1
    <3>1. warp[0].pc = "pick" /\ \A v \in Warp : entered[v] >= entered[0]
      BY <1>5 DEF FindBin, LanesRight
    <3> QED BY <3>1, PickScratch DEF Synced
  <2>2. d \in 0 .. Digits /\ d + 1 \in 0 .. Digits
    BY <2>1, SelectAssumption
  <2>3. /\ RankAt(row, d) \in Nat /\ ThresholdAt(row, d) \in Nat
        /\ RankAt(row, d + 1) \in Nat /\ ThresholdAt(row, d + 1) \in Nat
    <3>1. \A c \in 0 .. Digits : RankAt(row, c) \in Nat /\ ThresholdAt(row, c) \in Nat
      BY <2>1, RanksAre
    <3> QED BY <2>2, <3>1
  <2>4. /\ scratch' = [scratch EXCEPT !.threshold = scratch'.threshold, !.rank = scratch'.rank]
        /\ scratch'.threshold \in Nat /\ scratch'.rank \in Nat
    BY <1>5, <2>3, LaneFinds
  <2> QED BY <2>4 DEF ScratchTyped
<1>6. ASSUME NEW w \in Warp, WarpStep(w) PROVE ScratchTyped'
  <2>1. CASE Setup(w)
    <3>1. w # 0 => UNCHANGED scratch
      BY <2>1 DEF Setup
    <3> QED BY <1>1, <1>2, <2>1, <3>1
  <2>2. CASE ReserveGreater(w) \/ PlaceBatch(w)
    BY <1>3, <1>4, <2>2
  <2>3. CASE ~Setup(w) /\ ~(ReserveGreater(w) \/ PlaceBatch(w))
    <3>1. UNCHANGED scratch
      BY <1>6, <2>3 DEF WarpStep, ShortRow, GiveUp, StartRadix, ZeroHistogram, CountDigits, SkipPick,
                NextDigit, EndRow
    <3> QED BY <1>1, <3>1
  <2> QED BY <2>1, <2>2, <2>3
<1>7. ASSUME NEW l \in Lane, LaneStep(l) PROVE ScratchTyped'
  <2>1. CASE ReadRank(l)
    BY <1>1, <2>1 DEF ReadRank
  <2> QED BY <1>5, <1>7, <2>1 DEF LaneStep
<1>8. ASSUME EndPick \/ Terminating \/ UNCHANGED vars PROVE ScratchTyped'
  BY <1>1, <1>8 DEF EndPick, Terminating, vars
<1> QED BY <1>6, <1>7, <1>8 DEF Next

LEMMA LanesStayTyped ==
  ASSUME ScratchTyped, LanesTyped, [Next]_vars
  PROVE  LanesTyped'
<1>1. CASE UNCHANGED lane
  BY <1>1 DEF LanesTyped
<1>2. ASSUME NEW l \in Lane, ReadRank(l) PROVE LanesTyped'
  <2>1. lane' = [lane EXCEPT ![l] =
                [step |-> "find", rank |-> scratch.rank, threshold |-> scratch.threshold]]
    BY <1>2 DEF ReadRank
  <2> QED BY <2>1 DEF LanesTyped, ScratchTyped
<1>3. ASSUME NEW l \in Lane, FindBin(l) PROVE LanesTyped'
  BY <1>3 DEF FindBin, LanesTyped
<1>4. CASE EndPick
  BY <1>4 DEF EndPick, LanesTyped, Unread
<1>5. ASSUME NEW w \in Warp, WarpStep(w) PROVE UNCHANGED lane
  BY <1>5 DEF WarpStep, ShortRow, Setup, GiveUp, StartRadix, ZeroHistogram, CountDigits, SkipPick,
              NextDigit, ReserveGreater, PlaceBatch, EndRow
<1>6. CASE Terminating \/ UNCHANGED vars
  BY <1>1, <1>6 DEF Terminating, vars
<1> QED BY <1>1, <1>2, <1>3, <1>4, <1>5, <1>6 DEF Next, LaneStep

LEMMA BinsStayTyped ==
  ASSUME InStep, BinsTyped, [Next]_vars
  PROVE  BinsTyped'
<1>1. CASE UNCHANGED histogram
  BY <1>1 DEF BinsTyped
<1>2. ASSUME NEW w \in Warp, ZeroHistogram(w) PROVE BinsTyped'
  <2>1. histogram' = [b \in Bin |-> IF b % NumWarps = w THEN 0 ELSE histogram[b]]
    BY <1>2 DEF ZeroHistogram
  <2>2. \A b \in Bin : histogram[b] \in Nat
    BY DEF BinsTyped
  <2> QED BY <2>1, <2>2 DEF BinsTyped
<1>3. ASSUME NEW w \in Warp, CountDigits(w) PROVE BinsTyped'
  <2> PICK r, row, d : r = warp[w].row /\ row = rows[r] /\ d = warp[w].digit
    OBVIOUS
  <2> DEFINE B(b) == Bucket(row, Live(row, w, scratch.spills), scratch.threshold, d, b)
  <2>1. IsRow(row) /\ Row(w) = row
    <3>1. warp[w].pc # "begin"
      BY <1>3 DEF CountDigits
    <3> QED BY <3>1, WarpRow DEF Row
  <2>2. histogram' = [b \in Bin |-> histogram[b] + Cardinality(B(b))]
    BY <1>3, <2>1 DEF CountDigits
  <2>3. \A b \in Bin : Cardinality(B(b)) \in Nat
    <3> TAKE b \in Bin
    <3>1. B(b) \subseteq Live(row, w, scratch.spills)
      BY DEF Bucket
    <3> HIDE DEF B
    <3> QED BY <2>1, <3>1, LiveIsSome
  <2> HIDE DEF B
  <2>4. \A b \in Bin : histogram[b] \in Nat
    BY DEF BinsTyped
  <2>5. \A b \in Bin : histogram[b] + Cardinality(B(b)) \in Nat
    BY <2>3, <2>4
  <2> QED BY <2>2, <2>5 DEF BinsTyped
<1>4. ASSUME NEW w \in Warp, WarpStep(w) PROVE BinsTyped'
  <2>1. CASE ~ZeroHistogram(w) /\ ~CountDigits(w)
    <3>1. UNCHANGED histogram
      BY <1>4, <2>1 DEF WarpStep, ShortRow, Setup, GiveUp, StartRadix, SkipPick,
              NextDigit, ReserveGreater, PlaceBatch, EndRow
    <3> QED BY <1>1, <3>1
  <2> QED BY <1>2, <1>3, <2>1
<1>5. ASSUME NEW l \in Lane, LaneStep(l) PROVE BinsTyped'
  BY <1>1, <1>5 DEF LaneStep, ReadRank, FindBin
<1>6. CASE EndPick \/ Terminating \/ UNCHANGED vars
  BY <1>1, <1>6 DEF EndPick, Terminating, vars
<1> QED BY <1>4, <1>5, <1>6 DEF Next

FailureTyped == failure \in [1 .. Len(rows) -> {Unset, 0, 1}]

LEMMA FailureStaysTyped ==
  ASSUME FailureTyped, [Next]_vars
  PROVE  FailureTyped'
<1>1. rows' = rows
  BY DEF Next, WarpStep, LaneStep, ReadRank, FindBin, EndPick, Terminating, vars,
         ShortRow, Setup, GiveUp, StartRadix, ZeroHistogram, CountDigits, SkipPick,
         NextDigit, ReserveGreater, PlaceBatch, EndRow
<1>2. \/ failure' = failure
      \/ \E w \in Warp, x \in {0, 1} : failure' = [failure EXCEPT ![warp[w].row] = x]
  <2>1. ASSUME NEW w \in Warp, ShortRow(w) \/ Setup(w)
        PROVE  \/ failure' = failure
               \/ \E x \in {0, 1} : failure' = [failure EXCEPT ![warp[w].row] = x]
    BY <2>1 DEF ShortRow, Setup
  <2>2. ASSUME NEW w \in Warp, WarpStep(w), ~(ShortRow(w) \/ Setup(w)) PROVE failure' = failure
    BY <2>2 DEF WarpStep, GiveUp, StartRadix, ZeroHistogram, CountDigits, SkipPick,
         NextDigit, ReserveGreater, PlaceBatch, EndRow
  <2>3. ASSUME NEW l \in Lane, LaneStep(l) PROVE failure' = failure
    BY <2>3 DEF LaneStep, ReadRank, FindBin
  <2>4. CASE EndPick \/ Terminating \/ UNCHANGED vars
    BY <2>4 DEF EndPick, Terminating, vars
  <2> QED BY <2>1, <2>2, <2>3, <2>4 DEF Next
<1> QED BY <1>1, <1>2 DEF FailureTyped

LEMMA TypesAre ==
  TypeOK <=> /\ rows \in Inputs
             /\ warp \in [Warp -> [pc : Pcs, row : 1 .. Len(rows) + 1, digit : 0 .. Digits - 1,
                                   batch : Nat, place : Nat]]
             /\ entered \in [Warp -> Nat]
             /\ ScratchTyped /\ BinsTyped /\ LanesTyped /\ FailureTyped
BY DEF TypeOK, Pcs, ScratchTyped, BinsTyped, LanesTyped, FailureTyped

LEMMA TypesKept ==
  ASSUME TypeOK, InStep, LanesRight, ScratchRight, BinsRight, [Next]_vars
  PROVE  TypeOK' /\ InStep'
<1>1. ScratchTyped /\ BinsTyped /\ LanesTyped /\ FailureTyped
  BY TypesAre
<1>2. ScratchTyped' /\ BinsTyped' /\ LanesTyped' /\ FailureTyped'
  BY <1>1, ScratchStaysTyped, BinsStayTyped, LanesStayTyped, FailureStaysTyped
<1>3. InStep'
  <2>1. scratch.greater \in Nat
    BY <1>1 DEF ScratchTyped
  <2> QED BY <2>1, InStepKept
<1>4. /\ rows' \in Inputs
      /\ warp' = [w \in Warp |-> warp'[w]] /\ entered' = [w \in Warp |-> entered'[w]]
      /\ \A w \in Warp : /\ entered'[w] \in Nat
                         /\ warp'[w] \in [pc : Pcs, row : 1 .. Len(rows') + 1, digit : 0 .. Digits - 1,
                                          batch : Nat, place : Nat]
  BY <1>3 DEF InStep, Stands
<1>5. /\ warp' \in [Warp -> [pc : Pcs, row : 1 .. Len(rows') + 1, digit : 0 .. Digits - 1,
                                   batch : Nat, place : Nat]]
      /\ entered' \in [Warp -> Nat]
  BY <1>4
<1> QED BY <1>2, <1>3, <1>4, <1>5 DEF TypeOK, Pcs, ScratchTyped, BinsTyped, LanesTyped, FailureTyped

LEMMA InitIsRight ==
  ASSUME Init
  PROVE  TypeOK /\ InStep /\ LanesRight /\ ScratchRight /\ BinsRight
<1>1. /\ rows \in Inputs /\ Len(rows) \in Nat
      /\ warp = [w \in Warp |-> [pc |-> "begin", row |-> 1, digit |-> 0, batch |-> 0, place |-> 0]]
      /\ entered = [w \in Warp |-> 0]
  BY InputsAssumption DEF Init
<1>2. /\ Digits \in Nat \ {0} /\ 0 \in 0 .. Digits - 1 /\ 1 \in 1 .. Len(rows) + 1
      /\ 0 \in Warp
  BY <1>1, SelectAssumption DEF Warp
<1>3. TypeOK
  <2>1. failure = [r \in 1 .. Len(rows) |-> Unset]
    BY DEF Init
  <2>2. FailureTyped
    BY <2>1 DEF FailureTyped
  <2>3. ScratchTyped /\ BinsTyped /\ LanesTyped
    BY DEF Init, ScratchTyped, BinsTyped, LanesTyped, Unread
  <2>4. /\ warp \in [Warp -> [pc : Pcs, row : 1 .. Len(rows) + 1, digit : 0 .. Digits - 1,
                                   batch : Nat, place : Nat]]
        /\ entered \in [Warp -> Nat]
    BY <1>1, <1>2 DEF Pcs
  <2> QED BY <1>1, <2>2, <2>3, <2>4, TypesAre
<1>4. InStep
  <2>1. RoundsBefore(rows, 1) = 0
    BY RoundsAdd
  <2>2. \A w \in Warp : /\ warp[w] = [pc |-> "begin", row |-> 1, digit |-> 0, batch |-> 0, place |-> 0]
                        /\ entered[w] = 0
    BY <1>1
  <2>3. \A w \in Warp : Stands(rows, warp[w], entered[w])
    BY <1>2, <2>1, <2>2 DEF Stands, RoundsIn, Pcs
  <2>4. Paced
    BY <2>2 DEF Paced
  <2> QED BY <1>1, <2>3, <2>4 DEF InStep
<1>5. LanesRight
  BY DEF Init, LanesRight, Unread
<1>6. ScratchRight
  <2>1. ASSUME NEW r \in 1 .. Len(rows) PROVE ~InRow(r)
    <3>1. RoundsBefore(rows, r) \in Nat /\ entered[0] = 0
      <4>1. r \in Nat \ {0}
        BY <1>1
      <4> QED BY <1>1, <1>2, <4>1, RoundsAdd
    <3>2. ~(RoundsBefore(rows, r) < entered[0])
      BY <3>1
    <3> QED BY <3>2 DEF InRow
  <2> QED BY <2>1 DEF ScratchRight
<1>7. BinsRight
  <2>1. ASSUME NEW r \in 1 .. Len(rows), NEW d \in 0 .. Digits - 1, NEW b \in Bin
        PROVE  ~(PickAt(rows, r, d) - 1 <= entered[b % NumWarps])
    <3>1. b % NumWarps \in Warp
      BY SelectAssumption DEF Bin, Warp
    <3>2. PickAt(rows, r, d) >= 3 /\ PickAt(rows, r, d) \in Nat
      <4>1. r \in Nat \ {0} /\ d \in 0 .. Digits /\ d # Digits
        BY <1>1, <1>2
      <4>2. /\ PickAt(rows, r, d) >= RoundsBefore(rows, r) + 3
            /\ RoundsBefore(rows, r) \in Nat /\ PickAt(rows, r, d) \in Nat
        BY <4>1, PicksApart
      <4> QED BY <4>2
    <3>3. entered[b % NumWarps] = 0
      BY <1>1, <3>1
    <3> QED BY <3>2, <3>3
  <2> QED BY <2>1 DEF BinsRight
<1> QED BY <1>3, <1>4, <1>5, <1>6, <1>7

LEMMA SyncInvKept ==
  ASSUME SyncInv, [Next]_vars
  PROVE  SyncInv'
<1>1. TypeOK /\ InStep /\ LanesRight /\ ScratchRight /\ BinsRight /\ ScratchTyped /\ LanesTyped
  BY TypesAre DEF SyncInv
<1>2. TypeOK' /\ InStep'
  BY <1>1, TypesKept
<1>3. LanesRight' /\ ScratchRight' /\ BinsRight'
  BY <1>1, LanesRightKept, ScratchRightKept, BinsRightKept
<1> QED BY <1>2, <1>3 DEF SyncInv

\* What the rounds of a warp say of the scratch and the bins, in every state.
THEOREM RoundsTellScratch == Spec => []SyncInv
<1>1. Init => SyncInv
  BY InitIsRight DEF SyncInv
<1>2. SyncInv /\ [Next]_vars => SyncInv'
  BY SyncInvKept
<1> QED BY <1>1, <1>2, PTL DEF Spec

\* TypeOK: no counter, rank or register leaves its range.
THEOREM SelectRowTypes == Spec => []TypeOK
<1>1. SyncInv => TypeOK
  BY DEF SyncInv
<1> QED BY <1>1, RoundsTellScratch, PTL

\* SyncSitesAgree: warps that arrived at one round of selection_sync called it
\* from the same place of the same row.
THEOREM WarpsAgree == Spec => []SyncSitesAgree
<1>1. SyncInv => SyncSitesAgree
  BY RoundsTellSite DEF SyncInv
<1> QED BY <1>1, RoundsTellScratch, PTL

---------------------------------------------------------------------------
(* The output of a row.                                                     *)

LEMMA RowToPlace ==
  ASSUME NEW row, IsRow(row), ~Failed(row)
  PROVE  ToPlace(Beyond(row), Ties(row), K - RankAt(row, 0), RankAt(row, 0))
<1> PICK s, k : s = Cardinality(Beyond(row)) /\ k = RankAt(row, 0)
  OBVIOUS
<1>1. /\ Beyond(row) \subseteq Nat /\ Ties(row) \subseteq Nat /\ Beyond(row) \cap Ties(row) = {}
      /\ IsFiniteSet(Beyond(row)) /\ IsFiniteSet(Ties(row))
  BY BeyondIs, CandidatesAre
<1>2. s \in Nat /\ k = K - s /\ k \in Nat \ {0} /\ K \in Nat
  BY BeyondIs, SelectAssumption
<1>3. K - k = s
  BY ONLY <1>2
<1> QED BY <1>1, <1>2, <1>3 DEF ToPlace

LEMMA RowStartsEmpty ==
  ASSUME NEW row, IsRow(row), ~Failed(row), NEW spans, DOMAIN spans = {}
  PROVE  RowOutput(row, {}, {}, 0, spans)
<1> PICK s, k : s = K - RankAt(row, 0) /\ k = RankAt(row, 0)
  OBVIOUS
<1>1. s \in Nat /\ k \in Nat \ {0}
  BY RowToPlace, FS_CardinalityType DEF ToPlace
<1>2. IsOutput(Beyond(row), Ties(row), s, k, {}, {}, 0, spans)
  BY ONLY <1>1, DOMAIN spans = {}, NothingIsOutput
<1> QED BY <1>2 DEF RowOutput

LEMMA PlaceKeepsRowOutput ==
  ASSUME NEW row, IsRow(row), ~Failed(row),
         NEW out, NEW done, NEW m \in Nat, NEW spans, RowOutput(row, out, done, m, spans),
         m <= Cardinality(Beyond(row)), NEW w \in DOMAIN spans,
         NEW above, NEW level, NEW batch, above = batch \cap Beyond(row), level = batch \cap Ties(row),
         batch \cap done = {}, NEW first \in Nat, spans[w] = PlacesFrom(first, Cardinality(above)),
         NEW e, e = Cardinality(done \cap Ties(row)), NEW k, k = RankAt(row, 0),
         NEW left, IsWithout(left, spans, w)
  PROVE  RowOutput(row, WithBatch(out, K - k, k, first, above, e, level), done \cup batch, m, left)
<1> PICK B, T, s : B = Beyond(row) /\ T = Ties(row) /\ s = K - k
  OBVIOUS
<1>1. ToPlace(B, T, s, k) /\ IsOutput(B, T, s, k, out, done, m, spans)
  BY RowToPlace DEF RowOutput
<1>2. m <= s /\ above = batch \cap B /\ level = batch \cap T /\ e = Cardinality(done \cap T)
  BY <1>1 DEF ToPlace
<1>3. IsOutput(B, T, s, k, WithBatch(out, s, k, first, above, e, level), done \cup batch, m, left)
  BY <1>1, <1>2, PlaceKeepsOutput
<1> QED BY <1>3 DEF RowOutput

---------------------------------------------------------------------------
(* The rows a step does not touch.                                          *)

\* What a step of one warp leaves of a row's output.
LEMMA SameView ==
  ASSUME NEW w \in Warp, rows' = rows, \A v \in Warp : v # w => warp'[v] = warp[v],
         NEW r, IsRow(rows[r]), ~Failed(rows[r]),
         \/ warp'[w] = warp[w]
         \/ /\ ~IsPlacing(warp[w], r) /\ ~IsPlacing(warp'[w], r)
            /\ \A id \in Candidates(rows[r]) : WarpOf(id) = w =>
                 (HasPlaced(rows, warp'[w], r, id) <=> HasPlaced(rows, warp[w], r, id))
  PROVE  Done(r)' = Done(r) /\ Reserved(r)' = Reserved(r) /\ Spans(r)' = Spans(r)
<1>1. \A id \in Candidates(rows[r]) : WarpOf(id) \in Warp
  BY CandidatesAre
<1>2. \A id \in Candidates(rows[r]) :
        HasPlaced(rows, warp'[WarpOf(id)], r, id) <=> HasPlaced(rows, warp[WarpOf(id)], r, id)
  BY <1>1
<1>3. Done(r)' = Done(r)
  BY <1>2 DEF Done
<1>4. \A v \in Warp : /\ IsPlacing(warp'[v], r) <=> IsPlacing(warp[v], r)
                      /\ IsPlacing(warp[v], r) => warp'[v] = warp[v]
  OBVIOUS
<1>5. \A v \in Warp : /\ Placing(r, v)' <=> Placing(r, v)
                      /\ Placing(r, v) => warp'[v] = warp[v]
  BY <1>4 DEF Placing
<1>6. \A v \in Warp : Placing(r, v) => Pending(r, v)' = Pending(r, v)
  BY <1>5 DEF Pending
<1>7. Reserved(r)' = Reserved(r)
  <2>1. Beyond(rows[r]) \subseteq Candidates(rows[r])
    BY DEF Beyond
  <2>2. \A id \in Beyond(rows[r]) : WarpOf(id) \in Warp
    BY <1>1, <2>1
  <2>3. Beyond(rows[r])' = Beyond(rows[r])
    OBVIOUS
  <2>4. \A id \in Beyond(rows[r]) :
          (id \in Done(r) \/ (Placing(r, WarpOf(id)) /\ id \in Pending(r, WarpOf(id))))'
            <=> id \in Done(r) \/ (Placing(r, WarpOf(id)) /\ id \in Pending(r, WarpOf(id)))
    <3> TAKE id \in Beyond(rows[r])
    <3> PICK v \in Warp : v = WarpOf(id)
      BY <2>2
    <3>1. (Placing(r, v) /\ id \in Pending(r, v))' <=> Placing(r, v) /\ id \in Pending(r, v)
      BY <1>5, <1>6
    <3> QED BY <1>3, <3>1
  <2> QED BY <2>3, <2>4 DEF Reserved
<1>8. Spans(r)' = Spans(r)
  <2>1. {v \in Warp : Placing(r, v)}' = {v \in Warp : Placing(r, v)}
    BY <1>5
  <2>2. \A v \in {u \in Warp : Placing(r, u)} :
          PlacesFrom(warp[v].place, Cardinality(Pending(r, v)))'
            = PlacesFrom(warp[v].place, Cardinality(Pending(r, v)))
    BY <1>5, <1>6
  <2> QED BY <2>1, <2>2 DEF Spans
<1> QED BY <1>3, <1>7, <1>8

\* Warp 0 comes to a row with its first round there.
LEMMA ComesToRow ==
  ASSUME InStep, NEW r \in 1 .. Len(rows), rows' = rows,
         \/ entered'[0] = entered[0]
         \/ entered'[0] = entered[0] + 1 /\ ~(warp[0].row = r /\ warp[0].pc = "begin")
  PROVE  /\ entered'[0] <= RoundsBefore(rows, r) <=> entered[0] <= RoundsBefore(rows, r)
         /\ InRow(r)' => InRow(r)
<1>1. /\ 0 \in Warp /\ entered[0] \in Nat
      /\ RoundsBefore(rows, r) \in Nat /\ RoundsOf(rows[r]) \in Nat \ {0}
  <2>1. 0 \in Warp
    BY SelectAssumption DEF Warp
  <2>2. r \in Nat \ {0} /\ entered[0] \in Nat
    BY <2>1, WarpStands
  <2> QED BY <2>1, <2>2, RoundsAdd, RoundsOfRow, SelectAssumption
<1>2. CASE entered'[0] = entered[0]
  BY <1>2 DEF InRow
<1>3. ASSUME entered'[0] = entered[0] + 1, ~(warp[0].row = r /\ warp[0].pc = "begin")
      PROVE  entered[0] # RoundsBefore(rows, r)
  <2> SUFFICES ASSUME entered[0] = RoundsBefore(rows, r) PROVE FALSE
    OBVIOUS
  <2>1. warp[0].row = r
    <3>1. /\ RoundsBefore(rows, r) <= entered[0]
          /\ entered[0] < RoundsBefore(rows, r) + RoundsOf(rows[r])
      BY <1>1
    <3> QED BY <1>1, <3>1, OnlyRow
  <2>2. RoundsBefore(rows, r) < entered[0]
    BY <1>1, <1>3, <2>1, WarpRow
  <2> QED BY <1>1, <2>2
<1>4. CASE entered'[0] = entered[0] + 1 /\ ~(warp[0].row = r /\ warp[0].pc = "begin")
  <2> PICK e, f, x, y : /\ e = entered[0] /\ f = entered'[0]
                        /\ x = RoundsBefore(rows, r) /\ y = RoundsOf(rows[r])
    OBVIOUS
  <2>1. e \in Nat /\ x \in Nat /\ y \in Nat /\ f = e + 1 /\ e # x
    BY <1>1, <1>3, <1>4
  <2>2. (f <= x <=> e <= x) /\ (x < f /\ f <= x + y => x < e /\ e <= x + y)
    BY ONLY <2>1
  <2> QED BY <2>2 DEF InRow
<1> QED BY <1>2, <1>4

LEMMA RowKept ==
  ASSUME NEW r, RowRight(r), rows' = rows, written'[r] = written[r], failure'[r] = failure[r],
         entered'[0] <= RoundsBefore(rows, r) <=> entered[0] <= RoundsBefore(rows, r),
         Selects(rows[r]) => /\ Done(r)' = Done(r) /\ Reserved(r)' = Reserved(r) /\ Spans(r)' = Spans(r)
                             /\ InRow(r)' => /\ InRow(r) /\ scratch'.greater = scratch.greater
                                             /\ scratch'.equal = scratch.equal,
         ~Selects(rows[r]) => \A v \in Warp : warp'[v].row > r <=> warp[v].row > r
  PROVE  RowRight(r)'
<1>1. FlagRight(r)'
  BY DEF RowRight, FlagRight
<1>2. ASSUME Selects(rows[r]) PROVE OutputRight(r)'
  BY <1>2 DEF RowRight, OutputRight
<1>3. ASSUME ~Selects(rows[r]) PROVE FilledRight(r, Filler(rows[r]))'
  <2>1. FilledRight(r, Filler(rows[r]))
    BY <1>3 DEF RowRight
  <2>2. \A q \in Place : q % NumWarps \in Warp
    BY SelectAssumption DEF Place, Warp
  <2> QED BY <1>3, <2>1, <2>2 DEF FilledRight
<1> QED BY <1>1, <1>2, <1>3 DEF RowRight

\* The steps of a warp that neither reserve nor fill a place in the row.
Quiet(w) ==
  \/ ShortRow(w) \/ Setup(w) \/ GiveUp(w) \/ StartRadix(w) \/ ZeroHistogram(w) \/ CountDigits(w)
  \/ SkipPick(w) \/ (w = 0 /\ EndPick) \/ NextDigit(w) \/ EndRow(w)

\* How its registers change: within a row, to the emission of the row, and to
\* the next row.
Moves(m, n, r) ==
  /\ n.pc # "place" /\ m.pc # "place"
  /\ \/ n.row = m.row /\ n.pc # "emit" /\ m.pc # "emit"
     \/ n.row = m.row /\ m.pc # "emit" /\ n.pc = "emit" /\ n.batch = 0
     \/ n.row = m.row + 1 /\ n.pc = "begin" /\ m.pc # "emit" /\ m.row # r
     \/ n.row = m.row + 1 /\ n.pc = "begin" /\ m.pc = "emit"

LEMMA QuietMoves ==
  ASSUME InStep, ScratchRight, NEW w \in Warp, Quiet(w), NEW r, Selects(rows[r])
  PROVE  /\ rows' = rows /\ \A v \in Warp : v # w => warp'[v] = warp[v]
         /\ Moves(warp[w], warp'[w], r)
<1> PICK m, n : m = warp[w] /\ n = warp'[w]
  OBVIOUS
<1>1. /\ m \in [pc : Pcs, row : 1 .. Len(rows) + 1, digit : 0 .. Digits - 1, batch : Nat, place : Nat]
      /\ 0 \in Warp /\ Len(rows) \in Nat
  BY WarpStands
<1>2. warp = [v \in Warp |-> warp[v]]
  BY DEF InStep
<1>3. CASE ShortRow(w)
  <2>1. /\ m.pc = "begin" /\ Valid(rows[m.row]) <= K /\ rows' = rows /\ m.row \in 1 .. Len(rows)
        /\ warp' = [warp EXCEPT ![w] = [@ EXCEPT !.pc = "begin", !.row = warp[w].row + 1]]
    BY <1>1, <1>3 DEF ShortRow, NextRow, Row
  <2>2. m.row # r
    <3>1. Valid(rows[m.row]) \in Nat /\ K \in Nat
      BY <2>1, RowsAre, WarpStands, SelectAssumption
    <3> QED BY <2>1, <3>1 DEF Selects
  <2>3. n = [m EXCEPT !.pc = "begin", !.row = m.row + 1] /\ \A v \in Warp : v # w => warp'[v] = warp[v]
    BY <1>2, <2>1
  <2> QED BY <1>1, <2>1, <2>2, <2>3 DEF Moves
<1>4. CASE GiveUp(w)
  <2>1. /\ m.pc = "check" /\ scratch.failed /\ Synced(w) /\ rows' = rows
        /\ warp' = [warp EXCEPT ![w] = [@ EXCEPT !.pc = "begin", !.row = warp[w].row + 1]]
    BY <1>4 DEF GiveUp, NextRow
  <2>2. Failed(rows[m.row])
    BY <2>1, WarpScratch
  <2>3. n = [m EXCEPT !.pc = "begin", !.row = m.row + 1] /\ \A v \in Warp : v # w => warp'[v] = warp[v]
    BY <1>2, <2>1
  <2> QED BY <1>1, <2>1, <2>2, <2>3 DEF Moves, Selects
<1>5. CASE Setup(w) \/ ZeroHistogram(w) \/ CountDigits(w) \/ SkipPick(w) \/ (w = 0 /\ EndPick)
  <2>1. /\ m.pc \notin {"emit", "place"} /\ rows' = rows
        /\ \E label \in {"check", "count", "pick", "next"} :
             warp' = [warp EXCEPT ![w] = [@ EXCEPT !.pc = label]]
    BY <1>5 DEF Setup, ZeroHistogram, CountDigits, SkipPick, EndPick, Goto
  <2>2. PICK label \in {"check", "count", "pick", "next"} : warp' = [warp EXCEPT ![w] = [@ EXCEPT !.pc = label]]
    BY <2>1
  <2>3. n = [m EXCEPT !.pc = label] /\ \A v \in Warp : v # w => warp'[v] = warp[v]
    BY <1>2, <2>2
  <2> QED BY <1>1, <2>1, <2>3 DEF Moves
<1>6. CASE StartRadix(w) \/ NextDigit(w)
  <2>1. /\ m.pc \in {"check", "next"} /\ rows' = rows
        /\ \/ \E d : warp' = [warp EXCEPT ![w] = [@ EXCEPT !.pc = "zero", !.digit = d]]
           \/ warp' = [warp EXCEPT ![w] = [@ EXCEPT !.pc = "emit", !.batch = 0]]
    BY <1>6 DEF StartRadix, NextDigit
  <2>2. /\ \A v \in Warp : v # w => warp'[v] = warp[v]
        /\ \/ \E d : n = [m EXCEPT !.pc = "zero", !.digit = d]
           \/ n = [m EXCEPT !.pc = "emit", !.batch = 0]
    BY <1>2, <2>1
  <2> QED BY <1>1, <2>1, <2>2 DEF Moves
<1>7. CASE EndRow(w)
  <2>1. /\ m.pc = "emit" /\ rows' = rows
        /\ warp' = [warp EXCEPT ![w] = [@ EXCEPT !.pc = "begin", !.row = warp[w].row + 1]]
    BY <1>7 DEF EndRow, NextRow
  <2>2. n = [m EXCEPT !.pc = "begin", !.row = m.row + 1] /\ \A v \in Warp : v # w => warp'[v] = warp[v]
    BY <1>2, <2>1
  <2> QED BY <1>1, <2>1, <2>2 DEF Moves
<1> QED BY <1>3, <1>4, <1>5, <1>6, <1>7 DEF Quiet

\* The candidates a warp that emits a row walks.
LEMMA EmitFacts ==
  ASSUME InStep, ScratchRight, NEW w \in Warp, NEW r, r = warp[w].row,
         warp[w].pc \in {"emit", "place"}
  PROVE  /\ r \in 1 .. Len(rows) /\ IsRow(rows[r]) /\ ~Failed(rows[r]) /\ Selects(rows[r]) /\ InRow(r)
         /\ Live(rows[r], w, scratch.spills) = {id \in Candidates(rows[r]) : WarpOf(id) = w}
         /\ scratch.threshold = Cut(rows[r]) /\ scratch.rank = RankAt(rows[r], 0)
         /\ \A v \in Warp : entered[v] >= entered[w]
<1> PICK row : row = rows[r]
  OBVIOUS
<1>1. Synced(w)
  BY DEF Synced, InStep, Paced
<1>2. /\ r \in 1 .. Len(rows) /\ IsRow(row) /\ Valid(row) > K /\ InRow(r)
  BY <1>1, WarpRow
<1>3. ~Failed(row) /\ warp[w].digit = 0
  BY WarpStands DEF Stands
<1>4. ScratchOf(r)
  BY <1>2 DEF ScratchRight
<1>5. scratch.spills = Spills(row)
  BY <1>4 DEF ScratchOf
<1>6. FixedTo(row, 0)
  <2>1. entered[w] = PickAt(rows, r, 0) + 1
    BY <1>3, WarpStands DEF PcRounds
  <2>2. PickAt(rows, r, 0) \in Nat
    <3>1. r \in Nat \ {0} /\ 0 \in 0 .. Digits
      BY <1>2, WarpStands, SelectAssumption
    <3> QED BY <3>1, PicksApart
  <2>3. entered[0] \in Nat /\ entered[0] >= entered[w] /\ entered[0] <= entered[w] + 1
    BY <1>1, WarpStands DEF Synced
  <2>4. PickAt(rows, r, 0) < entered[0] /\ entered[0] <= PickAt(rows, r, 0) + 2
    BY <2>1, <2>2, <2>3
  <2>5. 0 \in 0 .. Digits
    BY SelectAssumption
  <2> QED BY <1>3, <1>4, <2>4, <2>5 DEF ScratchOf
<1>7. ThresholdAt(row, 0) = Cut(row)
  <2>1. 0 \in 0 .. Digits - 1
    BY SelectAssumption
  <2> QED BY <1>2, <1>3, <2>1, PrefixIs
<1>8. Live(row, w, scratch.spills) = {id \in Candidates(row) : WarpOf(id) = w}
  BY <1>2, <1>3, <1>5, LiveIs
<1>9. \A v \in Warp : entered[v] >= entered[w]
  BY <1>1 DEF Synced
<1> QED BY <1>2, <1>3, <1>6, <1>7, <1>8, <1>9 DEF FixedTo, Selects

LEMMA QuietView ==
  ASSUME InStep, ScratchRight, NEW w \in Warp, Quiet(w), NEW r \in 1 .. Len(rows), Selects(rows[r])
  PROVE  Done(r)' = Done(r) /\ Reserved(r)' = Reserved(r) /\ Spans(r)' = Spans(r)
<1> PICK m, n, row : m = warp[w] /\ n = warp'[w] /\ row = rows[r]
  OBVIOUS
<1>1. /\ rows' = rows /\ \A v \in Warp : v # w => warp'[v] = warp[v]
      /\ Moves(m, n, r)
  BY QuietMoves
<1>2. IsRow(row) /\ ~Failed(row) /\ r \in Nat /\ m.row \in Nat
  <2>1. rows \in Inputs /\ Len(rows) \in Nat /\ m.row \in Nat
    BY WarpStands
  <2> QED BY <2>1, RowsAre DEF Selects
<1>3. \A id \in Candidates(row) : BatchOf(row, id) \in Nat
  BY <1>2, OffsetsAre
<1>4. ASSUME m.pc = "emit", m.row = r, n.row = m.row + 1, NEW id \in Candidates(row), WarpOf(id) = w
      PROVE  BatchOf(row, id) < m.batch
  <2>1. EndRow(w)
    <3>1. ~ShortRow(w) /\ ~Setup(w) /\ ~GiveUp(w) /\ ~StartRadix(w) /\ ~ZeroHistogram(w)
          /\ ~CountDigits(w) /\ ~SkipPick(w) /\ ~(w = 0 /\ EndPick) /\ ~NextDigit(w)
      BY <1>4 DEF ShortRow, Setup, GiveUp, StartRadix, ZeroHistogram, CountDigits, SkipPick, EndPick,
                  NextDigit
    <3> QED BY <3>1 DEF Quiet
  <2>2. id \in Live(Row(w), w, scratch.spills)
    BY <1>4, EmitFacts DEF Row
  <2>3. BatchOf(row, id) \in 0 .. m.batch - 1
    BY <1>4, <2>1, <2>2 DEF EndRow, Left, Row
  <2>4. m.batch \in Nat
    BY WarpStands
  <2> QED BY <2>3, <2>4
<1>5. ASSUME NEW id \in Candidates(row), WarpOf(id) = w
      PROVE  HasPlaced(rows, n, r, id) <=> HasPlaced(rows, m, r, id)
  <2>1. BatchOf(rows[r], id) \in Nat
    BY <1>3
  <2>2. ~(BatchOf(rows[r], id) < 0)
    BY <2>1
  <2>3. CASE n.row = m.row /\ n.pc # "emit" /\ m.pc # "emit"
    BY <1>1, <2>3 DEF HasPlaced, Moves
  <2>4. CASE n.row = m.row /\ m.pc # "emit" /\ n.pc = "emit" /\ n.batch = 0
    BY <1>1, <2>2, <2>4 DEF HasPlaced, Moves
  <2>5. CASE n.row = m.row + 1 /\ n.pc = "begin" /\ m.pc # "emit" /\ m.row # r
    <3>1. n.row > r <=> m.row > r
      BY <1>2, <2>5
    <3> QED BY <1>1, <2>5, <3>1 DEF HasPlaced, Moves
  <2>6. CASE n.row = m.row + 1 /\ n.pc = "begin" /\ m.pc = "emit"
    <3>1. CASE m.row = r
      <4>1. BatchOf(rows[r], id) < m.batch
        BY <1>4, <1>5, <2>6, <3>1
      <4>2. n.row > r
        BY <1>2, <2>6, <3>1
      <4> QED BY <2>6, <3>1, <4>1, <4>2 DEF HasPlaced
    <3>2. CASE m.row # r
      <4>1. n.row > r <=> m.row > r
        BY <1>2, <2>6, <3>2
      <4> QED BY <2>6, <3>2, <4>1 DEF HasPlaced
    <3> QED BY <3>1, <3>2
  <2> QED BY <1>1, <2>3, <2>4, <2>5, <2>6 DEF Moves
<1>6. ~IsPlacing(m, r) /\ ~IsPlacing(n, r)
  BY <1>1 DEF IsPlacing, Moves
<1> QED BY <1>1, <1>2, <1>5, <1>6, SameView

\* The first round of a row is warp 0's alone to set up for.
Opens(w, r) == warp[w].row = r /\ (ShortRow(w) \/ GiveUp(w) \/ (Setup(w) /\ w = 0))

LEMMA QuietRounds ==
  ASSUME InStep, NEW w \in Warp, Quiet(w), NEW r \in 1 .. Len(rows), ~Opens(w, r)
  PROVE  /\ rows' = rows
         /\ entered'[0] <= RoundsBefore(rows, r) <=> entered[0] <= RoundsBefore(rows, r)
         /\ InRow(r)' => InRow(r)
<1>1. /\ 0 \in Warp /\ entered[0] \in Nat /\ rows' = rows
      /\ entered = [v \in Warp |-> entered[v]]
  <2>1. 0 \in Warp
    BY SelectAssumption DEF Warp
  <2>2. rows' = rows
    BY DEF Quiet, ShortRow, Setup, GiveUp, StartRadix, ZeroHistogram, CountDigits, SkipPick, EndPick,
           NextDigit, EndRow
  <2> QED BY <2>1, <2>2, WarpStands DEF InStep
<1>2. \/ entered'[0] = entered[0]
      \/ entered'[0] = entered[0] + 1 /\ ~(warp[0].row = r /\ warp[0].pc = "begin")
  <2>1. entered' = entered \/ entered' = [entered EXCEPT ![w] = @ + 1]
    BY DEF Quiet, ShortRow, Setup, GiveUp, StartRadix, ZeroHistogram, CountDigits, SkipPick, EndPick,
           NextDigit, EndRow, Sync
  <2>2. CASE w = 0
    <3>1. entered'[0] = entered[0] \/ entered'[0] = entered[0] + 1
      BY <1>1, <2>1
    <3>2. warp[0].pc = "begin" => ShortRow(0) \/ Setup(0)
      BY <2>2 DEF Quiet, GiveUp, StartRadix, ZeroHistogram, CountDigits, SkipPick, EndPick, NextDigit, EndRow
    <3> QED BY <2>2, <3>1, <3>2 DEF Opens
  <2>3. CASE w # 0
    BY <1>1, <2>1, <2>3
  <2> QED BY <2>2, <2>3
<1> QED BY <1>1, <1>2, ComesToRow

LEMMA QuietScratch ==
  ASSUME InStep, NEW w \in Warp, Quiet(w), NEW r \in 1 .. Len(rows), ~Opens(w, r), InRow(r)'
  PROVE  /\ InRow(r) /\ scratch'.greater = scratch.greater /\ scratch'.equal = scratch.equal
<1>1. /\ 0 \in Warp /\ entered[0] \in Nat /\ entered = [v \in Warp |-> entered[v]]
  <2>1. 0 \in Warp
    BY SelectAssumption DEF Warp
  <2> QED BY <2>1, WarpStands DEF InStep
<1>2. rows' = rows
  BY QuietRounds
<1>3. InRow(r)
  BY QuietRounds
<1>4. CASE UNCHANGED scratch
  BY <1>3, <1>4
<1>5. CASE ~UNCHANGED scratch
  <2>1. Setup(w) /\ w = 0
    BY <1>5 DEF Quiet, ShortRow, Setup, GiveUp, StartRadix, ZeroHistogram, CountDigits, SkipPick, EndPick,
           NextDigit, EndRow
  <2>2. entered'[0] = entered[0] + 1 /\ warp[0].row # r
    BY <1>1, <2>1 DEF Setup, Sync, Opens
  <2>3. /\ RoundsBefore(rows, r) < entered'[0]
        /\ entered'[0] <= RoundsBefore(rows, r) + RoundsOf(rows[r])
    BY <1>2 DEF InRow
  <2>4. RoundsBefore(rows, r) \in Nat /\ RoundsOf(rows[r]) \in Nat
    <3>1. r \in Nat \ {0}
      BY <1>1, WarpStands
    <3> QED BY <3>1, RoundsAdd, RoundsOfRow, SelectAssumption
  <2>5. /\ RoundsBefore(rows, r) <= entered[0]
        /\ entered[0] < RoundsBefore(rows, r) + RoundsOf(rows[r])
    BY ONLY <1>1, <2>2, <2>3, <2>4
  <2>6. warp[0].row = r
    BY <1>1, <2>5, OnlyRow
  <2> QED BY <2>2, <2>6
<1> QED BY <1>4, <1>5

LEMMA QuietRow ==
  ASSUME InStep, ScratchRight, NEW w \in Warp, Quiet(w), NEW r \in 1 .. Len(rows), ~Opens(w, r),
         ~Selects(rows[r])
  PROVE  \A v \in Warp : warp'[v].row > r <=> warp[v].row > r
<1> PICK m, n : m = warp[w] /\ n = warp'[w]
  OBVIOUS
<1>1. /\ m \in [pc : Pcs, row : 1 .. Len(rows) + 1, digit : 0 .. Digits - 1, batch : Nat, place : Nat]
      /\ Len(rows) \in Nat /\ warp = [v \in Warp |-> warp[v]]
  BY WarpStands DEF InStep
<1>2. CASE ShortRow(w) \/ GiveUp(w) \/ EndRow(w)
  <2>1. m.row # r
    <3>1. EndRow(w) => Selects(rows[m.row])
      BY EmitFacts DEF EndRow
    <3> QED BY <1>2, <3>1 DEF Opens
  <2>2. warp' = [warp EXCEPT ![w] = [@ EXCEPT !.pc = "begin", !.row = warp[w].row + 1]]
    BY <1>2 DEF ShortRow, GiveUp, EndRow, NextRow
  <2>3. n = [m EXCEPT !.pc = "begin", !.row = m.row + 1] /\ \A v \in Warp : v # w => warp'[v] = warp[v]
    BY <1>1, <2>2
  <2>4. n.row = m.row + 1
    BY <1>1, <2>3
  <2>5. n.row > r <=> m.row > r
    BY <1>1, <2>1, <2>4
  <2> QED BY <2>3, <2>5
<1>3. CASE ~(ShortRow(w) \/ GiveUp(w) \/ EndRow(w))
  <2>1. \/ \E label : warp' = [warp EXCEPT ![w] = [@ EXCEPT !.pc = label]]
        \/ \E d : warp' = [warp EXCEPT ![w] = [@ EXCEPT !.pc = "zero", !.digit = d]]
        \/ warp' = [warp EXCEPT ![w] = [@ EXCEPT !.pc = "emit", !.batch = 0]]
    BY <1>3 DEF Quiet, Setup, StartRadix, ZeroHistogram, CountDigits, SkipPick, EndPick, NextDigit, Goto
  <2>2. /\ \A v \in Warp : v # w => warp'[v] = warp[v]
        /\ \/ \E label : n = [m EXCEPT !.pc = label]
           \/ \E d : n = [m EXCEPT !.pc = "zero", !.digit = d]
           \/ n = [m EXCEPT !.pc = "emit", !.batch = 0]
    BY <1>1, <2>1
  <2>3. n.row = m.row
    BY <1>1, <2>2
  <2> QED BY <2>2, <2>3
<1> QED BY <1>2, <1>3

LEMMA QuietKeepsRow ==
  ASSUME TypeOK, InStep, ScratchRight, RowsRight, NEW w \in Warp, Quiet(w),
         NEW r \in 1 .. Len(rows), ~Opens(w, r)
  PROVE  RowRight(r)'
<1>1. RowRight(r) /\ written = [q \in 1 .. Len(rows) |-> written[q]]
  BY DEF RowsRight
<1>2. rows' = rows /\ written'[r] = written[r]
  <2>1. /\ rows' = rows
        /\ \/ written' = written
           \/ \E A : written' = [written EXCEPT ![warp[w].row] = @ \cup A] /\ (ShortRow(w) \/ GiveUp(w))
    BY DEF Quiet, ShortRow, Setup, GiveUp, StartRadix, ZeroHistogram, CountDigits, SkipPick, EndPick,
           NextDigit, EndRow, Fill
  <2> QED BY <1>1, <2>1 DEF Opens
<1>3. failure'[r] = failure[r]
  <2>1. failure = [q \in 1 .. Len(rows) |-> failure[q]]
    BY DEF TypeOK
  <2>2. \/ failure' = failure
        \/ \E x : failure' = [failure EXCEPT ![warp[w].row] = x] /\ (ShortRow(w) \/ (Setup(w) /\ w = 0))
    BY DEF Quiet, ShortRow, Setup, GiveUp, StartRadix, ZeroHistogram, CountDigits, SkipPick, EndPick,
           NextDigit, EndRow
  <2> QED BY <2>1, <2>2 DEF Opens
<1>4. entered'[0] <= RoundsBefore(rows, r) <=> entered[0] <= RoundsBefore(rows, r)
  BY QuietRounds
<1>5. Selects(rows[r]) => /\ Done(r)' = Done(r) /\ Reserved(r)' = Reserved(r) /\ Spans(r)' = Spans(r)
  BY QuietView
<1>6. InRow(r)' => InRow(r) /\ scratch'.greater = scratch.greater /\ scratch'.equal = scratch.equal
  BY QuietScratch
<1>7. ~Selects(rows[r]) => \A v \in Warp : warp'[v].row > r <=> warp[v].row > r
  BY QuietRow
<1> QED BY <1>1, <1>2, <1>3, <1>4, <1>5, <1>6, <1>7, RowKept

---------------------------------------------------------------------------
(* The rows that are opened: a short or failed one is filled, any other is  *)
(* set up for.                                                              *)

LEMMA FillsPlaces ==
  ASSUME NEW w \in Warp, NEW r, NEW value, FilledRight(r, value),
         written'[r] = written[r] \cup {<<p, value[p]>> : p \in Strided(w)},
         \A v \in Warp : v # w => warp'[v] = warp[v],
         warp'[w].row > r
  PROVE  FilledRight(r, value)'
<1> PICK A, B : /\ A = {q \in Place : warp[q % NumWarps].row > r}
                /\ B = {q \in Place : warp'[q % NumWarps].row > r}
  OBVIOUS
<1>1. \A q \in Place : q % NumWarps \in Warp
  BY SelectAssumption DEF Place, Warp
<1>2. B = A \cup Strided(w)
  BY <1>1 DEF Strided
<1>3. written[r] = {<<p, value[p]>> : p \in A}
  BY DEF FilledRight
<1>4. written'[r] = {<<p, value[p]>> : p \in B}
  BY <1>2, <1>3
<1> QED BY <1>4 DEF FilledRight

LEMMA FilledRowKept ==
  ASSUME TypeOK, InStep, ScratchRight, RowsRight, NEW w \in Warp, NEW r \in 1 .. Len(rows),
         warp[w].row = r, ShortRow(w) \/ GiveUp(w)
  PROVE  RowRight(r)'
<1> PICK m, n, row : m = warp[w] /\ n = warp'[w] /\ row = rows[r]
  OBVIOUS
<1>1. /\ m \in [pc : Pcs, row : 1 .. Len(rows) + 1, digit : 0 .. Digits - 1, batch : Nat, place : Nat]
      /\ Len(rows) \in Nat /\ rows \in Inputs /\ warp = [v \in Warp |-> warp[v]] /\ 0 \in Warp
      /\ entered = [v \in Warp |-> entered[v]] /\ entered[0] \in Nat /\ r \in Nat \ {0}
      /\ RoundsBefore(rows, r) \in Nat
  <2>1. 0 \in Warp /\ Len(rows) \in Nat
    BY WarpStands
  <2>2. r \in Nat \ {0}
    BY <2>1
  <2> QED BY <2>1, <2>2, WarpStands, RoundsAdd DEF InStep
<1>2. /\ rows' = rows /\ entered' = [entered EXCEPT ![w] = @ + 1]
      /\ warp' = [warp EXCEPT ![w] = [@ EXCEPT !.pc = "begin", !.row = warp[w].row + 1]]
  BY DEF ShortRow, GiveUp, Sync, NextRow
<1>3. n.row > r /\ \A v \in Warp : v # w => warp'[v] = warp[v]
  <2>1. n = [m EXCEPT !.pc = "begin", !.row = m.row + 1] /\ \A v \in Warp : v # w => warp'[v] = warp[v]
    BY <1>1, <1>2
  <2> QED BY <1>1, <2>1
<1>4. Valid(row) \in Nat /\ K \in Nat
  BY <1>1, RowsAre, SelectAssumption
<1>5. /\ FlagRight(r) /\ (~Selects(row) => FilledRight(r, Filler(row)))
      /\ written = [q \in 1 .. Len(rows) |-> written[q]]
  BY DEF RowsRight, RowRight
<1>6. failure = [q \in 1 .. Len(rows) |-> failure[q]]
  BY DEF TypeOK
<1>7. ~Selects(row) /\ FilledRight(r, Filler(row))' /\ FlagRight(r)'
  <2>1. CASE ShortRow(w)
    <3>1. /\ m.pc = "begin" /\ Valid(row) <= K
          /\ written'[r] = written[r] \cup
               {<<p, [q \in Place |-> IF q < Valid(row) THEN row.start + q ELSE -1][p]>> : p \in Strided(w)}
          /\ failure' = IF w = 0 THEN [failure EXCEPT ![r] = 0] ELSE failure
      BY <1>5, <2>1 DEF ShortRow, Fill, Row
    <3>2. ~Selects(row) /\ ~(Valid(row) > K)
      BY <1>4, <3>1 DEF Selects
    <3>3. Filler(row) = [q \in Place |-> IF q < Valid(row) THEN row.start + q ELSE -1]
      BY <3>1 DEF Filler
    <3>4. FilledRight(r, Filler(row))'
      <4>1. FilledRight(r, Filler(row))
        BY <1>5, <3>2
      <4> PICK value : value = Filler(row)
        OBVIOUS
      <4>2. FilledRight(r, value) /\ written'[r] = written[r] \cup {<<p, value[p]>> : p \in Strided(w)}
        BY <3>1, <3>3, <4>1
      <4>3. FilledRight(r, value)'
        BY <1>3, <4>2, FillsPlaces
      <4> QED BY <1>2, <4>3 DEF FilledRight
    <3>5. FlagRight(r)'
      <4>1. CASE w = 0
        <5>1. entered[0] = RoundsBefore(rows, r)
          BY <3>1, <4>1, WarpStands DEF PcRounds
        <5>2. entered'[0] = entered[0] + 1 /\ failure'[r] = 0
          BY <1>1, <1>2, <1>6, <3>1, <4>1
        <5>3. ~(entered'[0] <= RoundsBefore(rows, r))
          BY ONLY <1>1, <5>1, <5>2
        <5> QED BY <1>2, <3>2, <5>2, <5>3 DEF FlagRight
      <4>2. CASE w # 0
        <5>1. entered'[0] = entered[0] /\ failure' = failure
          BY <1>1, <1>2, <3>1, <4>2
        <5> QED BY <1>2, <1>5, <5>1 DEF FlagRight
      <4> QED BY <4>1, <4>2
    <3> QED BY <3>2, <3>4, <3>5
  <2>2. CASE GiveUp(w)
    <3>1. /\ m.pc = "check" /\ Synced(w) /\ scratch.failed /\ failure' = failure
          /\ written'[r] = written[r] \cup {<<p, [q \in Place |-> -1][p]>> : p \in Strided(w)}
      BY <1>5, <2>2 DEF GiveUp, Fill
    <3>2. Failed(row) /\ ~Selects(row) /\ ~(Valid(row) <= K)
      BY <1>4, <3>1, WarpScratch, WarpRow DEF Selects
    <3>3. Filler(row) = [q \in Place |-> -1]
      BY <3>2 DEF Filler
    <3>4. FilledRight(r, Filler(row))'
      <4>1. FilledRight(r, Filler(row))
        BY <1>5, <3>2
      <4> PICK value : value = Filler(row)
        OBVIOUS
      <4>2. FilledRight(r, value) /\ written'[r] = written[r] \cup {<<p, value[p]>> : p \in Strided(w)}
        BY <3>1, <3>3, <4>1
      <4>3. FilledRight(r, value)'
        BY <1>3, <4>2, FillsPlaces
      <4> QED BY <1>2, <4>3 DEF FilledRight
    <3>5. FlagRight(r)'
      <4>1. \/ entered'[0] = entered[0]
            \/ entered'[0] = entered[0] + 1 /\ ~(warp[0].row = r /\ warp[0].pc = "begin")
        BY <1>1, <1>2, <3>1
      <4>2. entered'[0] <= RoundsBefore(rows, r) <=> entered[0] <= RoundsBefore(rows, r)
        BY <1>2, <4>1, ComesToRow
      <4> QED BY <1>2, <1>5, <3>1, <4>2 DEF FlagRight
    <3> QED BY <3>2, <3>4, <3>5
  <2> QED BY <2>1, <2>2
<1> QED BY <1>2, <1>7 DEF RowRight

\* When warp 0 sets up for a row, no warp has come to emit it.
LEMMA SetupRowKept ==
  ASSUME TypeOK, InStep, ScratchRight, RowsRight, NEW r \in 1 .. Len(rows),
         warp[0].row = r, Setup(0)
  PROVE  RowRight(r)'
<1> PICK row, x : row = rows[r] /\ x = RoundsBefore(rows, r)
  OBVIOUS
<1>1. /\ Len(rows) \in Nat /\ rows \in Inputs /\ 0 \in Warp /\ IsRow(row)
      /\ entered = [v \in Warp |-> entered[v]] /\ entered[0] \in Nat /\ r \in Nat \ {0}
      /\ x \in Nat /\ Valid(row) \in Nat /\ K \in Nat
  <2>1. 0 \in Warp
    BY SelectAssumption DEF Warp
  <2>2. rows \in Inputs /\ Len(rows) \in Nat /\ r \in Nat \ {0}
    BY <2>1, WarpStands
  <2> QED BY <2>1, <2>2, WarpStands, RoundsAdd, RowsAre, SelectAssumption DEF InStep
<1>2. /\ warp[0].pc = "begin" /\ Synced(0) /\ Valid(row) > K /\ rows' = rows /\ written' = written
      /\ scratch' = [failed |-> Failed(row), threshold |-> 0, rank |-> K,
                     greater |-> 0, equal |-> 0, spills |-> Spills(row)]
      /\ failure' = [failure EXCEPT ![r] = IF Failed(row) THEN 1 ELSE 0]
      /\ entered' = [entered EXCEPT ![0] = @ + 1]
  BY DEF Setup, Row, Sync
<1>3. entered[0] = x
  BY <1>1, <1>2, WarpStands DEF PcRounds
<1>4. entered'[0] = x + 1 /\ failure'[r] = IF Failed(row) THEN 1 ELSE 0
  <2>1. failure = [q \in 1 .. Len(rows) |-> failure[q]]
    BY DEF TypeOK
  <2> QED BY <1>1, <1>2, <1>3, <2>1
<1>5. FlagRight(r)'
  <2>1. ~(entered'[0] <= x)
    BY ONLY <1>1, <1>4
  <2> QED BY <1>2, <1>4, <2>1 DEF FlagRight
<1>6. /\ RowRight(r)
  BY DEF RowsRight
<1>7. ASSUME ~Selects(row) PROVE FilledRight(r, Filler(row))'
  <2>1. FilledRight(r, Filler(row))
    BY <1>6, <1>7 DEF RowRight
  <2>2. \A v \in Warp : warp'[v].row > r <=> warp[v].row > r
    <3>1. warp' = [warp EXCEPT ![0] = [@ EXCEPT !.pc = "check"]]
      BY DEF Setup, Goto
    <3>2. warp = [v \in Warp |-> warp[v]]
      BY DEF InStep
    <3>3. /\ warp[0] \in [pc : Pcs, row : 1 .. Len(rows) + 1, digit : 0 .. Digits - 1, batch : Nat, place : Nat]
      BY <1>1, WarpStands
    <3> PICK m, n : m = warp[0] /\ n = warp'[0]
      OBVIOUS
    <3>4. n = [m EXCEPT !.pc = "check"] /\ \A v \in Warp : v # 0 => warp'[v] = warp[v]
      BY <1>1, <3>1, <3>2
    <3>5. n.row = m.row
      BY <3>3, <3>4
    <3> QED BY <3>4, <3>5
  <2>3. \A q \in Place : q % NumWarps \in Warp
    BY SelectAssumption DEF Place, Warp
  <2> QED BY <1>2, <2>1, <2>2, <2>3 DEF FilledRight
<1>8. ASSUME Selects(row) PROVE OutputRight(r)'
  <2>1. Done(r)' = Done(r) /\ Reserved(r)' = Reserved(r) /\ Spans(r)' = Spans(r)
    <3>1. Quiet(0)
      BY DEF Quiet
    <3> QED BY <1>1, <1>8, <3>1, QuietView
  <2>2. ASSUME NEW v \in Warp PROVE warp[v].row <= r /\ (warp[v].row = r => warp[v].pc \notin {"emit", "place"})
    <3>1. /\ entered[v] \in Nat /\ entered[v] <= x + 1 /\ warp[v].row \in Nat
          /\ Stands(rows, warp[v], entered[v]) /\ PcRounds(rows, warp[v], entered[v])
      <4>1. entered[v] \in Nat /\ entered[v] <= entered[0] + 1
        BY <1>1, WarpStands
      <4>2. warp[v].row \in 1 .. Len(rows) + 1
        BY WarpStands
      <4>3. warp[v].row \in Nat
        BY <1>1, <4>2
      <4> QED BY <1>3, <4>1, <4>3, WarpStands
    <3>2. Digits \in Nat \ {0} /\ RoundsOf(rows[r]) = 3 * Digits + 2
      BY <1>1, <1>8, SelectAssumption DEF RoundsOf, Selects
    <3>3. warp[v].row > r => entered[v] >= x + RoundsOf(rows[r])
      BY <1>1, <3>1, RoundsTellRow
    <3>4. ~(warp[v].row > r)
      BY <1>1, <3>1, <3>2, <3>3
    <3>5. ASSUME warp[v].row = r, warp[v].pc \in {"emit", "place"} PROVE FALSE
      <4>1. entered[v] = PickAt(rows, r, 0) + 1
        BY <3>1, <3>5 DEF PcRounds, Stands
      <4>2. PickAt(rows, r, 0) = x + 3 * Digits
        <5>1. 0 \in 0 .. Digits
          BY <3>2
        <5> QED BY <1>1, <5>1, PicksApart
      <4> QED BY ONLY <1>1, <3>1, <3>2, <4>1, <4>2
    <3> QED BY <1>1, <3>1, <3>4, <3>5
  <2>3. \A id \in Candidates(row) : WarpOf(id) \in Warp
    BY <1>1, CandidatesAre
  <2>4. ASSUME NEW v \in Warp, NEW id PROVE ~HasPlaced(rows, warp[v], r, id) /\ ~IsPlacing(warp[v], r)
    <3>1. ~(warp[v].row > r)
      <4>1. warp[v].row \in 1 .. Len(rows) + 1 /\ warp[v].row <= r
        BY <2>2, WarpStands
      <4> QED BY <1>1, <4>1
    <3> QED BY <2>2, <3>1 DEF HasPlaced, IsPlacing
  <2>5. Done(r) = {}
    BY <2>3, <2>4 DEF Done
  <2>6. Reserved(r) = {}
    <3>1. \A id \in Beyond(row) : WarpOf(id) \in Warp
      BY <2>3 DEF Beyond
    <3> QED BY <2>4, <2>5, <3>1 DEF Reserved, Placing
  <2>7. Cardinality(Reserved(r)) = 0 /\ Cardinality(Done(r) \cap Ties(row)) = 0
    <3>1. Done(r) \cap Ties(row) = {}
      BY <2>5
    <3> QED BY <2>6, <3>1, FS_EmptySet
  <2>8. RowOutput(row, written[r], Done(r), Cardinality(Reserved(r)), Spans(r))
    BY <1>6, <1>8 DEF RowRight, OutputRight
  <2>9. scratch'.greater = 0 /\ scratch'.equal = 0
    BY <1>2
  <2> QED BY <1>2, <2>1, <2>7, <2>8, <2>9 DEF OutputRight
<1> QED BY <1>2, <1>5, <1>7, <1>8 DEF RowRight

---------------------------------------------------------------------------
(* The row that is emitted.                                                 *)

LEMMA InOneRow ==
  ASSUME InStep, NEW q \in 1 .. Len(rows), NEW r \in 1 .. Len(rows), InRow(q), InRow(r)
  PROVE  q = r
<1>1. /\ q \in Nat \ {0} /\ r \in Nat \ {0} /\ entered[0] \in Nat
      /\ RoundsBefore(rows, q) \in Nat /\ RoundsOf(rows[q]) \in Nat
      /\ RoundsBefore(rows, r) \in Nat /\ RoundsOf(rows[r]) \in Nat
  <2>1. 0 \in Warp
    BY SelectAssumption DEF Warp
  <2>2. Len(rows) \in Nat /\ entered[0] \in Nat
    BY <2>1, WarpStands
  <2>3. q \in Nat \ {0} /\ r \in Nat \ {0}
    BY <2>2
  <2>4. RoundsBefore(rows, q) \in Nat /\ RoundsBefore(rows, r) \in Nat
    BY <2>3, RoundsAdd
  <2>5. RoundsOf(rows[q]) \in Nat /\ RoundsOf(rows[r]) \in Nat
    BY RoundsOfRow, SelectAssumption
  <2> QED BY <2>2, <2>3, <2>4, <2>5
<1>2. /\ RoundsBefore(rows, q) < entered[0]
      /\ entered[0] <= RoundsBefore(rows, q) + RoundsOf(rows[q])
      /\ RoundsBefore(rows, r) < entered[0]
      /\ entered[0] <= RoundsBefore(rows, r) + RoundsOf(rows[r])
  BY DEF InRow
<1>3. q < r => RoundsBefore(rows, q) + RoundsOf(rows[q]) <= RoundsBefore(rows, r)
  BY <1>1, RoundsGrow
<1>4. r < q => RoundsBefore(rows, r) + RoundsOf(rows[r]) <= RoundsBefore(rows, q)
  BY <1>1, RoundsGrow
<1> QED BY ONLY <1>1, <1>2, <1>3, <1>4

LEMMA EmitKeepsOthers ==
  ASSUME InStep, ScratchRight, RowsRight, NEW w \in Warp, NEW r, r = warp[w].row,
         warp[w].pc \in {"emit", "place"}, rows' = rows, failure' = failure, entered' = entered,
         warp'[w].row = r, \A v \in Warp : v # w => warp'[v] = warp[v],
         NEW q \in 1 .. Len(rows), q # r, written'[q] = written[q]
  PROVE  RowRight(q)'
<1>1. RowRight(q) /\ IsRow(rows[q])
  BY RowsAre DEF RowsRight, InStep
<1>2. ~InRow(q)
  BY EmitFacts, InOneRow
<1>3. ~InRow(q)'
  BY <1>2 DEF InRow
<1>4. ASSUME Selects(rows[q])
      PROVE  Done(q)' = Done(q) /\ Reserved(q)' = Reserved(q) /\ Spans(q)' = Spans(q)
  <2>1. ~IsPlacing(warp[w], q) /\ ~IsPlacing(warp'[w], q)
    BY DEF IsPlacing
  <2>2. \A id : HasPlaced(rows, warp'[w], q, id) <=> HasPlaced(rows, warp[w], q, id)
    BY DEF HasPlaced
  <2> QED BY <1>1, <1>4, <2>1, <2>2, SameView DEF Selects
<1>5. \A v \in Warp : warp'[v].row > q <=> warp[v].row > q
  OBVIOUS
<1> QED BY <1>1, <1>3, <1>4, <1>5, RowKept

LEMMA FillingIsRight ==
  ASSUME InStep, ScratchRight, RowsRight, NEW w \in Warp, NEW r, r = warp[w].row,
         warp[w].pc \in {"emit", "place"}
  PROVE  /\ scratch.greater = Cardinality(Reserved(r))
         /\ scratch.equal = Cardinality(Done(r) \cap Ties(rows[r]))
         /\ RowOutput(rows[r], written[r], Done(r), Cardinality(Reserved(r)), Spans(r))
         /\ FlagRight(r)
         /\ IsFiniteSet(Reserved(r)) /\ Cardinality(Reserved(r)) \in Nat
         /\ Cardinality(Reserved(r)) <= Cardinality(Beyond(rows[r]))
<1>1. r \in 1 .. Len(rows) /\ Selects(rows[r]) /\ InRow(r) /\ IsRow(rows[r]) /\ ~Failed(rows[r])
  BY EmitFacts
<1>2. OutputRight(r) /\ FlagRight(r)
  BY <1>1 DEF RowsRight, RowRight
<1>3. IsFiniteSet(Beyond(rows[r])) /\ Reserved(r) \subseteq Beyond(rows[r])
  BY <1>1, BeyondIs DEF Reserved
<1>4. /\ IsFiniteSet(Reserved(r)) /\ Cardinality(Reserved(r)) \in Nat
      /\ Cardinality(Reserved(r)) <= Cardinality(Beyond(rows[r]))
  BY <1>3, FS_Subset, FS_CardinalityType
<1> QED BY <1>1, <1>2, <1>4 DEF OutputRight

LEMMA NextBatch ==
  ASSUME InStep, NEW w \in Warp, NEW row, row = rows[warp[w].row], warp[w].pc = "emit", Left(w) # {},
         NEW n, n = Min(Left(w)),
         Live(row, w, scratch.spills) = {id \in Candidates(row) : WarpOf(id) = w}
  PROVE  /\ n \in Nat /\ warp[w].batch \in Nat /\ warp[w].batch <= n
         /\ \A id \in Candidates(row) : BatchOf(row, id) \in Nat
         /\ \A id \in Candidates(row) : WarpOf(id) = w =>
              (BatchOf(row, id) < n <=> BatchOf(row, id) < warp[w].batch)
<1>1. IsRow(row) /\ Row(w) = row /\ warp[w].batch \in Nat
  BY WarpRow, WarpStands DEF Row
<1>2. \A id \in Candidates(row) : BatchOf(row, id) \in Nat
  BY <1>1, OffsetsAre
<1>3. Left(w) = {BatchOf(row, id) : id \in {i \in Candidates(row) : WarpOf(i) = w}}
                  \ (0 .. warp[w].batch - 1)
  BY <1>1 DEF Left
<1>4. Left(w) \in SUBSET Nat
  BY <1>2, <1>3
<1>5. n \in Left(w) /\ \A y \in Left(w) : n <= y
  BY <1>4, HasLeast DEF Min
<1>6. n \in Nat /\ n \notin 0 .. warp[w].batch - 1
  BY <1>3, <1>4, <1>5
<1>7. warp[w].batch <= n
  BY <1>1, <1>6
<1>8. ASSUME NEW id \in Candidates(row), WarpOf(id) = w
      PROVE  BatchOf(row, id) < n <=> BatchOf(row, id) < warp[w].batch
  <2> PICK x, b : x = BatchOf(row, id) /\ b = warp[w].batch
    OBVIOUS
  <2>1. x \in Nat /\ b \in Nat /\ (x \in 0 .. b - 1 \/ x \in Left(w))
    BY <1>1, <1>2, <1>3, <1>8
  <2>2. x \in 0 .. b - 1 \/ n <= x
    BY <1>5, <2>1
  <2>3. b <= n
    BY <1>7
  <2>4. x < n <=> x < b
    BY ONLY <1>6, <2>1, <2>2, <2>3
  <2> QED BY <2>4
<1> QED BY <1>1, <1>2, <1>6, <1>7, <1>8

\* The candidates of a batch, and the place they find in the state.
LEMMA DoneGrows ==
  ASSUME NEW w \in Warp, rows' = rows, \A v \in Warp : v # w => warp'[v] = warp[v],
         NEW r, IsRow(rows[r]), NEW batch, batch \subseteq Candidates(rows[r]),
         \A id \in batch : WarpOf(id) = w,
         \A id \in Candidates(rows[r]) : WarpOf(id) = w =>
           (HasPlaced(rows, warp'[w], r, id) <=> HasPlaced(rows, warp[w], r, id) \/ id \in batch)
  PROVE  Done(r)' = Done(r) \cup batch
<1>1. \A id \in Candidates(rows[r]) : WarpOf(id) \in Warp
  BY CandidatesAre
<1>2. \A id \in Candidates(rows[r]) :
        HasPlaced(rows, warp'[WarpOf(id)], r, id)
          <=> HasPlaced(rows, warp[WarpOf(id)], r, id) \/ id \in batch
  BY <1>1
<1> QED BY <1>2 DEF Done

LEMMA ReserveKeepsRow ==
  ASSUME InStep, ScratchRight, ScratchTyped, RowsRight, NEW w \in Warp, ReserveGreater(w),
         NEW r, r = warp[w].row
  PROVE  RowRight(r)'
<1> PICK m, n, row, b, g, spans, D :
      /\ m = warp[w] /\ n = warp'[w] /\ row = rows[r] /\ b = Min(Left(w))
      /\ g = Cardinality(Reserved(r)) /\ spans = Spans(r)
      /\ D = {id \in Beyond(row) : WarpOf(id) = w /\ BatchOf(row, id) = b}
  OBVIOUS
<1>1. /\ m.pc = "emit" /\ Left(w) # {} /\ rows' = rows /\ failure' = failure
      /\ entered' = entered /\ written' = written
      /\ scratch' = [scratch EXCEPT !.greater = @ + Cardinality(Above(w, b))]
      /\ warp' = [warp EXCEPT ![w] = [@ EXCEPT !.pc = "place", !.batch = b, !.place = scratch.greater]]
  BY DEF ReserveGreater
<1>2. /\ r \in 1 .. Len(rows) /\ IsRow(row) /\ ~Failed(row) /\ Selects(row) /\ InRow(r)
      /\ Live(row, w, scratch.spills) = {id \in Candidates(row) : WarpOf(id) = w}
      /\ scratch.threshold = Cut(row)
  BY <1>1, EmitFacts
<1>3. /\ scratch.greater = g /\ scratch.equal = Cardinality(Done(r) \cap Ties(row))
      /\ RowOutput(row, written[r], Done(r), g, spans) /\ FlagRight(r)
      /\ IsFiniteSet(Reserved(r)) /\ g \in Nat
  BY <1>1, FillingIsRight
<1>4. /\ m \in [pc : Pcs, row : 1 .. Len(rows) + 1, digit : 0 .. Digits - 1, batch : Nat, place : Nat]
      /\ warp = [v \in Warp |-> warp[v]]
  BY WarpStands DEF InStep
<1>5. /\ b \in Nat /\ m.batch \in Nat /\ m.batch <= b
      /\ \A id \in Candidates(row) : BatchOf(row, id) \in Nat
      /\ \A id \in Candidates(row) : WarpOf(id) = w =>
              (BatchOf(row, id) < b <=> BatchOf(row, id) < m.batch)
  BY <1>1, <1>2, NextBatch
<1>6. /\ n = [m EXCEPT !.pc = "place", !.batch = b, !.place = g]
      /\ \A v \in Warp : v # w => warp'[v] = warp[v]
  BY <1>1, <1>3, <1>4
<1>7. n.pc = "place" /\ n.row = r /\ n.batch = b /\ n.place = g /\ m.row = r
  BY <1>4, <1>6
<1>8. Above(w, b) = D
  BY <1>2 DEF Above, Batch, Row, Beyond
<1>9. Done(r)' = Done(r)
  <2>0. PICK none : none = {}
    OBVIOUS
  <2>1. \A id \in Candidates(rows[r]) : WarpOf(id) = w =>
          (HasPlaced(rows, warp'[w], r, id) <=> HasPlaced(rows, warp[w], r, id) \/ id \in none)
    BY <1>1, <1>5, <1>7, <2>0 DEF HasPlaced
  <2>2. IsRow(rows[r]) /\ none \subseteq Candidates(rows[r]) /\ \A id \in none : WarpOf(id) = w
    BY <1>2, <2>0
  <2>3. Done(r)' = Done(r) \cup none
    BY ONLY w \in Warp, <1>1, <1>6, <2>1, <2>2, DoneGrows
  <2> QED BY <2>0, <2>3
<1>10. /\ \A v \in Warp : v # w => (Placing(r, v)' <=> Placing(r, v)) /\ Pending(r, v)' = Pending(r, v)
       /\ ~Placing(r, w) /\ Placing(r, w)' /\ Pending(r, w)' = D
  <2>1. \A v \in Warp : v # w => (Placing(r, v)' <=> Placing(r, v)) /\ Pending(r, v)' = Pending(r, v)
    BY <1>1, <1>6 DEF Placing, IsPlacing, Pending
  <2>2. ~Placing(r, w) /\ Placing(r, w)'
    BY <1>1, <1>7 DEF Placing, IsPlacing
  <2>3. Pending(r, w)' = D
    BY <1>1, <1>7 DEF Pending
  <2> QED BY <2>1, <2>2, <2>3
<1>11. D \cap Done(r) = {}
  <2>1. ASSUME NEW id \in D PROVE id \notin Done(r)
    <3>1. WarpOf(id) = w /\ BatchOf(rows[r], id) = b
      OBVIOUS
    <3>2. ~(b < m.batch)
      BY ONLY <1>5
    <3>3. ~(m.row > r)
      <4>1. r \in Nat
        BY <1>4, <1>7, WarpStands
      <4> QED BY <1>7, <4>1
    <3> QED BY <3>1, <3>2, <3>3 DEF Done, HasPlaced
  <2> QED BY <2>1
<1>12. Beyond(row) \subseteq Candidates(row) /\ \A id \in Beyond(row) : WarpOf(id) \in Warp
  BY <1>2, CandidatesAre DEF Beyond
<1>13. Reserved(r)' = Reserved(r) \cup D /\ Reserved(r) \cap D = {}
  <2>1. ASSUME NEW id \in Beyond(row)
        PROVE  (id \in Done(r) \/ (Placing(r, WarpOf(id)) /\ id \in Pending(r, WarpOf(id))))'
                 <=> id \in Done(r) \/ (Placing(r, WarpOf(id)) /\ id \in Pending(r, WarpOf(id))) \/ id \in D
    <3> PICK v \in Warp : v = WarpOf(id)
      BY <1>12
    <3>1. v # w => id \notin D
      OBVIOUS
    <3>2. (Placing(r, v) /\ id \in Pending(r, v))' <=> (Placing(r, v) /\ id \in Pending(r, v)) \/ id \in D
      BY <1>10, <3>1
    <3> QED BY <1>9, <3>2
  <2>2. Beyond(rows[r])' = Beyond(row) /\ Beyond(rows[r]) = Beyond(row)
    BY <1>1
  <2>3. D \subseteq Beyond(row)
    OBVIOUS
  <2>4. Reserved(r)' = Reserved(r) \cup D
    BY <2>1, <2>2, <2>3 DEF Reserved
  <2>5. ASSUME NEW id \in D PROVE id \notin Reserved(r)
    <3>1. id \notin Done(r) /\ WarpOf(id) = w
      BY <1>11
    <3> QED BY <1>10, <3>1 DEF Reserved
  <2> QED BY <2>4, <2>5
<1>14. IsFiniteSet(D) /\ Cardinality(D) \in Nat
  BY <1>2, BeyondIs, FS_Subset, FS_CardinalityType
<1>15. Cardinality(Reserved(r)') = g + Cardinality(D)
  <2>1. Cardinality(Reserved(r) \cap D) = 0
    BY <1>13, FS_EmptySet
  <2>2. Cardinality(Reserved(r) \cup D) = g + Cardinality(D) - 0
    BY <1>3, <1>14, <2>1, FS_Union
  <2>3. g + Cardinality(D) - 0 = g + Cardinality(D)
    BY ONLY <1>3, <1>14
  <2> QED BY <1>13, <2>2, <2>3
<1>16. /\ w \notin DOMAIN spans /\ DOMAIN (Spans(r)') = DOMAIN spans \cup {w}
       /\ Spans(r)'[w] = PlacesFrom(g, Cardinality(D))
       /\ \A v \in DOMAIN spans : Spans(r)'[v] = spans[v]
  <2>1. DOMAIN spans = {v \in Warp : Placing(r, v)}
    BY DEF Spans
  <2>2. DOMAIN (Spans(r)') = {v \in Warp : Placing(r, v)'}
    BY DEF Spans
  <2>3. \A v \in Warp : v # w /\ Placing(r, v) => Spans(r)'[v] = spans[v]
    BY <1>6, <1>10 DEF Spans
  <2>4. Spans(r)'[w] = PlacesFrom(g, Cardinality(D))
    BY <1>7, <1>10 DEF Spans
  <2> QED BY <1>10, <2>1, <2>2, <2>3, <2>4
<1>17. RowOutput(row, written[r], Done(r), g + Cardinality(D), Spans(r)')
  <2>0. PICK after, c : after = Spans(r)' /\ c = Cardinality(D)
    OBVIOUS
  <2>1. /\ w \notin DOMAIN spans /\ DOMAIN after = DOMAIN spans \cup {w}
        /\ after[w] = PlacesFrom(g, c) /\ c \in Nat
        /\ \A v \in DOMAIN spans : after[v] = spans[v]
    BY <1>14, <1>16, <2>0
  <2>2. RowOutput(row, written[r], Done(r), g + c, after)
    BY ONLY <1>3, <2>1, ReserveKeepsOutput DEF RowOutput
  <2> QED BY <2>0, <2>2
<1>18. scratch'.greater = g + Cardinality(D) /\ scratch'.equal = scratch.equal
  BY <1>1, <1>3, <1>8 DEF ScratchTyped
<1>19. OutputRight(r)'
  BY <1>1, <1>3, <1>9, <1>15, <1>17, <1>18 DEF OutputRight
<1>20. FlagRight(r)'
  BY <1>1, <1>3 DEF FlagRight
<1> QED BY <1>1, <1>2, <1>19, <1>20 DEF RowRight

LEMMA PlaceKeepsRow ==
  ASSUME InStep, ScratchRight, ScratchTyped, RowsRight, NEW w \in Warp, PlaceBatch(w),
         NEW r, r = warp[w].row
  PROVE  RowRight(r)'
<1>0. PICK m, n, row, b, g, spans, above, level, batch, e, k :
      /\ m = warp[w] /\ n = warp'[w] /\ row = rows[r] /\ b = warp[w].batch
      /\ g = Cardinality(Reserved(r)) /\ spans = Spans(r)
      /\ batch = {id \in Candidates(row) : WarpOf(id) = w /\ BatchOf(row, id) = b}
      /\ above = batch \cap Beyond(row) /\ level = batch \cap Ties(row)
      /\ e = Cardinality(Done(r) \cap Ties(row)) /\ k = RankAt(row, 0)
  OBVIOUS
<1>2. /\ r \in 1 .. Len(rows) /\ IsRow(row) /\ ~Failed(row) /\ Selects(row) /\ InRow(r)
      /\ Live(row, w, scratch.spills) = {id \in Candidates(row) : WarpOf(id) = w}
      /\ scratch.threshold = Cut(row) /\ scratch.rank = k
  <2>1. warp[w].pc = "place"
    BY DEF PlaceBatch
  <2> QED BY <1>0, <2>1, EmitFacts
<1>3. /\ scratch.greater = g /\ scratch.equal = e
      /\ RowOutput(row, written[r], Done(r), g, spans) /\ FlagRight(r)
      /\ IsFiniteSet(Reserved(r)) /\ g \in Nat /\ g <= Cardinality(Beyond(row))
  <2>1. warp[w].pc = "place"
    BY DEF PlaceBatch
  <2> QED BY <1>0, <2>1, FillingIsRight
<1>4. /\ m \in [pc : Pcs, row : 1 .. Len(rows) + 1, digit : 0 .. Digits - 1, batch : Nat, place : Nat]
      /\ warp = [v \in Warp |-> warp[v]] /\ b \in Nat /\ m.place \in Nat
      /\ written = [q \in 1 .. Len(rows) |-> written[q]] /\ r \in Nat
  <2>1. m \in [pc : Pcs, row : 1 .. Len(rows) + 1, digit : 0 .. Digits - 1, batch : Nat, place : Nat]
    BY <1>0, WarpStands
  <2>2. b \in Nat /\ m.place \in Nat
    BY <1>0, <2>1
  <2>3. r \in Nat
    BY <1>2, WarpStands
  <2> QED BY <2>1, <2>2, <2>3 DEF InStep, RowsRight
<1>5. /\ Beyond(row) \subseteq Candidates(row) /\ Ties(row) \subseteq Candidates(row)
      /\ \A id \in Candidates(row) : WarpOf(id) \in Warp /\ BatchOf(row, id) \in Nat
      /\ IsFiniteSet(Beyond(row)) /\ IsFiniteSet(Ties(row))
  BY <1>2, BeyondIs, CandidatesAre, OffsetsAre
<1>6. Above(w, b) = above /\ Level(w, b) = level
  <2>1. Batch(w, b) = batch /\ Row(w) = row
    BY <1>0, <1>2 DEF Batch, Row
  <2>2. above = {id \in batch : row.score[id] > Cut(row)} /\ level = {id \in batch : row.score[id] = Cut(row)}
    BY <1>0 DEF Beyond, Ties
  <2> QED BY <1>2, <2>1, <2>2 DEF Above, Level
<1>1. /\ m.pc = "place" /\ rows' = rows /\ failure' = failure /\ entered' = entered
      /\ written'[r] = written[r] \cup {<<Reserve(m.place, above, id), id>> : id \in above}
                         \cup {<<K - k + Reserve(e, level, id), id>> :
                                 id \in {i \in level : Reserve(e, level, i) < k}}
      /\ scratch' = [scratch EXCEPT !.equal = @ + Cardinality(level)]
      /\ warp' = [warp EXCEPT ![w] = [@ EXCEPT !.pc = "emit", !.batch = b + 1]]
  <2>1. written' = [written EXCEPT ![warp[w].row] = @
           \cup {<<Reserve(warp[w].place, Above(w, b), id), id>> : id \in Above(w, b)}
           \cup {<<K - scratch.rank + Reserve(scratch.equal, Level(w, b), id), id>> :
                   id \in {i \in Level(w, b) : Reserve(scratch.equal, Level(w, b), i) < scratch.rank}}]
    BY <1>0 DEF PlaceBatch
  <2>2. written' = [written EXCEPT ![r] = @
           \cup {<<Reserve(m.place, above, id), id>> : id \in above}
           \cup {<<K - k + Reserve(e, level, id), id>> :
                   id \in {i \in level : Reserve(e, level, i) < k}}]
    <3>1. /\ warp[w].row = r /\ warp[w].place = m.place /\ scratch.rank = k /\ scratch.equal = e
          /\ Above(w, b) = above /\ Level(w, b) = level
      BY <1>0, <1>2, <1>3, <1>6
    <3> QED BY ONLY <2>1, <3>1
  <2>3. written'[r] = written[r] \cup {<<Reserve(m.place, above, id), id>> : id \in above}
                         \cup {<<K - k + Reserve(e, level, id), id>> :
                                 id \in {i \in level : Reserve(e, level, i) < k}}
    BY <1>2, <1>4, <2>2
  <2> QED BY <1>0, <1>6, <2>3 DEF PlaceBatch
<1>7. /\ n.pc = "emit" /\ n.row = r /\ n.batch = b + 1 /\ m.row = r /\ m.batch = b
      /\ \A v \in Warp : v # w => warp'[v] = warp[v]
  <2>1. n = [m EXCEPT !.pc = "emit", !.batch = b + 1] /\ \A v \in Warp : v # w => warp'[v] = warp[v]
    BY <1>0, <1>1, <1>4
  <2> QED BY <1>0, <1>4, <2>1
<1>8. Done(r)' = Done(r) \cup batch
  <2>1. ASSUME NEW id \in Candidates(rows[r]), WarpOf(id) = w
        PROVE  HasPlaced(rows, warp'[w], r, id) <=> HasPlaced(rows, warp[w], r, id) \/ id \in batch
    <3>1. BatchOf(rows[r], id) \in Nat
      BY <1>0, <1>5, <2>1
    <3>2. BatchOf(rows[r], id) < b + 1 <=> BatchOf(rows[r], id) < b \/ BatchOf(rows[r], id) = b
      BY ONLY <1>4, <3>1
    <3>3. ~(r > r)
      BY <1>4
    <3>4. id \in batch <=> BatchOf(rows[r], id) = b
      BY <1>0, <2>1
    <3> QED BY <1>0, <1>1, <1>7, <3>2, <3>3, <3>4 DEF HasPlaced
  <2>2. IsRow(rows[r]) /\ batch \subseteq Candidates(rows[r]) /\ \A id \in batch : WarpOf(id) = w
    BY <1>0, <1>2
  <2> QED BY ONLY w \in Warp, <1>1, <1>7, <2>1, <2>2, DoneGrows
<1>9. batch \cap Done(r) = {}
  <2>1. ASSUME NEW id \in batch PROVE id \notin Done(r)
    <3>1. WarpOf(id) = w /\ BatchOf(rows[r], id) = b
      BY <1>0
    <3>2. ~(b < b) /\ ~(r > r)
      BY ONLY <1>4
    <3> QED BY <1>0, <1>7, <3>1, <3>2 DEF Done, HasPlaced
  <2> QED BY <2>1
<1>10. /\ \A v \in Warp : v # w => (Placing(r, v)' <=> Placing(r, v)) /\ Pending(r, v)' = Pending(r, v)
       /\ Placing(r, w) /\ ~Placing(r, w)' /\ Pending(r, w) = above
  <2>1. \A v \in Warp : v # w => (Placing(r, v)' <=> Placing(r, v)) /\ Pending(r, v)' = Pending(r, v)
    BY <1>1, <1>7 DEF Placing, IsPlacing, Pending
  <2>2. Placing(r, w) /\ ~Placing(r, w)'
    BY <1>0, <1>1, <1>7 DEF Placing, IsPlacing
  <2>3. Pending(r, w) = above
    BY <1>0, <1>5 DEF Pending
  <2> QED BY <2>1, <2>2, <2>3
<1>11. Reserved(r)' = Reserved(r)
  <2>1. ASSUME NEW id \in Beyond(row)
        PROVE  (id \in Done(r) \/ (Placing(r, WarpOf(id)) /\ id \in Pending(r, WarpOf(id))))'
                 <=> id \in Done(r) \/ (Placing(r, WarpOf(id)) /\ id \in Pending(r, WarpOf(id)))
    <3>0. PICK v \in Warp : v = WarpOf(id)
      BY <1>5
    <3>1. CASE v = w
      <4>1. id \in Pending(r, w) <=> id \in batch
        BY <1>0, <1>10
      <4> QED BY <1>8, <1>10, <3>0, <3>1, <4>1
    <3>2. CASE v # w
      <4>1. id \notin batch
        BY <1>0, <3>0, <3>2
      <4> QED BY <1>8, <1>10, <3>0, <3>2, <4>1
    <3> QED BY <3>1, <3>2
  <2>2. Beyond(rows[r])' = Beyond(row) /\ Beyond(rows[r]) = Beyond(row)
    BY <1>0, <1>1
  <2> QED BY <2>1, <2>2 DEF Reserved
<1>12. /\ w \in DOMAIN spans /\ DOMAIN (Spans(r)') = DOMAIN spans \ {w}
       /\ spans[w] = PlacesFrom(m.place, Cardinality(above))
       /\ \A v \in DOMAIN (Spans(r)') : Spans(r)'[v] = spans[v]
  <2>1. DOMAIN spans = {v \in Warp : Placing(r, v)}
    BY <1>0 DEF Spans
  <2>2. DOMAIN (Spans(r)') = {v \in Warp : Placing(r, v)'}
    BY DEF Spans
  <2>3. \A v \in Warp : v # w /\ Placing(r, v) => Spans(r)'[v] = spans[v]
    BY <1>0, <1>7, <1>10 DEF Spans
  <2>4. spans[w] = PlacesFrom(m.place, Cardinality(above))
    BY <1>0, <1>10 DEF Spans
  <2> QED BY <1>10, <2>1, <2>2, <2>3, <2>4
<1>13. RowOutput(row, written'[r], Done(r) \cup batch, g, Spans(r)')
  <2>0. PICK left, new, first, done, out :
          left = Spans(r)' /\ new = written'[r] /\ first = m.place /\ done = Done(r) /\ out = written[r]
    OBVIOUS
  <2>1. /\ IsRow(row) /\ ~Failed(row) /\ g \in Nat /\ RowOutput(row, out, done, g, spans)
        /\ g <= Cardinality(Beyond(row)) /\ w \in DOMAIN spans
        /\ above = batch \cap Beyond(row) /\ level = batch \cap Ties(row)
        /\ batch \cap done = {} /\ first \in Nat /\ spans[w] = PlacesFrom(first, Cardinality(above))
        /\ e = Cardinality(done \cap Ties(row)) /\ k = RankAt(row, 0)
    BY ONLY <1>0, <1>2, <1>3, <1>4, <1>9, <1>12, <2>0
  <2>2. new = WithBatch(out, K - k, k, first, above, e, level) /\ IsWithout(left, spans, w)
    <3>1. IsWithout(left, spans, w)
      BY ONLY <1>12, <2>0 DEF IsWithout
    <3>2. PICK up, tie : /\ up = {<<Reserve(first, above, id), id>> : id \in above}
                         /\ tie = {<<K - k + Reserve(e, level, id), id>> : id \in {i \in level : Reserve(e, level, i) < k}}
      OBVIOUS
    <3>3. new = out \cup up \cup tie
      BY ONLY <1>1, <2>0, <3>2
    <3>4. up = {<<first + Smaller(above, id), id>> : id \in above}
      BY ONLY <3>2, Zenon DEF Reserve, Smaller
    <3>5. ASSUME NEW id \in level
          PROVE  /\ Reserve(e, level, id) = e + Smaller(level, id)
                 /\ K - k + Reserve(e, level, id) = K - k + e + Smaller(level, id)
      <4>1. PICK x : x = Smaller(level, id)
        OBVIOUS
      <4>2. IsFiniteSet(level) /\ {j \in level : j < id} \subseteq level
        BY <1>0, <1>5, FS_Subset
      <4>3. x \in Nat
        BY <4>1, <4>2, FS_Subset, FS_CardinalityType DEF Smaller
      <4>4. e \in Nat /\ K \in Nat /\ k \in Nat
        <5>1. IsFiniteSet(Done(r) \cap Ties(row))
          BY <1>5, FS_Subset
        <5> QED BY <1>0, <1>2, <5>1, BeyondIs, FS_CardinalityType, SelectAssumption
      <4>5. K - k + (e + x) = K - k + e + x
        BY ONLY <4>3, <4>4
      <4>6. Reserve(e, level, id) = e + x
        BY <4>1 DEF Reserve, Smaller
      <4> QED BY <4>1, <4>5, <4>6
    <3>6. tie = {<<K - k + e + Smaller(level, id), id>> : id \in {i \in level : e + Smaller(level, i) < k}}
      BY ONLY <3>2, <3>5
    <3> QED BY ONLY <3>1, <3>3, <3>4, <3>6, Zenon DEF WithBatch
  <2>3. RowOutput(row, WithBatch(out, K - k, k, first, above, e, level), done \cup batch, g, left)
    BY ONLY <2>1, <2>2, PlaceKeepsRowOutput
  <2> QED BY ONLY <2>0, <2>2, <2>3
<1>14. Cardinality((Done(r) \cup batch) \cap Ties(row)) = e + Cardinality(level)
  <2>1. /\ (Done(r) \cup batch) \cap Ties(row) = (Done(r) \cap Ties(row)) \cup level
        /\ (Done(r) \cap Ties(row)) \cap level = {}
    BY ONLY <1>0, <1>9
  <2>2. IsFiniteSet(Done(r) \cap Ties(row)) /\ IsFiniteSet(level)
    BY <1>0, <1>5, FS_Subset
  <2>3. Cardinality((Done(r) \cap Ties(row)) \cap level) = 0
    BY <2>1, FS_EmptySet
  <2>4. Cardinality((Done(r) \cap Ties(row)) \cup level) = e + Cardinality(level) - 0
    BY <1>0, <2>2, <2>3, FS_Union
  <2>5. e \in Nat /\ Cardinality(level) \in Nat
    BY <1>0, <2>2, FS_CardinalityType
  <2>6. e + Cardinality(level) - 0 = e + Cardinality(level)
    BY ONLY <2>5
  <2> QED BY <2>1, <2>4, <2>6
<1>15. scratch'.greater = g /\ scratch'.equal = e + Cardinality(level)
  BY <1>1, <1>3 DEF ScratchTyped
<1>16. OutputRight(r)'
  <2>1. RowOutput(row, written[r], Done(r), Cardinality(Reserved(r)), Spans(r))'
    BY <1>0, <1>1, <1>8, <1>11, <1>13
  <2>2. row = rows'[r] /\ scratch'.greater = Cardinality(Reserved(r)')
        /\ scratch'.equal = Cardinality(Done(r)' \cap Ties(row))
    BY <1>0, <1>1, <1>8, <1>11, <1>14, <1>15
  <2> QED BY <1>0, <1>1, <1>8, <1>11, <1>13, <2>2 DEF OutputRight
<1>17. FlagRight(r)'
  BY <1>1, <1>3 DEF FlagRight
<1> QED BY <1>0, <1>1, <1>2, <1>16, <1>17 DEF RowRight

LEMMA StillKeepsRow ==
  ASSUME InStep, RowsRight, rows' = rows, warp' = warp, written' = written, failure' = failure,
         entered' = entered, scratch'.greater = scratch.greater, scratch'.equal = scratch.equal,
         NEW r \in 1 .. Len(rows)
  PROVE  RowRight(r)'
<1>1. RowRight(r) /\ IsRow(rows[r]) /\ 0 \in Warp
  BY RowsAre, SelectAssumption DEF RowsRight, InStep, Warp
<1>2. Selects(rows[r]) => Done(r)' = Done(r) /\ Reserved(r)' = Reserved(r) /\ Spans(r)' = Spans(r)
  BY <1>1, SameView DEF Selects
<1>3. InRow(r)' => InRow(r)
  BY DEF InRow
<1> QED BY <1>1, <1>2, <1>3, RowKept

LEMMA RowsRightKept ==
  ASSUME SyncInv, RowsRight, [Next]_vars
  PROVE  RowsRight'
<1>1. /\ TypeOK /\ InStep /\ LanesRight /\ ScratchRight /\ BinsRight /\ ScratchTyped /\ LanesTyped
      /\ rows \in Inputs
  BY TypesAre DEF SyncInv
<1>2. 0 \in Warp
  BY SelectAssumption DEF Warp
<1>3. rows' = rows /\ written' = [r \in 1 .. Len(rows) |-> written'[r]]
  <2>1. written = [r \in 1 .. Len(rows) |-> written[r]]
    BY DEF RowsRight
  <2>2. rows' = rows
    BY DEF Next, WarpStep, LaneStep, ReadRank, FindBin, EndPick, Terminating, vars,
           ShortRow, Setup, GiveUp, StartRadix, ZeroHistogram, CountDigits, SkipPick,
           NextDigit, ReserveGreater, PlaceBatch, EndRow
  <2>3. \/ written' = written
        \/ \E r, A : written' = [written EXCEPT ![r] = A]
    <3>1. ASSUME NEW w \in Warp, WarpStep(w)
          PROVE  \/ written' = written
                 \/ \E r, A : written' = [written EXCEPT ![r] = A]
      <4>1. CASE ShortRow(w) \/ GiveUp(w)
        BY <4>1 DEF ShortRow, GiveUp, Fill
      <4>2. CASE PlaceBatch(w)
        BY <4>2 DEF PlaceBatch
      <4>3. CASE ~(ShortRow(w) \/ GiveUp(w)) /\ ~PlaceBatch(w)
        BY <3>1, <4>3 DEF WarpStep, Setup, StartRadix, ZeroHistogram, CountDigits, SkipPick,
                          NextDigit, ReserveGreater, EndRow
      <4> QED BY <4>1, <4>2, <4>3
    <3>2. ASSUME \/ \E l \in Lane : LaneStep(l)
                 \/ EndPick \/ Terminating \/ UNCHANGED vars
          PROVE  written' = written
      BY <3>2 DEF LaneStep, ReadRank, FindBin, EndPick, Terminating, vars
    <3> QED BY <3>1, <3>2 DEF Next
  <2> QED BY <2>1, <2>2, <2>3
<1>4. ASSUME NEW w \in Warp, Quiet(w), NEW r \in 1 .. Len(rows) PROVE RowRight(r)'
  <2>1. CASE ~Opens(w, r)
    BY <1>1, <1>4, <2>1, QuietKeepsRow
  <2>2. CASE Opens(w, r)
    BY <1>1, <2>2, FilledRowKept, SetupRowKept DEF Opens
  <2> QED BY <2>1, <2>2
<1>5. ASSUME NEW w \in Warp, ReserveGreater(w) \/ PlaceBatch(w), NEW q \in 1 .. Len(rows)
      PROVE  RowRight(q)'
  <2>0. PICK r, m : r = warp[w].row /\ m = warp'[w]
    OBVIOUS
  <2>1. CASE q = r
    BY <1>1, <1>5, <2>0, <2>1, ReserveKeepsRow, PlaceKeepsRow
  <2>2. CASE q # r
    <3>1. /\ warp[w].pc \in {"emit", "place"} /\ failure' = failure /\ entered' = entered
          /\ \/ \E b, p : warp' = [warp EXCEPT ![w] = [@ EXCEPT !.pc = "place", !.batch = b, !.place = p]]
             \/ \E b : warp' = [warp EXCEPT ![w] = [@ EXCEPT !.pc = "emit", !.batch = b]]
          /\ \/ written' = written
             \/ \E A : written' = [written EXCEPT ![r] = A]
      <4>1. CASE ReserveGreater(w)
        BY <4>1 DEF ReserveGreater
      <4>2. CASE PlaceBatch(w)
        BY <2>0, <4>2 DEF PlaceBatch
      <4> QED BY <1>5, <4>1, <4>2
    <3>2. warp = [v \in Warp |-> warp[v]] /\ written = [v \in 1 .. Len(rows) |-> written[v]]
      BY <1>1 DEF InStep, RowsRight
    <3>3. written'[q] = written[q]
      BY <2>2, <3>1, <3>2
    <3>4. warp[w] \in [pc : Pcs, row : 1 .. Len(rows) + 1, digit : 0 .. Digits - 1, batch : Nat, place : Nat]
      BY <1>1, WarpStands
    <3>5. ASSUME NEW b, NEW p,
                 warp' = [warp EXCEPT ![w] = [@ EXCEPT !.pc = "place", !.batch = b, !.place = p]]
          PROVE  m.row = r /\ \A v \in Warp : v # w => warp'[v] = warp[v]
      <4>1. /\ m = [warp[w] EXCEPT !.pc = "place", !.batch = b, !.place = p]
            /\ \A v \in Warp : v # w => warp'[v] = warp[v]
        BY <2>0, <3>2, <3>5
      <4> QED BY <2>0, <3>4, <4>1
    <3>6. ASSUME NEW b, warp' = [warp EXCEPT ![w] = [@ EXCEPT !.pc = "emit", !.batch = b]]
          PROVE  m.row = r /\ \A v \in Warp : v # w => warp'[v] = warp[v]
      <4>1. /\ m = [warp[w] EXCEPT !.pc = "emit", !.batch = b]
            /\ \A v \in Warp : v # w => warp'[v] = warp[v]
        BY <2>0, <3>2, <3>6
      <4> QED BY <2>0, <3>4, <4>1
    <3>7. m.row = r /\ \A v \in Warp : v # w => warp'[v] = warp[v]
      BY <3>1, <3>5, <3>6
    <3> QED BY <1>1, <1>3, <2>0, <2>2, <3>1, <3>3, <3>7, EmitKeepsOthers
  <2> QED BY <2>1, <2>2
<1>6. ASSUME NEW l \in Lane, LaneStep(l), NEW r \in 1 .. Len(rows) PROVE RowRight(r)'
  <2>1. /\ warp' = warp /\ written' = written /\ failure' = failure /\ entered' = entered
        /\ \/ scratch' = scratch
           \/ \E t, k : scratch' = [scratch EXCEPT !.threshold = t, !.rank = k]
    BY <1>6 DEF LaneStep, ReadRank, FindBin
  <2>2. scratch'.greater = scratch.greater /\ scratch'.equal = scratch.equal
    BY <1>1, <2>1 DEF ScratchTyped
  <2> QED BY <1>1, <1>3, <2>1, <2>2, StillKeepsRow
<1>7. ASSUME UNCHANGED vars, NEW r \in 1 .. Len(rows) PROVE RowRight(r)'
  <2>1. /\ warp' = warp /\ written' = written /\ failure' = failure /\ entered' = entered
        /\ scratch' = scratch
    BY <1>7 DEF vars
  <2> QED BY <1>1, <1>3, <2>1, StillKeepsRow
<1>8. \A r \in 1 .. Len(rows) : RowRight(r)'
  <2>1. ASSUME NEW w \in Warp, WarpStep(w)
        PROVE  Quiet(w) \/ ReserveGreater(w) \/ PlaceBatch(w)
    BY <2>1 DEF WarpStep, Quiet
  <2>2. ASSUME EndPick PROVE Quiet(0)
    BY <2>2 DEF Quiet
  <2>3. ASSUME Terminating PROVE UNCHANGED vars
    BY <2>3 DEF Terminating
  <2> QED BY <1>2, <1>4, <1>5, <1>6, <1>7, <2>1, <2>2, <2>3 DEF Next
<1> QED BY <1>3, <1>8 DEF RowsRight

LEMMA RowsRightAtFirst ==
  ASSUME Init
  PROVE  RowsRight
<1>1. InStep /\ rows \in Inputs
  BY InitIsRight DEF InStep
<1>2. /\ written = [r \in 1 .. Len(rows) |-> {}] /\ failure = [r \in 1 .. Len(rows) |-> Unset]
      /\ \A w \in Warp : warp[w].pc = "begin" /\ warp[w].row = 1 /\ entered[w] = 0
      /\ 0 \in Warp /\ Len(rows) \in Nat
  BY InputsAssumption, SelectAssumption DEF Init, Warp
<1>3. ASSUME NEW r \in 1 .. Len(rows) PROVE RowRight(r)
  <2>1. RoundsBefore(rows, r) \in Nat /\ r \in Nat \ {0} /\ ~(1 > r)
    <3>1. r \in Nat \ {0} /\ ~(1 > r)
      BY <1>2
    <3> QED BY <3>1, RoundsAdd
  <2>2. IsRow(rows[r])
    BY <1>1, RowsAre
  <2>3. FlagRight(r)
    <3>1. 0 <= RoundsBefore(rows, r) /\ entered[0] = 0 /\ failure[r] = Unset
      BY <1>2, <2>1
    <3> QED BY <3>1 DEF FlagRight
  <2>4. ~InRow(r)
    <3>1. ~(RoundsBefore(rows, r) < 0) /\ entered[0] = 0
      BY <1>2, <2>1
    <3> QED BY <3>1 DEF InRow
  <2>5. \A w \in Warp : ~IsPlacing(warp[w], r) /\ \A id : ~HasPlaced(rows, warp[w], r, id)
    BY <1>2, <2>1 DEF IsPlacing, HasPlaced
  <2>6. Done(r) = {} /\ Reserved(r) = {} /\ DOMAIN Spans(r) = {}
    <3>1. \A id \in Candidates(rows[r]) : WarpOf(id) \in Warp
      BY <2>2, CandidatesAre
    <3>2. Done(r) = {}
      BY <2>5, <3>1 DEF Done
    <3>3. \A id \in Beyond(rows[r]) : WarpOf(id) \in Warp
      BY <3>1 DEF Beyond
    <3>4. Reserved(r) = {}
      BY <2>5, <3>2, <3>3 DEF Reserved, Placing
    <3>5. DOMAIN Spans(r) = {}
      BY <2>5 DEF Spans, Placing
    <3> QED BY <3>2, <3>4, <3>5
  <2>7. ASSUME Selects(rows[r]) PROVE OutputRight(r)
    <3>1. Cardinality(Reserved(r)) = 0 /\ written[r] = {}
      BY <1>2, <2>6, FS_EmptySet
    <3>2. RowOutput(rows[r], {}, {}, 0, Spans(r))
      BY <2>2, <2>6, <2>7, RowStartsEmpty DEF Selects
    <3> QED BY <2>4, <2>6, <3>1, <3>2 DEF OutputRight
  <2>8. FilledRight(r, Filler(rows[r]))
    <3>1. \A q \in Place : q % NumWarps \in Warp
      BY SelectAssumption DEF Place, Warp
    <3>2. {q \in Place : warp[q % NumWarps].row > r} = {}
      BY <1>2, <2>1, <3>1
    <3>3. written[r] = {}
      BY <1>2
    <3> QED BY <3>2, <3>3 DEF FilledRight
  <2> QED BY <2>3, <2>7, <2>8 DEF RowRight
<1> QED BY <1>2, <1>3 DEF RowsRight

---------------------------------------------------------------------------
(* A row that every warp has left.                                          *)

LEMMA OutputIsExact ==
  ASSUME NEW row, IsRow(row), ~Failed(row), Valid(row) > K, NEW out, NEW spans,
         RowOutput(row, out, Candidates(row), Cardinality(Beyond(row)), spans)
  PROVE  IsExact(row, out)
<1>0. PICK B, T, C : B = Beyond(row) /\ T = Ties(row) /\ C = Candidates(row)
  OBVIOUS
<1>1. /\ B \subseteq C /\ T \subseteq C /\ C \subseteq Positions(row) /\ K \in Nat
      /\ B \cup T \subseteq C
  BY <1>0, BeyondIs, CandidatesAre, SelectAssumption
<1>2. IsSelection(B, T, K, out)
  <2>1. PICK s, k : s = K - RankAt(row, 0) /\ k = RankAt(row, 0)
    OBVIOUS
  <2>2. ToPlace(B, T, s, k) /\ k <= Cardinality(T) /\ k \in Nat /\ s = Cardinality(B)
    BY <1>0, <2>1, RowToPlace, BeyondIs DEF ToPlace
  <2>3. IsOutput(B, T, s, k, out, C, s, spans)
    BY <1>0, <2>1, <2>2 DEF RowOutput
  <2>4. IsSelection(B, T, s + k, out)
    BY ONLY <1>1, <2>2, <2>3, OutputIsSelection
  <2>5. s = K - k
    BY <2>1
  <2>6. s + k = K
    BY ONLY <1>1, <2>2, <2>5
  <2> QED BY <2>4, <2>6
<1>3. PICK chosen : chosen = {x[2] : x \in out}
  OBVIOUS
<1>4. /\ {x[1] : x \in out} = Place /\ Cardinality(out) = K /\ Cardinality(chosen) = K
      /\ B \subseteq chosen /\ chosen \subseteq B \cup T
  BY <1>2, <1>3 DEF IsSelection, Place
<1>5. ASSUME NEW i \in chosen, NEW j \in Positions(row) \ chosen PROVE row.score[i] >= row.score[j]
  <2>1. i \in C /\ row.score[i] >= Cut(row) /\ row.score[i] \in Nat /\ row.score[i] >= row.floor
    <3>1. i \in B \cup T /\ i \in C
      BY <1>1, <1>4
    <3>2. row.score[i] > Cut(row) \/ row.score[i] = Cut(row)
      BY <1>0, <3>1 DEF Beyond, Ties
    <3>3. row.score[i] \in Nat /\ Cut(row) \in Nat /\ row.score[i] >= row.floor
      BY <1>0, <3>1, CandidatesAre, CutIs DEF Candidates
    <3> QED BY <3>1, <3>2, <3>3
  <2>2. row.score[j] \in Nat /\ row.floor \in Nat /\ Cut(row) \in Nat
    BY CutIs, CandidatesAre DEF IsRow
  <2>3. CASE j \in C
    <3>1. ~(row.score[j] > Cut(row))
      BY <1>0, <1>4, <2>3 DEF Beyond
    <3> QED BY <2>1, <2>2, <3>1
  <2>4. CASE j \notin C
    <3>1. ~(row.score[j] >= row.floor)
      BY <1>0, <2>4 DEF Candidates
    <3> QED BY <2>1, <2>2, <3>1
  <2> QED BY <2>3, <2>4
<1>6. ~(Valid(row) <= K)
  BY <1>1 DEF IsRow
<1>7. chosen \subseteq Positions(row)
  BY <1>1, <1>4
<1> QED BY <1>3, <1>4, <1>5, <1>6, <1>7 DEF IsExact

LEMMA LeftRowIsExact ==
  ASSUME SyncInv, RowsRight, NEW r \in 1 .. Len(rows), \A w \in Warp : warp[w].row > r
  PROVE  \/ failure[r] = 0 /\ IsExact(rows[r], written[r])
         \/ failure[r] = 1 /\ written[r] = {<<p, -1>> : p \in Place}
<1>0. PICK row : row = rows[r]
  OBVIOUS
<1>1. /\ InStep /\ rows \in Inputs /\ 0 \in Warp /\ IsRow(row) /\ Valid(row) \in Nat /\ K \in Nat
      /\ r \in Nat \ {0} /\ RowRight(r)
  <2>1. InStep /\ 0 \in Warp
    BY SelectAssumption DEF SyncInv, Warp
  <2>2. rows \in Inputs /\ Len(rows) \in Nat
    BY <2>1, WarpStands
  <2> QED BY <1>0, <2>1, <2>2, RowsAre, SelectAssumption DEF RowsRight
<1>2. failure[r] = IF Valid(row) > K /\ Failed(row) THEN 1 ELSE 0
  <2>1. entered[0] \in Nat /\ entered[0] >= RoundsBefore(rows, r) + RoundsOf(rows[r])
    BY <1>1, WarpStands, RoundsTellRow
  <2>2. RoundsBefore(rows, r) \in Nat /\ RoundsOf(rows[r]) \in Nat \ {0}
    BY <1>1, RoundsAdd, RoundsOfRow, SelectAssumption
  <2>3. ~(entered[0] <= RoundsBefore(rows, r))
    BY ONLY <2>1, <2>2
  <2> QED BY <1>0, <1>1, <2>3 DEF RowRight, FlagRight
<1>3. \A q \in Place : q % NumWarps \in Warp
  BY SelectAssumption DEF Place, Warp
<1>4. ASSUME ~Selects(row) PROVE written[r] = {<<p, Filler(row)[p]>> : p \in Place}
  <2>1. FilledRight(r, Filler(row))
    BY <1>0, <1>1, <1>4 DEF RowRight
  <2>2. {q \in Place : warp[q % NumWarps].row > r} = Place
    BY <1>3
  <2> QED BY <2>1, <2>2 DEF FilledRight
<1>5. CASE Valid(row) <= K
  <2>1. ~Selects(row) /\ ~(Valid(row) > K)
    BY <1>1, <1>5 DEF Selects
  <2>2. written[r] = {<<p, IF p < Valid(row) THEN row.start + p ELSE -1>> : p \in Place}
    BY <1>4, <1>5, <2>1 DEF Filler
  <2> QED BY <1>0, <1>2, <1>5, <2>1, <2>2 DEF IsExact
<1>6. CASE Valid(row) > K /\ Failed(row)
  <2>1. ~Selects(row) /\ ~(Valid(row) <= K)
    BY <1>1, <1>6 DEF Selects
  <2>2. written[r] = {<<p, -1>> : p \in Place}
    BY <1>4, <2>1 DEF Filler
  <2> QED BY <1>2, <1>6, <2>2
<1>7. CASE Valid(row) > K /\ ~Failed(row)
  <2>1. OutputRight(r)
    BY <1>0, <1>1, <1>7 DEF RowRight, Selects
  <2>2. \A id \in Candidates(row) : WarpOf(id) \in Warp
    BY <1>1, CandidatesAre
  <2>3. Done(r) = Candidates(row)
    BY <1>0, <2>2 DEF Done, HasPlaced
  <2>4. Reserved(r) = Beyond(row)
    BY <1>0, <2>3 DEF Reserved, Beyond
  <2>5. RowOutput(row, written[r], Candidates(row), Cardinality(Beyond(row)), Spans(r))
    BY <1>0, <2>1, <2>3, <2>4 DEF OutputRight
  <2>6. IsExact(row, written[r])
    BY <1>1, <1>7, <2>5, OutputIsExact
  <2> QED BY <1>0, <1>2, <1>7, <2>6
<1> QED BY <1>1, <1>5, <1>6, <1>7

\* The whole invariant, in every state.
THEOREM OutputsAreRight == Spec => []IInv
<1>1. Init => IInv
  BY InitIsRight, RowsRightAtFirst DEF IInv, SyncInv
<1>2. IInv /\ [Next]_vars => IInv'
  BY SyncInvKept, RowsRightKept DEF IInv
<1> QED BY <1>1, <1>2, PTL DEF Spec

\* RowsExact: a row that select_row accepts is the K best of all its positions,
\* whatever was sampled; a row it cannot decide is flagged and holds -1 only.
THEOREM RowsAreExact == Spec => []RowsExact
<1>1. IInv => RowsExact
  BY LeftRowIsExact DEF IInv, RowsExact
<1> QED BY <1>1, OutputsAreRight, PTL
=============================================================================
