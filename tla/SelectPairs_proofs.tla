------------------------- MODULE SelectPairs_proofs -------------------------
(***************************************************************************)
(* select_topk_pairs is exact, for any number of warps, lanes and digits,   *)
(* any radix, any K and any rows one after another on one shared memory; and *)
(* the number of greater pairs is handed off, whether the row can be         *)
(* selected or not.                                                         *)
(*                                                                         *)
(* Two warps are at most one round of __syncthreads apart, and how far they  *)
(* are apart is the difference of their places in the row.  So what shared   *)
(* memory holds can be said by the place of the warp that wrote it.          *)
(***************************************************************************)
EXTENDS SelectPairs, KernelLemmas

---------------------------------------------------------------------------
(* The invariant.                                                           *)

Pcs == {"begin", "copy", "start", "zero", "count", "pick", "take", "clear", "greater",
        "handoff", "total", "emit", "place", "check", "report"}

\* The places a warp comes to when it has waited for a round, and leaves by
\* arriving at the next.
Unwaited == {"zero", "clear", "emit", "place"}

\* The rounds of a row that a warp has arrived at.
RoundsIn(in, m) ==
  LET radix == 3 * (Digits - m.digit)
  IN  CASE m.pc = "begin" -> 0
        [] m.pc \in {"copy", "start"} -> 1
        [] m.pc = "zero"    -> radix - 2
        [] m.pc = "count"   -> radix - 1
        [] m.pc = "pick"    -> radix
        [] m.pc = "take"    -> radix + 1
        [] m.pc = "clear"   -> 3 * Digits + 1
        [] m.pc = "greater" -> 3 * Digits + 2
        [] m.pc = "handoff" -> 3 * Digits + 3
        [] m.pc \in {"total", "emit", "place"} -> 3 * Digits + 4
        [] m.pc = "check"   -> 3 * Digits + 5
        [] m.pc = "report"  -> IF Len(in[m.row]) <= K THEN 2 ELSE 3 * Digits + 6

Stride == NumWarps * Lanes

\* What a warp's registers are, wherever it is.
Stands(in, m) ==
  /\ m \in [pc : Pcs, row : 1 .. Len(in) + 1, digit : 0 .. Digits - 1, rank : Int,
            threshold : Nat, total : Nat, base : Nat, place : Nat]
  /\ m.pc # "begin" => m.row <= Len(in)
  /\ m.pc = "copy" => Len(in[m.row]) <= K
  /\ m.pc \notin {"begin", "copy", "report"} => Len(in[m.row]) > K
  /\ m.base % Stride = 0

\* Warp m is n rounds ahead of warp o.
Ahead(in, m, o, n) ==
  \/ m.row = o.row /\ n = RoundsIn(in, m) - RoundsIn(in, o)
  \/ m.row = o.row + 1 /\ m.pc = "begin" /\ o.pc = "report" /\ n = 1
  \/ o.row = m.row + 1 /\ o.pc = "begin" /\ m.pc = "report" /\ n = -1

\* No warp is more than a round ahead, and none clears or emits before all
\* have arrived.
InStep ==
  /\ rows \in Inputs
  /\ warp = [w \in Warp |-> warp[w]] /\ entered \in [Warp -> Nat]
  /\ \A w \in Warp : Stands(rows, warp[w])
  /\ \A v, w \in Warp : /\ entered[v] <= entered[w] + 1
                        /\ Ahead(rows, warp[v], warp[w], entered[v] - entered[w])
  /\ \A v, w \in Warp :
       warp[w].pc \in Unwaited => entered[v] >= entered[w]

\* The digits of the threshold that are not fixed yet.
Open(m) == IF m.pc \in {"zero", "count", "pick", "take"} THEN m.digit + 1 ELSE 0
Selecting == Pcs \ {"begin", "copy", "start", "report"}

\* In a row all warps have one threshold, but for the byte one has not taken.
Agree ==
  \A v, w \in Warp :
    warp[v].row = warp[w].row /\ warp[v].pc \in Selecting /\ warp[w].pc \in Selecting =>
      /\ Open(warp[v]) = Digits => warp[v].threshold = 0
      /\ Open(warp[v]) = Open(warp[w]) => warp[v].threshold = warp[w].threshold
      /\ Open(warp[v]) + 1 = Open(warp[w]) =>
           warp[v].threshold = warp[w].threshold + shared.byte * Weight[Open(warp[v])]

\* The pairs that count, the key of the K-th of them, and what threshold, rank
\* and a bin must hold when the digits from d on are fixed.
Live(row)  == {i \in DOMAIN row : row[i] # 0}
Selects(row) == Len(row) > K /\ K <= Cardinality(Live(row))
Cut(row)     == CHOOSE t \in 0 .. Weight[Digits] - 1 : CutsAt(Live(row), row, K, t)
ThresholdAt(row, d) == (Cut(row) \div Weight[d]) * Weight[d]
RankAt(row, d)      == K - Cardinality(KeysOf(Live(row), row, Weight[d], Cut(row)))
BucketAt(row, d, b) == BucketOf(Live(row), row, Weight[d], Radix, Cut(row), b)

\* Warp 0 has fixed the digits of the cut, and has left its next one.
CutRight ==
  LET m == warp[0]
      row == rows[m.row]
  IN  m.pc \in Selecting /\ Selects(row) =>
        /\ m.threshold = ThresholdAt(row, Open(m))
        /\ Open(m) > 0 => m.rank = RankAt(row, Open(m))
        /\ m.pc = "take" => /\ shared.byte = DigitOf(Cut(row), m.digit)
                            /\ m.rank - shared.selected = RankAt(row, m.digit)

\* The warp that clears bin x, copies to place x, and reads pair x + 1.
WarpAt(x) == (x \div Lanes) % NumWarps

\* A bin that was cleared for a digit holds what the warps that have counted
\* found of it.
CountedIn(in, m, r, d) == m.row = r /\ RoundsIn(in, m) >= 3 * (Digits - d)
CountedOf(r, d, b) ==
  {i \in BucketAt(rows[r], d, b) : CountedIn(rows, warp[WarpAt(i - 1)], r, d)}
BinsRight ==
  \A b \in Bin :
    LET m == warp[WarpAt(b)]
    IN  m.pc \in {"count", "pick", "take"} /\ Selects(rows[m.row]) =>
          histogram[b] = Cardinality(CountedOf(m.row, m.digit, b))

\* Of a row's pairs, those above a threshold and those at it.
Over(row, t) == {i \in DOMAIN row : row[i] > t}
Ties(row, t) == {i \in Live(row) : row[i] = t}

\* How far a warp has come in placing the pairs of a row, and in reserving for
\* those above the threshold.
Placed(in, m, r) ==
  IF m.row > r \/ (m.row = r /\ m.pc \in {"check", "report"}) THEN Len(in[r])
  ELSE IF m.row = r /\ m.pc \in {"emit", "place"} THEN Lesser(m.base, Len(in[r]))
  ELSE 0
IsPlacing(m, r) == m.row = r /\ m.pc = "place"
Held(in, m, r) ==
  IF IsPlacing(m, r) THEN Lesser(m.base + Stride, Len(in[r])) ELSE Placed(in, m, r)
Done(r)        == {i \in DOMAIN rows[r] : i - 1 < Placed(rows, warp[WarpAt(i - 1)], r)}
Reserved(r, t) == {i \in Over(rows[r], t) : i - 1 < Held(rows, warp[WarpAt(i - 1)], r)}
Pending(r, w, t) ==
  {i \in Over(rows[r], t) : /\ WarpAt(i - 1) = w
                            /\ warp[w].base <= i - 1 /\ i - 1 < warp[w].base + Stride}
Spans(r, t) ==
  [w \in {v \in Warp : IsPlacing(warp[v], r)} |->
     PlacesFrom(warp[w].place, Cardinality(Pending(r, w, t)))]

\* The counters, by the place of warp 0.  The greater pairs are counted after
\* digit 0, as if at a digit -1.
CountedGreater(r, t) == {i \in Over(rows[r], t) : CountedIn(rows, warp[WarpAt(i - 1)], r, -1)}
CountersRight ==
  LET r == warp[0].row
      t == warp[0].threshold
  IN  /\ warp[0].pc \in {"greater", "handoff"} =>
           shared.greater = Cardinality(CountedGreater(r, t)) /\ shared.equal = 0
      /\ warp[0].pc \in {"total", "emit", "place", "check"} =>
           /\ shared.selected = Cardinality(Over(rows[r], t))
           /\ shared.greater = Cardinality(Reserved(r, t))
           /\ shared.equal = Cardinality(Done(r) \cap Ties(rows[r], t))

\* What a warp read of the greater pairs.
TotalsRight ==
  \A w \in Warp : warp[w].pc \in {"emit", "place", "check"} =>
    warp[w].total = Cardinality(Over(rows[warp[w].row], warp[w].threshold))

\* Thread 0 alone sets and reads the error.
Verdict(row) == IF Len(row) > K /\ ~Selects(row) THEN 1 ELSE 0
ErrorsRight ==
  /\ warp[0].pc \notin {"begin", "report"} => shared.error = 0
  /\ warp[0].pc = "report" => shared.error = Verdict(rows[warp[0].row])
  /\ error = [r \in 1 .. Len(rows) |-> IF r < warp[0].row THEN Verdict(rows[r]) ELSE Unset]

\* What a row shows so far.
OutputRight(r) ==
  LET row == rows[r]
      t == Cut(row)
      s == Cardinality(Over(row, t))
  IN  IsOutput(Over(row, t), Ties(row, t), s, K - s, written[r], Done(r),
               Cardinality(Reserved(r, t)), Spans(r, t))
Copied(m, r) == m.row > r \/ (m.row = r /\ m.pc = "report")
CopyRight(r) ==
  written[r] = {<<p, IF p < Len(rows[r]) THEN p + 1 ELSE 0>> :
                  p \in {q \in 0 .. K - 1 : Copied(warp[WarpAt(q)], r)}}
RowsRight ==
  /\ written = [r \in 1 .. Len(rows) |-> written[r]]
  /\ \A r \in 1 .. Len(rows) :
       /\ written[r] \subseteq (0 .. K - 1) \X (0 .. Len(rows[r]))
       /\ Selects(rows[r]) => OutputRight(r)
       /\ Len(rows[r]) <= K => CopyRight(r)

MemoryTyped ==
  /\ shared \in [byte : Bin, selected : Nat, greater : Nat, equal : Nat, error : {0, 1}]
  /\ histogram \in [Bin -> Nat]

IInv ==
  /\ InStep /\ MemoryTyped /\ Agree /\ CutRight /\ BinsRight
  /\ CountersRight /\ TotalsRight /\ ErrorsRight /\ RowsRight

---------------------------------------------------------------------------
(* Rounds.                                                                  *)

IsRow(row) ==
  /\ Len(row) \in Nat /\ DOMAIN row = 1 .. Len(row)
  /\ \A i \in DOMAIN row : row[i] \in Nat /\ row[i] < Weight[Digits]

LEMMA WeightIs ==
  /\ Weight[0] = 1
  /\ \A d \in Nat : Weight[d] \in Nat \ {0} /\ Weight[d + 1] = Radix * Weight[d]
<1>1. Radix \in Nat \ {0}
  BY PairsAssumption
<1>2. Weight = CHOOSE g : g = [d \in Nat |-> IF d = 0 THEN 1 ELSE Radix * g[d - 1]]
  BY DEF Weight
<1> QED BY <1>1, <1>2, PowersOf

LEMMA RowsAre ==
  ASSUME NEW in \in Inputs
  PROVE  Len(in) \in Nat /\ \A r \in 1 .. Len(in) : IsRow(in[r])
<1> DEFINE S == 0 .. Weight[Digits] - 1
<1>1. in \in Seq(Seq(S))
  BY InputsAssumption
<1>2. Weight[Digits] \in Nat \ {0}
  BY PairsAssumption, WeightIs
<1>3. \A x \in S : x \in Nat /\ x < Weight[Digits]
  BY <1>2
<1> HIDE DEF S
<1>4. Len(in) \in Nat /\ \A r \in 1 .. Len(in) : in[r] \in Seq(S)
  BY <1>1
<1>5. \A row \in Seq(S) : Len(row) \in Nat /\ DOMAIN row = 1 .. Len(row) /\ \A i \in DOMAIN row : row[i] \in S
  OBVIOUS
<1> QED BY <1>3, <1>4, <1>5 DEF IsRow

LEMMA WarpZero == 0 \in Warp /\ NumWarps \in Nat \ {0} /\ Digits \in Nat \ {0} /\ K \in Nat \ {0}
BY PairsAssumption DEF Warp

LEMMA RoundsAre ==
  ASSUME NEW in, NEW m, m.digit \in 0 .. Digits - 1
  PROVE  /\ m.pc = "begin" => RoundsIn(in, m) = 0
         /\ m.pc \in {"copy", "start"} => RoundsIn(in, m) = 1
         /\ m.pc = "zero" => RoundsIn(in, m) = 3 * (Digits - m.digit) - 2
         /\ m.pc = "count" => RoundsIn(in, m) = 3 * (Digits - m.digit) - 1
         /\ m.pc = "pick" => RoundsIn(in, m) = 3 * (Digits - m.digit)
         /\ m.pc = "take" => RoundsIn(in, m) = 3 * (Digits - m.digit) + 1
         /\ m.pc = "clear" => RoundsIn(in, m) = 3 * Digits + 1
         /\ m.pc = "greater" => RoundsIn(in, m) = 3 * Digits + 2
         /\ m.pc = "handoff" => RoundsIn(in, m) = 3 * Digits + 3
         /\ m.pc \in {"total", "emit", "place"} => RoundsIn(in, m) = 3 * Digits + 4
         /\ m.pc = "check" => RoundsIn(in, m) = 3 * Digits + 5
         /\ m.pc = "report" => RoundsIn(in, m) = IF Len(in[m.row]) <= K THEN 2 ELSE 3 * Digits + 6
         /\ m.pc \in Pcs => RoundsIn(in, m) \in Nat
<1> PICK D, d, e : D = Digits /\ d = m.digit /\ e = RoundsIn(in, m)
  OBVIOUS
<1>1. D \in Nat \ {0} /\ d \in 0 .. D - 1
  BY WarpZero
<1>2. /\ m.pc = "begin" => e = 0
      /\ m.pc \in {"copy", "start"} => e = 1
      /\ m.pc = "zero" => e = 3 * (D - d) - 2
      /\ m.pc = "count" => e = 3 * (D - d) - 1
      /\ m.pc = "pick" => e = 3 * (D - d)
      /\ m.pc = "take" => e = 3 * (D - d) + 1
      /\ m.pc = "clear" => e = 3 * D + 1
      /\ m.pc = "greater" => e = 3 * D + 2
      /\ m.pc = "handoff" => e = 3 * D + 3
      /\ m.pc \in {"total", "emit", "place"} => e = 3 * D + 4
      /\ m.pc = "check" => e = 3 * D + 5
      /\ m.pc = "report" => e = IF Len(in[m.row]) <= K THEN 2 ELSE 3 * D + 6
  <2>1. e = RoundsIn(in, m) /\ D = Digits /\ d = m.digit
    OBVIOUS
  <2> QED BY ONLY <2>1, Zenon DEF RoundsIn
<1>3. m.pc \in Pcs => e \in Nat
  BY ONLY <1>1, <1>2 DEF Pcs
<1> QED BY <1>2, <1>3

\* Of two places of one row.
Later(in, m, n) == n.row = m.row /\ RoundsIn(in, n) \in {RoundsIn(in, m), RoundsIn(in, m) + 1}
Gone(m, n)      == n.row = m.row + 1 /\ n.pc = "begin" /\ m.pc = "report"

\* Where the others are when a warp passes a round.
LEMMA OthersAre ==
  ASSUME InStep, NEW w \in Warp, Synced(w), NEW v \in Warp
  PROVE  /\ \/ Later(rows, warp[w], warp[v]) /\ RoundsIn(rows, warp[v]) = RoundsIn(rows, warp[w]) + (entered[v] - entered[w])
            \/ Gone(warp[w], warp[v]) /\ entered[v] = entered[w] + 1
         /\ entered[v] - entered[w] \in {0, 1}
<1>1. /\ entered[v] \in Nat /\ entered[w] \in Nat /\ entered[v] <= entered[w] + 1 /\ entered[v] >= entered[w]
      /\ Ahead(rows, warp[v], warp[w], entered[v] - entered[w])
  BY DEF InStep, Synced
<1>2. RoundsIn(rows, warp[v]) \in Nat /\ RoundsIn(rows, warp[w]) \in Nat
  <2>1. Stands(rows, warp[v]) /\ Stands(rows, warp[w])
    BY DEF InStep
  <2> QED BY <2>1, RoundsAre DEF Stands
<1> QED BY <1>1, <1>2 DEF Ahead, Later, Gone

\* A warp that passes a round, or goes on without one.
Syncs(in, m, n) ==
  \/ /\ n.row = m.row /\ m.pc # "report" /\ n.pc \notin {"begin"} \cup Unwaited
     /\ RoundsIn(in, n) = RoundsIn(in, m) + 1
  \/ n.row = m.row + 1 /\ m.pc = "report" /\ n.pc = "begin"
Passes(in, m, n) ==
  /\ n.row = m.row /\ {m.pc, n.pc} \cap {"begin", "report"} = {}
  /\ RoundsIn(in, n) = RoundsIn(in, m)

Moves(w) ==
  /\ warp' = [warp EXCEPT ![w] = warp'[w]] /\ rows' = rows
  /\ Stands(rows, warp'[w]) /\ Synced(w)
  /\ \/ entered' = [entered EXCEPT ![w] = entered[w] + 1] /\ Syncs(rows, warp[w], warp'[w])
     \/ entered' = entered /\ Passes(rows, warp[w], warp'[w])

\* A warp at the last round of a row.
LEMMA LastRound ==
  ASSUME NEW in \in Inputs, NEW m, NEW n, Stands(in, m), Stands(in, n), m.row = n.row,
         m.pc = "report", RoundsIn(in, n) >= RoundsIn(in, m)
  PROVE  n.pc = "report" /\ RoundsIn(in, n) = RoundsIn(in, m)
<1> PICK D, dm, dn : D = Digits /\ dm = m.digit /\ dn = n.digit
  OBVIOUS
<1> PICK rm, rn : rm = RoundsIn(in, m) /\ rn = RoundsIn(in, n)
  OBVIOUS
<1>1. D \in Nat \ {0} /\ dm \in 0 .. D - 1 /\ dn \in 0 .. D - 1 /\ rn >= rm
  BY WarpZero DEF Stands
<1>0. Len(in[n.row]) \in Nat /\ K \in Nat
  <2>1. m.row \in 1 .. Len(in) /\ Len(in) \in Nat
    BY RowsAre DEF Stands
  <2> QED BY <2>1, RowsAre, WarpZero DEF IsRow
<1>2. CASE Len(in[m.row]) <= K
  <2>1. rm = 2
    BY <1>1, <1>2, RoundsAre
  <2>2. n.pc \in {"begin", "copy", "report"}
    <3>1. ~(Len(in[n.row]) > K)
      BY <1>0, <1>2
    <3> QED BY <3>1 DEF Stands
  <2>3. (n.pc = "begin" => rn = 0) /\ (n.pc = "copy" => rn = 1) /\ (n.pc = "report" => rn = 2)
    BY <1>1, <1>2, RoundsAre
  <2> QED BY <1>1, <2>1, <2>2, <2>3
<1>3. CASE ~(Len(in[m.row]) <= K)
  <2>1. rm = 3 * D + 6
    BY <1>1, <1>3, RoundsAre
  <2>2. /\ n.pc \in {"begin", "copy", "start"} => rn \in 0 .. 1
        /\ n.pc \in {"zero", "count", "pick", "take"} => rn <= 3 * (D - dn) + 1
        /\ n.pc \in {"clear", "greater", "handoff", "total", "emit", "place", "check"} =>
             rn <= 3 * D + 5
        /\ n.pc = "report" => rn = 3 * D + 6
        /\ n.pc \in Pcs
    <3>1. n.pc \in Pcs /\ dn = n.digit /\ n.digit \in 0 .. Digits - 1
      BY <1>1 DEF Stands
    <3>2. /\ n.pc = "begin" => rn = 0
          /\ n.pc \in {"copy", "start"} => rn = 1
          /\ n.pc = "zero" => rn = 3 * (D - dn) - 2
          /\ n.pc = "count" => rn = 3 * (D - dn) - 1
          /\ n.pc = "pick" => rn = 3 * (D - dn)
          /\ n.pc = "take" => rn = 3 * (D - dn) + 1
          /\ n.pc = "clear" => rn = 3 * D + 1
          /\ n.pc = "greater" => rn = 3 * D + 2
          /\ n.pc = "handoff" => rn = 3 * D + 3
          /\ n.pc \in {"total", "emit", "place"} => rn = 3 * D + 4
          /\ n.pc = "check" => rn = 3 * D + 5
          /\ n.pc = "report" => rn = 3 * D + 6
      BY <1>3, <3>1, RoundsAre
    <3> QED BY ONLY <1>1, <3>1, <3>2 DEF Pcs
  <2>3. n.pc \in {"begin", "copy", "start"} \/ n.pc \in {"zero", "count", "pick", "take"}
        \/ n.pc \in {"clear", "greater", "handoff", "total", "emit", "place", "check"} \/ n.pc = "report"
    BY <2>2 DEF Pcs
  <2> QED BY <1>1, <2>1, <2>2, <2>3
<1> QED BY <1>2, <1>3

LEMMA InStepKept ==
  ASSUME InStep, NEW w \in Warp, Moves(w)
  PROVE  InStep'
<1> PICK m, n : m = warp[w] /\ n = warp'[w]
  OBVIOUS
<1>1. /\ rows' = rows /\ rows \in Inputs /\ Stands(rows, n) /\ Stands(rows, m)
      /\ warp = [v \in Warp |-> warp[v]] /\ entered \in [Warp -> Nat]
      /\ warp' = [warp EXCEPT ![w] = n]
  BY DEF InStep, Moves
<1>2. /\ warp' = [v \in Warp |-> warp'[v]]
      /\ \A v \in Warp : warp'[v] = IF v = w THEN n ELSE warp[v]
  BY <1>1
<1>3. /\ entered' \in [Warp -> Nat]
      /\ \A v \in Warp : v # w => entered'[v] = entered[v]
      /\ entered'[w] \in {entered[w], entered[w] + 1}
  BY <1>1 DEF Moves
<1>4. \A v \in Warp : Stands(rows', warp'[v])
  BY <1>1, <1>2 DEF InStep
<1>5. ASSUME NEW v \in Warp, v # w
      PROVE  /\ entered'[v] <= entered'[w] + 1 /\ entered'[w] <= entered'[v] + 1
             /\ Ahead(rows, warp[v], n, entered'[v] - entered'[w])
             /\ Ahead(rows, n, warp[v], entered'[w] - entered'[v])
  <2> PICK o, ev, ew, x : o = warp[v] /\ ev = entered[v] /\ ew = entered[w] /\ x = entered'[w]
    OBVIOUS
  <2> PICK ro, rm, rn : ro = RoundsIn(rows, o) /\ rm = RoundsIn(rows, m) /\ rn = RoundsIn(rows, n)
    OBVIOUS
  <2>1. Stands(rows, o)
    BY DEF InStep
  <2>2. ro \in Nat /\ rm \in Nat /\ rn \in Nat
    BY <1>1, <2>1, RoundsAre DEF Stands
  <2>3. /\ ev \in Nat /\ ew \in Nat /\ x \in Nat /\ entered'[v] = ev /\ x \in {ew, ew + 1}
        /\ ev - ew \in {0, 1}
        /\ (o.row = m.row /\ ro = rm + (ev - ew)) \/ (Gone(m, o) /\ ev = ew + 1)
    <3>1. ev \in Nat /\ ew \in Nat /\ entered'[v] = ev /\ x \in {ew, ew + 1}
      BY <1>1, <1>3, <1>5
    <3>2. Synced(w)
      BY DEF Moves
    <3>3. ev - ew \in {0, 1} /\ ((o.row = m.row /\ ro = rm + (ev - ew)) \/ (Gone(m, o) /\ ev = ew + 1))
      BY <3>2, OthersAre DEF Later
    <3> QED BY <3>1, <3>3
  <2>4. m.row \in Nat /\ o.row \in Nat /\ n.row \in Nat
    <3>1. PICK L : L = Len(rows) + 1
      OBVIOUS
    <3>2. L \in Nat /\ \A x1 \in 1 .. L : x1 \in Nat
      BY <1>1, <3>1, RowsAre
    <3>3. m.row \in 1 .. L /\ o.row \in 1 .. L /\ n.row \in 1 .. L
      BY <1>1, <2>1, <3>1 DEF Stands
    <3> QED BY <3>2, <3>3
  <2>5. \/ x = ew + 1 /\ n.row = m.row /\ m.pc # "report" /\ n.pc # "begin" /\ rn = rm + 1
        \/ x = ew + 1 /\ n.row = m.row + 1 /\ m.pc = "report" /\ n.pc = "begin"
        \/ x = ew /\ n.row = m.row /\ {m.pc, n.pc} \cap {"begin", "report"} = {} /\ rn = rm
    <3>1. entered' = [entered EXCEPT ![w] = entered[w] + 1] => x = ew + 1
      BY <1>1
    <3> QED BY <3>1 DEF Moves, Syncs, Passes
  <2>6. ev <= x + 1 /\ x <= ev + 1
    BY <2>3
  <2>7. CASE x = ew + 1 /\ n.row = m.row /\ m.pc # "report" /\ n.pc # "begin" /\ rn = rm + 1
    <3>1. o.row = n.row /\ ro = rn + (ev - x)
      BY <2>2, <2>3, <2>7 DEF Gone
    <3>2. ev - x = ro - rn /\ x - ev = rn - ro
      BY <2>2, <2>3, <3>1
    <3> QED BY <2>3, <2>6, <3>1, <3>2 DEF Ahead
  <2>8. CASE x = ew + 1 /\ n.row = m.row + 1 /\ m.pc = "report" /\ n.pc = "begin"
    <3>1. CASE o.row = m.row /\ ro = rm + (ev - ew)
      <4>1. ro >= rm
        BY <2>2, <2>3, <3>1
      <4>2. o.pc = "report" /\ ro = rm
        BY <1>1, <2>1, <2>8, <3>1, <4>1, LastRound
      <4>3. ev - x = -1 /\ x - ev = 1
        <5>1. ro = rm + (ev - ew) /\ ro = rm /\ x = ew + 1 /\ ev \in Nat /\ ew \in Nat /\ rm \in Nat
          BY <2>2, <2>3, <2>8, <3>1, <4>2
        <5> QED BY ONLY <5>1
      <4>4. n.row = o.row + 1
        BY <2>8, <3>1
      <4> QED BY <2>3, <2>6, <2>8, <4>2, <4>3, <4>4 DEF Ahead
    <3>2. CASE Gone(m, o) /\ ev = ew + 1
      <4>1. rn = 0 /\ ro = 0
        <5>1. n.digit \in 0 .. Digits - 1 /\ o.digit \in 0 .. Digits - 1
          BY <1>1, <2>1 DEF Stands
        <5> QED BY <2>8, <3>2, <5>1, RoundsAre DEF Gone
      <4>2. o.row = n.row /\ ev - x = 0 /\ x - ev = 0
        BY <2>3, <2>8, <3>2 DEF Gone
      <4>3. ev - x = ro - rn /\ x - ev = rn - ro
        BY <4>1, <4>2
      <4> QED BY <2>3, <2>6, <4>2, <4>3 DEF Ahead
    <3> QED BY <2>3, <3>1, <3>2
  <2>9. CASE x = ew /\ n.row = m.row /\ {m.pc, n.pc} \cap {"begin", "report"} = {} /\ rn = rm
    <3>1. m.pc # "report"
      BY <2>9
    <3>2. o.row = n.row /\ ro = rn + (ev - x)
      BY <2>2, <2>3, <2>9, <3>1 DEF Gone
    <3>3. ev - x = ro - rn /\ x - ev = rn - ro
      BY <2>2, <2>3, <3>2
    <3> QED BY <2>3, <2>6, <3>2, <3>3 DEF Ahead
  <2> QED BY <2>5, <2>7, <2>8, <2>9
<1>6. \A v \in Warp : entered'[v] \in Nat /\ entered[v] \in Nat
  BY <1>1, <1>3
<1>7. \A u, v \in Warp : /\ entered'[u] <= entered'[v] + 1
                         /\ Ahead(rows', warp'[u], warp'[v], entered'[u] - entered'[v])
  <2> TAKE u, v \in Warp
  <2>1. CASE u = w /\ v = w
    <3>1. entered'[u] - entered'[v] = 0 /\ RoundsIn(rows, n) - RoundsIn(rows, n) = 0
      <4>1. RoundsIn(rows, n) \in Nat
        BY <1>1, RoundsAre DEF Stands
      <4> QED BY <1>6, <2>1, <4>1
    <3> QED BY <1>1, <1>2, <1>6, <2>1, <3>1 DEF Ahead
  <2>2. CASE u = w /\ v # w
    BY <1>1, <1>2, <1>5, <2>2
  <2>3. CASE u # w /\ v = w
    BY <1>1, <1>2, <1>5, <2>3
  <2>4. CASE u # w /\ v # w
    BY <1>1, <1>2, <1>3, <2>4 DEF InStep
  <2> QED BY <2>1, <2>2, <2>3, <2>4
<1>8. \A u, v \in Warp : warp'[v].pc \in Unwaited => entered'[u] >= entered'[v]
  <2> TAKE u, v \in Warp
  <2> HAVE warp'[v].pc \in Unwaited
  <2>1. CASE v = w
    <3>1. entered[u] >= entered[w]
      BY DEF Moves, Synced
    <3>2. n.pc \in Unwaited
      BY <1>2, <2>1
    <3>3. entered' = entered
      BY <3>2 DEF Moves, Syncs, Unwaited
    <3> QED BY <2>1, <3>1, <3>3
  <2>2. CASE v # w
    <3>1. entered[u] >= entered[v]
      BY <1>2, <2>2 DEF InStep
    <3> QED BY <1>3, <1>6, <2>2, <3>1
  <2> QED BY <2>1, <2>2
<1> QED BY <1>1, <1>2, <1>3, <1>4, <1>7, <1>8 DEF InStep

---------------------------------------------------------------------------
(* Every step moves one warp.                                               *)

LEMMA Becomes ==
  ASSUME InStep, NEW w \in Warp, NEW n, Become(w, n)
  PROVE  /\ warp'[w] = n /\ warp' = [warp EXCEPT ![w] = warp'[w]]
         /\ \A v \in Warp \ {w} : warp'[v] = warp[v]
BY DEF InStep, Become

\* What is known of the warp that moves.
Mover(w) ==
  /\ Stands(rows, warp[w]) /\ warp[w].digit \in 0 .. Digits - 1 /\ warp[w].pc \in Pcs
  /\ warp[w].row \in Nat \ {0} /\ (warp[w].pc # "begin" => warp[w].row \in 1 .. Len(rows))
  /\ (warp[w].row \in 1 .. Len(rows) => Count(w) \in Nat)
  /\ Len(rows) \in Nat /\ K \in Nat /\ Digits \in Nat \ {0}
  /\ (warp[w].pc \in Unwaited => Synced(w))

LEMMA MoverIs ==
  ASSUME InStep, NEW w \in Warp
  PROVE  Mover(w)
<1>1. Stands(rows, warp[w]) /\ rows \in Inputs
  BY DEF InStep
<1>2. Len(rows) \in Nat /\ \A r \in 1 .. Len(rows) : Len(rows[r]) \in Nat
  BY <1>1, RowsAre DEF IsRow
<1>3. K \in Nat /\ Digits \in Nat \ {0}
  BY WarpZero
<1>4. warp[w].row \in 1 .. Len(rows) + 1 /\ warp[w].digit \in 0 .. Digits - 1 /\ warp[w].pc \in Pcs
  BY <1>1 DEF Stands
<1>5. warp[w].row \in Nat \ {0} /\ (warp[w].pc # "begin" => warp[w].row \in 1 .. Len(rows))
  <2>1. warp[w].pc # "begin" => warp[w].row <= Len(rows)
    BY <1>1 DEF Stands
  <2> QED BY <1>2, <1>4, <2>1
<1>6. warp[w].row \in 1 .. Len(rows) => Count(w) \in Nat
  BY <1>2 DEF Count, Row
<1>7. warp[w].pc \in Unwaited => Synced(w)
  BY DEF InStep, Synced
<1> QED BY <1>1, <1>2, <1>3, <1>4, <1>5, <1>6, <1>7 DEF Mover

\* Registers that stand still do elsewhere in the row.
LEMMA GoesOn ==
  ASSUME NEW in, NEW m, Stands(in, m), NEW pc \in Pcs \ {"begin"}, m.row <= Len(in),
         pc = "copy" => Len(in[m.row]) <= K,
         pc \notin {"copy", "report"} => Len(in[m.row]) > K
  PROVE  LET n == [m EXCEPT !.pc = pc]
         IN  /\ Stands(in, n) /\ n.pc = pc
             /\ n.row = m.row /\ n.digit = m.digit /\ n.rank = m.rank /\ n.threshold = m.threshold
             /\ n.total = m.total /\ n.base = m.base /\ n.place = m.place
<1> PICK n : n = [m EXCEPT !.pc = pc]
  OBVIOUS
<1>1. m \in [pc : Pcs, row : 1 .. Len(in) + 1, digit : 0 .. Digits - 1, rank : Int,
             threshold : Nat, total : Nat, base : Nat, place : Nat]
  BY DEF Stands
<1>2. n \in [pc : Pcs, row : 1 .. Len(in) + 1, digit : 0 .. Digits - 1, rank : Int,
             threshold : Nat, total : Nat, base : Nat, place : Nat]
  BY <1>1
<1>3. /\ n.pc = pc /\ n.row = m.row /\ n.digit = m.digit /\ n.rank = m.rank
      /\ n.threshold = m.threshold /\ n.total = m.total /\ n.base = m.base /\ n.place = m.place
  BY <1>1
<1>4. m.base % Stride = 0
  BY DEF Stands
<1>5. Stands(in, n)
  BY <1>2, <1>3, <1>4 DEF Stands
<1> QED BY <1>3, <1>5


LEMMA StrideIs == Stride \in Nat \ {0}
<1>1. NumWarps \in Nat \ {0} /\ Lanes \in Nat \ {0}
  BY PairsAssumption
<1> QED BY <1>1 DEF Stride

LEMMA StrideSteps ==
  ASSUME NEW x \in Nat, NEW s \in Nat \ {0}, x % s = 0
  PROVE  (x + s) % s = 0
<1>1. PICK q : q = x \div s
  OBVIOUS
<1>2. q \in Nat /\ x = q * s + (x % s)
  BY <1>1, DivFloor
<1>3. q + 1 \in Nat /\ x + s = (q + 1) * s + 0 /\ x + s \in Nat
  BY <1>2, Z3
<1>4. PICK y, p : y = x + s /\ p = q + 1
  OBVIOUS
<1>5. y \in Int /\ p \in Int /\ 0 \in 0 .. s - 1 /\ y = p * s + 0
  BY <1>3, <1>4
<1>6. y % s = 0
  BY <1>5, DivUnique
<1> QED BY <1>4, <1>6

LEMMA StepMoves ==
  ASSUME InStep, MemoryTyped, NEW w \in Warp, WarpStep(w)
  PROVE  Moves(w)
<1> PICK m, n : m = warp[w] /\ n = warp'[w]
  OBVIOUS
<1> PICK D, d, rm, rn : D = Digits /\ d = m.digit /\ rm = RoundsIn(rows, m) /\ rn = RoundsIn(rows, n)
  OBVIOUS
<1>1. Mover(w)
  BY MoverIs
<1>2. /\ Stands(rows, m) /\ m.digit \in 0 .. Digits - 1 /\ m.row \in Nat \ {0}
      /\ D \in Nat \ {0} /\ d \in 0 .. D - 1 /\ D = Digits /\ d = m.digit
  BY <1>1 DEF Mover
<1>3. ASSUME NEW x, Become(w, x)
      PROVE  n = x /\ warp' = [warp EXCEPT ![w] = warp'[w]]
  BY <1>3, Becomes

<1>4. CASE Copy(w)
  <2>1. /\ m.pc = "copy" /\ Synced(w) /\ rows' = rows /\ Become(w, [warp[w] EXCEPT !.pc = "report"])
        /\ entered' = [entered EXCEPT ![w] = entered[w] + 1]
    BY <1>4, <1>1 DEF Copy, At, Goto, Sync
  <2>2. n = [m EXCEPT !.pc = "report"] /\ warp' = [warp EXCEPT ![w] = warp'[w]]
    BY <1>3, <2>1
  <2>3. m.row <= Len(rows) /\ Len(rows[m.row]) <= K /\ "report" \in Pcs \ {"begin"}
    BY <1>2, <2>1 DEF Stands, Pcs
  <2>4. Stands(rows, n) /\ n.pc = "report" /\ n.row = m.row /\ n.digit = m.digit
    BY <1>2, <2>2, <2>3, GoesOn
  <2>5. rm = 1
    BY <1>2, <2>1, RoundsAre
  <2>6. rn = 2
    <3>1. Len(rows[n.row]) <= K
      <4>1. Len(rows[m.row]) \in Nat /\ K \in Nat
        BY <1>1, <2>1 DEF Mover, Count, Row
      <4> QED BY <2>3, <2>4, <4>1
    <3> QED BY <1>2, <2>4, <3>1, RoundsAre
  <2>7. rn = rm + 1
    BY ONLY <1>2, <2>5, <2>6
  <2> QED BY <2>1, <2>2, <2>4, <2>7 DEF Moves, Syncs, Unwaited
<1>5. CASE ZeroHistogram(w)
  <2>1. /\ m.pc = "zero" /\ Synced(w) /\ rows' = rows /\ Become(w, [warp[w] EXCEPT !.pc = "count"])
        /\ entered' = [entered EXCEPT ![w] = entered[w] + 1]
    BY <1>5, <1>1 DEF ZeroHistogram, At, Goto, Sync, Mover, Unwaited
  <2>2. n = [m EXCEPT !.pc = "count"] /\ warp' = [warp EXCEPT ![w] = warp'[w]]
    BY <1>3, <2>1
  <2>3. m.row <= Len(rows) /\ Len(rows[m.row]) > K /\ "count" \in Pcs \ {"begin"}
    BY <1>2, <2>1 DEF Stands, Pcs
  <2>4. Stands(rows, n) /\ n.pc = "count" /\ n.row = m.row /\ n.digit = m.digit
    BY <1>2, <2>2, <2>3, GoesOn
  <2>5. rm = 3 * (D - d) - 2
    BY <1>2, <2>1, RoundsAre
  <2>6. rn = 3 * (D - d) - 1
    BY <1>2, <2>4, RoundsAre
  <2>7. rn = rm + 1
    BY ONLY <1>2, <2>5, <2>6
  <2> QED BY <2>1, <2>2, <2>4, <2>7 DEF Moves, Syncs, Unwaited
<1>6. CASE CountDigits(w)
  <2>1. /\ m.pc = "count" /\ Synced(w) /\ rows' = rows /\ Become(w, [warp[w] EXCEPT !.pc = "pick"])
        /\ entered' = [entered EXCEPT ![w] = entered[w] + 1]
    BY <1>6, <1>1 DEF CountDigits, At, Goto, Sync
  <2>2. n = [m EXCEPT !.pc = "pick"] /\ warp' = [warp EXCEPT ![w] = warp'[w]]
    BY <1>3, <2>1
  <2>3. m.row <= Len(rows) /\ Len(rows[m.row]) > K /\ "pick" \in Pcs \ {"begin"}
    BY <1>2, <2>1 DEF Stands, Pcs
  <2>4. Stands(rows, n) /\ n.pc = "pick" /\ n.row = m.row /\ n.digit = m.digit
    BY <1>2, <2>2, <2>3, GoesOn
  <2>5. rm = 3 * (D - d) - 1
    BY <1>2, <2>1, RoundsAre
  <2>6. rn = 3 * (D - d)
    BY <1>2, <2>4, RoundsAre
  <2>7. rn = rm + 1
    BY ONLY <1>2, <2>5, <2>6
  <2> QED BY <2>1, <2>2, <2>4, <2>7 DEF Moves, Syncs, Unwaited
<1>7. CASE PickByte(w)
  <2>1. /\ m.pc = "pick" /\ Synced(w) /\ rows' = rows /\ Become(w, [warp[w] EXCEPT !.pc = "take"])
        /\ entered' = [entered EXCEPT ![w] = entered[w] + 1]
    BY <1>7, <1>1 DEF PickByte, At, Goto, Sync
  <2>2. n = [m EXCEPT !.pc = "take"] /\ warp' = [warp EXCEPT ![w] = warp'[w]]
    BY <1>3, <2>1
  <2>3. m.row <= Len(rows) /\ Len(rows[m.row]) > K /\ "take" \in Pcs \ {"begin"}
    BY <1>2, <2>1 DEF Stands, Pcs
  <2>4. Stands(rows, n) /\ n.pc = "take" /\ n.row = m.row /\ n.digit = m.digit
    BY <1>2, <2>2, <2>3, GoesOn
  <2>5. rm = 3 * (D - d)
    BY <1>2, <2>1, RoundsAre
  <2>6. rn = 3 * (D - d) + 1
    BY <1>2, <2>4, RoundsAre
  <2>7. rn = rm + 1
    BY ONLY <1>2, <2>5, <2>6
  <2> QED BY <2>1, <2>2, <2>4, <2>7 DEF Moves, Syncs, Unwaited
<1>8. CASE ClearCounters(w)
  <2>1. /\ m.pc = "clear" /\ Synced(w) /\ rows' = rows /\ Become(w, [warp[w] EXCEPT !.pc = "greater"])
        /\ entered' = [entered EXCEPT ![w] = entered[w] + 1]
    BY <1>8, <1>1 DEF ClearCounters, At, Goto, Sync, Mover, Unwaited
  <2>2. n = [m EXCEPT !.pc = "greater"] /\ warp' = [warp EXCEPT ![w] = warp'[w]]
    BY <1>3, <2>1
  <2>3. m.row <= Len(rows) /\ Len(rows[m.row]) > K /\ "greater" \in Pcs \ {"begin"}
    BY <1>2, <2>1 DEF Stands, Pcs
  <2>4. Stands(rows, n) /\ n.pc = "greater" /\ n.row = m.row /\ n.digit = m.digit
    BY <1>2, <2>2, <2>3, GoesOn
  <2>5. rm = 3 * D + 1
    BY <1>2, <2>1, RoundsAre
  <2>6. rn = 3 * D + 2
    BY <1>2, <2>4, RoundsAre
  <2>7. rn = rm + 1
    BY ONLY <1>2, <2>5, <2>6
  <2> QED BY <2>1, <2>2, <2>4, <2>7 DEF Moves, Syncs, Unwaited
<1>9. CASE CountGreater(w)
  <2>1. /\ m.pc = "greater" /\ Synced(w) /\ rows' = rows /\ Become(w, [warp[w] EXCEPT !.pc = "handoff"])
        /\ entered' = [entered EXCEPT ![w] = entered[w] + 1]
    BY <1>9, <1>1 DEF CountGreater, At, Goto, Sync
  <2>2. n = [m EXCEPT !.pc = "handoff"] /\ warp' = [warp EXCEPT ![w] = warp'[w]]
    BY <1>3, <2>1
  <2>3. m.row <= Len(rows) /\ Len(rows[m.row]) > K /\ "handoff" \in Pcs \ {"begin"}
    BY <1>2, <2>1 DEF Stands, Pcs
  <2>4. Stands(rows, n) /\ n.pc = "handoff" /\ n.row = m.row /\ n.digit = m.digit
    BY <1>2, <2>2, <2>3, GoesOn
  <2>5. rm = 3 * D + 2
    BY <1>2, <2>1, RoundsAre
  <2>6. rn = 3 * D + 3
    BY <1>2, <2>4, RoundsAre
  <2>7. rn = rm + 1
    BY ONLY <1>2, <2>5, <2>6
  <2> QED BY <2>1, <2>2, <2>4, <2>7 DEF Moves, Syncs, Unwaited
<1>10. CASE HandOff(w)
  <2>1. /\ m.pc = "handoff" /\ Synced(w) /\ rows' = rows /\ Become(w, [warp[w] EXCEPT !.pc = "total"])
        /\ entered' = [entered EXCEPT ![w] = entered[w] + 1]
    BY <1>10, <1>1 DEF HandOff, At, Goto, Sync
  <2>2. n = [m EXCEPT !.pc = "total"] /\ warp' = [warp EXCEPT ![w] = warp'[w]]
    BY <1>3, <2>1
  <2>3. m.row <= Len(rows) /\ Len(rows[m.row]) > K /\ "total" \in Pcs \ {"begin"}
    BY <1>2, <2>1 DEF Stands, Pcs
  <2>4. Stands(rows, n) /\ n.pc = "total" /\ n.row = m.row /\ n.digit = m.digit
    BY <1>2, <2>2, <2>3, GoesOn
  <2>5. rm = 3 * D + 3
    BY <1>2, <2>1, RoundsAre
  <2>6. rn = 3 * D + 4
    BY <1>2, <2>4, RoundsAre
  <2>7. rn = rm + 1
    BY ONLY <1>2, <2>5, <2>6
  <2> QED BY <2>1, <2>2, <2>4, <2>7 DEF Moves, Syncs, Unwaited
<1>11. CASE EndEmission(w)
  <2>1. /\ m.pc = "emit" /\ Synced(w) /\ rows' = rows /\ Become(w, [warp[w] EXCEPT !.pc = "check"])
        /\ entered' = [entered EXCEPT ![w] = entered[w] + 1]
    BY <1>11, <1>1 DEF EndEmission, At, Goto, Sync, Mover, Unwaited
  <2>2. n = [m EXCEPT !.pc = "check"] /\ warp' = [warp EXCEPT ![w] = warp'[w]]
    BY <1>3, <2>1
  <2>3. m.row <= Len(rows) /\ Len(rows[m.row]) > K /\ "check" \in Pcs \ {"begin"}
    BY <1>2, <2>1 DEF Stands, Pcs
  <2>4. Stands(rows, n) /\ n.pc = "check" /\ n.row = m.row /\ n.digit = m.digit
    BY <1>2, <2>2, <2>3, GoesOn
  <2>5. rm = 3 * D + 4
    BY <1>2, <2>1, RoundsAre
  <2>6. rn = 3 * D + 5
    BY <1>2, <2>4, RoundsAre
  <2>7. rn = rm + 1
    BY ONLY <1>2, <2>5, <2>6
  <2> QED BY <2>1, <2>2, <2>4, <2>7 DEF Moves, Syncs, Unwaited
<1>12. CASE CheckCounters(w)
  <2>1. /\ m.pc = "check" /\ Synced(w) /\ rows' = rows /\ Become(w, [warp[w] EXCEPT !.pc = "report"])
        /\ entered' = [entered EXCEPT ![w] = entered[w] + 1]
    BY <1>12, <1>1 DEF CheckCounters, At, Goto, Sync
  <2>2. n = [m EXCEPT !.pc = "report"] /\ warp' = [warp EXCEPT ![w] = warp'[w]]
    BY <1>3, <2>1
  <2>3. m.row <= Len(rows) /\ Len(rows[m.row]) > K /\ "report" \in Pcs \ {"begin"}
    BY <1>2, <2>1 DEF Stands, Pcs
  <2>4. Stands(rows, n) /\ n.pc = "report" /\ n.row = m.row /\ n.digit = m.digit
    BY <1>2, <2>2, <2>3, GoesOn
  <2>5. rm = 3 * D + 5
    BY <1>2, <2>1, RoundsAre
  <2>6. rn = 3 * D + 6
    <3>1. ~(Len(rows[n.row]) <= K)
      <4>1. Len(rows[m.row]) \in Nat /\ K \in Nat
        BY <1>1, <2>1 DEF Mover, Count, Row
      <4> QED BY <2>3, <2>4, <4>1
    <3> QED BY <1>2, <2>4, <3>1, RoundsAre
  <2>7. rn = rm + 1
    BY ONLY <1>2, <2>5, <2>6
  <2> QED BY <2>1, <2>2, <2>4, <2>7 DEF Moves, Syncs, Unwaited
<1>13. CASE Begin(w)
  <2>1. /\ m.pc = "begin" /\ Synced(w) /\ rows' = rows /\ m.row <= Len(rows)
        /\ Become(w, [warp[w] EXCEPT !.pc = IF Count(w) <= K THEN "copy" ELSE "start"])
        /\ entered' = [entered EXCEPT ![w] = entered[w] + 1]
    BY <1>13 DEF Begin, At, Goto, Sync
  <2> PICK pc : pc = IF Count(w) <= K THEN "copy" ELSE "start"
    OBVIOUS
  <2>2. n = [m EXCEPT !.pc = pc] /\ warp' = [warp EXCEPT ![w] = warp'[w]]
    BY <1>3, <2>1
  <2>3. /\ pc \in {"copy", "start"} /\ (pc = "copy" => Len(rows[m.row]) <= K)
        /\ (pc = "start" => Len(rows[m.row]) > K)
    <3>1. Count(w) = Len(rows[m.row]) /\ Count(w) \in Nat /\ K \in Nat
      <4>1. m.row \in 1 .. Len(rows)
        BY <1>1, <1>2, <2>1 DEF Mover
      <4> QED BY <1>1, <4>1 DEF Mover, Count, Row
    <3> QED BY <3>1
  <2>4. Stands(rows, n) /\ n.pc = pc /\ n.row = m.row /\ n.digit = m.digit
    <3>1. pc \in Pcs \ {"begin"} /\ (pc \notin {"copy", "report"} => Len(rows[m.row]) > K)
      BY <2>3 DEF Pcs
    <3> QED BY <1>2, <2>1, <2>2, <2>3, <3>1, GoesOn
  <2>5. rm = 0 /\ rn = 1
    BY <1>2, <2>1, <2>3, <2>4, RoundsAre
  <2>7. rn = rm + 1
    BY ONLY <2>5
  <2> QED BY <2>1, <2>2, <2>3, <2>4, <2>7 DEF Moves, Syncs, Unwaited
<1>t. PICK L : L = Len(rows) /\ L \in Nat
  BY <1>1 DEF Mover
<1>u. /\ m \in [pc : Pcs, row : 1 .. L + 1, digit : 0 .. Digits - 1, rank : Int,
                   threshold : Nat, total : Nat, base : Nat, place : Nat]
      /\ m.base % Stride = 0
  BY <1>2, <1>t DEF Stands
<1>14. CASE Report(w)
  <2>1. /\ m.pc = "report" /\ Synced(w) /\ rows' = rows
        /\ Become(w, [warp[w] EXCEPT !.pc = "begin", !.row = warp[w].row + 1])
        /\ entered' = [entered EXCEPT ![w] = entered[w] + 1]
    BY <1>14 DEF Report, At, NextRow, Sync
  <2>2. n = [m EXCEPT !.pc = "begin", !.row = m.row + 1] /\ warp' = [warp EXCEPT ![w] = warp'[w]]
    BY <1>3, <2>1
  <2>3. m.row + 1 \in 1 .. L + 1
    BY <1>1, <1>t, <2>1 DEF Mover
  <2>4. /\ n \in [pc : Pcs, row : 1 .. L + 1, digit : 0 .. Digits - 1, rank : Int,
                   threshold : Nat, total : Nat, base : Nat, place : Nat]
        /\ n.pc = "begin" /\ n.row = m.row + 1 /\ n.base = m.base
    <3>1. "begin" \in Pcs
      BY DEF Pcs
    <3> QED BY <1>u, <2>2, <2>3, <3>1
  <2>5. Stands(rows, n)
    BY <1>u, <1>t, <2>4 DEF Stands
  <2> QED BY <2>1, <2>2, <2>4, <2>5 DEF Moves, Syncs
<1>15. CASE StartRadix(w)
  <2>1. /\ m.pc = "start" /\ Synced(w) /\ rows' = rows /\ entered' = entered
        /\ Become(w, [warp[w] EXCEPT !.pc = "zero", !.digit = Digits - 1, !.rank = K, !.threshold = 0])
    BY <1>15, <1>1 DEF StartRadix, At
  <2>2. n = [m EXCEPT !.pc = "zero", !.digit = Digits - 1, !.rank = K, !.threshold = 0] /\ warp' = [warp EXCEPT ![w] = warp'[w]]
    BY <1>3, <2>1
  <2>3. /\ m.row <= Len(rows) /\ Len(rows[m.row]) > K
    BY <1>2, <2>1 DEF Stands
  <2>4. /\ n \in [pc : Pcs, row : 1 .. L + 1, digit : 0 .. Digits - 1, rank : Int,
                   threshold : Nat, total : Nat, base : Nat, place : Nat]
        /\ n.pc = "zero" /\ n.row = m.row /\ n.base = m.base /\ n.digit = Digits - 1
        /\ n.digit \in 0 .. Digits - 1 /\ D - (D - 1) = 1
    <3>1. "zero" \in Pcs /\ Digits - 1 \in 0 .. Digits - 1 /\ K \in Int /\ 0 \in Nat /\ D - (D - 1) = 1
      BY <1>1, <1>2 DEF Pcs, Mover
    <3> QED BY <1>u, <2>2, <3>1
  <2>5. Stands(rows, n)
    BY <1>u, <1>t, <2>3, <2>4 DEF Stands
  <2>8. rm = 1
    BY <1>2, <2>1, RoundsAre
  <2>9. rn = 3 * (D - (D - 1)) - 2
    <3>1. n.digit \in 0 .. Digits - 1
      BY <1>2, <2>4
    <3> QED BY <1>2, <2>4, <3>1, RoundsAre
  <2>7. rn = rm
    BY ONLY <1>2, <2>8, <2>9
  <2> QED BY <2>1, <2>2, <2>4, <2>5, <2>7 DEF Moves, Passes
<1>16. CASE ReadTotal(w)
  <2>1. /\ m.pc = "total" /\ Synced(w) /\ rows' = rows /\ entered' = entered
        /\ Become(w, [warp[w] EXCEPT !.total = shared.selected, !.base = 0, !.pc = "emit"])
    BY <1>16, <1>1 DEF ReadTotal, At
  <2>2. n = [m EXCEPT !.total = shared.selected, !.base = 0, !.pc = "emit"] /\ warp' = [warp EXCEPT ![w] = warp'[w]]
    BY <1>3, <2>1
  <2>3. /\ m.row <= Len(rows) /\ Len(rows[m.row]) > K
    BY <1>2, <2>1 DEF Stands
  <2>4. /\ n \in [pc : Pcs, row : 1 .. L + 1, digit : 0 .. Digits - 1, rank : Int,
                   threshold : Nat, total : Nat, base : Nat, place : Nat]
        /\ n.pc = "emit" /\ n.row = m.row /\ n.base = 0 /\ n.digit = m.digit /\ 0 % Stride = 0
    <3>1. "emit" \in Pcs /\ shared.selected \in Nat /\ 0 \in Nat
      BY DEF Pcs, MemoryTyped
    <3>2. 0 % Stride = 0
      <4>1. Stride \in Nat \ {0}
        BY StrideIs
      <4> QED BY <4>1
    <3> QED BY <1>u, <2>2, <3>1, <3>2
  <2>5. Stands(rows, n)
    BY <1>u, <1>t, <2>3, <2>4 DEF Stands
  <2>8. rm = 3 * D + 4
    BY <1>2, <2>1, RoundsAre
  <2>9. rn = 3 * D + 4
    <3>1. n.digit \in 0 .. Digits - 1
      BY <1>2, <2>4
    <3> QED BY <1>2, <2>4, <3>1, RoundsAre
  <2>7. rn = rm
    BY ONLY <1>2, <2>8, <2>9
  <2> QED BY <2>1, <2>2, <2>4, <2>5, <2>7 DEF Moves, Passes
<1>17. CASE ReserveGreater(w)
  <2>1. /\ m.pc = "emit" /\ Synced(w) /\ rows' = rows /\ entered' = entered
        /\ Become(w, [warp[w] EXCEPT !.place = shared.greater, !.pc = "place"])
    BY <1>17, <1>1 DEF ReserveGreater, At, Mover, Unwaited
  <2>2. n = [m EXCEPT !.place = shared.greater, !.pc = "place"] /\ warp' = [warp EXCEPT ![w] = warp'[w]]
    BY <1>3, <2>1
  <2>3. /\ m.row <= Len(rows) /\ Len(rows[m.row]) > K
    BY <1>2, <2>1 DEF Stands
  <2>4. /\ n \in [pc : Pcs, row : 1 .. L + 1, digit : 0 .. Digits - 1, rank : Int,
                   threshold : Nat, total : Nat, base : Nat, place : Nat]
        /\ n.pc = "place" /\ n.row = m.row /\ n.base = m.base /\ n.digit = m.digit
    <3>1. "place" \in Pcs /\ shared.greater \in Nat
      BY DEF Pcs, MemoryTyped
    <3> QED BY <1>u, <2>2, <3>1
  <2>5. Stands(rows, n)
    BY <1>u, <1>t, <2>3, <2>4 DEF Stands
  <2>8. rm = 3 * D + 4
    BY <1>2, <2>1, RoundsAre
  <2>9. rn = 3 * D + 4
    <3>1. n.digit \in 0 .. Digits - 1
      BY <1>2, <2>4
    <3> QED BY <1>2, <2>4, <3>1, RoundsAre
  <2>7. rn = rm
    BY ONLY <1>2, <2>8, <2>9
  <2> QED BY <2>1, <2>2, <2>4, <2>5, <2>7 DEF Moves, Passes
<1>18. CASE PlaceBatch(w)
  <2>1. /\ m.pc = "place" /\ Synced(w) /\ rows' = rows /\ entered' = entered
        /\ Become(w, [warp[w] EXCEPT !.base = warp[w].base + NumWarps * Lanes, !.pc = "emit"])
    BY <1>18, <1>1 DEF PlaceBatch, At, Mover, Unwaited
  <2>2. n = [m EXCEPT !.base = m.base + NumWarps * Lanes, !.pc = "emit"] /\ warp' = [warp EXCEPT ![w] = warp'[w]]
    BY <1>3, <2>1
  <2>3. /\ m.row <= Len(rows) /\ Len(rows[m.row]) > K
    BY <1>2, <2>1 DEF Stands
  <2>4. /\ n \in [pc : Pcs, row : 1 .. L + 1, digit : 0 .. Digits - 1, rank : Int,
                   threshold : Nat, total : Nat, base : Nat, place : Nat]
        /\ n.pc = "emit" /\ n.row = m.row /\ n.base = m.base + Stride /\ n.digit = m.digit
        /\ (m.base + Stride) % Stride = 0
    <3>0. Stride \in Nat \ {0} /\ Stride = NumWarps * Lanes /\ m.base \in Nat
      BY <1>u, StrideIs DEF Stride
    <3>1. "emit" \in Pcs /\ m.base + NumWarps * Lanes \in Nat /\ m.base + NumWarps * Lanes = m.base + Stride
      BY <3>0 DEF Pcs
    <3>2. (m.base + Stride) % Stride = 0
      BY <1>u, <3>0, StrideSteps
    <3> QED BY <1>u, <2>2, <3>1, <3>2
  <2>5. Stands(rows, n)
    BY <1>u, <1>t, <2>3, <2>4 DEF Stands
  <2>8. rm = 3 * D + 4
    BY <1>2, <2>1, RoundsAre
  <2>9. rn = 3 * D + 4
    <3>1. n.digit \in 0 .. Digits - 1
      BY <1>2, <2>4
    <3> QED BY <1>2, <2>4, <3>1, RoundsAre
  <2>7. rn = rm
    BY ONLY <1>2, <2>8, <2>9
  <2> QED BY <2>1, <2>2, <2>4, <2>5, <2>7 DEF Moves, Passes
<1>19. CASE TakeByte(w)
  <2> PICK th, ra, pc, dg : /\ th = m.threshold + shared.byte * Weight[m.digit]
                            /\ ra = m.rank - shared.selected
                            /\ pc = (IF m.digit > 0 THEN "zero" ELSE "clear")
                            /\ dg = (IF m.digit > 0 THEN m.digit - 1 ELSE 0)
    OBVIOUS
  <2>1. /\ m.pc = "take" /\ Synced(w) /\ rows' = rows /\ entered' = entered
        /\ Become(w, [warp[w] EXCEPT !.rank = ra, !.threshold = th, !.pc = pc, !.digit = dg])
    BY <1>19 DEF TakeByte, At
  <2>2. n = [m EXCEPT !.rank = ra, !.threshold = th, !.pc = pc, !.digit = dg] /\ warp' = [warp EXCEPT ![w] = warp'[w]]
    BY <1>3, <2>1
  <2>3. /\ m.row <= Len(rows) /\ Len(rows[m.row]) > K
    BY <1>2, <2>1 DEF Stands
  <2>8. th \in Nat /\ ra \in Int
    <3>1. shared.byte \in Nat /\ shared.selected \in Nat /\ Weight[m.digit] \in Nat
      <4>1. shared.byte \in Bin /\ shared.selected \in Nat /\ Radix \in Nat
        BY PairsAssumption DEF MemoryTyped
      <4>2. m.digit \in Nat
        BY <1>2
      <4> QED BY <4>1, <4>2, WeightIs DEF Bin
    <3>2. m.threshold \in Nat /\ m.rank \in Int
      BY <1>u
    <3>3. PICK x, y : x = shared.byte /\ y = Weight[m.digit]
      OBVIOUS
    <3>4. x * y \in Nat
      BY <3>1, <3>3
    <3> QED BY <3>1, <3>2, <3>3, <3>4
  <2>9. pc \in {"zero", "clear"} /\ dg \in 0 .. D - 1 /\ (pc = "zero" => d > 0 /\ dg = d - 1) /\ (pc = "clear" => d = 0)
    BY <1>2
  <2>4. /\ n \in [pc : Pcs, row : 1 .. L + 1, digit : 0 .. Digits - 1, rank : Int,
                   threshold : Nat, total : Nat, base : Nat, place : Nat]
        /\ n.pc = pc /\ n.row = m.row /\ n.base = m.base /\ n.digit = dg
    <3>1. pc \in Pcs /\ dg \in 0 .. Digits - 1
      BY <1>2, <2>9 DEF Pcs
    <3> QED BY <1>u, <2>2, <2>8, <3>1
  <2>5. Stands(rows, n)
    BY <1>u, <1>t, <2>3, <2>4, <2>9 DEF Stands
  <2>6. rm = 3 * (D - d) + 1
    BY <1>2, <2>1, RoundsAre
  <2>7. (pc = "zero" => rn = 3 * (D - dg) - 2) /\ (pc = "clear" => rn = 3 * D + 1)
    <3>1. n.digit \in 0 .. Digits - 1 /\ n.digit = dg /\ n.pc = pc
      BY <1>2, <2>4, <2>9
    <3>2. CASE pc = "zero"
      <4>1. rn = 3 * (Digits - n.digit) - 2
        BY <3>1, <3>2, RoundsAre
      <4> QED BY <1>2, <3>1, <3>2, <4>1
    <3>3. CASE pc = "clear"
      BY <1>2, <3>1, <3>3, RoundsAre
    <3> QED BY <2>9, <3>2, <3>3
  <2>10. rn = rm
    BY ONLY <1>2, <2>6, <2>7, <2>9
  <2>11. {m.pc, n.pc} \cap {"begin", "report"} = {}
    BY <2>1, <2>4, <2>9
  <2> QED BY <2>1, <2>2, <2>4, <2>5, <2>10, <2>11 DEF Moves, Passes
<1> QED BY <1>4, <1>5, <1>6, <1>7, <1>8, <1>9, <1>10, <1>11, <1>12, <1>13, <1>14, <1>15, <1>16, <1>17, <1>18, <1>19 DEF WarpStep

---------------------------------------------------------------------------
(* The key of the rank.                                                     *)

LEMMA LiveIs ==
  ASSUME NEW row, IsRow(row)
  PROVE  /\ IsFiniteSet(Live(row)) /\ Live(row) \subseteq Nat \ {0} /\ Cardinality(Live(row)) \in Nat
         /\ \A i \in Live(row) : row[i] \in Nat /\ row[i] < Weight[Digits]
<1>1. IsFiniteSet(1 .. Len(row)) /\ 1 .. Len(row) \subseteq Nat \ {0}
  BY IntervalSize DEF IsRow
<1>2. Live(row) \subseteq 1 .. Len(row) /\ Live(row) \subseteq DOMAIN row
  BY DEF Live, IsRow
<1>3. IsFiniteSet(Live(row)) /\ Cardinality(Live(row)) \in Nat
  BY <1>1, <1>2, FS_Subset, FS_CardinalityType
<1> QED BY <1>1, <1>2, <1>3 DEF IsRow

\* What is above a threshold, and at it.
LEMMA PartsAre ==
  ASSUME NEW row, IsRow(row), NEW t \in Nat
  PROVE  /\ Over(row, t) \subseteq Live(row) /\ Ties(row, t) \subseteq Live(row)
         /\ Over(row, t) \cap Ties(row, t) = {}
         /\ IsFiniteSet(Over(row, t)) /\ IsFiniteSet(Ties(row, t))
         /\ Cardinality(Over(row, t)) \in Nat /\ Cardinality(Ties(row, t)) \in Nat
         /\ Cardinality(Over(row, t)) + Cardinality(Ties(row, t)) <= Cardinality(Live(row))
<1> PICK B, T, S : B = Over(row, t) /\ T = Ties(row, t) /\ S = Live(row)
  OBVIOUS
<1>1. B \subseteq S /\ T \subseteq S /\ B \cap T = {}
  <2>1. \A i \in DOMAIN row : row[i] \in Nat
    BY DEF IsRow
  <2> QED BY <2>1 DEF Over, Ties, Live
<1>2. IsFiniteSet(S)
  BY LiveIs
<1>3. IsFiniteSet(B) /\ IsFiniteSet(T) /\ Cardinality(B) \in Nat /\ Cardinality(T) \in Nat
  BY <1>1, <1>2, FS_Subset, FS_CardinalityType
<1>4. Cardinality(B \cup T) = Cardinality(B) + Cardinality(T)
  <2>1. Cardinality(B \cup T) = Cardinality(B) + Cardinality(T) - Cardinality(B \cap T)
    BY <1>3, FS_Union
  <2>2. Cardinality(B \cap T) = 0
    BY <1>1, FS_EmptySet
  <2> QED BY <1>3, <2>1, <2>2
<1>5. Cardinality(B \cup T) <= Cardinality(S)
  BY <1>1, <1>2, FS_Subset
<1> QED BY <1>1, <1>3, <1>4, <1>5

LEMMA CutIs ==
  ASSUME NEW row, IsRow(row), Selects(row)
  PROVE  /\ Cut(row) \in Nat /\ Cut(row) < Weight[Digits]
         /\ CutsAt(Live(row), row, K, Cut(row))
<1> PICK S, n : S = Live(row) /\ n = Weight[Digits]
  OBVIOUS
<1>1. n \in Nat \ {0} /\ K \in Nat \ {0}
  <2>1. Digits \in Nat /\ K \in Nat \ {0}
    BY WarpZero
  <2> QED BY <2>1, WeightIs
<1>2. K <= Cardinality(S)
  BY DEF Selects
<1>3. IsFiniteSet(S) /\ (\A i \in S : row[i] \in Nat) /\ (\A i \in S : row[i] < n)
  BY LiveIs
<1>4. \E t \in Nat : t < n /\ CutsAt(S, row, K, t)
  BY <1>1, <1>2, <1>3, CutExists
<1>5. \E t \in 0 .. n - 1 : CutsAt(S, row, K, t)
  <2>1. PICK t \in Nat : t < n /\ CutsAt(S, row, K, t)
    BY <1>4
  <2>2. t \in 0 .. n - 1
    BY <1>1, <2>1
  <2> QED BY <2>1, <2>2
<1>6. Cut(row) = CHOOSE t \in 0 .. n - 1 : CutsAt(S, row, K, t)
  BY DEF Cut
<1>7. Cut(row) \in 0 .. n - 1 /\ CutsAt(S, row, K, Cut(row))
  BY <1>5, <1>6
<1>8. Cut(row) \in Nat /\ Cut(row) < n
  BY <1>1, <1>7
<1> QED BY <1>7, <1>8

\* Those above the cut are fewer than K, and with those at it there are enough.
LEMMA CutParts ==
  ASSUME NEW row, IsRow(row), Selects(row)
  PROVE  /\ ToPlace(Over(row, Cut(row)), Ties(row, Cut(row)), Cardinality(Over(row, Cut(row))),
                    K - Cardinality(Over(row, Cut(row))))
         /\ Cardinality(Over(row, Cut(row))) < K
         /\ K - Cardinality(Over(row, Cut(row))) <= Cardinality(Ties(row, Cut(row)))
<1> PICK t, B, T, S : t = Cut(row) /\ B = Over(row, t) /\ T = Ties(row, t) /\ S = Live(row)
  OBVIOUS
<1>1. t \in Nat /\ CutsAt(S, row, K, t) /\ K \in Nat
  BY CutIs, WarpZero
<1>2. /\ B \subseteq S /\ T \subseteq S /\ B \cap T = {} /\ IsFiniteSet(B) /\ IsFiniteSet(T)
      /\ Cardinality(B) \in Nat /\ Cardinality(T) \in Nat
  BY <1>1, PartsAre
<1>3. \A i \in S : row[i] \in Nat /\ i \in Nat
  BY LiveIs
<1>4. {i \in S : row[i] > t} = B
  <2>1. \A i : i \in S => i \in DOMAIN row
    BY DEF Live
  <2> QED BY <1>2, <2>1 DEF Over
<1>5. {i \in S : row[i] >= t} = B \cup T
  <2>1. \A i \in S : row[i] >= t <=> row[i] > t \/ row[i] = t
    BY <1>1, <1>3
  <2>2. T = {i \in S : row[i] = t}
    BY DEF Ties
  <2> QED BY <1>4, <2>1, <2>2
<1>6. Cardinality(B \cup T) = Cardinality(B) + Cardinality(T)
  <2>1. Cardinality(B \cup T) = Cardinality(B) + Cardinality(T) - Cardinality(B \cap T)
    BY <1>2, FS_Union
  <2>2. Cardinality(B \cap T) = 0
    BY <1>2, FS_EmptySet
  <2> QED BY <1>2, <2>1, <2>2
<1>7. Cardinality(B) < K /\ Cardinality(B) + Cardinality(T) >= K
  BY <1>1, <1>4, <1>5, <1>6 DEF CutsAt
<1>8. K - Cardinality(B) \in Nat \ {0} /\ K - Cardinality(B) <= Cardinality(T)
  BY <1>1, <1>2, <1>7
<1>9. ToPlace(B, T, Cardinality(B), K - Cardinality(B))
  BY <1>2, <1>3, <1>8 DEF ToPlace
<1> QED BY <1>7, <1>8, <1>9

\* Before the first digit nothing is fixed, after the last the cut is.
LEMMA TopIs ==
  ASSUME NEW row, IsRow(row), Selects(row)
  PROVE  /\ RankAt(row, Digits) = K /\ ThresholdAt(row, Digits) = 0
         /\ ThresholdAt(row, 0) = Cut(row)
<1> PICK n, t, S : n = Weight[Digits] /\ t = Cut(row) /\ S = Live(row)
  OBVIOUS
<1>1. n \in Nat \ {0} /\ K \in Nat /\ t \in Nat /\ t < n
  <2>1. Digits \in Nat /\ K \in Nat
    BY WarpZero
  <2> QED BY <2>1, WeightIs, CutIs
<1>2. ASSUME NEW x \in Nat, x < n PROVE x \div n = 0
  <2>1. x = 0 * n + x /\ x \in 0 .. n - 1
    BY <1>1, <1>2
  <2> QED BY <1>1, <2>1, DivUnique
<1>3. t \div n = 0
  BY <1>1, <1>2
<1>4. \A i \in S : row[i] \div n = 0
  BY <1>2, LiveIs
<1>5. Cardinality(KeysOf(S, row, n, t)) = 0
  <2>1. KeysOf(S, row, n, t) = {}
    BY <1>3, <1>4 DEF KeysOf
  <2> QED BY <2>1, FS_EmptySet
<1>6. (t \div 1) * 1 = t
  <2>1. t \in Int /\ t = t * 1 + 0 /\ 0 \in 0 .. 1 - 1 /\ 1 \in Nat \ {0}
    BY <1>1
  <2>2. t \div 1 = t
    BY ONLY <2>1, DivUnique
  <2> QED BY <1>1, <2>2
<1> QED BY <1>1, <1>3, <1>5, <1>6, WeightIs DEF RankAt, ThresholdAt

\* Fixing one more digit.
LEMMA PrefixIs ==
  ASSUME NEW row, IsRow(row), Selects(row), NEW d \in 0 .. Digits - 1
  PROVE  /\ DigitOf(Cut(row), d) \in Bin
         /\ AboveDigit(ThresholdAt(row, d + 1), d) = Cut(row) \div Weight[d + 1]
         /\ ThresholdAt(row, d + 1) + DigitOf(Cut(row), d) * Weight[d] = ThresholdAt(row, d)
<1> DEFINE t == Cut(row)
           w == Weight[d]
           v == Weight[d + 1]
           p == t \div v
           e == (t \div w) % Radix
<1>1. w \in Nat \ {0} /\ v \in Nat \ {0} /\ v = Radix * w /\ Radix \in Nat \ {0} /\ t \in Nat
  <2>1. d \in Nat /\ Radix \in Nat \ {0} /\ d + 1 \in Nat
    BY PairsAssumption
  <2>2. w \in Nat \ {0} /\ v = Radix * w /\ v \in Nat \ {0}
    BY <2>1, WeightIs
  <2> QED BY <2>1, <2>2, CutIs
<1>2. /\ p \in Nat /\ e \in 0 .. Radix - 1 /\ t \div w \in Nat /\ t \div w = p * Radix + e
  <2> HIDE DEF w, t
  <2> QED BY <1>1, DigitSplits
<1>4. ThresholdAt(row, d + 1) = p * v /\ DigitOf(t, d) = e /\ AboveDigit(ThresholdAt(row, d + 1), d) = (p * v) \div v
  BY DEF ThresholdAt, DigitOf, AboveDigit
<1>5. (p * v) \div v = p
  <2> HIDE DEF p, v
  <2>1. p * v = p * v + 0 /\ p * v \in Int /\ 0 \in 0 .. v - 1
    BY <1>1, <1>2
  <2> QED BY <1>1, <1>2, <2>1, DivUnique
<1>6. p * v + e * w = (t \div w) * w
  <2> DEFINE q == t \div w
  <2>1. q = p * Radix + e
    BY <1>2
  <2> HIDE DEF q, p, e, w, v
  <2> QED BY <1>1, <1>2, <2>1, Z3
<1>8. e \in Bin /\ ThresholdAt(row, d) = (t \div w) * w
  BY <1>2 DEF ThresholdAt, Bin
<1> QED BY <1>4, <1>5, <1>6, <1>8

\* Only the cut's digit holds the rank.
FindsBin(row, d, h) ==
  /\ BinsOfRank(h, RankAt(row, d + 1), Bin) = {DigitOf(Cut(row), d)}
  /\ RankAt(row, d + 1) - CountAbove(h, DigitOf(Cut(row), d)) = RankAt(row, d)

LEMMA BinIsFound ==
  ASSUME NEW row, IsRow(row), Selects(row), NEW d \in 0 .. Digits - 1,
         NEW h, \A b \in Bin : h[b] = Cardinality(BucketAt(row, d, b))
  PROVE  FindsBin(row, d, h)
<1> PICK S, t, w, digit : S = Live(row) /\ t = Cut(row) /\ w = Weight[d] /\ digit = (t \div w) % Radix
  OBVIOUS
<1> PICK before : before = Cardinality(KeysOf(S, row, Radix * w, t))
  OBVIOUS
<1> PICK after : after = Cardinality(KeysOf(S, row, w, t))
  OBVIOUS
<1>1. /\ IsFiniteSet(S) /\ (\A i \in S : row[i] \in Nat) /\ K \in Nat
      /\ t \in Nat /\ CutsAt(S, row, K, t)
  BY LiveIs, CutIs, WarpZero
<1>2. d \in Nat /\ w \in Nat \ {0} /\ Radix \in Nat \ {0} /\ Weight[d + 1] = Radix * w
  <2>1. d \in Nat /\ Radix \in Nat \ {0}
    BY PairsAssumption
  <2> QED BY <2>1, WeightIs
<1>3. \A b \in 0 .. Radix - 1 : h[b] = Cardinality(BucketOf(S, row, w, Radix, t, b))
  BY DEF Bin, BucketAt
<1>4. RankAt(row, d + 1) = K - before /\ RankAt(row, d) = K - after /\ DigitOf(t, d) = digit
  BY <1>2 DEF RankAt, DigitOf
<1>11. after \in Nat
  <2>1. KeysOf(S, row, w, t) \subseteq S
    BY DEF KeysOf
  <2> QED BY <1>1, <2>1, FS_Subset, FS_CardinalityType
<1>5. RankIsAt(S, row, w, Radix, t, K, h)
  BY <1>1, <1>2, <1>3, RankBin
<1>10. /\ before \in Nat /\ digit \in 0 .. Radix - 1
       /\ SumOver(h, digit + 1 .. Radix - 1) = after - before
       /\ \A b \in 0 .. Radix - 1 :
            /\ SumOver(h, b + 1 .. Radix - 1) \in Nat /\ h[b] \in Nat
            /\ SumOver(h, b + 1 .. Radix - 1) < K - before
               /\ K - before <= SumOver(h, b + 1 .. Radix - 1) + h[b]
               <=> b = digit
  BY <1>5 DEF RankIsAt
<1>6. \A b : CountAbove(h, b) = SumOver(h, b + 1 .. Radix - 1)
  BY DEF CountAbove, CountIn, SumOver
<1>7. \A b \in Bin : CountAbove(h, b) < K - before /\ K - before <= CountAbove(h, b) + h[b] <=> b = digit
  BY <1>10, <1>6 DEF Bin
<1>8. BinsOfRank(h, K - before, Bin) = {digit}
  BY <1>10, <1>7 DEF BinsOfRank, Bin
<1>9. CountAbove(h, digit) = after - before
  BY <1>10, <1>6
<1>12. (K - before) - CountAbove(h, digit) = K - after
  BY ONLY <1>1, <1>9, <1>10, <1>11
<1> QED BY <1>4, <1>8, <1>12 DEF FindsBin

---------------------------------------------------------------------------
(* Where the other warps are when one goes on.                              *)

\* Of two warps of a row, of which one is at most a round ahead.
Peers(D, m, o) ==
  /\ m.pc = "start" => \/ o.pc = "start" \/ (o.pc \in {"zero", "count"} /\ o.digit = D - 1)
  /\ m.pc = "zero" => \/ o.pc \in {"zero", "count"} /\ o.digit = m.digit
                      \/ o.pc = "take" /\ o.digit = m.digit + 1
                      \/ o.pc = "start"
  /\ m.pc = "count" => o.pc \in {"count", "pick"} /\ o.digit = m.digit
  /\ m.pc = "pick" => o.pc \in {"pick", "take"} /\ o.digit = m.digit
  /\ m.pc = "take" => \/ o.pc = "take" /\ o.digit = m.digit
                      \/ m.digit > 0 /\ o.pc \in {"zero", "count"} /\ o.digit = m.digit - 1
                      \/ m.digit = 0 /\ o.pc \in {"clear", "greater"}
  /\ m.pc = "clear" => o.pc \in {"take", "clear", "greater"} /\ (o.pc = "take" => o.digit = 0)
  /\ m.pc = "greater" => o.pc \in {"greater", "handoff"}
  /\ m.pc = "handoff" => o.pc \in {"handoff", "total"}
  /\ m.pc \in {"total", "emit", "place"} => o.pc \in {"total", "emit", "place", "check"}
  /\ m.pc = "check" => o.pc \in {"check", "report"}

LEMMA PeersAre ==
  ASSUME InStep, NEW w \in Warp, Synced(w), NEW v \in Warp,
         warp[w].pc \notin {"begin", "copy", "report"}
  PROVE  warp[v].row = warp[w].row /\ Peers(Digits, warp[w], warp[v])
<1> PICK m, o : m = warp[w] /\ o = warp[v]
  OBVIOUS
<1> PICK D, dm, do, rm, ro : /\ D = Digits /\ dm = m.digit /\ do = o.digit
                             /\ rm = RoundsIn(rows, m) /\ ro = RoundsIn(rows, o)
  OBVIOUS
<1>1. Mover(w) /\ Mover(v)
  BY MoverIs
<1>2. /\ D \in Nat \ {0} /\ dm \in 0 .. D - 1 /\ do \in 0 .. D - 1 /\ m.pc \in Pcs /\ o.pc \in Pcs
      /\ dm = m.digit /\ do = o.digit /\ m.pc \notin {"begin", "copy", "report"}
  BY <1>1 DEF Mover
<1>3. PICK a \in {0, 1} : o.row = m.row /\ ro = rm + a /\ (o.pc \in Unwaited => a = 0)
  <2>1. /\ entered[v] - entered[w] \in {0, 1}
        /\ Later(rows, m, o) /\ ro = rm + (entered[v] - entered[w])
    BY OthersAre DEF Gone
  <2>2. o.pc \in Unwaited => entered[v] - entered[w] = 0
    <3>1. entered[v] \in Nat /\ entered[w] \in Nat /\ (o.pc \in Unwaited => entered[w] >= entered[v])
      BY DEF InStep
    <3> QED BY <2>1, <3>1
  <2> QED BY <2>1, <2>2 DEF Later
<1>4. Len(rows[o.row]) > K /\ o.pc # "copy" /\ (o.pc = "report" => ~(Len(rows[o.row]) <= K))
  <2>1. /\ Len(rows[o.row]) \in Nat /\ K \in Nat /\ Len(rows[o.row]) > K
    <3>1. m.row \in 1 .. Len(rows) /\ Count(w) = Len(rows[m.row]) /\ Count(w) \in Nat /\ K \in Nat
      BY <1>1, <1>2 DEF Mover, Count, Row
    <3>2. Len(rows[m.row]) > K
      BY <1>1, <1>2 DEF Mover, Stands
    <3> QED BY <1>3, <3>1, <3>2
  <2>2. o.pc = "copy" => Len(rows[o.row]) <= K
    BY <1>1 DEF Mover, Stands
  <2> QED BY <2>1, <2>2
<1>5. /\ m.pc = "start" => rm = 1
      /\ m.pc = "zero" => rm = 3 * (D - dm) - 2
      /\ m.pc = "count" => rm = 3 * (D - dm) - 1
      /\ m.pc = "pick" => rm = 3 * (D - dm)
      /\ m.pc = "take" => rm = 3 * (D - dm) + 1
      /\ m.pc = "clear" => rm = 3 * D + 1
      /\ m.pc = "greater" => rm = 3 * D + 2
      /\ m.pc = "handoff" => rm = 3 * D + 3
      /\ m.pc \in {"total", "emit", "place"} => rm = 3 * D + 4
      /\ m.pc = "check" => rm = 3 * D + 5
  BY <1>2, RoundsAre
<1>6. /\ o.pc = "begin" => ro = 0
      /\ o.pc = "start" => ro = 1
      /\ o.pc = "zero" => ro = 3 * (D - do) - 2
      /\ o.pc = "count" => ro = 3 * (D - do) - 1
      /\ o.pc = "pick" => ro = 3 * (D - do)
      /\ o.pc = "take" => ro = 3 * (D - do) + 1
      /\ o.pc = "clear" => ro = 3 * D + 1
      /\ o.pc = "greater" => ro = 3 * D + 2
      /\ o.pc = "handoff" => ro = 3 * D + 3
      /\ o.pc \in {"total", "emit", "place"} => ro = 3 * D + 4
      /\ o.pc = "check" => ro = 3 * D + 5
      /\ o.pc = "report" => ro = 3 * D + 6
  BY <1>2, <1>4, RoundsAre
<1>7. ro = rm + a /\ a \in {0, 1} /\ (o.pc \in Unwaited => a = 0) /\ o.pc # "copy"
  BY <1>3, <1>4
<1>8. CASE m.pc = "start"
  <2>1. Peers(D, m, o)
    BY ONLY <1>2, <1>5, <1>6, <1>7, <1>8 DEF Peers, Pcs, Unwaited
  <2> QED BY <1>3, <2>1
<1>9. CASE m.pc = "zero"
  <2>1. Peers(D, m, o)
    BY ONLY <1>2, <1>5, <1>6, <1>7, <1>9 DEF Peers, Pcs, Unwaited
  <2> QED BY <1>3, <2>1
<1>10. CASE m.pc = "count"
  <2>1. Peers(D, m, o)
    BY ONLY <1>2, <1>5, <1>6, <1>7, <1>10 DEF Peers, Pcs, Unwaited
  <2> QED BY <1>3, <2>1
<1>11. CASE m.pc = "pick"
  <2>1. Peers(D, m, o)
    BY ONLY <1>2, <1>5, <1>6, <1>7, <1>11 DEF Peers, Pcs, Unwaited
  <2> QED BY <1>3, <2>1
<1>12. CASE m.pc = "take"
  <2>1. Peers(D, m, o)
    BY ONLY <1>2, <1>5, <1>6, <1>7, <1>12 DEF Peers, Pcs, Unwaited
  <2> QED BY <1>3, <2>1
<1>13. CASE m.pc = "clear"
  <2>1. Peers(D, m, o)
    BY ONLY <1>2, <1>5, <1>6, <1>7, <1>13 DEF Peers, Pcs, Unwaited
  <2> QED BY <1>3, <2>1
<1>14. CASE m.pc = "greater"
  <2>1. Peers(D, m, o)
    BY ONLY <1>2, <1>5, <1>6, <1>7, <1>14 DEF Peers, Pcs, Unwaited
  <2> QED BY <1>3, <2>1
<1>15. CASE m.pc = "handoff"
  <2>1. Peers(D, m, o)
    BY ONLY <1>2, <1>5, <1>6, <1>7, <1>15 DEF Peers, Pcs, Unwaited
  <2> QED BY <1>3, <2>1
<1>16. CASE m.pc = "total"
  <2>1. Peers(D, m, o)
    BY ONLY <1>2, <1>5, <1>6, <1>7, <1>16 DEF Peers, Pcs, Unwaited
  <2> QED BY <1>3, <2>1
<1>17. CASE m.pc = "emit"
  <2>1. Peers(D, m, o)
    BY ONLY <1>2, <1>5, <1>6, <1>7, <1>17 DEF Peers, Pcs, Unwaited
  <2> QED BY <1>3, <2>1
<1>18. CASE m.pc = "place"
  <2>1. Peers(D, m, o)
    BY ONLY <1>2, <1>5, <1>6, <1>7, <1>18 DEF Peers, Pcs, Unwaited
  <2> QED BY <1>3, <2>1
<1>19. CASE m.pc = "check"
  <2>1. Peers(D, m, o)
    BY ONLY <1>2, <1>5, <1>6, <1>7, <1>19 DEF Peers, Pcs, Unwaited
  <2> QED BY <1>3, <2>1
<1> QED BY <1>2, <1>8, <1>9, <1>10, <1>11, <1>12, <1>13, <1>14, <1>15, <1>16, <1>17, <1>18, <1>19 DEF Pcs

---------------------------------------------------------------------------
(* What shared memory holds.                                                *)

\* Any pairs of a row.
LEMMA PairsAreFinite ==
  ASSUME InStep, NEW r \in 1 .. Len(rows), NEW A, A \subseteq DOMAIN rows[r]
  PROVE  IsFiniteSet(A) /\ Cardinality(A) \in Nat
<1>1. IsRow(rows[r])
  BY RowsAre DEF InStep
<1>2. IsFiniteSet(1 .. Len(rows[r])) /\ A \subseteq 1 .. Len(rows[r])
  BY <1>1, IntervalSize DEF IsRow
<1> QED BY <1>2, FS_Subset, FS_CardinalityType

LEMMA MineIs ==
  ASSUME InStep, NEW w \in Warp, warp[w].pc # "begin"
  PROVE  /\ warp[w].row \in 1 .. Len(rows) /\ IsRow(rows[warp[w].row]) /\ Row(w) = rows[warp[w].row]
         /\ Count(w) = Len(rows[warp[w].row]) /\ DOMAIN rows[warp[w].row] = 1 .. Count(w)
         /\ Mine(w) = {i \in DOMAIN rows[warp[w].row] : WarpAt(i - 1) = w}
<1>1. warp[w].row \in 1 .. Len(rows) /\ rows \in Inputs
  BY MoverIs DEF Mover, InStep
<1>2. IsRow(rows[warp[w].row])
  BY <1>1, RowsAre
<1> QED BY <1>1, <1>2 DEF Mine, Count, Row, WarpAt, IsRow

LEMMA MemoryTypedKept ==
  ASSUME InStep, MemoryTyped, NEW w \in Warp, WarpStep(w)
  PROVE  MemoryTyped'
<1>1. /\ shared \in [byte : Bin, selected : Nat, greater : Nat, equal : Nat, error : {0, 1}]
      /\ histogram \in [Bin -> Nat]
  BY DEF MemoryTyped
<1>2. ASSUME warp[w].pc # "begin", NEW A, A \subseteq DOMAIN rows[warp[w].row] PROVE Cardinality(A) \in Nat
  BY <1>2, MineIs, PairsAreFinite
<1>3. CASE UNCHANGED <<shared, histogram>>
  BY <1>1, <1>3 DEF MemoryTyped
<1>4. ASSUME NEW x \in Nat, shared' = [shared EXCEPT !.greater = x], UNCHANGED histogram
      PROVE  MemoryTyped'
  BY <1>1, <1>4 DEF MemoryTyped
<1>5. ASSUME NEW x \in Nat, shared' = [shared EXCEPT !.equal = x], UNCHANGED histogram
      PROVE  MemoryTyped'
  BY <1>1, <1>5 DEF MemoryTyped
<1>6. ASSUME NEW x \in {0, 1}, shared' = [shared EXCEPT !.error = x], UNCHANGED histogram
      PROVE  MemoryTyped'
  BY <1>1, <1>6 DEF MemoryTyped
<1>7. CASE Begin(w)
  BY <1>3, <1>6, <1>7 DEF Begin
<1>8. CASE Copy(w) \/ StartRadix(w) \/ TakeByte(w) \/ ReadTotal(w) \/ EndEmission(w) \/ Report(w)
  BY <1>3, <1>8 DEF Copy, StartRadix, TakeByte, ReadTotal, EndEmission, Report
<1>9. CASE ZeroHistogram(w)
  <2>1. histogram' \in [Bin -> Nat] /\ shared' = shared
    BY <1>1, <1>9 DEF ZeroHistogram
  <2> QED BY <1>1, <2>1 DEF MemoryTyped
<1>10. CASE CountDigits(w)
  <2> DEFINE d == warp[w].digit
             active == {i \in Mine(w) : /\ Row(w)[i] # 0
                                        /\ AboveDigit(Row(w)[i], d) = AboveDigit(warp[w].threshold, d)}
             found(b) == {i \in active : DigitOf(Row(w)[i], d) = b}
  <2>1. warp[w].pc = "count" /\ shared' = shared
        /\ histogram' = [b \in Bin |-> histogram[b] + Cardinality(found(b))]
    BY <1>10 DEF CountDigits, At
  <2>2. \A b \in Bin : found(b) \subseteq DOMAIN rows[warp[w].row]
    BY <2>1, MineIs
  <2> HIDE DEF found
  <2>3. \A b \in Bin : Cardinality(found(b)) \in Nat /\ histogram[b] \in Nat
    BY <1>1, <1>2, <2>1, <2>2
  <2>4. histogram' \in [Bin -> Nat]
    BY <2>1, <2>3
  <2> QED BY <1>1, <2>1, <2>4 DEF MemoryTyped
<1>11. CASE PickByte(w)
  <2>1. CASE UNCHANGED shared
    BY <1>3, <1>11, <2>1 DEF PickByte
  <2>2. CASE ~(UNCHANGED shared)
    <3>1. PICK b \in RankBins(warp[w].rank) : shared' = [shared EXCEPT !.byte = b, !.selected = Greater(b)]
      BY <1>11, <2>2 DEF PickByte
    <3>2. b \in Bin /\ Greater(b) \in Nat
      <4>1. b \in Bin
        BY DEF RankBins, BinsOfRank
      <4>2. Greater(b) \in Nat
        <5>1. Greater(b) = SumOver(histogram, b + 1 .. Radix - 1)
          BY DEF Greater, CountAbove, CountIn, SumOver
        <5>2. Radix \in Nat /\ b \in 0 .. Radix - 1
          BY <4>1, PairsAssumption DEF Bin
        <5>3. /\ IsFiniteSet(b + 1 .. Radix - 1)
              /\ \A x \in b + 1 .. Radix - 1 : histogram[x] \in Nat
          <6>1. PICK c : c = b + 1
            OBVIOUS
          <6>2. c .. Radix - 1 \subseteq Bin
            BY <5>2, <6>1 DEF Bin
          <6>3. IsFiniteSet(Bin)
            BY <5>2, IntervalSize DEF Bin
          <6> QED BY <1>1, <6>1, <6>2, <6>3, FS_Subset
        <5> QED BY <5>1, <5>3, SumIsNat
      <4> QED BY <4>1, <4>2
    <3> QED BY <1>1, <1>11, <3>1, <3>2 DEF MemoryTyped, PickByte
  <2> QED BY <2>1, <2>2
<1>12. CASE ClearCounters(w)
  <2>1. CASE w = 0
    <3>1. shared' = [shared EXCEPT !.greater = 0, !.equal = 0] /\ UNCHANGED histogram
      BY <1>12, <2>1 DEF ClearCounters
    <3> QED BY <1>1, <3>1 DEF MemoryTyped
  <2> QED BY <1>3, <1>12, <2>1 DEF ClearCounters
<1>13. CASE CountGreater(w)
  <2> DEFINE A == {i \in Mine(w) : Row(w)[i] > warp[w].threshold}
  <2>1. /\ warp[w].pc = "greater" /\ UNCHANGED histogram
        /\ shared' = [shared EXCEPT !.greater = shared.greater + Cardinality(A)]
    BY <1>13 DEF CountGreater, At
  <2>2. A \subseteq DOMAIN rows[warp[w].row]
    BY <2>1, MineIs
  <2> HIDE DEF A
  <2>3. shared.greater + Cardinality(A) \in Nat
    BY <1>1, <1>2, <2>1, <2>2
  <2> QED BY <1>4, <2>1, <2>3
<1>14. CASE HandOff(w)
  <2>1. CASE w = 0
    <3>1. shared' = [shared EXCEPT !.selected = shared.greater, !.greater = 0] /\ UNCHANGED histogram
      BY <1>14, <2>1 DEF HandOff
    <3> QED BY <1>1, <3>1 DEF MemoryTyped
  <2> QED BY <1>3, <1>14, <2>1 DEF HandOff
<1>15. CASE ReserveGreater(w)
  <2>1. /\ warp[w].pc = "emit" /\ UNCHANGED histogram
        /\ shared' = [shared EXCEPT !.greater = shared.greater + Cardinality(Above(w))]
    BY <1>15 DEF ReserveGreater
  <2>2. Above(w) \subseteq DOMAIN rows[warp[w].row]
    BY <2>1, MineIs DEF Above, BatchAt
  <2>3. shared.greater + Cardinality(Above(w)) \in Nat
    BY <1>1, <1>2, <2>1, <2>2
  <2> QED BY <1>4, <2>1, <2>3
<1>16. CASE PlaceBatch(w)
  <2>1. /\ warp[w].pc = "place" /\ UNCHANGED histogram
        /\ shared' = [shared EXCEPT !.equal = shared.equal + Cardinality(Level(w))]
    BY <1>16 DEF PlaceBatch
  <2>2. Level(w) \subseteq DOMAIN rows[warp[w].row]
    BY <2>1, MineIs DEF Level, BatchAt
  <2>3. shared.equal + Cardinality(Level(w)) \in Nat
    BY <1>1, <1>2, <2>1, <2>2
  <2> QED BY <1>5, <2>1, <2>3
<1>17. CASE CheckCounters(w)
  BY <1>3, <1>6, <1>17 DEF CheckCounters
<1> QED BY <1>7, <1>8, <1>9, <1>10, <1>11, <1>12, <1>13, <1>14, <1>15, <1>16, <1>17 DEF WarpStep

---------------------------------------------------------------------------
(* The thresholds.                                                          *)

\* What a step leaves of a warp's registers.
Still(m, n) ==
  /\ n.row = m.row /\ n.digit = m.digit /\ n.rank = m.rank /\ n.threshold = m.threshold
  /\ n.total = m.total /\ n.base = m.base /\ n.place = m.place

LEMMA RegistersAre ==
  ASSUME InStep, NEW w \in Warp
  PROVE  warp[w] \in [pc : Pcs, row : 1 .. Len(rows) + 1, digit : 0 .. Digits - 1, rank : Int,
                      threshold : Nat, total : Nat, base : Nat, place : Nat]
BY DEF InStep, Stands

LEMMA GotoIs ==
  ASSUME InStep, NEW w \in Warp, NEW pc, Goto(w, pc)
  PROVE  /\ warp'[w].pc = pc /\ Still(warp[w], warp'[w])
         /\ \A v \in Warp \ {w} : warp'[v] = warp[v]
<1>1. warp'[w] = [warp[w] EXCEPT !.pc = pc] /\ \A v \in Warp \ {w} : warp'[v] = warp[v]
  BY Becomes DEF Goto
<1> QED BY <1>1, RegistersAre DEF Still

LEMMA NextRowIs ==
  ASSUME InStep, NEW w \in Warp, NextRow(w)
  PROVE  /\ warp'[w].pc = "begin" /\ warp'[w].row = warp[w].row + 1
         /\ \A v \in Warp \ {w} : warp'[v] = warp[v]
<1>1. warp'[w] = [warp[w] EXCEPT !.pc = "begin", !.row = warp[w].row + 1]
      /\ \A v \in Warp \ {w} : warp'[v] = warp[v]
  BY Becomes DEF NextRow
<1> QED BY <1>1, RegistersAre

LEMMA StartIs ==
  ASSUME InStep, NEW w \in Warp, StartRadix(w)
  PROVE  /\ warp[w].pc = "start" /\ warp'[w].pc = "zero" /\ warp'[w].row = warp[w].row
         /\ warp'[w].digit = Digits - 1 /\ warp'[w].rank = K /\ warp'[w].threshold = 0
         /\ warp'[w].base = warp[w].base
         /\ \A v \in Warp \ {w} : warp'[v] = warp[v]
<1>1. /\ warp'[w] = [warp[w] EXCEPT !.pc = "zero", !.digit = Digits - 1, !.rank = K, !.threshold = 0]
      /\ warp[w].pc = "start" /\ \A v \in Warp \ {w} : warp'[v] = warp[v]
  BY Becomes DEF StartRadix, At
<1> QED BY <1>1, RegistersAre

LEMMA TakeIs ==
  ASSUME InStep, NEW w \in Warp, TakeByte(w)
  PROVE  /\ warp[w].pc = "take" /\ warp'[w].row = warp[w].row
         /\ warp'[w].rank = warp[w].rank - shared.selected
         /\ warp'[w].threshold = warp[w].threshold + shared.byte * Weight[warp[w].digit]
         /\ warp'[w].base = warp[w].base
         /\ \/ warp[w].digit > 0 /\ warp'[w].pc = "zero" /\ warp'[w].digit = warp[w].digit - 1
            \/ warp[w].digit = 0 /\ warp'[w].pc = "clear" /\ warp'[w].digit = 0
         /\ \A v \in Warp \ {w} : warp'[v] = warp[v]
<1> PICK th, ra, pc, dg : /\ th = warp[w].threshold + shared.byte * Weight[warp[w].digit]
                          /\ ra = warp[w].rank - shared.selected
                          /\ pc = (IF warp[w].digit > 0 THEN "zero" ELSE "clear")
                          /\ dg = (IF warp[w].digit > 0 THEN warp[w].digit - 1 ELSE 0)
  OBVIOUS
<1>1. /\ warp[w].pc = "take"
      /\ Become(w, [warp[w] EXCEPT !.rank = ra, !.threshold = th, !.pc = pc, !.digit = dg])
  BY DEF TakeByte, At
<1>2. /\ warp'[w] = [warp[w] EXCEPT !.rank = ra, !.threshold = th, !.pc = pc, !.digit = dg]
      /\ \A v \in Warp \ {w} : warp'[v] = warp[v]
  BY <1>1, Becomes
<1>3. warp'[w].rank = ra /\ warp'[w].threshold = th /\ warp'[w].pc = pc /\ warp'[w].digit = dg
      /\ warp'[w].row = warp[w].row /\ warp'[w].base = warp[w].base
  BY <1>2, RegistersAre
<1>4. (warp[w].digit > 0 /\ pc = "zero" /\ dg = warp[w].digit - 1) \/ (warp[w].digit = 0 /\ pc = "clear" /\ dg = 0)
  <2>1. warp[w].digit \in 0 .. Digits - 1 /\ Digits \in Nat
    BY RegistersAre, WarpZero
  <2> QED BY <2>1
<1> QED BY <1>1, <1>2, <1>3, <1>4

LEMMA ReadIs ==
  ASSUME InStep, NEW w \in Warp, ReadTotal(w)
  PROVE  /\ warp[w].pc = "total" /\ warp'[w].pc = "emit" /\ warp'[w].row = warp[w].row
         /\ warp'[w].digit = warp[w].digit /\ warp'[w].rank = warp[w].rank
         /\ warp'[w].threshold = warp[w].threshold
         /\ warp'[w].total = shared.selected /\ warp'[w].base = 0
         /\ \A v \in Warp \ {w} : warp'[v] = warp[v]
<1>1. /\ warp'[w] = [warp[w] EXCEPT !.total = shared.selected, !.base = 0, !.pc = "emit"]
      /\ warp[w].pc = "total" /\ \A v \in Warp \ {w} : warp'[v] = warp[v]
  BY Becomes DEF ReadTotal, At
<1> QED BY <1>1, RegistersAre

LEMMA ReserveIs ==
  ASSUME InStep, NEW w \in Warp, ReserveGreater(w)
  PROVE  /\ warp[w].pc = "emit" /\ warp'[w].pc = "place" /\ warp'[w].row = warp[w].row
         /\ warp'[w].digit = warp[w].digit /\ warp'[w].rank = warp[w].rank
         /\ warp'[w].threshold = warp[w].threshold /\ warp'[w].total = warp[w].total
         /\ warp'[w].base = warp[w].base /\ warp'[w].place = shared.greater
         /\ \A v \in Warp \ {w} : warp'[v] = warp[v]
<1>1. /\ warp'[w] = [warp[w] EXCEPT !.place = shared.greater, !.pc = "place"]
      /\ warp[w].pc = "emit" /\ \A v \in Warp \ {w} : warp'[v] = warp[v]
  BY Becomes DEF ReserveGreater
<1> QED BY <1>1, RegistersAre

LEMMA PlaceIs ==
  ASSUME InStep, NEW w \in Warp, PlaceBatch(w)
  PROVE  /\ warp[w].pc = "place" /\ warp'[w].pc = "emit" /\ warp'[w].row = warp[w].row
         /\ warp'[w].digit = warp[w].digit /\ warp'[w].rank = warp[w].rank
         /\ warp'[w].threshold = warp[w].threshold /\ warp'[w].total = warp[w].total
         /\ warp'[w].base = warp[w].base + Stride
         /\ \A v \in Warp \ {w} : warp'[v] = warp[v]
<1>1. /\ warp'[w] = [warp[w] EXCEPT !.base = warp[w].base + NumWarps * Lanes, !.pc = "emit"]
      /\ warp[w].pc = "place" /\ \A v \in Warp \ {w} : warp'[v] = warp[v]
  BY Becomes DEF PlaceBatch
<1> QED BY <1>1, RegistersAre DEF Stride

\* The steps that only go on in the row.
Onward(m, n) ==
  /\ Still(m, n)
  /\ \/ m.pc = "begin" /\ n.pc \in {"copy", "start"}
     \/ m.pc = "copy" /\ n.pc = "report"
     \/ m.pc = "zero" /\ n.pc = "count"
     \/ m.pc = "count" /\ n.pc = "pick"
     \/ m.pc = "pick" /\ n.pc = "take"
     \/ m.pc = "clear" /\ n.pc = "greater"
     \/ m.pc = "greater" /\ n.pc = "handoff"
     \/ m.pc = "handoff" /\ n.pc = "total"
     \/ m.pc = "emit" /\ n.pc = "check" /\ m.base >= Len(rows[m.row])
     \/ m.pc = "check" /\ n.pc = "report"

LEMMA OnwardIs ==
  ASSUME InStep, NEW w \in Warp,
         \/ Begin(w) \/ Copy(w) \/ ZeroHistogram(w) \/ CountDigits(w) \/ PickByte(w)
         \/ ClearCounters(w) \/ CountGreater(w) \/ HandOff(w) \/ EndEmission(w) \/ CheckCounters(w)
  PROVE  Onward(warp[w], warp'[w]) /\ \A v \in Warp \ {w} : warp'[v] = warp[v]
<1>1. CASE Begin(w)
  <2>1. warp[w].pc = "begin" /\ (Goto(w, "copy") \/ Goto(w, "start"))
    BY <1>1 DEF Begin, At
  <2> QED BY <2>1, GotoIs DEF Onward
<1>2. CASE Copy(w)
  BY <1>2, GotoIs DEF Onward, Copy, At
<1>3. CASE ZeroHistogram(w)
  BY <1>3, GotoIs DEF Onward, ZeroHistogram
<1>4. CASE CountDigits(w)
  BY <1>4, GotoIs DEF Onward, CountDigits, At
<1>5. CASE PickByte(w)
  BY <1>5, GotoIs DEF Onward, PickByte, At
<1>6. CASE ClearCounters(w)
  BY <1>6, GotoIs DEF Onward, ClearCounters
<1>7. CASE CountGreater(w)
  BY <1>7, GotoIs DEF Onward, CountGreater, At
<1>8. CASE HandOff(w)
  BY <1>8, GotoIs DEF Onward, HandOff, At
<1>9. CASE EndEmission(w)
  BY <1>9, GotoIs DEF Onward, EndEmission, Count, Row
<1>10. CASE CheckCounters(w)
  BY <1>10, GotoIs DEF Onward, CheckCounters, At
<1> QED BY <1>1, <1>2, <1>3, <1>4, <1>5, <1>6, <1>7, <1>8, <1>9, <1>10

\* Agree, of two warps.
Accord(m, o, byte) ==
  o.row = m.row /\ o.pc \in Selecting /\ m.pc \in Selecting =>
    /\ Open(o) = Digits => o.threshold = 0
    /\ Open(o) = Open(m) => o.threshold = m.threshold
    /\ Open(o) + 1 = Open(m) => o.threshold = m.threshold + byte * Weight[Open(o)]

LEMMA OpenIs ==
  ASSUME NEW m, m.digit \in 0 .. Digits - 1
  PROVE  /\ Open(m) \in Nat
         /\ m.pc \in {"zero", "count", "pick", "take"} => Open(m) = m.digit + 1
         /\ m.pc \notin {"zero", "count", "pick", "take"} => Open(m) = 0
<1>1. Digits \in Nat
  BY WarpZero
<1> QED BY <1>1 DEF Open

\* A warp that only goes on is for the others what it was.
LEMMA OnwardAgrees ==
  ASSUME NEW m, NEW n, Onward(m, n), n.pc \in Selecting
  PROVE  m.pc \in Selecting /\ Open(n) = Open(m)
<1>1. CASE n.pc \in {"count", "pick", "take"}
  BY <1>1 DEF Onward, Still, Open, Selecting, Pcs
<1>2. CASE n.pc \in {"greater", "handoff", "total", "check"}
  BY <1>2 DEF Onward, Still, Open, Selecting, Pcs
<1>3. n.pc \in {"count", "pick", "take"} \/ n.pc \in {"greater", "handoff", "total", "check"}
  BY DEF Onward, Selecting, Pcs
<1> QED BY <1>1, <1>2, <1>3

LEMMA AgreeKept ==
  ASSUME InStep, MemoryTyped, Agree, NEW w \in Warp, WarpStep(w)
  PROVE  Agree'
<1> PICK D : D = Digits
  OBVIOUS
<1> PICK m, n : m = warp[w] /\ n = warp'[w]
  OBVIOUS
<1> PICK byte : byte = shared.byte
  OBVIOUS
<1>1. /\ D \in Nat \ {0} /\ \A v \in Warp : warp[v].digit \in 0 .. Digits - 1
      /\ m.digit \in 0 .. Digits - 1
  BY WarpZero, RegistersAre
<1>2. \A u, v \in Warp : Accord(warp[u], warp[v], byte)
  BY DEF Agree, Accord
<1>3. Moves(w)
  BY StepMoves
<1>4. n.digit \in 0 .. Digits - 1
  BY <1>3 DEF Moves, Stands
<1>5. ASSUME shared'.byte = byte, \A v \in Warp \ {w} : warp'[v] = warp[v],
             Accord(n, n, byte),
             \A v \in Warp \ {w} : Accord(n, warp[v], byte) /\ Accord(warp[v], n, byte)
      PROVE  Agree'
  <2>1. \A u, v \in Warp : Accord(warp'[u], warp'[v], byte)
    <3> TAKE u, v \in Warp
    <3>1. CASE u = w /\ v = w
      BY <1>5, <3>1
    <3>2. CASE u = w /\ v # w
      BY <1>5, <3>2
    <3>3. CASE u # w /\ v = w
      BY <1>5, <3>3
    <3>4. CASE u # w /\ v # w
      BY <1>2, <1>5, <3>4
    <3> QED BY <3>1, <3>2, <3>3, <3>4
  <2>2. \A u, v \in Warp : Accord(warp'[u], warp'[v], shared'.byte)
    BY <1>5, <2>1
  <2> QED BY <2>2 DEF Agree, Accord, Open
<1>6. ASSUME \/ Begin(w) \/ Copy(w) \/ ZeroHistogram(w) \/ CountDigits(w) \/ PickByte(w)
             \/ ClearCounters(w) \/ CountGreater(w) \/ HandOff(w) \/ EndEmission(w) \/ CheckCounters(w),
             shared'.byte = byte
      PROVE  Agree'
  <2>1. Onward(m, n) /\ \A v \in Warp \ {w} : warp'[v] = warp[v]
    BY <1>6, OnwardIs
  <2>2. n.pc \in Selecting => m.pc \in Selecting /\ Open(n) = Open(m)
    BY <2>1, OnwardAgrees
  <2>3. n.threshold = m.threshold /\ n.row = m.row
    BY <2>1 DEF Onward, Still
  <2>4. \A o : Accord(m, o, byte) => Accord(n, o, byte)
    BY <2>2, <2>3 DEF Accord
  <2>5. \A o : Accord(o, m, byte) => Accord(o, n, byte)
    BY <2>2, <2>3 DEF Accord
  <2>6. Accord(n, n, byte)
    <3>1. Accord(m, m, byte)
      BY <1>2
    <3> QED BY <2>4, <2>5, <3>1
  <2> QED BY <1>2, <1>5, <1>6, <2>1, <2>4, <2>5, <2>6
<1>7. ASSUME \/ ReserveGreater(w) \/ PlaceBatch(w) \/ ReadTotal(w) \/ Report(w)
      PROVE  Agree'
  <2>1. shared'.byte = byte
    BY <1>7 DEF ReserveGreater, PlaceBatch, ReadTotal, Report, MemoryTyped
  <2>2. /\ n.pc \in Selecting => /\ m.pc \in Selecting /\ Open(n) = Open(m)
                                 /\ n.threshold = m.threshold /\ n.row = m.row
        /\ \A v \in Warp \ {w} : warp'[v] = warp[v]
    <3>1. CASE ReserveGreater(w)
      BY <3>1, ReserveIs DEF Open, Selecting, Pcs
    <3>2. CASE PlaceBatch(w)
      BY <3>2, PlaceIs DEF Open, Selecting, Pcs
    <3>3. CASE ReadTotal(w)
      BY <3>3, ReadIs DEF Open, Selecting, Pcs
    <3>4. CASE Report(w)
      <4>1. NextRow(w)
        BY <3>4 DEF Report
      <4> QED BY <4>1, NextRowIs DEF Selecting
    <3> QED BY <1>7, <3>1, <3>2, <3>3, <3>4
  <2>4. \A o : Accord(m, o, byte) => Accord(n, o, byte)
    BY <2>2 DEF Accord
  <2>5. \A o : Accord(o, m, byte) => Accord(o, n, byte)
    BY <2>2 DEF Accord
  <2>6. Accord(n, n, byte)
    <3>1. Accord(m, m, byte)
      BY <1>2
    <3> QED BY <2>4, <2>5, <3>1
  <2> QED BY <1>2, <1>5, <2>1, <2>2, <2>4, <2>5, <2>6
<1>8. CASE StartRadix(w)
  <2>1. /\ n.pc = "zero" /\ n.digit = D - 1 /\ n.threshold = 0 /\ n.row = m.row /\ m.pc = "start"
        /\ \A v \in Warp \ {w} : warp'[v] = warp[v]
    BY <1>8, StartIs
  <2>2. Open(n) = D
    <3>1. Open(n) = n.digit + 1
      BY <1>4, <2>1, OpenIs
    <3> QED BY <1>1, <2>1, <3>1
  <2>3. Accord(n, n, byte)
    BY <1>1, <2>1, <2>2 DEF Accord
  <2>4. ASSUME NEW v \in Warp \ {w}
        PROVE  Accord(n, warp[v], byte) /\ Accord(warp[v], n, byte)
    <3> PICK o : o = warp[v]
      OBVIOUS
    <3>1. Synced(w)
      BY <1>8 DEF StartRadix, At
    <3>2. o.row = m.row /\ Peers(Digits, m, o)
      BY <2>1, <3>1, PeersAre
    <3>3. o.pc \in Selecting => Open(o) = D
      <4>1. o.pc \in Selecting => o.pc \in {"zero", "count"} /\ o.digit = D - 1
        BY <2>1, <3>2 DEF Peers, Selecting
      <4>2. o.pc \in Selecting => Open(o) = o.digit + 1
        BY <1>1, <4>1, OpenIs
      <4> QED BY <1>1, <4>1, <4>2
    <3>4. o.pc \in Selecting => o.threshold = 0
      <4>1. Accord(o, o, byte)
        BY <1>2
      <4> QED BY <3>3, <4>1 DEF Accord
    <3> QED BY <1>1, <2>1, <2>2, <3>3, <3>4 DEF Accord
  <2>5. shared'.byte = byte
    BY <1>8 DEF StartRadix
  <2> QED BY <1>5, <2>1, <2>3, <2>4, <2>5
<1>9. CASE TakeByte(w)
  <2> PICK d : d = m.digit
    OBVIOUS
  <2>1. /\ m.pc = "take" /\ n.row = m.row
        /\ n.threshold = m.threshold + byte * Weight[d]
        /\ \/ d > 0 /\ n.pc = "zero" /\ n.digit = d - 1
           \/ d = 0 /\ n.pc = "clear"
        /\ \A v \in Warp \ {w} : warp'[v] = warp[v]
    BY <1>9, TakeIs
  <2>2. Open(m) = d + 1 /\ Open(n) = d /\ d \in 0 .. D - 1
    <3>1. Open(m) = d + 1 /\ d \in 0 .. D - 1
      BY <1>1, <2>1, OpenIs
    <3>2. n.pc = "zero" => Open(n) = n.digit + 1
      BY <1>4, OpenIs
    <3>3. n.pc = "clear" => Open(n) = 0
      BY <1>4, OpenIs
    <3> QED BY <1>1, <2>1, <3>1, <3>2, <3>3
  <2>3. Accord(n, n, byte)
    BY <1>1, <2>2 DEF Accord
  <2>4. ASSUME NEW v \in Warp \ {w}
        PROVE  Accord(n, warp[v], byte) /\ Accord(warp[v], n, byte)
    <3> PICK o : o = warp[v]
      OBVIOUS
    <3>1. Synced(w)
      BY <1>9 DEF TakeByte, At
    <3>2. o.row = m.row /\ Peers(Digits, m, o)
      BY <2>1, <3>1, PeersAre
    <3>3. Accord(o, o, byte) /\ Accord(m, o, byte) /\ Accord(o, m, byte) /\ m.pc \in Selecting
      BY <1>2, <2>1 DEF Selecting, Pcs
    <3>4. CASE o.pc = "take" /\ o.digit = d
      <4>1. Open(o) = d + 1
        BY <1>1, <3>4, OpenIs
      <4>2. o.threshold = m.threshold /\ (Open(o) = D => o.threshold = 0)
        BY <2>2, <3>2, <3>3, <3>4, <4>1 DEF Accord, Selecting, Pcs
      <4> QED BY <1>1, <2>1, <2>2, <4>1, <4>2 DEF Accord
    <3>5. CASE \/ d > 0 /\ o.pc \in {"zero", "count"} /\ o.digit = d - 1
               \/ d = 0 /\ o.pc \in {"clear", "greater"}
      <4>1. Open(o) = d
        <5>1. o.pc \in {"zero", "count"} => Open(o) = o.digit + 1
          BY <1>1, OpenIs
        <5>2. o.pc \in {"clear", "greater"} => Open(o) = 0
          BY <1>1, OpenIs
        <5> QED BY <1>1, <2>2, <3>5, <5>1, <5>2
      <4>2. o.threshold = m.threshold + byte * Weight[d]
        BY <2>2, <3>2, <3>3, <3>5, <4>1 DEF Accord, Selecting, Pcs
      <4>3. o.threshold = n.threshold
        BY <2>1, <4>2
      <4> QED BY <1>1, <2>2, <4>1, <4>3 DEF Accord
    <3> QED BY <2>1, <3>2, <3>4, <3>5 DEF Peers
  <2>5. shared'.byte = byte
    BY <1>9 DEF TakeByte
  <2> QED BY <1>5, <2>1, <2>3, <2>4, <2>5
<1>10. CASE PickByte(w)
  <2>1. Onward(m, n) /\ (\A v \in Warp \ {w} : warp'[v] = warp[v]) /\ m.pc = "pick" /\ Synced(w)
    BY <1>10, OnwardIs DEF PickByte, At
  <2>2. \A v \in Warp : warp[v].pc \in {"pick", "take"} /\ warp[v].digit = m.digit
    BY <2>1, PeersAre DEF Peers
  <2>3. \A v \in Warp : warp'[v].pc \in {"pick", "take"} /\ warp'[v].digit = m.digit
                        /\ warp'[v].threshold = warp[v].threshold /\ warp'[v].row = warp[v].row
    BY <2>1, <2>2 DEF Onward, Still
  <2>4. \A v \in Warp : Open(warp[v]) = m.digit + 1 /\ Open(warp'[v]) = m.digit + 1
    BY <2>2, <2>3 DEF Open
  <2>5. \A v \in Warp : warp[v].pc \in Selecting
    BY <2>2 DEF Selecting, Pcs
  <2>6. \A u, v \in Warp : Accord(warp'[u], warp'[v], shared'.byte)
    <3> TAKE u, v \in Warp
    <3>1. Accord(warp[u], warp[v], byte)
      BY <1>2
    <3>2. m.digit + 1 + 1 # m.digit + 1
      BY <1>1
    <3> QED BY <2>3, <2>4, <2>5, <3>1, <3>2 DEF Accord
  <2> QED BY <2>6 DEF Agree, Accord, Open
<1>11. CASE \/ Begin(w) \/ Copy(w) \/ ZeroHistogram(w) \/ CountDigits(w)
            \/ ClearCounters(w) \/ CountGreater(w) \/ HandOff(w) \/ EndEmission(w) \/ CheckCounters(w)
  <2>1. shared'.byte = byte
    BY <1>11 DEF Begin, Copy, ZeroHistogram, CountDigits, ClearCounters, CountGreater, HandOff, EndEmission,
                 CheckCounters, MemoryTyped
  <2> QED BY <1>6, <1>11, <2>1
<1> QED BY <1>7, <1>8, <1>9, <1>10, <1>11 DEF WarpStep

---------------------------------------------------------------------------
(* The cut.                                                                 *)

LEMMA WarpAtIs ==
  ASSUME NEW x \in Nat
  PROVE  WarpAt(x) \in Warp
<1>1. PICK L, N, q : L = Lanes /\ N = NumWarps /\ q = x \div L
  OBVIOUS
<1>2. L \in Nat \ {0} /\ N \in Nat \ {0}
  BY <1>1, PairsAssumption
<1>3. q \in Nat
  BY <1>1, <1>2, DivFloor
<1>4. q % N \in 0 .. N - 1
  BY <1>2, <1>3, DivFloor
<1> QED BY <1>1, <1>4 DEF WarpAt, Warp

\* The pairs of a row are read by warps.
LEMMA ReaderIs ==
  ASSUME InStep, NEW r \in 1 .. Len(rows), NEW i \in DOMAIN rows[r]
  PROVE  i \in Nat \ {0} /\ i - 1 \in Nat /\ i <= Len(rows[r]) /\ WarpAt(i - 1) \in Warp
<1>1. i \in 1 .. Len(rows[r]) /\ Len(rows[r]) \in Nat
  BY RowsAre DEF InStep, IsRow
<1>2. i - 1 \in Nat
  BY <1>1
<1> QED BY <1>1, <1>2, WarpAtIs

\* Only warp 0 keeps a byte, a count or an error.
LEMMA OthersLeave ==
  ASSUME MemoryTyped, NEW w \in Warp, w # 0, WarpStep(w)
  PROVE  /\ shared'.byte = shared.byte /\ shared'.selected = shared.selected
         /\ shared'.error = shared.error /\ error' = error
<1>1. CASE Begin(w) \/ Copy(w) \/ StartRadix(w) \/ ZeroHistogram(w) \/ CountDigits(w) \/ PickByte(w) \/ TakeByte(w)
  BY <1>1 DEF Begin, Copy, StartRadix, ZeroHistogram, CountDigits, PickByte, TakeByte
<1>2. CASE ClearCounters(w) \/ HandOff(w) \/ ReadTotal(w) \/ EndEmission(w) \/ CheckCounters(w) \/ Report(w)
  BY <1>2 DEF ClearCounters, HandOff, ReadTotal, EndEmission, CheckCounters, Report
<1>3. CASE CountGreater(w)
  BY <1>3 DEF CountGreater, MemoryTyped
<1>4. CASE ReserveGreater(w)
  BY <1>4 DEF ReserveGreater, MemoryTyped
<1>5. CASE PlaceBatch(w)
  BY <1>5 DEF PlaceBatch, MemoryTyped
<1> QED BY <1>1, <1>2, <1>3, <1>4, <1>5 DEF WarpStep

LEMMA OthersStay ==
  ASSUME InStep, MemoryTyped, NEW w \in Warp, WarpStep(w)
  PROVE  rows' = rows /\ \A v \in Warp \ {w} : warp'[v] = warp[v]
<1>1. warp' = [warp EXCEPT ![w] = warp'[w]] /\ warp = [v \in Warp |-> warp[v]] /\ rows' = rows
  BY StepMoves DEF Moves, InStep
<1> QED BY <1>1

\* CutRight, of warp 0's registers.
Aims(m, row, byte, selected) ==
  m.pc \in Selecting /\ Selects(row) =>
    /\ m.threshold = ThresholdAt(row, Open(m))
    /\ Open(m) > 0 => m.rank = RankAt(row, Open(m))
    /\ m.pc = "take" => byte = DigitOf(Cut(row), m.digit) /\ m.rank - selected = RankAt(row, m.digit)

LEMMA AimsIs == CutRight <=> Aims(warp[0], rows[warp[0].row], shared.byte, shared.selected)
BY DEF CutRight, Aims

\* All have counted a digit when one looks for its bin.
LEMMA AllCounted ==
  ASSUME InStep, BinsRight, NEW w \in Warp, warp[w].pc = "pick", Synced(w),
         Selects(rows[warp[w].row])
  PROVE  \A b \in Bin : histogram[b] = Cardinality(BucketAt(rows[warp[w].row], warp[w].digit, b))
<1> TAKE b \in Bin
<1> PICK m, r, d : m = warp[w] /\ r = m.row /\ d = m.digit
  OBVIOUS
<1>1. \A v \in Warp : warp[v].row = r /\ warp[v].pc \in {"pick", "take"} /\ warp[v].digit = d
  BY PeersAre DEF Peers
<1>2. b \in Nat /\ WarpAt(b) \in Warp
  <2>1. b \in Nat
    BY PairsAssumption DEF Bin
  <2> QED BY <2>1, WarpAtIs
<1>3. histogram[b] = Cardinality(CountedOf(r, d, b))
  BY <1>1, <1>2 DEF BinsRight
<1>4. \A v \in Warp : CountedIn(rows, warp[v], r, d)
  <2> TAKE v \in Warp
  <2>1. warp[v].digit \in 0 .. Digits - 1 /\ Digits \in Nat
    BY RegistersAre, WarpZero
  <2>2. /\ warp[v].pc = "pick" => RoundsIn(rows, warp[v]) = 3 * (Digits - warp[v].digit)
        /\ warp[v].pc = "take" => RoundsIn(rows, warp[v]) = 3 * (Digits - warp[v].digit) + 1
    BY <2>1, RoundsAre
  <2>3. PICK D, e : D = Digits /\ e = warp[v].digit
    OBVIOUS
  <2>4. 3 * (D - e) >= 3 * (D - e) /\ 3 * (D - e) + 1 >= 3 * (D - e)
    BY <2>1, <2>3
  <2>5. RoundsIn(rows, warp[v]) >= 3 * (Digits - d)
    BY <1>1, <2>2, <2>3, <2>4
  <2> QED BY <1>1, <2>5 DEF CountedIn
<1>5. r \in 1 .. Len(rows)
  BY MineIs
<1>6. BucketAt(rows[r], d, b) \subseteq DOMAIN rows[r]
  BY DEF BucketAt, BucketOf, Live
<1>7. \A i \in BucketAt(rows[r], d, b) : WarpAt(i - 1) \in Warp
  BY <1>5, <1>6, ReaderIs
<1>8. CountedOf(r, d, b) = BucketAt(rows[r], d, b)
  BY <1>4, <1>7 DEF CountedOf
<1> QED BY <1>3, <1>8

LEMMA CutRightKept ==
  ASSUME InStep, MemoryTyped, CutRight, BinsRight, NEW w \in Warp, WarpStep(w)
  PROVE  CutRight'
<1> PICK m, n, row : m = warp[0] /\ n = warp'[0] /\ row = rows[m.row]
  OBVIOUS
<1> PICK byte, selected : byte = shared.byte /\ selected = shared.selected
  OBVIOUS
<1>0. /\ 0 \in Warp /\ Digits \in Nat \ {0} /\ m.digit \in 0 .. Digits - 1
  BY WarpZero, RegistersAre
<1>1. Aims(m, row, byte, selected) /\ rows' = rows
  BY StepMoves, AimsIs DEF Moves
<1>2. ASSUME Aims(n, rows[n.row], shared'.byte, shared'.selected)
      PROVE  CutRight'
  BY <1>1, <1>2 DEF CutRight, Aims, Open
<1>3. CASE w # 0
  <2>1. n = m
    BY <1>0, <1>3, OthersStay
  <2>2. shared'.byte = byte /\ shared'.selected = selected
    BY <1>3, OthersLeave
  <2> QED BY <1>1, <1>2, <2>1, <2>2
<1>4. CASE w = 0
  <2>1. m.pc # "begin" => m.row \in 1 .. Len(rows) /\ IsRow(row)
    BY <1>0, MineIs
  <2>2. ASSUME n.pc \in Selecting => /\ m.pc \in Selecting /\ Open(n) = Open(m) /\ n.row = m.row
                                     /\ n.threshold = m.threshold /\ n.rank = m.rank,
               n.pc # "take"
        PROVE  CutRight'
    BY <1>1, <1>2, <2>2 DEF Aims
  <2>3. CASE \/ Begin(0) \/ Copy(0) \/ ZeroHistogram(0) \/ CountDigits(0)
             \/ ClearCounters(0) \/ CountGreater(0) \/ HandOff(0) \/ EndEmission(0) \/ CheckCounters(0)
    <3>1. Onward(m, n)
      BY <1>0, <2>3, OnwardIs
    <3>2. n.pc \in Selecting => m.pc \in Selecting /\ Open(n) = Open(m)
      BY <3>1, OnwardAgrees
    <3>3. m.pc # "pick"
      BY <2>3 DEF Begin, Copy, ZeroHistogram, CountDigits, ClearCounters, CountGreater, HandOff, EndEmission, CheckCounters, At
    <3> QED BY <2>2, <3>1, <3>2, <3>3 DEF Onward, Still
  <2>4. CASE ReserveGreater(0)
    BY <1>0, <2>2, <2>4, ReserveIs DEF Open, Selecting, Pcs
  <2>5. CASE PlaceBatch(0)
    BY <1>0, <2>2, <2>5, PlaceIs DEF Open, Selecting, Pcs
  <2>6. CASE ReadTotal(0)
    BY <1>0, <2>2, <2>6, ReadIs DEF Open, Selecting, Pcs
  <2>7. CASE Report(0)
    <3>1. NextRow(0)
      BY <2>7 DEF Report
    <3> QED BY <1>0, <2>2, <3>1, NextRowIs DEF Selecting
  <2>8. CASE StartRadix(0)
    <3>1. n.pc = "zero" /\ n.digit = Digits - 1 /\ n.threshold = 0 /\ n.rank = K /\ n.row = m.row /\ m.pc = "start"
      BY <1>0, <2>8, StartIs
    <3>2. Open(n) = Digits
      BY <1>0, <3>1 DEF Open
    <3>3. Selects(row) => RankAt(row, Digits) = K /\ ThresholdAt(row, Digits) = 0
      BY <2>1, <3>1, TopIs
    <3>4. Aims(n, rows[n.row], shared'.byte, shared'.selected)
      BY <3>1, <3>2, <3>3 DEF Aims
    <3> QED BY <1>2, <3>4
  <2>9. CASE TakeByte(0)
    <3> PICK d : d = m.digit
      OBVIOUS
    <3>1. /\ m.pc = "take" /\ n.row = m.row /\ n.rank = m.rank - selected
          /\ n.threshold = m.threshold + byte * Weight[d]
          /\ \/ d > 0 /\ n.pc = "zero" /\ n.digit = d - 1
             \/ d = 0 /\ n.pc = "clear"
      BY <1>0, <2>9, TakeIs
    <3>2. Open(n) = d /\ Open(m) = d + 1
      <4>1. Open(m) = d + 1
        BY <3>1 DEF Open
      <4>2. n.pc = "zero" => Open(n) = (d - 1) + 1
        BY <3>1 DEF Open
      <4>3. n.pc = "clear" => Open(n) = 0
        BY DEF Open
      <4> QED BY <1>0, <3>1, <4>1, <4>2, <4>3
    <3>3. ASSUME Selects(row)
          PROVE  n.threshold = ThresholdAt(row, d) /\ n.rank = RankAt(row, d)
      <4>1. /\ m.threshold = ThresholdAt(row, d + 1) /\ byte = DigitOf(Cut(row), d)
            /\ m.rank - selected = RankAt(row, d)
        BY <1>1, <3>1, <3>2, <3>3 DEF Aims, Selecting, Pcs
      <4>2. IsRow(row) /\ d \in 0 .. Digits - 1
        BY <1>0, <2>1, <3>1
      <4>3. ThresholdAt(row, d + 1) + DigitOf(Cut(row), d) * Weight[d] = ThresholdAt(row, d)
        BY <3>3, <4>2, PrefixIs
      <4> QED BY <3>1, <4>1, <4>3
    <3>4. n.pc # "take"
      BY <3>1
    <3>5. Aims(n, rows[n.row], shared'.byte, shared'.selected)
      BY <3>1, <3>2, <3>3, <3>4 DEF Aims
    <3> QED BY <1>2, <3>5
  <2>10. CASE PickByte(0)
    <3> PICK d : d = m.digit
      OBVIOUS
    <3>1. Onward(m, n) /\ m.pc = "pick" /\ Synced(0) /\ n.pc = "take"
      BY <1>0, <2>10, OnwardIs DEF PickByte, At, Onward
    <3>2. /\ n.threshold = m.threshold /\ n.rank = m.rank /\ n.digit = d /\ n.row = m.row
          /\ Open(n) = d + 1 /\ Open(m) = d + 1 /\ d + 1 > 0
      BY <1>0, <3>1 DEF Onward, Still, Open
    <3>3. ASSUME Selects(row)
          PROVE  /\ m.threshold = ThresholdAt(row, d + 1) /\ m.rank = RankAt(row, d + 1)
                 /\ shared'.byte = DigitOf(Cut(row), d) /\ m.rank - shared'.selected = RankAt(row, d)
      <4>1. m.threshold = ThresholdAt(row, d + 1) /\ m.rank = RankAt(row, d + 1)
        BY <1>1, <3>1, <3>2, <3>3 DEF Aims, Selecting, Pcs
      <4>2. IsRow(row) /\ d \in 0 .. Digits - 1
        BY <1>0, <2>1, <3>1
      <4>3. \A b \in Bin : histogram[b] = Cardinality(BucketAt(row, d, b))
        BY <1>0, <3>1, <3>3, AllCounted
      <4>4. FindsBin(row, d, histogram)
        BY <3>3, <4>2, <4>3, BinIsFound
      <4>5. /\ RankBins(m.rank) = {DigitOf(Cut(row), d)}
            /\ m.rank - Greater(DigitOf(Cut(row), d)) = RankAt(row, d)
        BY <4>1, <4>4 DEF FindsBin, RankBins, Greater
      <4>6. PICK b \in RankBins(m.rank) : shared' = [shared EXCEPT !.byte = b, !.selected = Greater(b)]
        BY <2>10, <4>5 DEF PickByte
      <4>7. shared'.byte = b /\ shared'.selected = Greater(b) /\ b = DigitOf(Cut(row), d)
        BY <4>5, <4>6 DEF MemoryTyped
      <4> QED BY <4>1, <4>5, <4>7
    <3>4. Aims(n, rows[n.row], shared'.byte, shared'.selected)
      BY <3>2, <3>3 DEF Aims
    <3> QED BY <1>2, <3>4
  <2> QED BY <1>4, <2>3, <2>4, <2>5, <2>6, <2>7, <2>8, <2>9, <2>10 DEF WarpStep
<1> QED BY <1>3, <1>4

---------------------------------------------------------------------------
(* The bins.                                                                *)

\* What the warps, as they are in wp, have counted of a bin.
CountedBy(wp, r, d, b) == {i \in BucketAt(rows[r], d, b) : CountedIn(rows, wp[WarpAt(i - 1)], r, d)}
BinHolds(wp, h, b) ==
  LET m == wp[WarpAt(b)]
  IN  m.pc \in {"count", "pick", "take"} /\ Selects(rows[m.row]) =>
        h[b] = Cardinality(CountedBy(wp, m.row, m.digit, b))

LEMMA BinsHold ==
  ASSUME rows' = rows
  PROVE  /\ BinsRight <=> \A b \in Bin : BinHolds(warp, histogram, b)
         /\ BinsRight' <=> \A b \in Bin : BinHolds(warp', histogram', b)
BY DEF BinsRight, BinHolds, CountedOf, CountedBy

\* Whether a warp has counted a digit, or the greater pairs (-1), changes when
\* it counts them.
LEMMA CountedKept ==
  ASSUME InStep, MemoryTyped, NEW w \in Warp, WarpStep(w),
         NEW r \in 1 .. Len(rows), Len(rows[r]) > K, NEW d \in -1 .. Digits - 1,
         ~(warp[w].pc = "count" /\ warp[w].row = r /\ warp[w].digit = d),
         ~(warp[w].pc = "greater" /\ warp[w].row = r /\ d = -1),
         ~(warp[w].pc = "report" /\ warp[w].row = r)
  PROVE  CountedIn(rows, warp'[w], r, d) <=> CountedIn(rows, warp[w], r, d)
<1> PICK m, n : m = warp[w] /\ n = warp'[w]
  OBVIOUS
<1> PICK D, dm, rm, rn, x : /\ D = Digits /\ dm = m.digit /\ rm = RoundsIn(rows, m) /\ rn = RoundsIn(rows, n)
                            /\ x = 3 * (D - d)
  OBVIOUS
<1>1. Moves(w) /\ Mover(w)
  BY StepMoves, MoverIs
<1>2. D \in Nat \ {0} /\ d \in -1 .. D - 1 /\ dm \in 0 .. D - 1 /\ m.pc \in Pcs /\ n.digit \in 0 .. Digits - 1
  BY <1>1 DEF Mover, Moves, Stands
<1>0. x = 3 * (D - d)
  OBVIOUS
<1>3. x \in Nat /\ x >= 3
  BY ONLY <1>0, <1>2
<1>4. CASE Passes(rows, m, n)
  <2>1. n.row = m.row /\ rn = rm
    BY <1>4 DEF Passes
  <2> QED BY <2>1 DEF CountedIn
<1>5. CASE n.row = m.row /\ m.pc # "report" /\ rn = rm + 1
  <2>1. CASE m.row # r
    BY <1>5, <2>1 DEF CountedIn
  <2>2. CASE m.row = r
    <3>1. m.pc # "copy"
      <4>1. m.pc = "copy" => Len(rows[r]) <= K
        BY <1>1, <2>2 DEF Mover, Stands
      <4>2. Len(rows[r]) \in Nat /\ K \in Nat
        BY RowsAre, WarpZero DEF InStep, IsRow
      <4> QED BY <4>1, <4>2
    <3>2. /\ m.pc = "begin" => rm = 0
          /\ m.pc = "start" => rm = 1
          /\ m.pc = "zero" => rm = 3 * (D - dm) - 2
          /\ m.pc = "count" => rm = 3 * (D - dm) - 1
          /\ m.pc = "pick" => rm = 3 * (D - dm)
          /\ m.pc = "take" => rm = 3 * (D - dm) + 1
          /\ m.pc = "clear" => rm = 3 * D + 1
          /\ m.pc = "greater" => rm = 3 * D + 2
          /\ m.pc = "handoff" => rm = 3 * D + 3
          /\ m.pc \in {"total", "emit", "place"} => rm = 3 * D + 4
          /\ m.pc = "check" => rm = 3 * D + 5
      <4>1. m.digit \in 0 .. Digits - 1
        BY <1>2
      <4> QED BY <4>1, RoundsAre
    <3>3. (m.pc = "count" => dm # d) /\ (m.pc = "greater" => d # -1)
      BY <2>2
    <3>4. rm >= x <=> rm + 1 >= x
      <4>1. rm \in Int /\ rm # x - 1
        <5>1. CASE m.pc \in {"begin", "start"}
          BY ONLY <1>3, <3>2, <5>1
        <5>2. CASE m.pc \in {"zero", "count", "pick", "take"}
          BY ONLY <1>0, <1>2, <3>2, <3>3, <5>2
        <5>3. CASE m.pc \in {"clear", "greater", "handoff", "total", "emit", "place", "check"}
          BY ONLY <1>0, <1>2, <3>2, <3>3, <5>3
        <5> QED BY ONLY <1>2, <1>5, <3>1, <5>1, <5>2, <5>3 DEF Pcs
      <4> QED BY <1>3, <4>1
    <3> QED BY <1>5, <3>4 DEF CountedIn
  <2> QED BY <2>1, <2>2
<1>6. CASE n.row = m.row + 1 /\ m.pc = "report" /\ n.pc = "begin"
  <2>1. m.row # r
    BY <1>6
  <2>2. rn = 0
    BY <1>2, <1>6, RoundsAre
  <2>3. ~(rn >= x)
    BY <1>3, <2>2
  <2> QED BY <2>1, <2>3 DEF CountedIn
<1> QED BY <1>1, <1>4, <1>5, <1>6 DEF Moves, Syncs

\* With a warp that selects nobody leaves the row.
LEMMA NobodyLeaves ==
  ASSUME InStep, NEW w \in Warp, Synced(w), warp[w].pc = "report",
         NEW v \in Warp, warp[v].row = warp[w].row
  PROVE  warp[v].pc = "report"
<1>1. \/ Later(rows, warp[w], warp[v]) \/ Gone(warp[w], warp[v])
  BY OthersAre
<1>2. Stands(rows, warp[w]) /\ Stands(rows, warp[v]) /\ rows \in Inputs
  BY DEF InStep
<1>3. RoundsIn(rows, warp[w]) \in Nat /\ RoundsIn(rows, warp[v]) \in Nat
  BY <1>2, RoundsAre DEF Stands
<1>4. CASE Later(rows, warp[w], warp[v])
  <2>1. RoundsIn(rows, warp[v]) >= RoundsIn(rows, warp[w])
    BY <1>3, <1>4 DEF Later
  <2> QED BY <1>2, <2>1, LastRound
<1>5. CASE Gone(warp[w], warp[v])
  <2>1. warp[w].row \in Nat
    BY MoverIs DEF Mover
  <2> QED BY <1>5, <2>1 DEF Gone
<1> QED BY <1>1, <1>4, <1>5

\* The threshold of a warp that counts.
LEMMA ThresholdIs ==
  ASSUME InStep, Agree, CutRight, NEW w \in Warp, Synced(w), warp[w].pc = "count",
         Selects(rows[warp[w].row])
  PROVE  warp[w].threshold = ThresholdAt(rows[warp[w].row], warp[w].digit + 1)
<1> PICK m, o : m = warp[w] /\ o = warp[0]
  OBVIOUS
<1>1. o.row = m.row /\ o.pc \in {"count", "pick"} /\ o.digit = m.digit
  BY WarpZero, PeersAre DEF Peers
<1>2. Open(o) = m.digit + 1 /\ Open(m) = m.digit + 1
  BY <1>1 DEF Open
<1>3. m.threshold = o.threshold
  BY <1>1, <1>2, WarpZero DEF Agree, Selecting, Pcs
<1>4. o.threshold = ThresholdAt(rows[m.row], m.digit + 1)
  BY <1>1, <1>2 DEF CutRight, Selecting, Pcs
<1> QED BY <1>3, <1>4

LEMMA CountDigitsCounts ==
  ASSUME InStep, MemoryTyped, Agree, CutRight, NEW w \in Warp, CountDigits(w), NEW b \in Bin,
         NEW r, r = warp[w].row, NEW d, d = warp[w].digit, Selects(rows[r]),
         histogram[b] = Cardinality(CountedBy(warp, r, d, b))
  PROVE  histogram'[b] = Cardinality(CountedBy(warp', r, d, b))
<1> PICK m, n, row : m = warp[w] /\ n = warp'[w] /\ row = rows[r]
  OBVIOUS
<1> DEFINE active == {i \in Mine(w) : /\ Row(w)[i] # 0
                                      /\ AboveDigit(Row(w)[i], m.digit) = AboveDigit(m.threshold, m.digit)}
           found == {i \in active : DigitOf(Row(w)[i], m.digit) = b}
<1>1. /\ m.pc = "count" /\ Synced(w)
      /\ histogram'[b] = histogram[b] + Cardinality(found)
  BY DEF CountDigits, At
<1>2. /\ r \in 1 .. Len(rows) /\ IsRow(row) /\ Row(w) = row
      /\ Mine(w) = {i \in DOMAIN row : WarpAt(i - 1) = w}
  BY <1>1, MineIs
<1>3. d \in 0 .. Digits - 1 /\ d \in Nat /\ d = m.digit
  BY RegistersAre, WarpZero
<1>4. AboveDigit(m.threshold, d) = Cut(row) \div Weight[d + 1]
  BY <1>1, <1>2, <1>3, ThresholdIs, PrefixIs
<1>5. Weight[d + 1] = Radix * Weight[d]
  BY <1>3, WeightIs
<1>6. found = {i \in BucketAt(row, d, b) : WarpAt(i - 1) = w}
  BY <1>2, <1>3, <1>4, <1>5 DEF AboveDigit, DigitOf, BucketAt, BucketOf, Live
<1> HIDE DEF found
<1>7. BucketAt(row, d, b) \subseteq DOMAIN row
  BY DEF BucketAt, BucketOf, Live
<1>8. \A i \in BucketAt(row, d, b) : WarpAt(i - 1) \in Warp
  BY <1>2, <1>7, ReaderIs
<1>9. Onward(m, n) /\ (\A v \in Warp \ {w} : warp'[v] = warp[v]) /\ n.pc = "pick"
  BY <1>1, OnwardIs DEF Onward
<1>10. CountedIn(rows, n, r, d) /\ ~CountedIn(rows, m, r, d)
  <2>1. n.row = r /\ n.digit = d /\ m.row = r
    BY <1>3, <1>9 DEF Onward, Still
  <2>2. RoundsIn(rows, n) = 3 * (Digits - d) /\ RoundsIn(rows, m) = 3 * (Digits - d) - 1
    <3>1. n.digit \in 0 .. Digits - 1 /\ m.digit \in 0 .. Digits - 1
      BY <1>3, <2>1
    <3> QED BY <1>1, <1>3, <1>9, <2>1, <3>1, RoundsAre
  <2>3. Digits \in Nat
    BY WarpZero
  <2> QED BY <1>3, <2>1, <2>2, <2>3 DEF CountedIn
<1>11. /\ CountedBy(warp', r, d, b) = CountedBy(warp, r, d, b) \cup found
       /\ CountedBy(warp, r, d, b) \cap found = {}
  <2>1. \A i \in BucketAt(row, d, b) : WarpAt(i - 1) # w => warp'[WarpAt(i - 1)] = warp[WarpAt(i - 1)]
    BY <1>8, <1>9
  <2> QED BY <1>6, <1>10, <2>1 DEF CountedBy
<1>12. /\ IsFiniteSet(CountedBy(warp, r, d, b)) /\ IsFiniteSet(found)
       /\ Cardinality(CountedBy(warp, r, d, b)) \in Nat /\ Cardinality(found) \in Nat
  <2>1. CountedBy(warp, r, d, b) \subseteq DOMAIN row /\ found \subseteq DOMAIN row
    BY <1>6, <1>7 DEF CountedBy
  <2> QED BY <1>2, <2>1, PairsAreFinite
<1>13. Cardinality(CountedBy(warp', r, d, b)) = Cardinality(CountedBy(warp, r, d, b)) + Cardinality(found)
  <2> PICK A : A = CountedBy(warp, r, d, b)
    OBVIOUS
  <2>1. Cardinality(A \cup found) = Cardinality(A) + Cardinality(found) - Cardinality(A \cap found)
    BY <1>12, FS_Union
  <2>2. Cardinality(A \cap found) = 0
    BY <1>11, FS_EmptySet
  <2> QED BY <1>11, <1>12, <2>1, <2>2
<1> QED BY <1>1, <1>13

LEMMA BinsRightKept ==
  ASSUME InStep, MemoryTyped, Agree, CutRight, BinsRight, NEW w \in Warp, WarpStep(w)
  PROVE  BinsRight'
<1> PICK m, n : m = warp[w] /\ n = warp'[w]
  OBVIOUS
<1>1. rows' = rows /\ (\A v \in Warp \ {w} : warp'[v] = warp[v]) /\ Moves(w)
  BY OthersStay, StepMoves
<1>2. \A b \in Bin : BinHolds(warp, histogram, b)
  BY <1>1, BinsHold
<1>3. SUFFICES ASSUME NEW b \in Bin PROVE BinHolds(warp', histogram', b)
  BY <1>1, BinsHold
<1> PICK u, o, r, d : u = WarpAt(b) /\ o = warp'[u] /\ r = o.row /\ d = o.digit
  OBVIOUS
<1>4. SUFFICES ASSUME o.pc \in {"count", "pick", "take"}, Selects(rows[r])
               PROVE  histogram'[b] = Cardinality(CountedBy(warp', r, d, b))
  BY DEF BinHolds
<1>5. b \in Nat /\ u \in Warp
  <2>1. b \in Nat
    BY PairsAssumption DEF Bin
  <2> QED BY <2>1, WarpAtIs
<1>6. Stands(rows, o)
  BY <1>1, <1>5 DEF InStep, Moves
<1>7. r \in 1 .. Len(rows) /\ Len(rows[r]) > K /\ d \in 0 .. Digits - 1 /\ Digits \in Nat
  <2>1. r \in 1 .. Len(rows) + 1 /\ r <= Len(rows) /\ Len(rows[r]) > K /\ d \in 0 .. Digits - 1
    BY <1>4, <1>6 DEF Stands
  <2>2. Len(rows) \in Nat
    BY RowsAre DEF InStep
  <2> QED BY <2>1, <2>2, WarpZero
<1>8. \A i \in BucketAt(rows[r], d, b) : WarpAt(i - 1) \in Warp
  <2>1. BucketAt(rows[r], d, b) \subseteq DOMAIN rows[r]
    BY DEF BucketAt, BucketOf, Live
  <2> QED BY <1>7, <2>1, ReaderIs
\* If w's step is no count of this digit, the same warps have counted it.
<1>9. ASSUME ~(m.pc = "count" /\ m.row = r /\ m.digit = d), ~(m.pc = "report" /\ m.row = r)
      PROVE  CountedBy(warp', r, d, b) = CountedBy(warp, r, d, b)
  <2>1. CountedIn(rows, n, r, d) <=> CountedIn(rows, m, r, d)
    <3>1. d # -1 /\ d \in -1 .. Digits - 1
      BY <1>7
    <3> QED BY <1>7, <1>9, <3>1, CountedKept
  <2>2. \A v \in Warp : CountedIn(rows, warp'[v], r, d) <=> CountedIn(rows, warp[v], r, d)
    BY <1>1, <2>1
  <2> QED BY <1>8, <2>2 DEF CountedBy
<1>10. CASE u # w
  <2>1. o = warp[u]
    BY <1>1, <1>5, <1>10
  <2>2. histogram[b] = Cardinality(CountedBy(warp, r, d, b))
    BY <1>2, <1>4, <2>1 DEF BinHolds
  <2>3. CASE CountDigits(w)
    <3>1. m.pc = "count" /\ Synced(w)
      BY <2>3 DEF CountDigits, At
    <3>2. o.row = m.row /\ o.digit = m.digit
      BY <1>5, <2>1, <3>1, PeersAre DEF Peers
    <3> QED BY <1>4, <2>2, <2>3, <3>2, CountDigitsCounts
  <2>4. CASE ~CountDigits(w)
    <3>1. histogram'[b] = histogram[b]
      <4>1. CASE ZeroHistogram(w)
        BY <1>5, <1>10, <4>1 DEF ZeroHistogram, WarpAt
      <4>2. CASE ~ZeroHistogram(w)
        <5>1. histogram' = histogram
          BY <2>4, <4>2 DEF WarpStep, Begin, Copy, StartRadix, PickByte, TakeByte, ClearCounters, CountGreater,
                            HandOff, ReadTotal, ReserveGreater, PlaceBatch, EndEmission, CheckCounters, Report
        <5> QED BY <5>1
      <4> QED BY <4>1, <4>2
    <3>2. m.pc # "count"
      BY <2>4 DEF WarpStep, Begin, Copy, StartRadix, ZeroHistogram, PickByte, TakeByte, ClearCounters, CountGreater,
                  HandOff, ReadTotal, ReserveGreater, PlaceBatch, EndEmission, CheckCounters, Report, At
    <3>3. ~(m.pc = "report" /\ m.row = r)
      <4>1. Synced(w)
        BY <1>1 DEF Moves
      <4>2. m.pc = "report" /\ m.row = r => o.pc = "report"
        BY <1>5, <2>1, <4>1, NobodyLeaves
      <4> QED BY <1>4, <4>2
    <3> QED BY <1>9, <2>2, <3>1, <3>2, <3>3
  <2> QED BY <2>3, <2>4
<1>11. CASE u = w
  <2>1. ZeroHistogram(w) \/ CountDigits(w) \/ PickByte(w)
    <3>1. n.pc \in {"count", "pick", "take"}
      BY <1>4, <1>11
    <3>2. CASE Begin(w) \/ Copy(w) \/ ClearCounters(w) \/ CountGreater(w) \/ HandOff(w) \/ EndEmission(w) \/ CheckCounters(w)
      <4>1. Onward(m, n)
        BY <3>2, OnwardIs
      <4>2. m.pc \in {"begin", "copy", "clear", "greater", "handoff", "emit", "check"}
        BY <3>2 DEF Begin, Copy, ClearCounters, CountGreater, HandOff, EndEmission, CheckCounters, At
      <4> QED BY <3>1, <4>1, <4>2 DEF Onward
    <3>3. CASE Report(w)
      <4>1. NextRow(w)
        BY <3>3 DEF Report
      <4> QED BY <3>1, <4>1, NextRowIs
    <3>4. ~StartRadix(w) /\ ~TakeByte(w) /\ ~ReadTotal(w) /\ ~ReserveGreater(w) /\ ~PlaceBatch(w)
      BY <3>1, StartIs, TakeIs, ReadIs, ReserveIs, PlaceIs
    <3> QED BY <3>2, <3>3, <3>4 DEF WarpStep
  <2>2. Onward(m, n) /\ n.row = r /\ n.digit = d /\ m.row = r /\ m.digit = d
    <3>1. Onward(m, n)
      BY <2>1, OnwardIs
    <3> QED BY <1>11, <3>1 DEF Onward, Still
  <2>3. CASE ZeroHistogram(w)
    <3>1. histogram'[b] = 0 /\ m.pc = "zero" /\ n.pc = "count"
      <4>1. m.pc = "zero" /\ histogram'[b] = 0
        BY <1>11, <2>3 DEF ZeroHistogram, WarpAt
      <4> QED BY <2>2, <4>1 DEF Onward
    <3>2. \A v \in Warp : ~CountedIn(rows, warp'[v], r, d)
      <4> TAKE v \in Warp
      <4> PICK D, rm, rn, rv : D = Digits /\ rm = RoundsIn(rows, m) /\ rn = RoundsIn(rows, n) /\ rv = RoundsIn(rows, warp[v])
        OBVIOUS
      <4>1. rm = 3 * (D - d) - 2 /\ rn = 3 * (D - d) - 1
        <5>1. n.digit \in 0 .. Digits - 1 /\ m.digit \in 0 .. Digits - 1
          BY <1>7, <2>2
        <5> QED BY <2>2, <3>1, <5>1, RoundsAre
      <4>2. Later(rows, m, warp[v])
        <5>1. Synced(w)
          BY <1>1 DEF Moves
        <5> QED BY <3>1, <5>1, OthersAre DEF Gone
      <4>3. rv \in {rm, rm + 1}
        BY <4>2 DEF Later
      <4>4. ~(rv >= 3 * (D - d)) /\ ~(rn >= 3 * (D - d))
        <5>1. D \in Nat /\ d \in 0 .. D - 1
          BY <1>7
        <5> QED BY ONLY <4>1, <4>3, <5>1
      <4>5. CASE v = w
        BY <4>4, <4>5 DEF CountedIn
      <4>6. CASE v # w
        BY <1>1, <4>4, <4>6 DEF CountedIn
      <4> QED BY <4>5, <4>6
    <3>3. CountedBy(warp', r, d, b) = {}
      BY <1>8, <3>2 DEF CountedBy
    <3> QED BY <3>1, <3>3, FS_EmptySet
  <2>4. CASE CountDigits(w)
    <3>1. m.pc = "count"
      BY <2>4 DEF CountDigits, At
    <3>2. histogram[b] = Cardinality(CountedBy(warp, r, d, b))
      BY <1>2, <1>4, <1>11, <2>2, <3>1 DEF BinHolds
    <3> QED BY <1>4, <2>2, <2>4, <3>2, CountDigitsCounts
  <2>5. CASE PickByte(w)
    <3>1. m.pc = "pick" /\ histogram' = histogram
      BY <2>5 DEF PickByte, At
    <3>2. histogram[b] = Cardinality(CountedBy(warp, r, d, b))
      BY <1>2, <1>4, <1>11, <2>2, <3>1 DEF BinHolds
    <3>3. CountedBy(warp', r, d, b) = CountedBy(warp, r, d, b)
      BY <1>9, <3>1
    <3> QED BY <3>1, <3>2, <3>3
  <2> QED BY <2>1, <2>3, <2>4, <2>5
<1> QED BY <1>10, <1>11

---------------------------------------------------------------------------
(* Where the warps are in a row's pairs.                                    *)

LEMMA TimesPlus ==
  ASSUME NEW a \in Int, NEW b \in Int, NEW c \in Int
  PROVE  (a + b) * c = a * c + b * c
BY Z3

\* A batch, by its warp and its place.
IsBatch(L, N, w, base) ==
  \A j \in Nat : (j >= base + w * L /\ j < base + (w + 1) * L)
                <=> ((j \div L) % N = w /\ base <= j /\ j < base + N * L)

LEMMA BatchPlace ==
  ASSUME NEW L \in Nat \ {0}, NEW N \in Nat \ {0}, NEW w \in 0 .. N - 1,
         NEW base \in Nat, NEW s, s = N * L, base % s = 0
  PROVE  IsBatch(L, N, w, base)
<1> SUFFICES ASSUME NEW j \in Nat
             PROVE  (j >= base + w * L /\ j < base + (w + 1) * L)
                    <=> ((j \div L) % N = w /\ base <= j /\ j < base + N * L)
  BY DEF IsBatch
<1>1. s \in Nat \ {0}
  OBVIOUS
<1> PICK q : q = base \div s
  OBVIOUS
<1>2. q \in Nat /\ base = q * s
  <2>1. base \div s \in Nat /\ base = (base \div s) * s + (base % s)
    BY ONLY <1>1, base \in Nat, DivFloor
  <2> QED BY <2>1
<1>3. base = (q * N) * L
  <2>1. q \in Nat /\ base = q * s /\ s = N * L
    BY <1>2
  <2> QED BY ONLY <2>1, N \in Nat, L \in Nat, Z3
<1> PICK c, e, o : c = j \div L /\ e = j % L /\ o = c % N
  OBVIOUS
<1>4. c \in Nat /\ e \in 0 .. L - 1 /\ j = c * L + e
  BY DivFloor
<1>5. q * N \in Nat /\ w \in Nat
  BY <1>2
<1>6. ASSUME j >= base + w * L, j < base + (w + 1) * L
      PROVE  o = w /\ base <= j /\ j < base + N * L
  <2> PICK p, f : p = q * N + w /\ f = j - base - w * L
    OBVIOUS
  <2>1. (w + 1) * L = w * L + L /\ w * L \in Nat
    BY <1>5, Z3
  <2>2. f \in 0 .. L - 1
    BY <1>6, <2>1
  <2>3. p \in Nat /\ j = p * L + f
    <3>1. (q * N + w) * L = (q * N) * L + w * L
      BY <1>5, Z3
    <3> QED BY <1>3, <1>5, <2>1, <2>2, <3>1
  <2>4. c = p
    <3>1. j \in Int /\ p \in Int /\ L \in Nat \ {0} /\ j = p * L + f
      BY <2>3
    <3>2. j \div L = p
      BY ONLY <2>2, <3>1, DivUnique
    <3> QED BY <3>2
  <2>5. o = w
    <3>1. p \in Int /\ q \in Int /\ w \in 0 .. N - 1 /\ p = q * N + w
      BY <1>2, <2>3
    <3>2. p % N = w
      BY ONLY <3>1, N \in Nat \ {0}, DivUnique
    <3> QED BY <2>4, <3>2
  <2>6. (w + 1) * L <= N * L
    <3>1. N - w - 1 \in Nat /\ (N - w - 1) * L \in Nat
      OBVIOUS
    <3>2. N * L = (w + 1) * L + (N - w - 1) * L
      BY <1>5, <3>1, Z3
    <3> QED BY <2>1, <3>1, <3>2
  <2> QED BY <1>6, <2>1, <2>5, <2>6
<1>7. ASSUME o = w, base <= j, j < base + N * L
      PROVE  j >= base + w * L /\ j < base + (w + 1) * L
  <2> PICK x, y, z : x = j - base /\ y = x \div L /\ z = x % L
    OBVIOUS
  <2>1. x \in Nat /\ x < s
    BY <1>1, <1>7
  <2>2. y \in Nat /\ z \in 0 .. L - 1 /\ x = y * L + z
    BY <2>1, DivFloor
  <2>3. y < N
    <3> SUFFICES ASSUME y >= N PROVE FALSE
      BY <2>2
    <3>1. (y - N) \in Nat /\ (y - N) * L \in Nat
      BY <2>2
    <3>2. y * L = N * L + (y - N) * L
      BY <2>2, <3>1, Z3
    <3> QED BY <2>1, <2>2, <3>1, <3>2
  <2>4. j = (q * N + y) * L + z
    <3>1. (q * N + y) * L = (q * N) * L + y * L
      <4> PICK a : a = q * N
        OBVIOUS
      <4>1. a \in Int /\ y \in Int /\ L \in Int
        BY <1>5, <2>2
      <4>2. (a + y) * L = a * L + y * L
        BY ONLY <4>1, TimesPlus
      <4> QED BY <4>2
    <3>2. j = x + base
      BY <2>1
    <3>3. PICK u, v : u = y * L /\ v = (q * N + y) * L
      OBVIOUS
    <3>4. v = base + u /\ x = u + z /\ u \in Nat /\ base \in Nat /\ z \in Nat
      <4>1. y * L \in Nat
        BY <2>2
      <4>2. v = (q * N) * L + u
        BY <3>1, <3>3
      <4>3. x = u + z
        BY <2>2, <3>3
      <4>4. v = base + u
        BY <1>3, <4>2, Zenon
      <4>5. z \in Nat /\ u \in Nat
        BY <2>2, <3>3, <4>1
      <4> QED BY <4>3, <4>4, <4>5
    <3>5. j = v + z
      BY ONLY <3>2, <3>4
    <3> QED BY <3>3, <3>5
  <2>5. c = q * N + y
    <3> PICK p : p = q * N + y
      OBVIOUS
    <3>1. p \in Int /\ j \in Int /\ j = p * L + z /\ z \in 0 .. L - 1
      BY <1>5, <2>2, <2>4
    <3>2. j \div L = p
      BY ONLY <3>1, L \in Nat \ {0}, DivUnique
    <3> QED BY <3>2
  <2>6. o = y
    <3>1. c \in Int /\ q \in Int /\ y \in 0 .. N - 1 /\ c = q * N + y
      BY <1>2, <1>4, <2>2, <2>3, <2>5
    <3>2. c % N = y
      BY ONLY <3>1, N \in Nat \ {0}, DivUnique
    <3> QED BY <3>2
  <2>7. x = w * L + z
    BY <1>7, <2>2, <2>6
  <2>8. (w + 1) * L = w * L + L /\ w * L \in Nat
    BY <1>5, Z3
  <2> QED BY <2>1, <2>2, <2>7, <2>8
<1> QED BY <1>6, <1>7

LEMMA BatchIs ==
  ASSUME InStep, NEW w \in Warp, warp[w].pc # "begin"
  PROVE  BatchAt(w, warp[w].base) =
           {i \in DOMAIN rows[warp[w].row] :
              /\ WarpAt(i - 1) = w
              /\ warp[w].base <= i - 1 /\ i - 1 < warp[w].base + Stride}
<1> PICK base : base = warp[w].base
  OBVIOUS
<1>1. base \in Nat /\ base % Stride = 0
  <2>1. base \in Nat
    BY RegistersAre
  <2> QED BY <2>1 DEF InStep, Stands
<1>2. /\ warp[w].row \in 1 .. Len(rows) /\ DOMAIN rows[warp[w].row] = 1 .. Count(w)
  BY MineIs
<1>3. Lanes \in Nat \ {0} /\ NumWarps \in Nat \ {0} /\ w \in 0 .. NumWarps - 1
  BY PairsAssumption DEF Warp
<1>4. IsBatch(Lanes, NumWarps, w, base)
  <2>1. PICK s : s = NumWarps * Lanes
    OBVIOUS
  <2>2. base % s = 0
    BY <1>1, <2>1 DEF Stride
  <2> QED BY <1>1, <1>3, <2>1, <2>2, BatchPlace
<1>5. \A i \in 1 .. Count(w) : i - 1 \in Nat
  BY <1>2, ReaderIs
<1>6. \A i \in 1 .. Count(w) :
        (i - 1 >= base + w * Lanes /\ i - 1 < base + (w + 1) * Lanes)
        <=> (((i - 1) \div Lanes) % NumWarps = w /\ base <= i - 1 /\ i - 1 < base + NumWarps * Lanes)
  BY <1>4, <1>5, Zenon DEF IsBatch
<1> QED BY <1>2, <1>6 DEF BatchAt, WarpAt, Stride

\* What the warps, as they are in wp, have placed and reserved of a row.
DoneBy(wp, r) == {i \in DOMAIN rows[r] : i - 1 < Placed(rows, wp[WarpAt(i - 1)], r)}
ReservedBy(wp, r, t) == {i \in Over(rows[r], t) : i - 1 < Held(rows, wp[WarpAt(i - 1)], r)}
SpansBy(wp, r, t) ==
  [w \in {v \in Warp : IsPlacing(wp[v], r)} |->
     PlacesFrom(wp[w].place, Cardinality({i \in Over(rows[r], t) :
       /\ WarpAt(i - 1) = w
       /\ wp[w].base <= i - 1 /\ i - 1 < wp[w].base + Stride}))]

LEMMA ViewIs ==
  ASSUME rows' = rows, NEW r, NEW t
  PROVE  /\ Done(r) = DoneBy(warp, r) /\ Done(r)' = DoneBy(warp', r)
         /\ Reserved(r, t) = ReservedBy(warp, r, t) /\ Reserved(r, t)' = ReservedBy(warp', r, t)
         /\ Spans(r, t) = SpansBy(warp, r, t) /\ Spans(r, t)' = SpansBy(warp', r, t)
BY DEF Done, DoneBy, Reserved, ReservedBy, Spans, SpansBy, Pending

\* Two warps that have come as far in a row's pairs.
Alike(m, n, r) ==
  /\ Placed(rows, n, r) = Placed(rows, m, r) /\ Held(rows, n, r) = Held(rows, m, r)
  /\ IsPlacing(n, r) <=> IsPlacing(m, r)
  /\ IsPlacing(m, r) => n.base = m.base /\ n.place = m.place

LEMMA AlikeShow ==
  ASSUME InStep, MemoryTyped, NEW w \in Warp, WarpStep(w), NEW r \in 1 .. Len(rows), NEW t,
         Alike(warp[w], warp'[w], r)
  PROVE  /\ DoneBy(warp', r) = DoneBy(warp, r) /\ ReservedBy(warp', r, t) = ReservedBy(warp, r, t)
         /\ SpansBy(warp', r, t) = SpansBy(warp, r, t)
<1>1. \A v \in Warp \ {w} : warp'[v] = warp[v]
  BY OthersStay
<1>2. \A v \in Warp : Alike(warp[v], warp'[v], r)
  BY <1>1 DEF Alike
<1>3. \A i \in DOMAIN rows[r] : WarpAt(i - 1) \in Warp
  BY ReaderIs
<1>4. Over(rows[r], t) \subseteq DOMAIN rows[r]
  BY DEF Over
<1>5. DoneBy(warp', r) = DoneBy(warp, r) /\ ReservedBy(warp', r, t) = ReservedBy(warp, r, t)
  BY <1>2, <1>3, <1>4 DEF DoneBy, ReservedBy, Alike
<1>6. SpansBy(warp', r, t) = SpansBy(warp, r, t)
  <2>1. {v \in Warp : IsPlacing(warp'[v], r)} = {v \in Warp : IsPlacing(warp[v], r)}
    BY <1>2 DEF Alike
  <2>2. \A v \in {x \in Warp : IsPlacing(warp[x], r)} : warp'[v].base = warp[v].base /\ warp'[v].place = warp[v].place
    BY <1>2 DEF Alike
  <2> QED BY <2>1, <2>2 DEF SpansBy
<1> QED BY <1>5, <1>6

\* Only reserving and placing change it.
LEMMA OthersAlike ==
  ASSUME InStep, MemoryTyped, NEW w \in Warp, WarpStep(w), ~ReserveGreater(w), ~PlaceBatch(w),
         NEW r \in 1 .. Len(rows), Len(rows[r]) > K
  PROVE  Alike(warp[w], warp'[w], r)
<1> PICK m, n, L : m = warp[w] /\ n = warp'[w] /\ L = Len(rows[r])
  OBVIOUS
<1>1. m.base \in Nat /\ L \in Nat /\ m.row \in Nat /\ r \in Nat
  <2>1. m.base \in Nat /\ m.row \in Nat
    BY RegistersAre, MoverIs DEF Mover
  <2>2. L \in Nat /\ Len(rows) \in Nat
    BY RowsAre DEF InStep, IsRow
  <2>3. r \in Nat
    BY <2>2
  <2> QED BY <2>1, <2>2, <2>3
<1>2. CASE \/ Begin(w) \/ Copy(w) \/ ZeroHistogram(w) \/ CountDigits(w) \/ PickByte(w)
           \/ ClearCounters(w) \/ CountGreater(w) \/ HandOff(w) \/ EndEmission(w) \/ CheckCounters(w)
  <2>1. Onward(m, n)
    BY <1>2, OnwardIs
  <2>2. n.row = m.row /\ n.base = m.base
    BY <2>1 DEF Onward, Still
  <2>3. m.row = r => m.pc # "copy"
    <3>1. m.pc = "copy" => Len(rows[m.row]) <= K
      BY MoverIs DEF Mover, Stands
    <3> QED BY <1>1, <3>1, WarpZero
  <2>4. CASE m.pc = "emit" /\ n.pc = "check" /\ m.base >= Len(rows[m.row])
    <3>1. m.row = r => Lesser(m.base, L) = L
      BY <1>1, <2>4 DEF Lesser
    <3> QED BY <2>2, <2>4, <3>1 DEF Alike, Placed, Held, IsPlacing
  <2>5. CASE m.pc = "check" /\ n.pc = "report"
    BY <2>2, <2>5 DEF Alike, Placed, Held, IsPlacing
  <2>6. CASE /\ m.pc \in {"begin", "copy", "zero", "count", "pick", "clear", "greater", "handoff"}
             /\ n.pc \notin {"emit", "place", "check"} /\ (n.pc = "report" => m.pc = "copy")
    BY <2>2, <2>3, <2>6 DEF Alike, Placed, Held, IsPlacing
  <2> QED BY <2>1, <2>4, <2>5, <2>6 DEF Onward
<1>3. CASE StartRadix(w)
  BY <1>3, StartIs DEF Alike, Placed, Held, IsPlacing
<1>4. CASE TakeByte(w)
  BY <1>4, TakeIs DEF Alike, Placed, Held, IsPlacing
<1>5. CASE ReadTotal(w)
  <2>1. Lesser(0, L) = 0
    BY <1>1 DEF Lesser
  <2> QED BY <1>5, <2>1, ReadIs DEF Alike, Placed, Held, IsPlacing
<1>6. CASE Report(w)
  <2>1. m.pc = "report" /\ n.pc = "begin" /\ n.row = m.row + 1
    <3>1. m.pc = "report" /\ NextRow(w)
      BY <1>6 DEF Report, At
    <3> QED BY <3>1, NextRowIs
  <2>2. CASE m.row > r
    <3>1. n.row > r
      BY <1>1, <2>1, <2>2
    <3>2. n.row # r /\ m.row # r
      BY <1>1, <2>2, <3>1
    <3> QED BY <2>1, <2>2, <3>1, <3>2 DEF Alike, Placed, Held, IsPlacing
  <2>3. CASE m.row = r
    <3>1. n.row > r
      BY <1>1, <2>1, <2>3
    <3> QED BY <2>1, <2>3, <3>1 DEF Alike, Placed, Held, IsPlacing
  <2>4. CASE m.row < r
    <3>1. ~(m.row > r) /\ m.row # r /\ ~(n.row > r)
      BY <1>1, <2>1, <2>4
    <3> QED BY <2>1, <3>1 DEF Alike, Placed, Held, IsPlacing
  <2> QED BY <1>1, <2>2, <2>3, <2>4
<1> QED BY <1>2, <1>3, <1>4, <1>5, <1>6 DEF WarpStep

\* A batch reserved for, and placed.
LEMMA ReserveShows ==
  ASSUME InStep, NEW w \in Warp, ReserveGreater(w), NEW r \in 1 .. Len(rows)
  PROVE  LET m == warp[w]
             n == warp'[w]
         IN  /\ r # m.row => Alike(m, n, r)
             /\ r = m.row => /\ ~IsPlacing(m, r) /\ IsPlacing(n, r)
                             /\ Placed(rows, n, r) = Placed(rows, m, r)
                             /\ Held(rows, m, r) = Lesser(m.base, Len(rows[r]))
                             /\ Held(rows, n, r) = Lesser(m.base + Stride, Len(rows[r]))
<1>1. ~(warp[w].row > warp[w].row)
  BY MoverIs DEF Mover
<1> QED BY <1>1, ReserveIs DEF Alike, Placed, Held, IsPlacing

LEMMA PlaceShows ==
  ASSUME InStep, NEW w \in Warp, PlaceBatch(w), NEW r \in 1 .. Len(rows)
  PROVE  LET m == warp[w]
             n == warp'[w]
         IN  /\ r # m.row => Alike(m, n, r)
             /\ r = m.row => /\ IsPlacing(m, r) /\ ~IsPlacing(n, r)
                             /\ Held(rows, n, r) = Held(rows, m, r)
                             /\ Placed(rows, m, r) = Lesser(m.base, Len(rows[r]))
                             /\ Placed(rows, n, r) = Lesser(m.base + Stride, Len(rows[r]))
<1>1. ~(warp[w].row > warp[w].row)
  BY MoverIs DEF Mover
<1> QED BY <1>1, PlaceIs DEF Alike, Placed, Held, IsPlacing

LEMMA LesserThan ==
  ASSUME NEW x \in Nat, NEW L \in Nat, NEW j \in Nat, j < L
  PROVE  j < Lesser(x, L) <=> j < x
BY DEF Lesser

LEMMA DisjointSizes ==
  ASSUME NEW A, NEW B, IsFiniteSet(A), IsFiniteSet(B), A \cap B = {}
  PROVE  /\ Cardinality(A \cup B) = Cardinality(A) + Cardinality(B)
         /\ Cardinality(A) \in Nat /\ Cardinality(B) \in Nat
<1>1. Cardinality(A \cup B) = Cardinality(A) + Cardinality(B) - Cardinality(A \cap B)
  BY FS_Union
<1>2. Cardinality(A \cap B) = 0
  BY FS_EmptySet
<1> QED BY <1>1, <1>2, FS_CardinalityType

\* The batch of a warp, and of it the pairs above and at the threshold.
LEMMA BatchParts ==
  ASSUME InStep, NEW w \in Warp, warp[w].pc # "begin",
         NEW r, r = warp[w].row, NEW t, t = warp[w].threshold
  PROVE  /\ Above(w) = BatchAt(w, warp[w].base) \cap Over(rows[r], t)
         /\ Level(w) = BatchAt(w, warp[w].base) \cap Ties(rows[r], t)
         /\ BatchAt(w, warp[w].base) \subseteq DOMAIN rows[r] /\ r \in 1 .. Len(rows)
         /\ IsFiniteSet(Above(w)) /\ IsFiniteSet(Level(w)) /\ Row(w) = rows[r]
<1>1. /\ r \in 1 .. Len(rows) /\ Row(w) = rows[r] /\ BatchAt(w, warp[w].base) \subseteq DOMAIN rows[r]
  BY MineIs, BatchIs
<1>2. /\ Above(w) = BatchAt(w, warp[w].base) \cap Over(rows[r], t)
      /\ Level(w) = BatchAt(w, warp[w].base) \cap Ties(rows[r], t)
  BY <1>1 DEF Above, Level, Over, Ties, Live
<1>3. Above(w) \subseteq DOMAIN rows[r] /\ Level(w) \subseteq DOMAIN rows[r]
  BY <1>1, <1>2
<1> QED BY <1>1, <1>2, <1>3, PairsAreFinite

LEMMA ReserveAdds ==
  ASSUME InStep, NEW w \in Warp, ReserveGreater(w),
         NEW r, r = warp[w].row, NEW t, t = warp[w].threshold
  PROVE  /\ ReservedBy(warp', r, t) = ReservedBy(warp, r, t) \cup Above(w)
         /\ ReservedBy(warp, r, t) \cap Above(w) = {}
         /\ DoneBy(warp', r) = DoneBy(warp, r)
<1> PICK m, n, L : m = warp[w] /\ n = warp'[w] /\ L = Len(rows[r])
  OBVIOUS
<1>1. m.pc = "emit" /\ m.base \in Nat /\ Stride \in Nat
  BY RegistersAre, StrideIs DEF ReserveGreater
<1>2. /\ r \in 1 .. Len(rows) /\ DOMAIN rows[r] = 1 .. L /\ L \in Nat
      /\ Above(w) = BatchAt(w, m.base) \cap Over(rows[r], t)
      /\ BatchAt(w, m.base) = {i \in DOMAIN rows[r] : WarpAt(i - 1) = w /\ m.base <= i - 1 /\ i - 1 < m.base + Stride}
  BY <1>1, MineIs, BatchParts, BatchIs DEF IsRow
<1>3. /\ Placed(rows, n, r) = Placed(rows, m, r)
      /\ Held(rows, m, r) = Lesser(m.base, L) /\ Held(rows, n, r) = Lesser(m.base + Stride, L)
  BY <1>2, ReserveShows
<1>4. \A v \in Warp \ {w} : warp'[v] = warp[v]
  BY ReserveIs
<1>5. \A i \in DOMAIN rows[r] : WarpAt(i - 1) \in Warp /\ i - 1 \in Nat /\ i - 1 < L
  <2> TAKE i \in DOMAIN rows[r]
  <2>1. i \in Nat \ {0} /\ i - 1 \in Nat /\ i <= L /\ WarpAt(i - 1) \in Warp
    BY <1>2, ReaderIs
  <2> QED BY <1>2, <2>1
<1>6. \A i \in DOMAIN rows[r] :
        /\ i - 1 < Held(rows, m, r) <=> i - 1 < m.base
        /\ i - 1 < Held(rows, n, r) <=> i - 1 < m.base + Stride
  <2> TAKE i \in DOMAIN rows[r]
  <2>1. PICK j : j = i - 1
    OBVIOUS
  <2>2. PICK x, y : x = m.base /\ y = m.base + Stride
    OBVIOUS
  <2>3. j \in Nat /\ j < L /\ x \in Nat /\ y \in Nat /\ L \in Nat
    <3>1. j \in Nat /\ j < L /\ L \in Nat
      BY <1>2, <1>5, <2>1
    <3>2. x \in Nat /\ y \in Nat
      BY ONLY <1>1, <2>2
    <3> QED BY <3>1, <3>2
  <2>4. (j < Lesser(x, L) <=> j < x) /\ (j < Lesser(y, L) <=> j < y)
    BY ONLY <2>3, LesserThan
  <2> QED BY <1>3, <2>1, <2>2, <2>4, Zenon
<1>7. DoneBy(warp', r) = DoneBy(warp, r)
  BY <1>3, <1>4, <1>5 DEF DoneBy
<1>8. Over(rows[r], t) \subseteq DOMAIN rows[r]
  BY DEF Over
<1>9. \A i \in Over(rows[r], t) :
        /\ i \in ReservedBy(warp, r, t) <=> i - 1 < Held(rows, warp[WarpAt(i - 1)], r)
        /\ i \in ReservedBy(warp', r, t) <=> i - 1 < Held(rows, warp'[WarpAt(i - 1)], r)
  BY DEF ReservedBy
<1>10. \A i \in Over(rows[r], t) :
        /\ i \in ReservedBy(warp', r, t) <=> i \in ReservedBy(warp, r, t) \/ i \in Above(w)
        /\ ~(i \in ReservedBy(warp, r, t) /\ i \in Above(w))
  <2> TAKE i \in Over(rows[r], t)
  <2>1. CASE WarpAt(i - 1) = w
    <3>1. /\ i \in ReservedBy(warp, r, t) <=> i - 1 < m.base
          /\ i \in ReservedBy(warp', r, t) <=> i - 1 < m.base + Stride
          /\ i \in Above(w) <=> m.base <= i - 1 /\ i - 1 < m.base + Stride
      BY <1>2, <1>6, <1>8, <1>9, <2>1
    <3>2. PICK j : j = i - 1
      OBVIOUS
    <3>3. j \in Nat /\ m.base \in Nat /\ Stride \in Nat
      BY <1>1, <1>5, <1>8, <3>2
    <3> QED BY <3>1, <3>2, <3>3
  <2>2. CASE WarpAt(i - 1) # w
    <3>1. warp'[WarpAt(i - 1)] = warp[WarpAt(i - 1)] /\ i \notin Above(w)
      BY <1>2, <1>4, <1>5, <1>8, <2>2
    <3> QED BY <1>9, <3>1
  <2> QED BY <2>1, <2>2
<1>11. ReservedBy(warp, r, t) \subseteq Over(rows[r], t) /\ ReservedBy(warp', r, t) \subseteq Over(rows[r], t)
       /\ Above(w) \subseteq Over(rows[r], t)
  BY <1>2 DEF ReservedBy
<1> QED BY <1>7, <1>10, <1>11

LEMMA PlaceAdds ==
  ASSUME InStep, NEW w \in Warp, PlaceBatch(w),
         NEW r, r = warp[w].row, NEW t, t = warp[w].threshold
  PROVE  /\ DoneBy(warp', r) = DoneBy(warp, r) \cup BatchAt(w, warp[w].base)
         /\ DoneBy(warp, r) \cap BatchAt(w, warp[w].base) = {}
         /\ ReservedBy(warp', r, t) = ReservedBy(warp, r, t)
<1> PICK m, n, L : m = warp[w] /\ n = warp'[w] /\ L = Len(rows[r])
  OBVIOUS
<1> PICK batch : batch = BatchAt(w, warp[w].base)
  OBVIOUS
<1>1. m.pc = "place" /\ m.base \in Nat /\ Stride \in Nat
  BY RegistersAre, StrideIs DEF PlaceBatch
<1>2. /\ r \in 1 .. Len(rows) /\ DOMAIN rows[r] = 1 .. L /\ L \in Nat
      /\ batch = {i \in DOMAIN rows[r] : WarpAt(i - 1) = w /\ m.base <= i - 1 /\ i - 1 < m.base + Stride}
  BY <1>1, MineIs, BatchIs DEF IsRow
<1>3. /\ Held(rows, n, r) = Held(rows, m, r)
      /\ Placed(rows, m, r) = Lesser(m.base, L) /\ Placed(rows, n, r) = Lesser(m.base + Stride, L)
  BY <1>2, PlaceShows
<1>4. \A v \in Warp \ {w} : warp'[v] = warp[v]
  BY PlaceIs
<1>5. \A i \in DOMAIN rows[r] : WarpAt(i - 1) \in Warp /\ i - 1 \in Nat /\ i - 1 < L
  <2> TAKE i \in DOMAIN rows[r]
  <2>1. i \in Nat \ {0} /\ i - 1 \in Nat /\ i <= L /\ WarpAt(i - 1) \in Warp
    BY <1>2, ReaderIs
  <2> QED BY <1>2, <2>1
<1>6. \A i \in DOMAIN rows[r] :
        /\ i - 1 < Placed(rows, m, r) <=> i - 1 < m.base
        /\ i - 1 < Placed(rows, n, r) <=> i - 1 < m.base + Stride
  <2> TAKE i \in DOMAIN rows[r]
  <2>1. PICK j : j = i - 1
    OBVIOUS
  <2>2. PICK x, y : x = m.base /\ y = m.base + Stride
    OBVIOUS
  <2>3. j \in Nat /\ j < L /\ x \in Nat /\ y \in Nat /\ L \in Nat
    <3>1. j \in Nat /\ j < L /\ L \in Nat
      BY <1>2, <1>5, <2>1
    <3>2. x \in Nat /\ y \in Nat
      BY ONLY <1>1, <2>2
    <3> QED BY <3>1, <3>2
  <2>4. (j < Lesser(x, L) <=> j < x) /\ (j < Lesser(y, L) <=> j < y)
    BY ONLY <2>3, LesserThan
  <2> QED BY <1>3, <2>1, <2>2, <2>4, Zenon
<1>7. ReservedBy(warp', r, t) = ReservedBy(warp, r, t)
  <2>1. Over(rows[r], t) \subseteq DOMAIN rows[r]
    BY DEF Over
  <2> QED BY <1>3, <1>4, <1>5, <2>1 DEF ReservedBy
<1>9. \A i \in DOMAIN rows[r] :
        /\ i \in DoneBy(warp, r) <=> i - 1 < Placed(rows, warp[WarpAt(i - 1)], r)
        /\ i \in DoneBy(warp', r) <=> i - 1 < Placed(rows, warp'[WarpAt(i - 1)], r)
  BY DEF DoneBy
<1>10. \A i \in DOMAIN rows[r] :
        /\ i \in DoneBy(warp', r) <=> i \in DoneBy(warp, r) \/ i \in batch
        /\ ~(i \in DoneBy(warp, r) /\ i \in batch)
  <2> TAKE i \in DOMAIN rows[r]
  <2>1. CASE WarpAt(i - 1) = w
    <3>1. /\ i \in DoneBy(warp, r) <=> i - 1 < m.base
          /\ i \in DoneBy(warp', r) <=> i - 1 < m.base + Stride
          /\ i \in batch <=> m.base <= i - 1 /\ i - 1 < m.base + Stride
      BY <1>2, <1>6, <1>9, <2>1
    <3>2. PICK j : j = i - 1
      OBVIOUS
    <3>3. j \in Nat /\ m.base \in Nat /\ Stride \in Nat
      BY <1>1, <1>5, <3>2
    <3> QED BY <3>1, <3>2, <3>3
  <2>2. CASE WarpAt(i - 1) # w
    <3>1. warp'[WarpAt(i - 1)] = warp[WarpAt(i - 1)] /\ i \notin batch
      BY <1>2, <1>4, <1>5, <2>2
    <3> QED BY <1>9, <3>1
  <2> QED BY <2>1, <2>2
<1>11. DoneBy(warp, r) \subseteq DOMAIN rows[r] /\ DoneBy(warp', r) \subseteq DOMAIN rows[r]
       /\ batch \subseteq DOMAIN rows[r]
  BY <1>2 DEF DoneBy
<1> QED BY <1>7, <1>10, <1>11

---------------------------------------------------------------------------
(* The counters.                                                            *)

GreaterBy(wp, r, t) == {i \in Over(rows[r], t) : CountedIn(rows, wp[WarpAt(i - 1)], r, -1)}
CountersHold(m, wp, sh) ==
  LET r == m.row
      t == m.threshold
  IN  /\ m.pc \in {"greater", "handoff"} => sh.greater = Cardinality(GreaterBy(wp, r, t)) /\ sh.equal = 0
      /\ m.pc \in {"total", "emit", "place", "check"} =>
           /\ sh.selected = Cardinality(Over(rows[r], t))
           /\ sh.greater = Cardinality(ReservedBy(wp, r, t))
           /\ sh.equal = Cardinality(DoneBy(wp, r) \cap Ties(rows[r], t))

LEMMA CountersAre ==
  ASSUME rows' = rows
  PROVE  /\ CountersRight <=> CountersHold(warp[0], warp, shared)
         /\ CountersRight' <=> CountersHold(warp'[0], warp', shared')
BY DEF CountersRight, CountersHold, CountedGreater, GreaterBy, Reserved, ReservedBy, Done, DoneBy

\* Warp 0 while another counts or emits.
LEMMA ZeroShares ==
  ASSUME InStep, Agree, NEW w \in Warp, Synced(w), warp[w].pc \in {"greater", "total", "emit", "place"}
  PROVE  /\ warp[0].row = warp[w].row /\ warp[0].threshold = warp[w].threshold
         /\ warp[w].pc = "greater" => warp[0].pc \in {"greater", "handoff"}
         /\ warp[w].pc # "greater" => warp[0].pc \in {"total", "emit", "place", "check"}
<1> PICK m, o : m = warp[w] /\ o = warp[0]
  OBVIOUS
<1>1. /\ o.row = m.row
      /\ m.pc = "greater" => o.pc \in {"greater", "handoff"}
      /\ m.pc # "greater" => o.pc \in {"total", "emit", "place", "check"}
  BY WarpZero, PeersAre DEF Peers
<1>2. Open(m) = 0 /\ Open(o) = 0 /\ m.pc \in Selecting /\ o.pc \in Selecting
  BY <1>1 DEF Open, Selecting, Pcs
<1> QED BY <1>1, <1>2, WarpZero DEF Agree

\* The greater pairs are counted one warp's after another's.
LEMMA CountGreaterKeeps ==
  ASSUME InStep, MemoryTyped, Agree, CountersRight, NEW w \in Warp, CountGreater(w)
  PROVE  CountersRight'
<1> PICK m, n, o, p : m = warp[w] /\ n = warp'[w] /\ o = warp[0] /\ p = warp'[0]
  OBVIOUS
<1> PICK r, t : r = m.row /\ t = m.threshold
  OBVIOUS
<1> PICK D : D = Digits
  OBVIOUS
<1> DEFINE more == {i \in Mine(w) : Row(w)[i] > m.threshold}
<1>1. /\ m.pc = "greater" /\ Synced(w) /\ rows' = rows
      /\ shared' = [shared EXCEPT !.greater = shared.greater + Cardinality(more)]
  BY DEF CountGreater, At
<1>2. /\ r \in 1 .. Len(rows) /\ Row(w) = rows[r]
      /\ Mine(w) = {i \in DOMAIN rows[r] : WarpAt(i - 1) = w}
  BY <1>1, MineIs
<1>3. more = {i \in Over(rows[r], t) : WarpAt(i - 1) = w}
  BY <1>2 DEF Over
<1> HIDE DEF more
<1>4. Onward(m, n) /\ (\A v \in Warp \ {w} : warp'[v] = warp[v]) /\ n.pc = "handoff" /\ n.row = r
  BY <1>1, OnwardIs DEF Onward, Still
<1>5. o.row = r /\ o.threshold = t /\ o.pc \in {"greater", "handoff"}
  BY <1>1, ZeroShares
<1>6. p.row = r /\ p.threshold = t /\ p.pc \in {"greater", "handoff"}
  <2>1. CASE w = 0
    BY <1>4, <1>5, <2>1 DEF Onward, Still
  <2>2. CASE w # 0
    BY <1>4, <1>5, <2>2, WarpZero
  <2> QED BY <2>1, <2>2
<1>7. CountedIn(rows, n, r, -1) /\ ~CountedIn(rows, m, r, -1)
  <2>1. RoundsIn(rows, m) = 3 * D + 2 /\ RoundsIn(rows, n) = 3 * D + 3
    <3>1. m.digit \in 0 .. Digits - 1 /\ n.digit \in 0 .. Digits - 1
      BY <1>4, RegistersAre DEF Onward, Still
    <3> QED BY <1>1, <1>4, <3>1, RoundsAre
  <2>2. 3 * (D - (-1)) = 3 * D + 3 /\ ~(3 * D + 2 >= 3 * D + 3) /\ 3 * D + 3 >= 3 * D + 3
    BY WarpZero
  <2> QED BY <1>4, <2>1, <2>2 DEF CountedIn
<1>8. \A i \in Over(rows[r], t) : i \in DOMAIN rows[r] /\ WarpAt(i - 1) \in Warp
  BY <1>2, ReaderIs DEF Over
<1>9. /\ GreaterBy(warp', r, t) = GreaterBy(warp, r, t) \cup more
      /\ GreaterBy(warp, r, t) \cap more = {}
  <2>1. \A i \in Over(rows[r], t) : WarpAt(i - 1) # w => warp'[WarpAt(i - 1)] = warp[WarpAt(i - 1)]
    BY <1>4, <1>8
  <2> QED BY <1>3, <1>7, <2>1 DEF GreaterBy
<1>10. IsFiniteSet(GreaterBy(warp, r, t)) /\ IsFiniteSet(more)
  <2>1. GreaterBy(warp, r, t) \subseteq DOMAIN rows[r] /\ more \subseteq DOMAIN rows[r]
    BY <1>3, <1>8 DEF GreaterBy
  <2> QED BY <1>2, <2>1, PairsAreFinite
<1>11. Cardinality(GreaterBy(warp', r, t)) = Cardinality(GreaterBy(warp, r, t)) + Cardinality(more)
  BY <1>9, <1>10, DisjointSizes
<1>12. shared.greater = Cardinality(GreaterBy(warp, r, t)) /\ shared.equal = 0
  <2>1. CountersHold(o, warp, shared)
    BY <1>1, CountersAre
  <2> QED BY <1>5, <2>1 DEF CountersHold
<1>13. shared'.greater = Cardinality(GreaterBy(warp', r, t)) /\ shared'.equal = 0
  BY <1>1, <1>11, <1>12 DEF MemoryTyped
<1>14. CountersHold(p, warp', shared')
  <2>1. p.pc \notin {"total", "emit", "place", "check"}
    BY <1>6
  <2> QED BY <1>6, <1>13, <2>1 DEF CountersHold
<1> QED BY <1>1, <1>14, CountersAre

\* Reserving and placing count what they reserve for and place.
LEMMA EmissionKeeps ==
  ASSUME InStep, MemoryTyped, Agree, CountersRight, NEW w \in Warp, ReserveGreater(w) \/ PlaceBatch(w)
  PROVE  CountersRight'
<1> PICK m, n, o, p : m = warp[w] /\ n = warp'[w] /\ o = warp[0] /\ p = warp'[0]
  OBVIOUS
<1> PICK r, t : r = m.row /\ t = m.threshold
  OBVIOUS
<1>1. m.pc \in {"emit", "place"} /\ Synced(w) /\ rows' = rows
  <2>1. m.pc \in {"emit", "place"} /\ rows' = rows
    BY DEF ReserveGreater, PlaceBatch
  <2> QED BY <2>1, MoverIs DEF Mover, Unwaited
<1>2. r \in 1 .. Len(rows) /\ IsFiniteSet(Above(w)) /\ IsFiniteSet(Level(w))
      /\ Level(w) = BatchAt(w, m.base) \cap Ties(rows[r], t)
  BY <1>1, BatchParts
<1>3. o.row = r /\ o.threshold = t /\ o.pc \in {"total", "emit", "place", "check"}
  BY <1>1, ZeroShares
<1>4. /\ n.row = r /\ n.threshold = t /\ n.pc \in {"emit", "place"}
      /\ \A v \in Warp \ {w} : warp'[v] = warp[v]
  BY ReserveIs, PlaceIs
<1>5. p.row = r /\ p.threshold = t /\ p.pc \in {"total", "emit", "place", "check"}
  <2>1. CASE w = 0
    BY <1>4, <2>1
  <2>2. CASE w # 0
    BY <1>3, <1>4, <2>2, WarpZero
  <2> QED BY <2>1, <2>2
<1>6. /\ shared.selected = Cardinality(Over(rows[r], t))
      /\ shared.greater = Cardinality(ReservedBy(warp, r, t))
      /\ shared.equal = Cardinality(DoneBy(warp, r) \cap Ties(rows[r], t))
  <2>1. CountersHold(o, warp, shared)
    BY <1>1, CountersAre
  <2> QED BY <1>3, <2>1 DEF CountersHold
<1>7. IsFiniteSet(ReservedBy(warp, r, t)) /\ IsFiniteSet(DoneBy(warp, r) \cap Ties(rows[r], t))
  <2>1. ReservedBy(warp, r, t) \subseteq DOMAIN rows[r] /\ DoneBy(warp, r) \cap Ties(rows[r], t) \subseteq DOMAIN rows[r]
    BY DEF ReservedBy, DoneBy, Over
  <2> QED BY <1>2, <2>1, PairsAreFinite
<1>8. SUFFICES /\ shared'.selected = Cardinality(Over(rows[r], t))
               /\ shared'.greater = Cardinality(ReservedBy(warp', r, t))
               /\ shared'.equal = Cardinality(DoneBy(warp', r) \cap Ties(rows[r], t))
  <2>1. p.pc \notin {"greater", "handoff"}
    BY <1>5
  <2> QED BY <1>1, <1>5, <2>1, CountersAre DEF CountersHold
<1>9. CASE ReserveGreater(w)
  <2>1. shared' = [shared EXCEPT !.greater = shared.greater + Cardinality(Above(w))]
    BY <1>9 DEF ReserveGreater
  <2>2. /\ ReservedBy(warp', r, t) = ReservedBy(warp, r, t) \cup Above(w)
        /\ ReservedBy(warp, r, t) \cap Above(w) = {} /\ DoneBy(warp', r) = DoneBy(warp, r)
    BY <1>9, ReserveAdds
  <2>3. Cardinality(ReservedBy(warp', r, t)) = Cardinality(ReservedBy(warp, r, t)) + Cardinality(Above(w))
    BY <1>2, <1>7, <2>2, DisjointSizes
  <2>4. /\ shared'.selected = shared.selected /\ shared'.equal = shared.equal
        /\ shared'.greater = shared.greater + Cardinality(Above(w))
    BY <2>1 DEF MemoryTyped
  <2> QED BY <1>6, <2>2, <2>3, <2>4
<1>10. CASE PlaceBatch(w)
  <2>1. shared' = [shared EXCEPT !.equal = shared.equal + Cardinality(Level(w))]
    BY <1>10 DEF PlaceBatch
  <2>2. /\ DoneBy(warp', r) = DoneBy(warp, r) \cup BatchAt(w, m.base)
        /\ DoneBy(warp, r) \cap BatchAt(w, m.base) = {}
        /\ ReservedBy(warp', r, t) = ReservedBy(warp, r, t)
    BY <1>10, PlaceAdds
  <2>3. /\ DoneBy(warp', r) \cap Ties(rows[r], t) = (DoneBy(warp, r) \cap Ties(rows[r], t)) \cup Level(w)
        /\ (DoneBy(warp, r) \cap Ties(rows[r], t)) \cap Level(w) = {}
    BY <1>2, <2>2
  <2>4. Cardinality(DoneBy(warp', r) \cap Ties(rows[r], t))
        = Cardinality(DoneBy(warp, r) \cap Ties(rows[r], t)) + Cardinality(Level(w))
    BY <1>2, <1>7, <2>3, DisjointSizes
  <2>5. /\ shared'.selected = shared.selected /\ shared'.greater = shared.greater
        /\ shared'.equal = shared.equal + Cardinality(Level(w))
    BY <2>1 DEF MemoryTyped
  <2> QED BY <1>6, <2>2, <2>4, <2>5
<1> QED BY <1>9, <1>10

LEMMA ZeroCounts ==
  ASSUME InStep, warp[0].pc \in {"clear", "greater", "handoff", "total", "emit", "place", "check"}
  PROVE  /\ warp[0].row \in 1 .. Len(rows) /\ IsRow(rows[warp[0].row]) /\ Len(rows[warp[0].row]) > K
         /\ warp[0].threshold \in Nat
<1>1. warp[0].row \in 1 .. Len(rows) /\ IsRow(rows[warp[0].row])
  BY WarpZero, MineIs
<1>2. Len(rows[warp[0].row]) > K
  BY WarpZero DEF InStep, Stands
<1> QED BY <1>1, <1>2, WarpZero, RegistersAre

\* Thread 0 clears the counters before any warp counts.
LEMMA ClearCountersKeeps ==
  ASSUME InStep, MemoryTyped, ClearCounters(0)
  PROVE  CountersRight'
<1> PICK m, n, r, t, D : m = warp[0] /\ n = warp'[0] /\ r = n.row /\ t = n.threshold /\ D = Digits
  OBVIOUS
<1>1. 0 \in Warp /\ WarpStep(0) /\ D \in Nat \ {0}
  BY WarpZero DEF WarpStep
<1>2. /\ m.pc = "clear" /\ rows' = rows /\ shared'.greater = 0 /\ shared'.equal = 0
  BY DEF ClearCounters, MemoryTyped
<1>3. Onward(m, n) /\ (\A v \in Warp \ {0} : warp'[v] = warp[v]) /\ n.pc = "greater" /\ n.row = m.row
  BY <1>1, <1>2, OnwardIs DEF Onward, Still
<1>4. r \in 1 .. Len(rows)
  BY <1>2, <1>3, ZeroCounts
<1>5. \A v \in Warp : ~CountedIn(rows, warp'[v], r, -1)
  <2> TAKE v \in Warp
  <2> PICK rm, rn, rv : rm = RoundsIn(rows, m) /\ rn = RoundsIn(rows, n) /\ rv = RoundsIn(rows, warp[v])
    OBVIOUS
  <2>1. rm = 3 * D + 1 /\ rn = 3 * D + 2
    <3>1. n.digit \in 0 .. Digits - 1 /\ m.digit \in 0 .. Digits - 1
      BY <1>1, <1>3, RegistersAre DEF Onward, Still
    <3> QED BY <1>2, <1>3, <3>1, RoundsAre
  <2>2. rv \in {rm, rm + 1}
    <3>1. Synced(0)
      BY <1>1, <1>2, MoverIs DEF Mover, Unwaited
    <3> QED BY <1>1, <1>2, <3>1, OthersAre DEF Gone, Later
  <2>3. ~(rv >= 3 * (D - (-1))) /\ ~(rn >= 3 * (D - (-1)))
    BY <1>1, <2>1, <2>2
  <2>4. CASE v = 0
    BY <2>3, <2>4 DEF CountedIn
  <2>5. CASE v # 0
    BY <1>3, <2>3, <2>5 DEF CountedIn
  <2> QED BY <2>4, <2>5
<1>6. GreaterBy(warp', r, t) = {}
  <2>1. \A i \in Over(rows[r], t) : WarpAt(i - 1) \in Warp
    BY <1>4, ReaderIs DEF Over
  <2> QED BY <1>5, <2>1 DEF GreaterBy
<1>7. shared'.greater = Cardinality(GreaterBy(warp', r, t))
  BY <1>2, <1>6, FS_EmptySet
<1>8. n.pc \notin {"total", "emit", "place", "check"}
  BY <1>3
<1> QED BY <1>2, <1>7, <1>8, CountersAre DEF CountersHold

\* When thread 0 hands the count off all warps have counted and none emits.
LEMMA HandOffKeeps ==
  ASSUME InStep, MemoryTyped, CountersRight, HandOff(0)
  PROVE  CountersRight'
<1> PICK m, n, r, t, D : m = warp[0] /\ n = warp'[0] /\ r = m.row /\ t = m.threshold /\ D = Digits
  OBVIOUS
<1>1. 0 \in Warp /\ WarpStep(0) /\ D \in Nat \ {0}
  BY WarpZero DEF WarpStep
<1>2. /\ m.pc = "handoff" /\ Synced(0) /\ rows' = rows
      /\ shared'.selected = shared.greater /\ shared'.greater = 0 /\ shared'.equal = shared.equal
  BY DEF HandOff, MemoryTyped, At
<1>3. Onward(m, n) /\ (\A v \in Warp \ {0} : warp'[v] = warp[v]) /\ n.pc = "total" /\ n.row = r /\ n.threshold = t
  BY <1>1, <1>2, OnwardIs DEF Onward, Still
<1>4. r \in 1 .. Len(rows) /\ t \in Nat
  BY <1>2, ZeroCounts
<1>5. \A v \in Warp : warp[v].row = r /\ warp[v].pc \in {"handoff", "total"}
  BY <1>1, <1>2, PeersAre DEF Peers
<1>6. \A v \in Warp : CountedIn(rows, warp[v], r, -1)
  <2> TAKE v \in Warp
  <2>1. RoundsIn(rows, warp[v]) = 3 * D + 3 \/ RoundsIn(rows, warp[v]) = 3 * D + 4
    <3>1. warp[v].digit \in 0 .. Digits - 1
      BY RegistersAre
    <3> QED BY <1>5, <3>1, RoundsAre
  <2>2. 3 * D + 3 >= 3 * (D - (-1)) /\ 3 * D + 4 >= 3 * (D - (-1))
    BY <1>1
  <2> QED BY <1>5, <2>1, <2>2 DEF CountedIn
<1>7. \A v \in Warp : warp'[v].row = r /\ warp'[v].pc \in {"handoff", "total"}
  BY <1>3, <1>5
<1>8. \A i \in DOMAIN rows[r] : WarpAt(i - 1) \in Warp /\ ~(i - 1 < 0)
  <2> TAKE i \in DOMAIN rows[r]
  <2>1. i - 1 \in Nat /\ WarpAt(i - 1) \in Warp
    BY <1>4, ReaderIs
  <2> QED BY <2>1
<1>9. GreaterBy(warp, r, t) = Over(rows[r], t)
  BY <1>6, <1>8 DEF GreaterBy, Over
<1>10. \A v \in Warp : Placed(rows, warp'[v], r) = 0 /\ Held(rows, warp'[v], r) = 0
  <2>1. ~(r > r)
    BY <1>4
  <2> QED BY <1>7, <2>1 DEF Placed, Held, IsPlacing
<1>11. ReservedBy(warp', r, t) = {} /\ DoneBy(warp', r) = {}
  BY <1>8, <1>10 DEF ReservedBy, DoneBy, Over
<1>12. shared.greater = Cardinality(GreaterBy(warp, r, t)) /\ shared.equal = 0
  <2>1. CountersHold(m, warp, shared)
    BY <1>2, CountersAre
  <2> QED BY <1>2, <2>1 DEF CountersHold
<1>13. Cardinality(ReservedBy(warp', r, t)) = 0 /\ Cardinality(DoneBy(warp', r) \cap Ties(rows[r], t)) = 0
  BY <1>11, FS_EmptySet
<1>14. n.pc \notin {"greater", "handoff"}
  BY <1>3
<1> QED BY <1>2, <1>3, <1>9, <1>12, <1>13, <1>14, CountersAre DEF CountersHold

LEMMA CountersRightKept ==
  ASSUME InStep, MemoryTyped, Agree, CountersRight, NEW w \in Warp, WarpStep(w)
  PROVE  CountersRight'
<1> PICK m, n, o, p : m = warp[w] /\ n = warp'[w] /\ o = warp[0] /\ p = warp'[0]
  OBVIOUS
<1>1. CASE CountGreater(w)
  BY <1>1, CountGreaterKeeps
<1>2. CASE ReserveGreater(w) \/ PlaceBatch(w)
  BY <1>2, EmissionKeeps
<1>3. CASE w = 0 /\ ClearCounters(w)
  BY <1>3, ClearCountersKeeps
<1>4. CASE w = 0 /\ HandOff(w)
  BY <1>4, HandOffKeeps
<1>5. CASE /\ ~CountGreater(w) /\ ~ReserveGreater(w) /\ ~PlaceBatch(w)
           /\ ~(w = 0 /\ ClearCounters(w)) /\ ~(w = 0 /\ HandOff(w))
  <2>1. rows' = rows /\ (\A v \in Warp \ {w} : warp'[v] = warp[v]) /\ 0 \in Warp /\ Synced(w)
    BY OthersStay, StepMoves, WarpZero DEF Moves
  <2>2. CountersHold(o, warp, shared)
    BY <2>1, CountersAre
  <2>3. SUFFICES CountersHold(p, warp', shared')
    BY <2>1, CountersAre
\* What warp 0 is, and was, if it counts or emits.
  <2>4. /\ p.pc \in {"greater", "handoff"} => w # 0 /\ o = p
        /\ p.pc \in {"total", "emit", "place", "check"} =>
             /\ o.pc \in {"total", "emit", "place", "check"} /\ o.row = p.row /\ o.threshold = p.threshold
             /\ w = 0 => ReadTotal(w) \/ EndEmission(w)
    <3>1. CASE w # 0
      BY <2>1, <3>1
    <3>2. CASE w = 0
      <4>1. CASE Begin(w) \/ Copy(w) \/ ZeroHistogram(w) \/ CountDigits(w) \/ PickByte(w) \/ CheckCounters(w)
        <5>1. Onward(m, n)
          BY <4>1, OnwardIs
        <5>2. m.pc \in {"begin", "copy", "zero", "count", "pick", "check"}
          BY <4>1 DEF Begin, Copy, ZeroHistogram, CountDigits, PickByte, CheckCounters, At
        <5> QED BY <3>2, <5>1, <5>2 DEF Onward
      <4>2. CASE EndEmission(w)
        <5>1. Onward(m, n)
          BY <4>2, OnwardIs
        <5>2. m.pc = "emit"
          BY <4>2 DEF EndEmission
        <5> QED BY <3>2, <4>2, <5>1, <5>2 DEF Onward, Still
      <4>3. CASE StartRadix(w)
        BY <3>2, <4>3, StartIs
      <4>4. CASE TakeByte(w)
        BY <3>2, <4>4, TakeIs
      <4>5. CASE ReadTotal(w)
        BY <3>2, <4>5, ReadIs
      <4>6. CASE Report(w)
        <5>1. NextRow(w)
          BY <4>6 DEF Report
        <5> QED BY <3>2, <5>1, NextRowIs
      <4> QED BY <1>5, <3>2, <4>1, <4>2, <4>3, <4>4, <4>5, <4>6 DEF WarpStep
    <3> QED BY <3>1, <3>2
  <2>5. /\ w # 0 => shared'.greater = shared.greater /\ shared'.equal = shared.equal /\ shared'.selected = shared.selected
        /\ ReadTotal(w) \/ EndEmission(w) => shared' = shared
    <3>1. ReadTotal(w) \/ EndEmission(w) => shared' = shared
      BY DEF ReadTotal, EndEmission
    <3>2. CASE w # 0
      BY <1>5, <3>2 DEF WarpStep, Begin, Copy, StartRadix, ZeroHistogram, CountDigits, PickByte, TakeByte, ClearCounters,
                        HandOff, ReadTotal, EndEmission, CheckCounters, Report
    <3> QED BY <3>1, <3>2
  <2>6. CASE p.pc \in {"greater", "handoff"}
    <3> PICK r, t : r = o.row /\ t = o.threshold
      OBVIOUS
    <3>1. w # 0 /\ o = p /\ r \in 1 .. Len(rows) /\ Len(rows[r]) > K
      BY <2>4, <2>6, ZeroCounts
    <3>2. -1 \in -1 .. Digits - 1 /\ m.digit # -1
      <4>1. m.digit \in 0 .. Digits - 1 /\ Digits \in Nat \ {0}
        BY RegistersAre, WarpZero
      <4> QED BY <4>1
    <3>3. m.pc # "greater"
      BY <1>5 DEF WarpStep, Begin, Copy, StartRadix, ZeroHistogram, CountDigits, PickByte, TakeByte, ClearCounters,
                  HandOff, ReadTotal, EndEmission, CheckCounters, Report, At
    <3>4. ~(m.pc = "report" /\ m.row = r)
      <4>1. m.pc = "report" /\ m.row = r => o.pc = "report"
        BY <2>1, NobodyLeaves
      <4> QED BY <2>6, <3>1, <4>1
    <3>5. CountedIn(rows, n, r, -1) <=> CountedIn(rows, m, r, -1)
      BY <3>1, <3>2, <3>3, <3>4, CountedKept
    <3>6. \A i \in Over(rows[r], t) : WarpAt(i - 1) \in Warp
      BY <3>1, ReaderIs DEF Over
    <3>7. GreaterBy(warp', r, t) = GreaterBy(warp, r, t)
      <4>1. \A v \in Warp : CountedIn(rows, warp'[v], r, -1) <=> CountedIn(rows, warp[v], r, -1)
        BY <2>1, <3>5
      <4> QED BY <3>6, <4>1 DEF GreaterBy
    <3>8. p.pc \notin {"total", "emit", "place", "check"}
      BY <2>6
    <3> QED BY <2>2, <2>5, <2>6, <3>1, <3>7, <3>8 DEF CountersHold
  <2>7. CASE p.pc \in {"total", "emit", "place", "check"}
    <3> PICK r, t : r = o.row /\ t = o.threshold
      OBVIOUS
    <3>1. /\ o.pc \in {"total", "emit", "place", "check"} /\ p.row = r /\ p.threshold = t
          /\ r \in 1 .. Len(rows) /\ Len(rows[r]) > K
      BY <2>4, <2>7, ZeroCounts
    <3>2. DoneBy(warp', r) = DoneBy(warp, r) /\ ReservedBy(warp', r, t) = ReservedBy(warp, r, t)
      BY <1>5, <3>1, OthersAlike, AlikeShow
    <3>3. shared'.greater = shared.greater /\ shared'.equal = shared.equal /\ shared'.selected = shared.selected
      BY <2>4, <2>5, <2>7
    <3>4. p.pc \notin {"greater", "handoff"}
      BY <2>7
    <3> QED BY <2>2, <3>1, <3>2, <3>3, <3>4 DEF CountersHold
  <2>8. CASE p.pc \notin {"greater", "handoff", "total", "emit", "place", "check"}
    BY <2>8 DEF CountersHold
  <2> QED BY <2>6, <2>7, <2>8
<1> QED BY <1>1, <1>2, <1>3, <1>4, <1>5

\* The hand-off reaches every warp before the counter is a cursor.
LEMMA TotalsRightKept ==
  ASSUME InStep, MemoryTyped, Agree, CountersRight, TotalsRight, NEW w \in Warp, WarpStep(w)
  PROVE  TotalsRight'
<1> PICK m, n : m = warp[w] /\ n = warp'[w]
  OBVIOUS
<1>1. rows' = rows /\ (\A v \in Warp \ {w} : warp'[v] = warp[v])
  BY OthersStay
<1>2. SUFFICES ASSUME n.pc \in {"emit", "place", "check"}
               PROVE  n.total = Cardinality(Over(rows[n.row], n.threshold))
  BY <1>1 DEF TotalsRight
<1>3. ASSUME m.pc \in {"emit", "place", "check"}, n.total = m.total, n.row = m.row, n.threshold = m.threshold
      PROVE  n.total = Cardinality(Over(rows[n.row], n.threshold))
  BY <1>3 DEF TotalsRight
<1>4. CASE ReadTotal(w)
  <2>1. m.pc = "total" /\ Synced(w) /\ n.total = shared.selected /\ n.row = m.row /\ n.threshold = m.threshold
    BY <1>4, ReadIs DEF ReadTotal, At
  <2>2. warp[0].row = m.row /\ warp[0].threshold = m.threshold /\ warp[0].pc \in {"total", "emit", "place", "check"}
    BY <2>1, ZeroShares
  <2> QED BY <2>1, <2>2 DEF CountersRight
<1>5. CASE ReserveGreater(w) \/ PlaceBatch(w)
  BY <1>3, <1>5, ReserveIs, PlaceIs
<1>6. CASE EndEmission(w)
  <2>1. Onward(m, n) /\ m.pc = "emit"
    BY <1>6, OnwardIs DEF EndEmission
  <2> QED BY <1>3, <2>1 DEF Onward, Still
<1>7. CASE \/ Begin(w) \/ Copy(w) \/ ZeroHistogram(w) \/ CountDigits(w) \/ PickByte(w)
           \/ ClearCounters(w) \/ CountGreater(w) \/ HandOff(w) \/ CheckCounters(w)
  <2>1. Onward(m, n)
    BY <1>7, OnwardIs
  <2>2. m.pc # "emit"
    BY <1>7 DEF Begin, Copy, ZeroHistogram, CountDigits, PickByte, ClearCounters, CountGreater, HandOff, CheckCounters, At
  <2> QED BY <1>2, <2>1, <2>2 DEF Onward
<1>8. CASE StartRadix(w) \/ TakeByte(w)
  BY <1>2, <1>8, StartIs, TakeIs
<1>9. CASE Report(w)
  <2>1. NextRow(w)
    BY <1>9 DEF Report
  <2> QED BY <1>2, <2>1, NextRowIs
<1> QED BY <1>4, <1>5, <1>6, <1>7, <1>8, <1>9 DEF WarpStep

\* Before the last round all pairs are placed.
LEMMA AllPlaced ==
  ASSUME InStep, NEW w \in Warp, Synced(w), warp[w].pc = "check", NEW r, r = warp[w].row, NEW t
  PROVE  DoneBy(warp, r) = DOMAIN rows[r] /\ ReservedBy(warp, r, t) = Over(rows[r], t)
<1>1. \A v \in Warp : warp[v].row = r /\ warp[v].pc \in {"check", "report"}
  BY PeersAre DEF Peers
<1>2. r \in 1 .. Len(rows) /\ Len(rows[r]) \in Nat
  BY MineIs DEF IsRow
<1>3. \A v \in Warp : Placed(rows, warp[v], r) = Len(rows[r]) /\ Held(rows, warp[v], r) = Len(rows[r])
  BY <1>1 DEF Placed, Held, IsPlacing
<1>4. \A i \in DOMAIN rows[r] : WarpAt(i - 1) \in Warp /\ i - 1 < Len(rows[r])
  <2> TAKE i \in DOMAIN rows[r]
  <2>1. i \in Nat \ {0} /\ i <= Len(rows[r]) /\ WarpAt(i - 1) \in Warp
    BY <1>2, ReaderIs
  <2> QED BY <1>2, <2>1
<1> QED BY <1>3, <1>4 DEF DoneBy, ReservedBy, Over

\* The counters are short exactly if K pairs cannot be chosen.
LEMMA ShortIs ==
  ASSUME InStep, MemoryTyped, CutRight, CountersRight, TotalsRight, Synced(0), warp[0].pc = "check"
  PROVE  Short(0) <=> ~Selects(rows[warp[0].row])
<1> PICK m, r, row, t : m = warp[0] /\ r = m.row /\ row = rows[r] /\ t = m.threshold
  OBVIOUS
<1> PICK over, ties : over = Cardinality(Over(row, t)) /\ ties = Cardinality(Ties(row, t))
  OBVIOUS
<1>1. IsRow(row) /\ Len(row) > K /\ t \in Nat /\ 0 \in Warp /\ K \in Nat
  BY ZeroCounts, WarpZero
<1>2. /\ over \in Nat /\ ties \in Nat /\ over + ties <= Cardinality(Live(row)) /\ Cardinality(Live(row)) \in Nat
  BY <1>1, PartsAre, LiveIs
<1>3. m.total = over
  BY <1>1 DEF TotalsRight
<1>4. /\ shared.greater = Cardinality(Reserved(r, t))
      /\ shared.equal = Cardinality(Done(r) \cap Ties(row, t))
  BY DEF CountersRight
<1>5. Done(r) = DOMAIN row /\ Reserved(r, t) = Over(row, t)
  <2>1. DoneBy(warp, r) = DOMAIN row /\ ReservedBy(warp, r, t) = Over(row, t)
    BY <1>1, AllPlaced
  <2> QED BY <2>1 DEF Done, DoneBy, Reserved, ReservedBy
<1>6. shared.greater = over /\ shared.equal = ties
  <2>1. Ties(row, t) \subseteq DOMAIN row
    BY DEF Ties, Live
  <2>2. Done(r) \cap Ties(row, t) = Ties(row, t)
    BY <1>5, <2>1
  <2> QED BY <1>4, <1>5, <2>2
<1>7. Short(0) <=> over >= K \/ ties < K - over
  <2>1. Short(0) <=> over < 0 \/ over >= K \/ over # over \/ K - over <= 0 \/ ties < K - over
    BY <1>3, <1>6 DEF Short
  <2> QED BY <1>1, <1>2, <2>1
<1>8. CASE Selects(row)
  <2>1. t = Cut(row)
    <3>1. Open(m) = 0 /\ m.pc \in Selecting
      BY DEF Open, Selecting, Pcs
    <3>2. t = ThresholdAt(row, 0)
      BY <1>8, <3>1 DEF CutRight
    <3> QED BY <1>1, <1>8, <3>2, TopIs
  <2>2. over < K /\ K - over <= ties
    BY <1>1, <1>8, <2>1, CutParts
  <2> QED BY <1>1, <1>2, <1>7, <1>8, <2>2
<1>9. CASE ~Selects(row)
  <2>1. ~(K <= Cardinality(Live(row)))
    BY <1>1, <1>9 DEF Selects
  <2> QED BY <1>1, <1>2, <1>7, <1>9, <2>1
<1> QED BY <1>8, <1>9

\* Thread 0's error says whether K pairs can be chosen.
LEMMA ErrorsRightKept ==
  ASSUME InStep, MemoryTyped, CutRight, CountersRight, TotalsRight, ErrorsRight,
         NEW w \in Warp, WarpStep(w)
  PROVE  ErrorsRight'
<1> PICK m, n : m = warp[0] /\ n = warp'[0]
  OBVIOUS
<1> DEFINE Reported(e, k) == e = [r \in 1 .. Len(rows) |-> IF r < k THEN Verdict(rows[r]) ELSE Unset]
<1>1. rows' = rows /\ (\A v \in Warp \ {w} : warp'[v] = warp[v]) /\ 0 \in Warp
  BY OthersStay, WarpZero
<1>2. /\ m.pc \notin {"begin", "report"} => shared.error = 0
      /\ m.pc = "report" => shared.error = Verdict(rows[m.row])
      /\ Reported(error, m.row)
  BY DEF ErrorsRight
<1>3. SUFFICES /\ n.pc \notin {"begin", "report"} => shared'.error = 0
               /\ n.pc = "report" => shared'.error = Verdict(rows[n.row])
               /\ Reported(error', n.row)
  BY <1>1 DEF ErrorsRight, Verdict, Selects, Live
<1> HIDE DEF Reported
<1>4. CASE w # 0
  <2>1. n = m /\ shared'.error = shared.error /\ error' = error
    BY <1>1, <1>4, OthersLeave
  <2> QED BY <1>2, <2>1
<1>5. ASSUME n.row = m.row, error' = error, shared'.error = shared.error,
             m.pc \notin {"begin", "report"}, n.pc \notin {"begin", "report"}
      PROVE  /\ n.pc \notin {"begin", "report"} => shared'.error = 0
             /\ n.pc = "report" => shared'.error = Verdict(rows[n.row])
             /\ Reported(error', n.row)
  BY <1>2, <1>5
<1>6. CASE w = 0 /\ Begin(w)
  <2>1. Onward(m, n) /\ m.pc = "begin" /\ error' = error /\ shared'.error = 0
    BY <1>6, OnwardIs DEF Begin, At, MemoryTyped
  <2>2. n.row = m.row /\ n.pc \in {"copy", "start"}
    BY <2>1 DEF Onward, Still
  <2> QED BY <1>2, <2>1, <2>2
<1>7. CASE w = 0 /\ Copy(w)
  <2>1. Onward(m, n) /\ m.pc = "copy" /\ error' = error /\ shared' = shared
    BY <1>7, OnwardIs DEF Copy, At
  <2>2. n.row = m.row /\ n.pc = "report"
    BY <2>1 DEF Onward, Still
  <2>3. Verdict(rows[m.row]) = 0
    <3>1. Len(rows[m.row]) <= K
      BY <1>1, <2>1 DEF InStep, Stands
    <3>2. Len(rows[m.row]) \in Nat /\ K \in Nat
      BY <1>1, <2>1, MineIs, WarpZero DEF IsRow
    <3>3. ~(Len(rows[m.row]) > K)
      BY <3>1, <3>2
    <3> QED BY <3>3 DEF Verdict
  <2> QED BY <1>2, <2>1, <2>2, <2>3
<1>8. CASE w = 0 /\ CheckCounters(w)
  <2>1. Onward(m, n) /\ m.pc = "check" /\ error' = error /\ Synced(0)
    BY <1>8, OnwardIs DEF CheckCounters, At
  <2>2. n.row = m.row /\ n.pc = "report"
    BY <2>1 DEF Onward, Still
  <2>3. shared'.error = IF Short(0) THEN 1 ELSE 0
    <3>1. shared.error = 0
      BY <1>2, <2>1
    <3> QED BY <1>8, <3>1 DEF CheckCounters, MemoryTyped
  <2>4. Verdict(rows[m.row]) = IF ~Selects(rows[m.row]) THEN 1 ELSE 0
    <3>1. Len(rows[m.row]) > K
      BY <2>1, ZeroCounts
    <3> QED BY <3>1 DEF Verdict
  <2>5. Short(0) <=> ~Selects(rows[m.row])
    BY <2>1, ShortIs
  <2>6. shared'.error = Verdict(rows[m.row])
    BY <2>3, <2>4, <2>5
  <2> QED BY <1>2, <2>1, <2>2, <2>6
<1>9. CASE w = 0 /\ Report(w)
  <2>1. m.pc = "report" /\ n.pc = "begin" /\ n.row = m.row + 1 /\ error' = [error EXCEPT ![m.row] = shared.error]
    <3>1. m.pc = "report" /\ NextRow(0) /\ error' = [error EXCEPT ![m.row] = shared.error]
      BY <1>9 DEF Report, At
    <3> QED BY <1>1, <3>1, NextRowIs
  <2>2. m.row \in 1 .. Len(rows) /\ Len(rows) \in Nat
    BY <1>1, <2>1, MineIs, RowsAre DEF InStep
  <2>3. shared.error = Verdict(rows[m.row])
    BY <1>2, <2>1
  <2>4. error' = [r \in 1 .. Len(rows) |-> IF r = m.row THEN Verdict(rows[r]) ELSE error[r]]
    BY <1>2, <2>1, <2>3 DEF Reported
  <2>5. \A r \in 1 .. Len(rows) : error'[r] = IF r < m.row + 1 THEN Verdict(rows[r]) ELSE Unset
    <3> TAKE r \in 1 .. Len(rows)
    <3>1. r \in Nat /\ m.row \in Nat
      BY <2>2
    <3>2. error[r] = IF r < m.row THEN Verdict(rows[r]) ELSE Unset
      BY <1>2 DEF Reported
    <3>3. error'[r] = IF r = m.row THEN Verdict(rows[r]) ELSE error[r]
      BY <2>4
    <3> QED BY <3>1, <3>2, <3>3
  <2>6. Reported(error', n.row)
    BY <2>1, <2>4, <2>5 DEF Reported
  <2> QED BY <2>1, <2>6
<1>10. CASE w = 0 /\ ~Begin(w) /\ ~Copy(w) /\ ~CheckCounters(w) /\ ~Report(w)
  <2>1. error' = error
    BY <1>10 DEF WarpStep, StartRadix, ZeroHistogram, CountDigits, PickByte, TakeByte, ClearCounters, CountGreater,
                 HandOff, ReadTotal, ReserveGreater, PlaceBatch, EndEmission
  <2>2. shared'.error = shared.error
    <3>1. CASE \/ StartRadix(w) \/ ZeroHistogram(w) \/ CountDigits(w) \/ TakeByte(w) \/ ReadTotal(w) \/ EndEmission(w)
      BY <3>1 DEF StartRadix, ZeroHistogram, CountDigits, TakeByte, ReadTotal, EndEmission
    <3>2. CASE PickByte(w) \/ ClearCounters(w) \/ HandOff(w)
      BY <3>2 DEF PickByte, ClearCounters, HandOff, MemoryTyped
    <3>3. CASE CountGreater(w) \/ ReserveGreater(w) \/ PlaceBatch(w)
      BY <3>3 DEF CountGreater, ReserveGreater, PlaceBatch, MemoryTyped
    <3> QED BY <1>10, <3>1, <3>2, <3>3 DEF WarpStep
  <2>3. n.row = m.row /\ m.pc \notin {"begin", "report"} /\ n.pc \notin {"begin", "report"}
    <3>1. CASE \/ ZeroHistogram(w) \/ CountDigits(w) \/ PickByte(w)
               \/ ClearCounters(w) \/ CountGreater(w) \/ HandOff(w) \/ EndEmission(w)
      <4>1. Onward(m, n)
        BY <1>10, <3>1, OnwardIs
      <4>2. m.pc \in {"zero", "count", "pick", "clear", "greater", "handoff", "emit"}
        BY <1>10, <3>1 DEF ZeroHistogram, CountDigits, PickByte, ClearCounters, CountGreater, HandOff, EndEmission, At
      <4> QED BY <4>1, <4>2 DEF Onward, Still
    <3>2. CASE StartRadix(w)
      BY <1>10, <3>2, StartIs
    <3>3. CASE TakeByte(w)
      BY <1>10, <3>3, TakeIs
    <3>4. CASE ReadTotal(w)
      BY <1>10, <3>4, ReadIs
    <3>5. CASE ReserveGreater(w)
      BY <1>10, <3>5, ReserveIs
    <3>6. CASE PlaceBatch(w)
      BY <1>10, <3>6, PlaceIs
    <3> QED BY <1>10, <3>1, <3>2, <3>3, <3>4, <3>5, <3>6 DEF WarpStep
  <2> QED BY <1>5, <2>1, <2>2, <2>3
<1> QED BY <1>4, <1>6, <1>7, <1>8, <1>9, <1>10

---------------------------------------------------------------------------
(* What the rows show.                                                      *)

OutputBy(wp, out, r) ==
  LET row == rows[r]
      t == Cut(row)
      s == Cardinality(Over(row, t))
  IN  IsOutput(Over(row, t), Ties(row, t), s, K - s, out, DoneBy(wp, r),
               Cardinality(ReservedBy(wp, r, t)), SpansBy(wp, r, t))
CopyBy(wp, out, r) ==
  out = {<<p, IF p < Len(rows[r]) THEN p + 1 ELSE 0>> : p \in {q \in 0 .. K - 1 : Copied(wp[WarpAt(q)], r)}}
IsTyped(out, r) == out \subseteq (0 .. K - 1) \X (0 .. Len(rows[r]))
RowShows(wp, out, r) ==
  /\ IsTyped(out, r)
  /\ Selects(rows[r]) => OutputBy(wp, out, r)
  /\ Len(rows[r]) <= K => CopyBy(wp, out, r)

LEMMA RowsAreRight ==
  ASSUME rows' = rows
  PROVE  /\ RowsRight <=> /\ written = [r \in 1 .. Len(rows) |-> written[r]]
                          /\ \A r \in 1 .. Len(rows) : RowShows(warp, written[r], r)
         /\ RowsRight' <=> /\ written' = [r \in 1 .. Len(rows) |-> written'[r]]
                           /\ \A r \in 1 .. Len(rows) : RowShows(warp', written'[r], r)
<1>1. \A r : (OutputRight(r) <=> OutputBy(warp, written[r], r)) /\ (CopyRight(r) <=> CopyBy(warp, written[r], r))
  BY DEF OutputRight, OutputBy, CopyRight, CopyBy, Done, DoneBy, Reserved, ReservedBy, Spans, SpansBy, Pending
<1>2. \A r : (OutputRight(r)' <=> OutputBy(warp', written'[r], r)) /\ (CopyRight(r)' <=> CopyBy(warp', written'[r], r))
  BY DEF OutputRight, OutputBy, CopyRight, CopyBy, Done, DoneBy, Reserved, ReservedBy, Spans, SpansBy, Pending,
         Over, Ties, Live, Cut, IsOutput
<1>3. RowsRight <=> /\ written = [r \in 1 .. Len(rows) |-> written[r]]
                    /\ \A r \in 1 .. Len(rows) : RowShows(warp, written[r], r)
  BY <1>1 DEF RowsRight, RowShows, IsTyped
<1>4. RowsRight' <=> /\ written' = [r \in 1 .. Len(rows) |-> written'[r]]
                     /\ \A r \in 1 .. Len(rows) : RowShows(warp', written'[r], r)
  BY <1>2 DEF RowsRight, RowShows, IsTyped, Selects, Live
<1> QED BY <1>3, <1>4

\* A row that is not written to, and of which nothing is reserved.
LEMMA RowKept ==
  ASSUME InStep, MemoryTyped, NEW w \in Warp, WarpStep(w), NEW r \in 1 .. Len(rows), NEW out,
         RowShows(warp, out, r), Len(rows[r]) > K => Alike(warp[w], warp'[w], r),
         Len(rows[r]) <= K => (Copied(warp'[w], r) <=> Copied(warp[w], r))
  PROVE  RowShows(warp', out, r)
<1> PICK t : t = Cut(rows[r])
  OBVIOUS
<1>1. Selects(rows[r]) => /\ DoneBy(warp', r) = DoneBy(warp, r) /\ ReservedBy(warp', r, t) = ReservedBy(warp, r, t)
                          /\ SpansBy(warp', r, t) = SpansBy(warp, r, t)
  BY AlikeShow DEF Selects
<1>2. Selects(rows[r]) => OutputBy(warp', out, r)
  BY <1>1 DEF RowShows, OutputBy
<1>3. Len(rows[r]) <= K => \A v \in Warp : Copied(warp'[v], r) <=> Copied(warp[v], r)
  BY OthersStay
<1>4. \A q \in 0 .. K - 1 : WarpAt(q) \in Warp
  <2>1. \A q \in 0 .. K - 1 : q \in Nat
    BY WarpZero
  <2> QED BY <2>1, WarpAtIs
<1>5. Len(rows[r]) <= K => CopyBy(warp', out, r)
  BY <1>3, <1>4 DEF RowShows, CopyBy
<1> QED BY <1>2, <1>5 DEF RowShows

\* Copying alone changes what is copied.
LEMMA OthersCopied ==
  ASSUME InStep, MemoryTyped, NEW w \in Warp, WarpStep(w), NEW r \in 1 .. Len(rows),
         ~Copy(w) \/ r # warp[w].row, Len(rows[r]) <= K
  PROVE  Copied(warp'[w], r) <=> Copied(warp[w], r)
<1> PICK m, n : m = warp[w] /\ n = warp'[w]
  OBVIOUS
<1>1. m.row \in Nat /\ r \in Nat /\ ~(m.row > m.row)
  <2>1. m.row \in Nat /\ Len(rows) \in Nat
    BY MoverIs DEF Mover
  <2> QED BY <2>1
<1>2. m.row = r => ~(Len(rows[m.row]) > K)
  <2>1. Len(rows[r]) \in Nat /\ K \in Nat
    BY RowsAre, WarpZero DEF InStep, IsRow
  <2> QED BY <2>1
<1>3. CASE \/ Begin(w) \/ Copy(w) \/ ZeroHistogram(w) \/ CountDigits(w) \/ PickByte(w)
           \/ ClearCounters(w) \/ CountGreater(w) \/ HandOff(w) \/ EndEmission(w) \/ CheckCounters(w)
  <2>1. Onward(m, n)
    BY <1>3, OnwardIs
  <2>2. n.row = m.row /\ m.pc # "report"
    BY <2>1 DEF Onward, Still
  <2>3. n.pc = "report" => m.row # r
    <3>1. n.pc = "report" => m.pc \in {"copy", "check"}
      BY <2>1 DEF Onward
    <3>2. m.pc = "check" => Len(rows[m.row]) > K
      BY MoverIs DEF Mover, Stands
    <3>3. m.pc = "copy" => m.row # r
      <4>1. m.pc = "copy" => Copy(w)
        BY <1>3 DEF Begin, ZeroHistogram, CountDigits, PickByte, ClearCounters, CountGreater, HandOff, EndEmission, CheckCounters, At
      <4> QED BY <4>1
    <3> QED BY <1>2, <3>1, <3>2, <3>3
  <2> QED BY <2>2, <2>3 DEF Copied
<1>4. CASE StartRadix(w)
  BY <1>4, StartIs DEF Copied
<1>5. CASE TakeByte(w)
  BY <1>5, TakeIs DEF Copied
<1>6. CASE ReadTotal(w)
  BY <1>6, ReadIs DEF Copied
<1>7. CASE ReserveGreater(w)
  BY <1>7, ReserveIs DEF Copied
<1>8. CASE PlaceBatch(w)
  BY <1>8, PlaceIs DEF Copied
<1>9. CASE Report(w)
  <2>1. m.pc = "report" /\ n.pc = "begin" /\ n.row = m.row + 1
    <3>1. m.pc = "report" /\ NextRow(w)
      BY <1>9 DEF Report, At
    <3> QED BY <3>1, NextRowIs
  <2>2. n.row > r <=> m.row > r \/ m.row = r
    BY <1>1, <2>1
  <2> QED BY <2>1, <2>2 DEF Copied
<1> QED BY <1>3, <1>4, <1>5, <1>6, <1>7, <1>8, <1>9 DEF WarpStep

LEMMA CopyShows ==
  ASSUME InStep, MemoryTyped, NEW w \in Warp, Copy(w), NEW r, r = warp[w].row,
         RowShows(warp, written[r], r), written = [x \in 1 .. Len(rows) |-> written[x]]
  PROVE  RowShows(warp', written'[r], r)
<1> PICK m, n : m = warp[w] /\ n = warp'[w]
  OBVIOUS
<1> DEFINE pair(p) == <<p, IF p < Len(rows[r]) THEN p + 1 ELSE 0>>
           mine == {q \in 0 .. K - 1 : WarpAt(q) = w}
<1>1. m.pc = "copy"
  BY DEF Copy, At
<1>2. /\ r \in 1 .. Len(rows) /\ Count(w) = Len(rows[r]) /\ Len(rows[r]) \in Nat /\ K \in Nat
      /\ Len(rows[r]) <= K /\ r \in Nat
  <2>1. r \in 1 .. Len(rows) /\ Count(w) = Len(rows[r]) /\ Len(rows[r]) \in Nat
    BY <1>1, MineIs DEF IsRow
  <2>2. Len(rows[r]) <= K /\ r \in Nat
    BY <1>1, MoverIs DEF Mover, Stands
  <2> QED BY <2>1, <2>2, WarpZero
<1>3. written'[r] = written[r] \cup {pair(p) : p \in mine}
  BY <1>2 DEF Copy, WarpAt
<1>4. Onward(m, n) /\ (\A v \in Warp \ {w} : warp'[v] = warp[v])
  BY OnwardIs
<1>5. Copied(n, r) /\ ~Copied(m, r)
  <2>1. n.row = r /\ n.pc = "report"
    BY <1>1, <1>4 DEF Onward, Still
  <2> QED BY <1>1, <1>2, <2>1 DEF Copied
<1>6. \A q \in 0 .. K - 1 : WarpAt(q) \in Warp
  <2>1. \A q \in 0 .. K - 1 : q \in Nat
    BY <1>2
  <2> QED BY <2>1, WarpAtIs
<1>7. {q \in 0 .. K - 1 : Copied(warp'[WarpAt(q)], r)} = {q \in 0 .. K - 1 : Copied(warp[WarpAt(q)], r)} \cup mine
  BY <1>4, <1>5, <1>6
<1>8. CopyBy(warp', written'[r], r)
  <2>1. written[r] = {pair(p) : p \in {q \in 0 .. K - 1 : Copied(warp[WarpAt(q)], r)}}
    BY <1>2 DEF RowShows, CopyBy
  <2>2. written'[r] = {pair(p) : p \in {q \in 0 .. K - 1 : Copied(warp'[WarpAt(q)], r)}}
    <3> HIDE DEF pair, mine
    <3> QED BY <1>3, <1>7, <2>1
  <2> QED BY <2>2 DEF CopyBy
<1>9. \A p \in mine : pair(p) \in (0 .. K - 1) \X (0 .. Len(rows[r]))
  <2> TAKE p \in mine
  <2>1. PICK L : L = Len(rows[r])
    OBVIOUS
  <2>2. p \in 0 .. K - 1 /\ L \in Nat
    BY <1>2, <2>1
  <2>3. (IF p < L THEN p + 1 ELSE 0) \in 0 .. L
    BY ONLY <1>2, <2>2
  <2> QED BY ONLY <2>1, <2>2, <2>3
<1>10. IsTyped(written'[r], r)
  <2> HIDE DEF pair, mine
  <2> QED BY <1>3, <1>9 DEF RowShows, IsTyped
<1>11. ~Selects(rows[r])
  BY <1>2 DEF Selects
<1> QED BY <1>8, <1>10, <1>11 DEF RowShows

\* While a warp emits, the cut and the counters are what the output says.
EmitsRight(r, w) ==
  LET t == Cut(rows[r])
  IN  /\ warp[w].threshold = t /\ Selects(rows[r])
      /\ shared.greater = Cardinality(ReservedBy(warp, r, t))
      /\ shared.equal = Cardinality(DoneBy(warp, r) \cap Ties(rows[r], t))

LEMMA EmitsAre ==
  ASSUME InStep, Agree, CutRight, CountersRight, NEW w \in Warp, warp[w].pc \in {"emit", "place"},
         NEW r, r = warp[w].row, Selects(rows[r])
  PROVE  EmitsRight(r, w)
<1> PICK m, o, t : m = warp[w] /\ o = warp[0] /\ t = m.threshold
  OBVIOUS
<1>1. Synced(w)
  BY MoverIs DEF Mover, Unwaited
<1>2. o.row = r /\ o.threshold = t /\ o.pc \in {"total", "emit", "place", "check"}
  BY <1>1, ZeroShares
<1>3. t = Cut(rows[r])
  <2>1. Open(o) = 0 /\ o.pc \in Selecting
    BY <1>2 DEF Open, Selecting, Pcs
  <2>2. t = ThresholdAt(rows[r], 0)
    BY <1>2, <2>1 DEF CutRight
  <2>3. IsRow(rows[r])
    BY MineIs
  <2> QED BY <2>2, <2>3, TopIs
<1>4. /\ shared.greater = Cardinality(ReservedBy(warp, r, t))
      /\ shared.equal = Cardinality(DoneBy(warp, r) \cap Ties(rows[r], t))
  BY <1>2 DEF CountersRight, Reserved, ReservedBy, Done, DoneBy
<1> QED BY <1>3, <1>4 DEF EmitsRight

\* The places a warp has reserved.
SpanOf(m, w, r, t) ==
  PlacesFrom(m.place, Cardinality({i \in Over(rows[r], t) :
    WarpAt(i - 1) = w /\ m.base <= i - 1 /\ i - 1 < m.base + Stride}))

LEMMA SpansAre ==
  ASSUME NEW wp, NEW r, NEW t, NEW w \in Warp
  PROVE  /\ w \in DOMAIN SpansBy(wp, r, t) <=> IsPlacing(wp[w], r)
         /\ IsPlacing(wp[w], r) => SpansBy(wp, r, t)[w] = SpanOf(wp[w], w, r, t)
BY DEF SpansBy, SpanOf

LEMMA ReserveShowsRow ==
  ASSUME InStep, MemoryTyped, Agree, CutRight, CountersRight, NEW w \in Warp, ReserveGreater(w),
         NEW r, r = warp[w].row, NEW out, RowShows(warp, out, r)
  PROVE  RowShows(warp', out, r)
<1> PICK m, n, t : m = warp[w] /\ n = warp'[w] /\ t = m.threshold
  OBVIOUS
<1>1. m.pc = "emit" /\ n.pc = "place" /\ n.row = r /\ n.base = m.base /\ n.place = shared.greater
      /\ \A v \in Warp \ {w} : warp'[v] = warp[v]
  BY ReserveIs
<1>2. r \in 1 .. Len(rows) /\ ~(Len(rows[r]) <= K)
  <2>1. r \in 1 .. Len(rows) /\ Len(rows[r]) \in Nat /\ K \in Nat
    BY <1>1, MineIs, WarpZero DEF IsRow
  <2>2. Len(rows[r]) > K
    BY <1>1, MoverIs DEF Mover, Stands
  <2> QED BY <2>1, <2>2
<1>3. SUFFICES ASSUME Selects(rows[r]) PROVE OutputBy(warp', out, r)
  BY <1>2 DEF RowShows
<1>4. t = Cut(rows[r]) /\ shared.greater = Cardinality(ReservedBy(warp, r, t))
  BY <1>1, <1>3, EmitsAre DEF EmitsRight
<1>5. /\ ReservedBy(warp', r, t) = ReservedBy(warp, r, t) \cup Above(w)
      /\ ReservedBy(warp, r, t) \cap Above(w) = {}
      /\ DoneBy(warp', r) = DoneBy(warp, r)
  BY ReserveAdds
<1>6. IsFiniteSet(Above(w)) /\ IsFiniteSet(ReservedBy(warp, r, t))
  <2>1. IsFiniteSet(Above(w))
    BY <1>1, BatchParts
  <2>2. ReservedBy(warp, r, t) \subseteq DOMAIN rows[r]
    BY DEF ReservedBy, Over
  <2> QED BY <1>2, <2>1, <2>2, PairsAreFinite
<1> PICK res, c : res = Cardinality(ReservedBy(warp, r, t)) /\ c = Cardinality(Above(w))
  OBVIOUS
<1>7. res \in Nat /\ c \in Nat /\ Cardinality(ReservedBy(warp', r, t)) = res + c
  BY <1>5, <1>6, DisjointSizes
<1> PICK spans, after : spans = SpansBy(warp, r, t) /\ after = SpansBy(warp', r, t)
  OBVIOUS
<1>8. ~IsPlacing(m, r) /\ IsPlacing(n, r)
  BY <1>1 DEF IsPlacing
<1>9. w \notin DOMAIN spans /\ DOMAIN after = DOMAIN spans \cup {w}
  <2>1. DOMAIN spans = {v \in Warp : IsPlacing(warp[v], r)} /\ DOMAIN after = {v \in Warp : IsPlacing(warp'[v], r)}
    BY DEF SpansBy
  <2> QED BY <1>1, <1>8, <2>1
<1>10. \A v \in DOMAIN spans : after[v] = spans[v]
  <2> TAKE v \in DOMAIN spans
  <2>0. DOMAIN spans \subseteq Warp
    BY DEF SpansBy
  <2>1. v \in Warp /\ v # w /\ IsPlacing(warp[v], r)
    BY <1>9, <2>0, SpansAre
  <2>2. warp'[v] = warp[v]
    BY <1>1, <2>1
  <2>3. spans[v] = SpanOf(warp[v], v, r, t) /\ after[v] = SpanOf(warp'[v], v, r, t)
    BY <2>1, <2>2, SpansAre
  <2> QED BY <2>2, <2>3
<1>11. after[w] = PlacesFrom(res, c)
  <2>1. after[w] = SpanOf(n, w, r, t)
    BY <1>8, SpansAre
  <2>2. Above(w) = {i \in Over(rows[r], t) : WarpAt(i - 1) = w /\ m.base <= i - 1 /\ i - 1 < m.base + Stride}
    BY <1>1, BatchParts, BatchIs DEF Over
  <2> QED BY <1>1, <1>4, <2>1, <2>2 DEF SpanOf
<1> PICK B, T, s, k, done : /\ B = Over(rows[r], t) /\ T = Ties(rows[r], t) /\ s = Cardinality(B) /\ k = K - s
                            /\ done = DoneBy(warp, r)
  OBVIOUS
<1>12. IsOutput(B, T, s, k, out, done, res, spans)
  BY <1>3, <1>4 DEF RowShows, OutputBy
<1>13. IsOutput(B, T, s, k, out, done, res + c, after)
  <2>1. res \in Nat /\ c \in Nat
    BY <1>7
  <2> QED BY ONLY <1>9, <1>10, <1>11, <1>12, <2>1, ReserveKeepsOutput
<1> QED BY <1>4, <1>5, <1>7, <1>13 DEF OutputBy

\* What a batch adds to a row: only places of the output, and all that the
\* counters give it.
LEMMA BatchWritten ==
  ASSUME InStep, MemoryTyped, NEW w \in Warp, PlaceBatch(w), NEW r, r = warp[w].row,
         written = [x \in 1 .. Len(rows) |-> written[x]], IsTyped(written[r], r)
  PROVE  /\ IsTyped(written'[r], r)
         /\ written'[r] = written[r] \cup
              {x \in {<<warp[w].place + Smaller(Above(w), i), i>> : i \in Above(w)}
                     \cup {<<warp[w].total + shared.equal + Smaller(Level(w), i), i>> :
                             i \in {j \in Level(w) : shared.equal + Smaller(Level(w), j) < K - warp[w].total}} :
                 x[1] >= 0 /\ x[1] < K}
<1> PICK place, total, equal, A, V : /\ place = warp[w].place /\ total = warp[w].total /\ equal = shared.equal
                                     /\ A = Above(w) /\ V = Level(w)
  OBVIOUS
<1> DEFINE above == {<<place + Smaller(A, i), i>> : i \in A}
           level == {<<total + equal + Smaller(V, i), i>> : i \in {j \in V : equal + Smaller(V, j) < K - total}}
           new == {x \in above \cup level : x[1] >= 0 /\ x[1] < K}
<1>1. warp[w].pc = "place"
  BY DEF PlaceBatch
<1>2. /\ r \in 1 .. Len(rows) /\ A \subseteq DOMAIN rows[r] /\ V \subseteq DOMAIN rows[r]
      /\ IsFiniteSet(A) /\ IsFiniteSet(V)
  BY <1>1, BatchParts
<1>3. written' = [written EXCEPT ![r] = written[r] \cup new]
  BY DEF PlaceBatch, Lower, Smaller
<1>4. written'[r] = written[r] \cup new
  <2> HIDE DEF new
  <2> QED BY <1>2, <1>3
<1>5. place \in Nat /\ total \in Nat /\ equal \in Nat /\ K \in Nat
  BY RegistersAre, WarpZero DEF MemoryTyped
<1>6. DOMAIN rows[r] = 1 .. Len(rows[r]) /\ Len(rows[r]) \in Nat
  BY <1>2, RowsAre DEF InStep, IsRow
<1>7. ASSUME NEW S, IsFiniteSet(S), NEW i PROVE Smaller(S, i) \in Nat
  <2>1. {j \in S : j < i} \subseteq S
    OBVIOUS
  <2> QED BY <1>7, <2>1, FS_Subset, FS_CardinalityType DEF Smaller
<1>8. \A x \in above \cup level : \E p \in Nat, i \in 0 .. Len(rows[r]) : x = <<p, i>>
  <2>1. \A i \in DOMAIN rows[r] : i \in 0 .. Len(rows[r])
    BY <1>6
  <2>2. \A i \in A : place + Smaller(A, i) \in Nat /\ i \in 0 .. Len(rows[r])
    BY <1>2, <1>5, <1>7, <2>1
  <2>3. \A i \in V : total + equal + Smaller(V, i) \in Nat /\ i \in 0 .. Len(rows[r])
    <3> TAKE i \in V
    <3> PICK x : x = Smaller(V, i)
      OBVIOUS
    <3>1. x \in Nat /\ i \in 0 .. Len(rows[r])
      BY <1>2, <1>7, <2>1
    <3>2. total + equal + x \in Nat
      BY ONLY <1>5, <3>1
    <3> QED BY <3>1, <3>2
  <2> QED BY <2>2, <2>3
<1>9. \A x \in new : x \in (0 .. K - 1) \X (0 .. Len(rows[r]))
  <2> TAKE x \in new
  <2>1. PICK p \in Nat, i \in 0 .. Len(rows[r]) : x = <<p, i>>
    BY <1>8
  <2>2. x[1] < K /\ x[1] = p
    BY <2>1
  <2>3. p \in 0 .. K - 1
    BY <1>5, <2>1, <2>2
  <2> HIDE DEF new
  <2> QED BY <2>1, <2>3
<1>10. IsTyped(written'[r], r)
  <2> HIDE DEF new
  <2> QED BY <1>4, <1>9 DEF IsTyped
<1> QED BY <1>4, <1>10

\* In a row that can be selected no place is left out.
Uncut(new, n) == \A x \in new : x[1] >= 0 /\ x[1] < n

LEMMA NothingCut ==
  ASSUME NEW A, A \subseteq Int, IsFiniteSet(A), NEW V, V \subseteq Int, IsFiniteSet(V),
         NEW first \in Nat, NEW reserved \in Nat, NEW s \in Nat, NEW e \in Nat, NEW n \in Nat,
         NEW k, k = n - s,
         reserved <= s, s < n, \A p \in PlacesFrom(first, Cardinality(A)) : p < reserved
  PROVE  Uncut(WithBatch({}, s, k, first, A, e, V), n)
<1> DEFINE above == {<<first + Smaller(A, i), i>> : i \in A}
           level == {<<s + e + Smaller(V, i), i>> : i \in {j \in V : e + Smaller(V, j) < k}}
<1>1. \A i \in A : Smaller(A, i) \in 0 .. Cardinality(A) - 1 /\ Cardinality(A) \in Nat
  BY RanksAreDense
<1>2. \A i \in V : Smaller(V, i) \in 0 .. Cardinality(V) - 1 /\ Cardinality(V) \in Nat
  BY RanksAreDense
<1>3. \A i \in A : first + Smaller(A, i) >= 0 /\ first + Smaller(A, i) < n
  <2> TAKE i \in A
  <2> PICK a, c : a = Smaller(A, i) /\ c = Cardinality(A)
    OBVIOUS
  <2>1. a \in 0 .. c - 1 /\ c \in Nat
    BY <1>1
  <2>2. first + a \in PlacesFrom(first, c)
    BY <2>1 DEF PlacesFrom
  <2>3. first + a < reserved
    BY <2>2
  <2> QED BY <2>1, <2>3
<1>4. \A i \in V : e + Smaller(V, i) < k => s + e + Smaller(V, i) >= 0 /\ s + e + Smaller(V, i) < n
  <2> TAKE i \in V
  <2> PICK a, c : a = Smaller(V, i) /\ c = Cardinality(V)
    OBVIOUS
  <2>1. a \in 0 .. c - 1 /\ c \in Nat
    BY <1>2
  <2> QED BY <2>1
<1>5. \A x \in above : x[1] >= 0 /\ x[1] < n
  BY <1>3
<1>6. \A x \in level : x[1] >= 0 /\ x[1] < n
  BY <1>4
<1>7. WithBatch({}, s, k, first, A, e, V) = above \cup level
  BY DEF WithBatch
<1> HIDE DEF above, level
<1> QED BY <1>5, <1>6, <1>7 DEF Uncut

LEMMA PlaceShowsRow ==
  ASSUME InStep, MemoryTyped, Agree, CutRight, CountersRight, TotalsRight, NEW w \in Warp, PlaceBatch(w),
         NEW r, r = warp[w].row, RowShows(warp, written[r], r),
         written = [x \in 1 .. Len(rows) |-> written[x]]
  PROVE  RowShows(warp', written'[r], r)
<1> PICK m, n, t, out : m = warp[w] /\ n = warp'[w] /\ t = m.threshold /\ out = written[r]
  OBVIOUS
<1>1. /\ m.pc = "place" /\ n.pc = "emit" /\ n.row = r /\ m.row = r
      /\ \A v \in Warp \ {w} : warp'[v] = warp[v]
  BY PlaceIs
<1>2. r \in 1 .. Len(rows) /\ ~(Len(rows[r]) <= K) /\ IsRow(rows[r]) /\ K \in Nat
  <2>1. r \in 1 .. Len(rows) /\ Len(rows[r]) \in Nat /\ K \in Nat /\ IsRow(rows[r])
    BY <1>1, MineIs, WarpZero DEF IsRow
  <2>2. Len(rows[r]) > K
    BY <1>1, MoverIs DEF Mover, Stands
  <2> QED BY <2>1, <2>2
<1>3. IsTyped(written'[r], r)
  BY BatchWritten DEF RowShows
<1>4. SUFFICES ASSUME Selects(rows[r]) PROVE OutputBy(warp', written'[r], r)
  BY <1>2, <1>3 DEF RowShows
<1>5. t = Cut(rows[r]) /\ shared.equal = Cardinality(DoneBy(warp, r) \cap Ties(rows[r], t))
  BY <1>1, <1>4, EmitsAre DEF EmitsRight
<1> PICK B, T, s, k, done, batch, res, spans, after, e :
      /\ B = Over(rows[r], t) /\ T = Ties(rows[r], t) /\ s = Cardinality(B) /\ k = K - s
      /\ done = DoneBy(warp, r) /\ batch = BatchAt(w, m.base) /\ res = Cardinality(ReservedBy(warp, r, t))
      /\ spans = SpansBy(warp, r, t) /\ after = SpansBy(warp', r, t) /\ e = shared.equal
  OBVIOUS
<1>6. IsOutput(B, T, s, k, out, done, res, spans)
  BY <1>4, <1>5 DEF RowShows, OutputBy
<1>7. /\ ToPlace(B, T, s, k) /\ s < K
  BY <1>2, <1>4, <1>5, CutParts
<1>8. m.total = s
  BY <1>1 DEF TotalsRight
<1>9. /\ DoneBy(warp', r) = done \cup batch /\ done \cap batch = {}
      /\ ReservedBy(warp', r, t) = ReservedBy(warp, r, t)
  BY PlaceAdds
<1>10. /\ Above(w) = batch \cap B /\ Level(w) = batch \cap T /\ batch \subseteq DOMAIN rows[r]
       /\ IsFiniteSet(Above(w)) /\ IsFiniteSet(Level(w))
  BY <1>1, BatchParts
<1>11. res \in Nat /\ s \in Nat /\ res <= s /\ e \in Nat
  <2>1. ReservedBy(warp, r, t) \subseteq B /\ IsFiniteSet(B)
    BY <1>7 DEF ReservedBy, ToPlace
  <2>2. res \in Nat /\ s \in Nat /\ res <= s
    BY <2>1, FS_Subset, FS_CardinalityType
  <2> QED BY <2>2 DEF MemoryTyped
<1>12. IsPlacing(m, r) /\ ~IsPlacing(n, r)
  BY <1>1 DEF IsPlacing
<1>13. w \in DOMAIN spans /\ IsWithout(after, spans, w)
  <2>1. DOMAIN spans = {v \in Warp : IsPlacing(warp[v], r)} /\ DOMAIN after = {v \in Warp : IsPlacing(warp'[v], r)}
    BY DEF SpansBy
  <2>2. w \in DOMAIN spans /\ DOMAIN after = DOMAIN spans \ {w}
    BY <1>1, <1>12, <2>1
  <2>3. \A v \in DOMAIN after : after[v] = spans[v]
    <3> TAKE v \in DOMAIN after
    <3>0. DOMAIN spans \subseteq Warp
      BY DEF SpansBy
    <3>1. v \in Warp /\ v # w /\ IsPlacing(warp[v], r)
      BY <2>2, <3>0, SpansAre
    <3>2. warp'[v] = warp[v]
      BY <1>1, <3>1
    <3>3. spans[v] = SpanOf(warp[v], v, r, t) /\ after[v] = SpanOf(warp'[v], v, r, t)
      BY <3>1, <3>2, SpansAre
    <3> QED BY <3>2, <3>3
  <2> QED BY <2>2, <2>3 DEF IsWithout
<1>14. spans[w] = PlacesFrom(m.place, Cardinality(Above(w))) /\ m.place \in Nat
  <2>1. spans[w] = SpanOf(m, w, r, t)
    BY <1>12, SpansAre
  <2>2. Above(w) = {i \in Over(rows[r], t) : WarpAt(i - 1) = w /\ m.base <= i - 1 /\ i - 1 < m.base + Stride}
    BY <1>1, BatchParts, BatchIs DEF Over
  <2> QED BY <2>1, <2>2, RegistersAre DEF SpanOf
<1>15. written'[r] = WithBatch(out, s, k, m.place, Above(w), e, Level(w))
  <2>1. written'[r] = out \cup
          {x \in {<<m.place + Smaller(Above(w), i), i>> : i \in Above(w)}
                 \cup {<<s + e + Smaller(Level(w), i), i>> :
                         i \in {j \in Level(w) : e + Smaller(Level(w), j) < K - s}} :
             x[1] >= 0 /\ x[1] < K}
    <3>1. IsTyped(written[r], r)
      BY DEF RowShows
    <3>2. written'[r] = written[r] \cup
            {x \in {<<warp[w].place + Smaller(Above(w), i), i>> : i \in Above(w)}
                   \cup {<<warp[w].total + shared.equal + Smaller(Level(w), i), i>> :
                           i \in {j \in Level(w) : shared.equal + Smaller(Level(w), j) < K - warp[w].total}} :
               x[1] >= 0 /\ x[1] < K}
      BY <3>1, BatchWritten
    <3>3. written[r] = out /\ warp[w] = m /\ m.total = s /\ shared.equal = e
      BY <1>8
    <3> QED BY ONLY <3>2, <3>3
  <2>2. \A v \in DOMAIN spans : \A p \in spans[v] : p < res
    BY ONLY <1>6 DEF IsOutput
  <2>3. Above(w) \subseteq Int /\ Level(w) \subseteq Int
    BY <1>2, <1>10 DEF IsRow
  <2>4. PICK A, V, first : A = Above(w) /\ V = Level(w) /\ first = m.place
    OBVIOUS
  <2>5. A \subseteq Int /\ V \subseteq Int /\ IsFiniteSet(A) /\ IsFiniteSet(V) /\ first \in Nat
    BY <1>10, <1>14, <2>3, <2>4
  <2>6. \A p \in PlacesFrom(first, Cardinality(A)) : p < res
    BY <1>13, <1>14, <2>2, <2>4
  <2>7. K \in Nat /\ s < K /\ k = K - s
    BY <1>2, <1>7
  <2>8. Uncut(WithBatch({}, s, k, first, A, e, V), K)
    BY ONLY <1>11, <2>5, <2>6, <2>7, NothingCut
  <2>9. WithBatch(out, s, k, first, A, e, V) = out \cup WithBatch({}, s, k, first, A, e, V)
    BY DEF WithBatch
  <2>10. PICK new : new = WithBatch({}, s, k, first, A, e, V)
    OBVIOUS
  <2>11. new = {<<first + Smaller(A, i), i>> : i \in A}
                 \cup {<<s + e + Smaller(V, i), i>> :
                         i \in {j \in V : e + Smaller(V, j) < k}}
    BY ONLY <2>10 DEF WithBatch
  <2>12. written'[r] = out \cup {x \in new : x[1] >= 0 /\ x[1] < K}
    BY ONLY <2>1, <2>4, <2>7, <2>11, Zenon
  <2>13. written'[r] = out \cup new
    <3>1. \A x \in new : x[1] >= 0 /\ x[1] < K
      BY ONLY <2>8, <2>10, Zenon DEF Uncut
    <3> QED BY ONLY <2>12, <3>1, Zenon
  <2> QED BY ONLY <2>4, <2>9, <2>10, <2>13, Zenon
<1>16. IsOutput(B, T, s, k, WithBatch(out, s, k, m.place, Above(w), e, Level(w)), done \cup batch, res, after)
  <2>1. batch \cap done = {} /\ e = Cardinality(done \cap T)
    BY <1>5, <1>9
  <2> QED BY ONLY <1>6, <1>7, <1>10, <1>11, <1>13, <1>14, <2>1, PlaceKeepsOutput
<1> QED BY <1>5, <1>9, <1>15, <1>16 DEF OutputBy

LEMMA RowsRightKept ==
  ASSUME InStep, MemoryTyped, Agree, CutRight, CountersRight, TotalsRight, RowsRight,
         NEW w \in Warp, WarpStep(w)
  PROVE  RowsRight'
<1> PICK m, n, q : m = warp[w] /\ n = warp'[w] /\ q = m.row
  OBVIOUS
<1>1. rows' = rows
  BY OthersStay
<1>2. /\ written = [r \in 1 .. Len(rows) |-> written[r]]
      /\ \A r \in 1 .. Len(rows) : RowShows(warp, written[r], r)
  BY <1>1, RowsAreRight
<1>3. SUFFICES /\ written' = [r \in 1 .. Len(rows) |-> written'[r]]
               /\ \A r \in 1 .. Len(rows) : RowShows(warp', written'[r], r)
  BY <1>1, RowsAreRight
<1>4. \A r \in 1 .. Len(rows) : Len(rows[r]) \in Nat /\ K \in Nat
  BY RowsAre, WarpZero DEF InStep, IsRow
\* The rows that the step does not concern.
<1>5. ASSUME NEW r \in 1 .. Len(rows),
             Copy(w) \/ ReserveGreater(w) \/ PlaceBatch(w) => r # q
      PROVE  RowShows(warp', written[r], r)
  <2>1. Len(rows[r]) > K => Alike(m, n, r)
    <3>1. ReserveGreater(w) => Alike(m, n, r)
      BY <1>5, ReserveShows
    <3>2. PlaceBatch(w) => Alike(m, n, r)
      BY <1>5, PlaceShows
    <3> QED BY <3>1, <3>2, OthersAlike
  <2>2. Len(rows[r]) <= K => (Copied(n, r) <=> Copied(m, r))
    BY <1>5, OthersCopied
  <2> QED BY <1>2, <2>1, <2>2, RowKept
<1>6. CASE Copy(w)
  <2>1. m.pc = "copy"
    BY <1>6 DEF Copy, At
  <2>2. q \in 1 .. Len(rows)
    BY <2>1, MineIs
  <2>3. written' = [r \in 1 .. Len(rows) |-> written'[r]] /\ \A r \in 1 .. Len(rows) : r # q => written'[r] = written[r]
    BY <1>2, <1>6 DEF Copy
  <2>4. RowShows(warp', written'[q], q)
    BY <1>2, <1>6, <2>2, CopyShows
  <2> QED BY <1>5, <2>2, <2>3, <2>4
<1>7. CASE ReserveGreater(w)
  <2>1. m.pc = "emit" /\ written' = written
    BY <1>7 DEF ReserveGreater
  <2>2. q \in 1 .. Len(rows)
    BY <2>1, MineIs
  <2>3. RowShows(warp', written[q], q)
    BY <1>2, <1>7, <2>2, ReserveShowsRow
  <2>4. \A r \in 1 .. Len(rows) : RowShows(warp', written[r], r)
    BY <1>5, <2>3
  <2> QED BY <1>2, <2>1, <2>4
<1>8. CASE PlaceBatch(w)
  <2>1. m.pc = "place"
    BY <1>8 DEF PlaceBatch
  <2>2. q \in 1 .. Len(rows)
    BY <2>1, MineIs
  <2>3. written' = [r \in 1 .. Len(rows) |-> written'[r]] /\ \A r \in 1 .. Len(rows) : r # q => written'[r] = written[r]
    BY <1>2, <1>8 DEF PlaceBatch
  <2>4. RowShows(warp', written'[q], q)
    BY <1>2, <1>8, <2>2, PlaceShowsRow
  <2> QED BY <1>5, <2>2, <2>3, <2>4
<1>9. CASE ~Copy(w) /\ ~ReserveGreater(w) /\ ~PlaceBatch(w)
  <2>1. written' = written
    BY <1>9 DEF WarpStep, Begin, StartRadix, ZeroHistogram, CountDigits, PickByte, TakeByte, ClearCounters, CountGreater,
                HandOff, ReadTotal, EndEmission, CheckCounters, Report
  <2>2. \A r \in 1 .. Len(rows) : RowShows(warp', written[r], r)
    BY <1>5, <1>9
  <2> QED BY <1>2, <2>1, <2>2
<1> QED BY <1>6, <1>7, <1>8, <1>9

---------------------------------------------------------------------------
(* The invariant holds.                                                     *)

First == [pc |-> "begin", row |-> 1, digit |-> 0, rank |-> 0, threshold |-> 0,
          total |-> 0, base |-> 0, place |-> 0]

LEMMA FirstStands ==
  ASSUME NEW in \in Inputs
  PROVE  Stands(in, First)
<1>1. Len(in) \in Nat
  BY RowsAre
<1>2. First \in [pc : Pcs, row : 1 .. Len(in) + 1, digit : 0 .. Digits - 1, rank : Int,
                 threshold : Nat, total : Nat, base : Nat, place : Nat]
  <2>1. 1 \in 1 .. Len(in) + 1 /\ 0 \in 0 .. Digits - 1
    BY <1>1, WarpZero
  <2> QED BY <2>1 DEF First, Pcs
<1>3. 0 % Stride = 0
  <2>1. PICK s \in Nat \ {0} : s = Stride
    BY StrideIs
  <2>2. 0 % s = 0
    BY ONLY <2>1
  <2> QED BY <2>1, <2>2
<1>4. First.pc = "begin" /\ First.base = 0
  BY DEF First
<1> QED BY <1>2, <1>3, <1>4 DEF Stands

LEMMA FirstRow ==
  ASSUME Init, NEW r \in 1 .. Len(rows)
  PROVE  /\ Done(r) = {} /\ (\A t : Reserved(r, t) = {} /\ DOMAIN Spans(r, t) = {})
         /\ \A w \in Warp : ~Copied(warp[w], r)
<1>1. Len(rows) \in Nat /\ IsRow(rows[r]) /\ ~(1 > r) /\ r \in Nat
  <2>1. Len(rows) \in Nat /\ IsRow(rows[r])
    BY RowsAre DEF Init
  <2> QED BY <2>1
<1>2. \A w \in Warp : warp[w].pc = "begin" /\ warp[w].row = 1
  BY DEF Init
<1>3. \A w \in Warp : ~Copied(warp[w], r) /\ ~IsPlacing(warp[w], r)
                      /\ Placed(rows, warp[w], r) = 0 /\ Held(rows, warp[w], r) = 0
  BY <1>1, <1>2 DEF Copied, IsPlacing, Placed, Held
<1>4. \A i \in DOMAIN rows[r] : WarpAt(i - 1) \in Warp /\ ~(i - 1 < 0)
  <2> TAKE i \in DOMAIN rows[r]
  <2>1. i \in Nat \ {0}
    BY <1>1 DEF IsRow
  <2>2. i - 1 \in Nat
    BY <2>1
  <2> QED BY <2>2, WarpAtIs
<1>5. Done(r) = {}
  BY <1>3, <1>4 DEF Done
<1>6. ASSUME NEW t PROVE Reserved(r, t) = {}
  BY <1>3, <1>4 DEF Reserved, Over
<1>7. ASSUME NEW t PROVE DOMAIN Spans(r, t) = {}
  BY <1>3 DEF Spans
<1> QED BY <1>3, <1>5, <1>6, <1>7

LEMMA InitInv == Init => IInv
<1> SUFFICES ASSUME Init PROVE IInv
  OBVIOUS
<1>1. rows \in Inputs /\ Len(rows) \in Nat /\ warp = [w \in Warp |-> First] /\ entered = [w \in Warp |-> 0]
  BY RowsAre DEF Init, First
<1>2. \A w \in Warp : warp[w] = First /\ warp[w].pc = "begin" /\ warp[w].row = 1 /\ entered[w] = 0
  BY <1>1 DEF First
<1>3. InStep
  <2>1. \A w \in Warp : Stands(rows, warp[w])
    BY <1>1, <1>2, FirstStands
  <2>2. RoundsIn(rows, First) = 0
    BY DEF RoundsIn, First
  <2>3. \A v, w \in Warp : Ahead(rows, warp[v], warp[w], entered[v] - entered[w])
    BY <1>2, <2>2 DEF Ahead
  <2> QED BY <1>1, <1>2, <2>1, <2>3 DEF InStep, Unwaited
<1>4. MemoryTyped
  BY DEF Init, MemoryTyped
<1>5. Agree /\ BinsRight /\ TotalsRight
  <2>1. \A b \in Bin : WarpAt(b) \in Warp
    <3>1. \A b \in Bin : b \in Nat
      BY DEF Bin
    <3> QED BY <3>1, WarpAtIs
  <2> QED BY <1>2, <2>1 DEF Agree, BinsRight, TotalsRight, Selecting
<1>6. CutRight /\ CountersRight
  BY <1>2, WarpZero DEF CutRight, CountersRight, Selecting
<1>7. ErrorsRight
  <2>1. \A r \in 1 .. Len(rows) : ~(r < 1)
    BY <1>1
  <2>2. error = [r \in 1 .. Len(rows) |-> Unset]
    BY DEF Init
  <2>3. error = [r \in 1 .. Len(rows) |-> IF r < warp[0].row THEN Verdict(rows[r]) ELSE Unset]
    BY <1>2, <2>1, <2>2, WarpZero
  <2> QED BY <1>2, <2>3, WarpZero DEF ErrorsRight
<1>8. RowsRight
  <2>1. written = [r \in 1 .. Len(rows) |-> {}]
    BY DEF Init
  <2>2. ASSUME NEW r \in 1 .. Len(rows), Selects(rows[r]) PROVE OutputRight(r)
    <3> PICK t, s : t = Cut(rows[r]) /\ s = Cardinality(Over(rows[r], t))
      OBVIOUS
    <3>1. IsRow(rows[r])
      BY <1>1, RowsAre
    <3>2. s \in Nat /\ s < K /\ K - s \in Nat \ {0}
      <4>1. s \in Nat /\ s < K
        BY <2>2, <3>1, CutIs, CutParts, PartsAre
      <4> QED BY <4>1, WarpZero
    <3>3. Done(r) = {} /\ Cardinality(Reserved(r, t)) = 0 /\ DOMAIN Spans(r, t) = {}
      BY FirstRow, FS_EmptySet
    <3>4. written[r] = {}
      BY <2>1
    <3>5. IsOutput(Over(rows[r], t), Ties(rows[r], t), s, K - s, {}, {}, 0, Spans(r, t))
      BY <3>2, <3>3, NothingIsOutput
    <3> QED BY <3>3, <3>4, <3>5 DEF OutputRight
  <2>3. ASSUME NEW r \in 1 .. Len(rows) PROVE CopyRight(r)
    <3>1. \A q \in 0 .. K - 1 : WarpAt(q) \in Warp
      <4>1. \A q \in 0 .. K - 1 : q \in Nat
        BY WarpZero
      <4> QED BY <4>1, WarpAtIs
    <3>2. {q \in 0 .. K - 1 : Copied(warp[WarpAt(q)], r)} = {}
      BY <3>1, FirstRow
    <3> QED BY <2>1, <3>2 DEF CopyRight
  <2> QED BY <2>1, <2>2, <2>3 DEF RowsRight
<1> QED BY <1>3, <1>4, <1>5, <1>6, <1>7, <1>8 DEF IInv

LEMMA StepInv == IInv /\ [Next]_vars => IInv'
<1> SUFFICES ASSUME IInv, [Next]_vars PROVE IInv'
  OBVIOUS
<1> USE DEF IInv
<1>1. CASE \E w \in Warp : WarpStep(w)
  <2> PICK w \in Warp : WarpStep(w)
    BY <1>1
  <2>1. InStep'
    BY StepMoves, InStepKept
  <2>2. MemoryTyped'
    BY MemoryTypedKept
  <2>3. Agree'
    BY AgreeKept
  <2>4. CutRight'
    BY CutRightKept
  <2>5. BinsRight'
    BY BinsRightKept
  <2>6. CountersRight'
    BY CountersRightKept
  <2>7. TotalsRight'
    BY TotalsRightKept
  <2>8. ErrorsRight'
    BY ErrorsRightKept
  <2>9. RowsRight'
    BY RowsRightKept
  <2> QED BY <2>1, <2>2, <2>3, <2>4, <2>5, <2>6, <2>7, <2>8, <2>9
<1>2. CASE UNCHANGED vars
  <2>1. /\ rows' = rows /\ warp' = warp /\ entered' = entered /\ histogram' = histogram
        /\ shared' = shared /\ written' = written /\ error' = error
    BY <1>2 DEF vars
  <2>2. InStep' /\ MemoryTyped' /\ Agree'
    BY <2>1 DEF InStep, MemoryTyped, Agree
  <2>3. CutRight'
    BY <2>1 DEF CutRight, Selects, Live, ThresholdAt, RankAt, Cut
  <2>4. BinsRight'
    BY <2>1, BinsHold
  <2>5. CountersRight'
    BY <2>1, CountersAre
  <2>6. TotalsRight' /\ ErrorsRight'
    BY <2>1 DEF TotalsRight, ErrorsRight, Over, Verdict, Selects, Live
  <2>7. RowsRight'
    BY <2>1, RowsAreRight
  <2> QED BY <2>2, <2>3, <2>4, <2>5, <2>6, <2>7
<1> QED BY <1>1, <1>2 DEF Next

\* The invariant, of every behaviour: the rounds keep the warps together, and
\* what shared memory, the registers and the rows hold follows from where they
\* are.
THEOREM PairsInvariant == Spec => []IInv
BY InitInv, StepInv, PTL DEF Spec

\* TypeOK: no warp is ever more than one round of __syncthreads ahead of
\* another, so a row's counters are never reused under a warp that still needs
\* them.
THEOREM SelectPairsTypes == Spec => []TypeOK
<1>1. IInv => TypeOK
  <2> SUFFICES ASSUME IInv PROVE TypeOK
    OBVIOUS
  <2>1. ASSUME NEW v \in Warp, NEW w \in Warp PROVE entered[v] - entered[w] \in -1 .. 1
    <3> PICK a, b : a = entered[v] /\ b = entered[w]
      OBVIOUS
    <3>1. a \in Nat /\ b \in Nat /\ a <= b + 1 /\ b <= a + 1
      BY DEF IInv, InStep
    <3>2. a - b \in -1 .. 1
      BY ONLY <3>1
    <3> QED BY <3>2
  <2>2. shared.byte \in Bin /\ shared.error \in {0, 1}
    BY DEF IInv, MemoryTyped
  <2> QED BY <2>1, <2>2 DEF IInv, RowsRight, TypeOK
<1> QED BY <1>1, PairsInvariant, PTL

\* GreaterHandedOff: every warp that emits took the true number of greater
\* pairs before its counter became the cursor of the reservations, whether the
\* row can be selected or not.
THEOREM GreaterIsHandedOff == Spec => []GreaterHandedOff
<1>1. IInv => GreaterHandedOff
  <2> SUFFICES ASSUME IInv, NEW w \in Warp, warp[w].pc \in {"emit", "place"}
               PROVE  warp[w].total = Cardinality({i \in 1 .. Count(w) : Row(w)[i] > warp[w].threshold})
    BY DEF GreaterHandedOff
  <2>1. /\ Row(w) = rows[warp[w].row] /\ DOMAIN rows[warp[w].row] = 1 .. Count(w)
    BY MineIs DEF IInv
  <2>2. warp[w].total = Cardinality(Over(rows[warp[w].row], warp[w].threshold))
    BY DEF IInv, TotalsRight
  <2> QED BY <2>1, <2>2 DEF Over
<1> QED BY <1>1, PairsInvariant, PTL

\* When thread 0 has read a row's error, all have placed or copied its pairs.
LEMMA RowIsLeft ==
  ASSUME InStep, NEW r \in 1 .. Len(rows), r < warp[0].row
  PROVE  /\ \A w \in Warp : Copied(warp[w], r)
         /\ Done(r) = DOMAIN rows[r] /\ \A t : Reserved(r, t) = Over(rows[r], t)
<1>1. IsRow(rows[r]) /\ r \in Nat
  BY RowsAre DEF InStep
<1>2. ASSUME NEW w \in Warp
      PROVE  warp[w].row > r \/ (warp[w].row = r /\ warp[w].pc = "report")
  <2> PICK m, n : m = warp[0] /\ n = warp[w]
    OBVIOUS
  <2>1. m.row \in Nat /\ n.row \in Nat /\ m.row > r
    BY <1>1, WarpZero, MoverIs DEF Mover
  <2>2. \/ m.row = n.row
        \/ m.row = n.row + 1 /\ n.pc = "report"
        \/ n.row = m.row + 1
    BY WarpZero DEF InStep, Ahead
  <2> QED BY <1>1, <2>1, <2>2
<1>3. ASSUME NEW w \in Warp
      PROVE  /\ Copied(warp[w], r)
             /\ Placed(rows, warp[w], r) = Len(rows[r]) /\ Held(rows, warp[w], r) = Len(rows[r])
  <2>1. ~IsPlacing(warp[w], r)
    <3>1. warp[w].row \in Nat /\ r \in Nat
      BY <1>1, MoverIs DEF Mover
    <3>2. warp[w].row > r => warp[w].row # r
      BY <3>1
    <3> QED BY <1>2, <3>2 DEF IsPlacing
  <2> QED BY <1>2, <2>1 DEF Copied, Placed, Held
<1>4. \A i \in DOMAIN rows[r] : WarpAt(i - 1) \in Warp /\ i - 1 < Len(rows[r])
  <2> TAKE i \in DOMAIN rows[r]
  <2>1. i \in Nat \ {0} /\ i <= Len(rows[r]) /\ Len(rows[r]) \in Nat /\ WarpAt(i - 1) \in Warp
    BY <1>1, ReaderIs DEF IsRow
  <2> QED BY <2>1
<1>5. Done(r) = DOMAIN rows[r]
  BY <1>3, <1>4 DEF Done
<1>6. ASSUME NEW t PROVE Reserved(r, t) = Over(rows[r], t)
  BY <1>3, <1>4 DEF Reserved, Over
<1> QED BY <1>3, <1>5, <1>6

LEMMA SelectedIsExact ==
  ASSUME IInv, NEW r \in 1 .. Len(rows), r < warp[0].row, Selects(rows[r])
  PROVE  LET chosen == {x[2] : x \in written[r]}
         IN  /\ {x[1] : x \in written[r]} = 0 .. K - 1 /\ Cardinality(written[r]) = K
             /\ Cardinality(chosen) = K
             /\ \A i \in chosen, j \in DOMAIN rows[r] \ chosen : rows[r][i] >= rows[r][j]
<1> PICK row, t, B, T, s, out :
      /\ row = rows[r] /\ t = Cut(row) /\ B = Over(row, t) /\ T = Ties(row, t) /\ s = Cardinality(B)
      /\ out = written[r]
  OBVIOUS
<1>1. IsRow(row) /\ t \in Nat
  BY RowsAre, CutIs DEF IInv, InStep
<1>2. /\ ToPlace(B, T, s, K - s) /\ s < K /\ K - s <= Cardinality(T) /\ s \in Nat /\ K \in Nat
      /\ B \cup T \subseteq DOMAIN row
  <2>1. B \cup T \subseteq DOMAIN row
    BY DEF Over, Ties, Live
  <2> QED BY <1>1, <2>1, CutParts, PartsAre, WarpZero
<1>3. PICK spans : IsOutput(B, T, s, K - s, out, DOMAIN row, s, spans)
  <2>1. Done(r) = DOMAIN row /\ Cardinality(Reserved(r, t)) = s
    BY RowIsLeft DEF IInv
  <2>2. IsOutput(B, T, s, K - s, out, Done(r), Cardinality(Reserved(r, t)), Spans(r, t))
    BY DEF IInv, RowsRight, OutputRight
  <2> QED BY <2>1, <2>2
<1>4. IsSelection(B, T, K, out)
  <2>1. PICK k : k = K - s
    OBVIOUS
  <2>2. IsSelection(B, T, s + k, out)
    BY <1>2, <1>3, <2>1, OutputIsSelection
  <2>3. s + k = K
    BY ONLY <1>2, <2>1
  <2> QED BY <2>2, <2>3
<1> PICK chosen : chosen = {x[2] : x \in out}
  OBVIOUS
<1>5. \A i \in chosen, j \in DOMAIN row \ chosen : row[i] >= row[j]
  <2> TAKE i \in chosen, j \in DOMAIN row \ chosen
  <2>1. B \subseteq chosen /\ chosen \subseteq B \cup T
    BY <1>4 DEF IsSelection
  <2>2. row[i] \in Nat /\ row[j] \in Nat
    BY <1>1, <1>2, <2>1 DEF IsRow
  <2>3. row[i] > t \/ row[i] = t
    BY <2>1 DEF Over, Ties
  <2>4. ~(row[j] > t)
    BY <2>1 DEF Over
  <2> QED BY <1>1, <2>2, <2>3, <2>4
<1> QED BY <1>4, <1>5 DEF IsSelection

LEMMA CopiedIsExact ==
  ASSUME IInv, NEW r \in 1 .. Len(rows), r < warp[0].row, Len(rows[r]) <= K
  PROVE  /\ {x[1] : x \in written[r]} = 0 .. K - 1 /\ Cardinality(written[r]) = K
         /\ {x[2] : x \in written[r]} \ {0} = DOMAIN rows[r]
<1> PICK L, out : L = Len(rows[r]) /\ out = written[r]
  OBVIOUS
<1> DEFINE index(p) == IF p < L THEN p + 1 ELSE 0
<1>1. L \in Nat /\ K \in Nat /\ L <= K /\ DOMAIN rows[r] = 1 .. L
  BY RowsAre, WarpZero DEF IInv, InStep, IsRow
<1>2. out = {<<p, index(p)>> : p \in 0 .. K - 1}
  <2>1. out = {<<p, index(p)>> : p \in {q \in 0 .. K - 1 : Copied(warp[WarpAt(q)], r)}}
    BY DEF IInv, RowsRight, CopyRight
  <2>2. \A q \in 0 .. K - 1 : Copied(warp[WarpAt(q)], r)
    <3>1. \A q \in 0 .. K - 1 : q \in Nat
      BY <1>1
    <3> QED BY <3>1, WarpAtIs, RowIsLeft DEF IInv
  <2>3. {q \in 0 .. K - 1 : Copied(warp[WarpAt(q)], r)} = 0 .. K - 1
    BY <2>2
  <2> HIDE DEF index
  <2> QED BY <2>1, <2>3
<1>3. /\ \A x \in out : x[1] \in 0 .. K - 1 /\ x = <<x[1], index(x[1])>> /\ x[2] = index(x[1])
      /\ \A p \in 0 .. K - 1 : \E x \in out : x[1] = p /\ x[2] = index(p)
  <2> HIDE DEF index
  <2>1. \A p \in 0 .. K - 1 : <<p, index(p)>> \in out
    BY <1>2
  <2>2. \A x \in out : \E p \in 0 .. K - 1 : x = <<p, index(p)>>
    BY <1>2
  <2>3. \A p : <<p, index(p)>>[1] = p /\ <<p, index(p)>>[2] = index(p)
    OBVIOUS
  <2>4. ASSUME NEW x \in out
        PROVE  x[1] \in 0 .. K - 1 /\ x = <<x[1], index(x[1])>> /\ x[2] = index(x[1])
    <3>1. PICK p \in 0 .. K - 1 : x = <<p, index(p)>>
      BY <2>2
    <3>2. x[1] = p /\ x[2] = index(p)
      BY ONLY <2>3, <3>1
    <3> QED BY ONLY <3>1, <3>2, Zenon
  <2>5. ASSUME NEW p \in 0 .. K - 1 PROVE \E x \in out : x[1] = p /\ x[2] = index(p)
    BY ONLY <2>1, <2>3, p \in 0 .. K - 1, Zenon
  <2> QED BY <2>4, <2>5
<1>4. {x[1] : x \in out} = 0 .. K - 1
  <2> HIDE DEF index
  <2> QED BY ONLY <1>3
<1>5. Cardinality(out) = K
  <2> HIDE DEF index
  <2>1. PICK f : f = [x \in out |-> x[1]]
    OBVIOUS
  <2>2. f \in [out -> 0 .. K - 1] /\ \A x \in out : f[x] = x[1]
    BY ONLY <1>3, <2>1
  <2>3. \A x, y \in out : f[x] = f[y] => x = y
    <3> TAKE x, y \in out
    <3> HAVE f[x] = f[y]
    <3>1. x[1] = y[1]
      BY <2>2
    <3>2. x = <<x[1], index(x[1])>> /\ y = <<y[1], index(y[1])>>
      BY <1>3
    <3> QED BY ONLY <3>1, <3>2, Zenon
  <2>4. \A p \in 0 .. K - 1 : \E x \in out : f[x] = p
    BY ONLY <1>3, <2>2, Zenon
  <2>5. IsFiniteSet(0 .. K - 1) /\ Cardinality(0 .. K - 1) = K
    BY <1>1, IntervalSize
  <2> QED BY ONLY <2>2, <2>3, <2>4, <2>5, OneToOne
<1>6. {x[2] : x \in out} \ {0} = 1 .. L
  <2>1. {x[2] : x \in out} = {index(p) : p \in 0 .. K - 1}
    <3> HIDE DEF index
    <3>1. ASSUME NEW x \in out PROVE x[2] \in {index(p) : p \in 0 .. K - 1}
      BY <1>3
    <3>2. ASSUME NEW p \in 0 .. K - 1 PROVE index(p) \in {x[2] : x \in out}
      BY <1>3
    <3> QED BY ONLY <3>1, <3>2
  <2>2. ASSUME NEW i \in 1 .. L PROVE i \in {index(p) : p \in 0 .. K - 1} \ {0}
    <3>1. i - 1 \in 0 .. K - 1 /\ index(i - 1) = i /\ i # 0
      BY <1>1
    <3> QED BY <3>1
  <2>3. ASSUME NEW p \in 0 .. K - 1, index(p) # 0 PROVE index(p) \in 1 .. L
    BY <1>1, <2>3
  <2> HIDE DEF index
  <2> QED BY <2>1, <2>2, <2>3
<1> QED BY <1>1, <1>4, <1>5, <1>6

\* PairsExact: an error is reported exactly of a row that must be cut and has
\* fewer than K keys above 0; any other row holds K different best pairs, or
\* all of its pairs in order.
THEOREM PairsAreExact == Spec => []PairsExact
<1>1. IInv => PairsExact
  <2> SUFFICES ASSUME IInv PROVE PairsExact
    OBVIOUS
  <2> SUFFICES ASSUME NEW r \in 1 .. Len(rows), error[r] # Unset
               PROVE  IF Len(rows[r]) > K /\ Cardinality(Counted(r)) < K
                      THEN error[r] = 1
                      ELSE LET chosen == {x[2] : x \in written[r]}
                           IN  /\ error[r] = 0
                               /\ {x[1] : x \in written[r]} = 0 .. K - 1 /\ Cardinality(written[r]) = K
                               /\ IF Len(rows[r]) <= K
                                  THEN chosen \ {0} = DOMAIN rows[r]
                                  ELSE /\ Cardinality(chosen) = K
                                       /\ \A i \in chosen, j \in DOMAIN rows[r] \ chosen :
                                            rows[r][i] >= rows[r][j]
    BY DEF PairsExact
  <2>1. r < warp[0].row /\ error[r] = Verdict(rows[r])
    BY DEF IInv, ErrorsRight
  <2>2. Counted(r) = Live(rows[r])
    BY DEF Counted, Live
  <2>3. /\ Len(rows[r]) > K <=> ~(Len(rows[r]) <= K)
        /\ Cardinality(Live(rows[r])) < K <=> ~(K <= Cardinality(Live(rows[r])))
    <3>1. Len(rows[r]) \in Nat /\ Cardinality(Live(rows[r])) \in Nat /\ K \in Nat
      BY RowsAre, LiveIs, WarpZero DEF IInv, InStep, IsRow
    <3> QED BY <3>1
  <2>4. CASE Len(rows[r]) > K /\ Cardinality(Live(rows[r])) < K
    BY <2>1, <2>2, <2>3, <2>4 DEF Verdict, Selects
  <2>5. CASE Selects(rows[r])
    <3>1. error[r] = 0
      BY <2>1, <2>5 DEF Verdict
    <3> QED BY <2>1, <2>2, <2>3, <2>5, <3>1, SelectedIsExact DEF Selects
  <2>6. CASE Len(rows[r]) <= K
    <3>1. error[r] = 0
      BY <2>1, <2>3, <2>6 DEF Verdict
    <3> QED BY <2>1, <2>2, <2>3, <2>6, <3>1, CopiedIsExact
  <2> QED BY <2>3, <2>4, <2>5, <2>6 DEF Selects
<1> QED BY <1>1, PairsInvariant, PTL
=============================================================================
