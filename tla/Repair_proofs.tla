---------------------------- MODULE Repair_proofs ---------------------------
(***************************************************************************)
(* The complete operator implements the exact Top-K, for any number of row  *)
(* pairs, any K, context, chunk and number of segments, and any calls.      *)
(*                                                                         *)
(* A listing of positions is a run of pairs with the score of each of them  *)
(* and every one once.  The invariant says what each buffer lists when the   *)
(* kernels of the stream have come so far: the producer's segments the       *)
(* valid positions of the chunk, the local selection the best of those, the  *)
(* accumulator the best of the chunks merged.                               *)
(***************************************************************************)
EXTENDS Repair, KernelLemmas, SequenceTheorems

---------------------------------------------------------------------------
(* The invariant.                                                           *)

\* The first n pairs list the positions P, each once, with its score.
Lists(pairs, n, P, score) ==
  /\ \A p \in 1 .. n : /\ pairs[p][2] \in P
                       /\ pairs[p] = <<score[pairs[p][2]], pairs[p][2]>>
  /\ \A p, q \in 1 .. n : pairs[p][2] = pairs[q][2] => p = q
  /\ \A id \in P : \E p \in 1 .. n : pairs[p][2] = id

\* They list K best of P, or all of P.
ListsBest(pairs, n, P, score) ==
  /\ n = Min({K, Cardinality(P)})
  /\ \E S \in SUBSET P : Best(S, P, n, score) /\ Lists(pairs, n, S, score)

HasZero(row) == \E id \in Valid(row) : row.score[id] = 0

\* The chunks of row r that the accumulator has.
Merged(r) ==
  IF stage.kernel \in {"produce", "local"} THEN stage.chunk
  ELSE IF stage.kernel = "merge" THEN IF r \in todo THEN stage.chunk ELSE stage.chunk + 1
  ELSE IF stage.kernel = "finalize" THEN Chunks ELSE 0

Before(row, m)  == {id \in Valid(row) : id < m * ChunkSize}
InChunk(row, c) == {id \in Valid(row) : c * ChunkSize <= id /\ id < (c + 1) * ChunkSize}

Repairing == stage.kernel \in {"produce", "local", "merge", "finalize"}

\* What the fused kernel leaves of a row, and the operator at the end.
ExactOutput(row, out) ==
  IF Cardinality(Valid(row)) <= K
  THEN out = [p \in 1 .. K |->
                IF p <= Cardinality(Valid(row)) THEN row.start + p - 1 ELSE -1]
  ELSE Best({out[p] : p \in 1 .. K}, Valid(row), K, row.score)

FusedRight(r) ==
  \/ failure[r] = 0 /\ ExactOutput(input[r], output[r])
  \/ failure[r] = 1 /\ output[r] = Unset /\ Cardinality(Valid(input[r])) > K

Answered(r) ==
  \/ failure[r] = 0 /\ ExactOutput(input[r], output[r])
  \/ failure[r] = 1 /\ output[r] = Unset /\ HasZero(input[r])

RangesRight(c) ==
  \A r \in RowId : /\ chunkStart[c][r] = Clip(c, input[r].start)
                   /\ chunkEnd[c][r] = Clip(c, input[r].end)

ProducedRight(r) ==
  \A s \in Segment : /\ candidates[r][s] = Emitted(r, s)
                     /\ segmentCounts[r][s] = Len(Emitted(r, s))

WorkOf(kernel) ==
  IF kernel = "none" THEN {} ELSE IF kernel = "ranges" THEN Chunk
  ELSE IF kernel = "produce" THEN Pair ELSE RowId

StageRight ==
  /\ stage = [kernel |-> stage.kernel, chunk |-> stage.chunk]
  /\ todo \subseteq WorkOf(stage.kernel)
  /\ stage.kernel \in {"none", "fused", "ranges", "finalize"} => stage.chunk = 0
  /\ call \in 0 .. MaxCalls
  /\ stage.kernel # "none" => call > 0
  /\ call > 0 => input \in [RowId -> Inputs]
  /\ candidates \in [RowId -> [Segment -> Seq(Scored)]]

\* Row r has the fused kernel's result; it has its answer.
FusedKnown(r) ==
  \/ stage.kernel \in {"ranges", "produce", "local", "merge"}
  \/ stage.kernel = "fused" /\ r \notin todo
  \/ stage.kernel = "finalize" /\ r \in todo
AnswerKnown(r) ==
  \/ stage.kernel = "finalize" /\ r \notin todo
  \/ stage.kernel = "none" /\ call > 0

RowsRight ==
  \A r \in RowId : /\ FusedKnown(r) => FusedRight(r)
                   /\ AnswerKnown(r) => Answered(r)

RangesKnown(c) ==
  \/ stage.kernel \in {"produce", "local", "merge"}
  \/ stage.kernel = "ranges" /\ c \notin todo

ChunksRight == \A c \in Chunk : RangesKnown(c) => RangesRight(c)

PairOf(r) == (r + 1) \div 2
ProducedKnown(r) ==
  \/ stage.kernel = "local"
  \/ stage.kernel = "produce" /\ PairOf(r) \notin todo

CandidatesRight ==
  \A r \in RowId : failure[r] = 1 /\ ProducedKnown(r) => ProducedRight(r)

\* The local selection of row r has been made, and not been merged yet.
LocalKnown(r) ==
  \/ stage.kernel = "local" /\ r \notin todo
  \/ stage.kernel = "merge" /\ r \in todo

LocalOf(r) ==
  ListsBest(localPairs[r], localCounts[r], InChunk(input[r], stage.chunk), input[r].score)

LocalRight ==
  \A r \in RowId : failure[r] = 1 /\ repairError[r] = 0 /\ LocalKnown(r) => LocalOf(r)

\* The accumulator has the best of the first m chunks.
MergedOf(r, m) ==
  ListsBest(accumulatorPairs[r], accumulatorCounts[r], Before(input[r], m), input[r].score)

MergedRight ==
  \A r \in RowId : failure[r] = 1 /\ repairError[r] = 0 /\ Merged(r) > 0 =>
    MergedOf(r, Merged(r))

\* An error is of this call once the first chunk has been selected from.
ErrorKnown(r) == Merged(r) > 0 \/ LocalKnown(r)

ErrorsRight ==
  \A r \in RowId : failure[r] = 1 /\ repairError[r] # 0 /\ ErrorKnown(r) => HasZero(input[r])

IInv ==
  /\ TypeOK /\ StageRight /\ RowsRight /\ ChunksRight /\ CandidatesRight
  /\ LocalRight /\ MergedRight /\ ErrorsRight

---------------------------------------------------------------------------
(* Numbers, orders and listings.                                            *)

LEMMA MinOfTwo ==
  ASSUME NEW a \in Int, NEW b \in Int
  PROVE  Min({a, b}) = IF a <= b THEN a ELSE b
BY DEF Min

LEMMA MaxOfTwo ==
  ASSUME NEW a \in Int, NEW b \in Int
  PROVE  Max({a, b}) = IF a >= b THEN a ELSE b
BY DEF Max

\* The order SetToSeq gives a finite set has every element once.
IsOrder(f, S) ==
  /\ Cardinality(S) \in Nat
  /\ f \in [1 .. Cardinality(S) -> S] /\ f \in Seq(S) /\ Len(f) = Cardinality(S)
  /\ \A a, b \in 1 .. Cardinality(S) : f[a] = f[b] => a = b
  /\ \A x \in S : \E a \in 1 .. Cardinality(S) : f[a] = x

LEMMA OrderOf ==
  ASSUME NEW S, IsFiniteSet(S)
  PROVE  IsOrder(SetToSeq(S), S)
<1> DEFINE n == Cardinality(S)
           f == SetToSeq(S)
<1>1. n \in Nat /\ ExistsBijection(1 .. n, S)
  BY FS_CardinalityType
<1>2. \E g \in [1 .. n -> S] : IsInjective(g)
  <2>1. PICK g : g \in Bijection(1 .. n, S)
    BY <1>1 DEF ExistsBijection
  <2> QED BY <2>1 DEF Bijection, Injection, IsInjective
<1>3. f \in [1 .. n -> S] /\ IsInjective(f)
  BY <1>2 DEF SetToSeq
<1> HIDE DEF f
<1>4. f \in Injection(1 .. n, S)
  BY <1>3 DEF Injection
<1>5. IsFiniteSet(1 .. n) /\ Cardinality(1 .. n) = n
  BY <1>1, FS_Interval
<1>6. f \in Surjection(1 .. n, S)
  BY <1>4, <1>5, FS_Injection
<1>7. f \in Seq(S) /\ Len(f) = n
  BY <1>1, <1>3, SeqDef
<1> QED BY <1>1, <1>3, <1>6, <1>7 DEF IsOrder, IsInjective, Surjection, f

\* What is listed is finite, and counted by the listing.
LEMMA ListedCount ==
  ASSUME NEW pairs, NEW n \in Nat, NEW P, NEW score, Lists(pairs, n, P, score)
  PROVE  IsFiniteSet(P) /\ Cardinality(P) = n
<1> DEFINE f == [p \in 1 .. n |-> pairs[p][2]]
<1>1. f \in Bijection(1 .. n, P)
  BY DEF Lists, Bijection, Injection, Surjection, IsInjective
<1>2. IsFiniteSet(1 .. n) /\ Cardinality(1 .. n) = n
  BY FS_Interval
<1> HIDE DEF f
<1>3. ExistsBijection(1 .. n, P)
  BY <1>1 DEF ExistsBijection
<1> QED BY <1>2, <1>3, FS_Bijection

\* Some of the listed, picked in any order.
At(pairs, I) == {pairs[i][2] : i \in I}

LEMMA PickedLists ==
  ASSUME NEW T, NEW pairs \in Seq(T), NEW P, NEW score, Lists(pairs, Len(pairs), P, score),
         NEW I \in SUBSET (1 .. Len(pairs))
  PROVE  /\ Picked(pairs, I) \in Seq(T) /\ Len(Picked(pairs, I)) = Cardinality(I)
         /\ Cardinality(I) \in Nat
         /\ Lists(Picked(pairs, I), Cardinality(I), At(pairs, I), score)
<1> DEFINE f == SetToSeq(I)
           n == Cardinality(I)
           out == [a \in 1 .. n |-> pairs[f[a]]]
<1>1. Len(pairs) \in Nat /\ pairs \in [1 .. Len(pairs) -> T]
  BY LenProperties
<1>2. IsFiniteSet(I)
  <2>1. IsFiniteSet(1 .. Len(pairs))
    BY <1>1, NumbersAreFinite
  <2> QED BY <2>1, FS_Subset
<1>3. IsOrder(f, I)
  BY <1>2, OrderOf
<1> HIDE DEF f
<1>4. Picked(pairs, I) = out
  <2>1. DOMAIN f = 1 .. n
    BY <1>3 DEF IsOrder
  <2>2. Picked(pairs, I) = [a \in DOMAIN f |-> pairs[f[a]]]
    BY DEF Picked, f
  <2> QED BY <2>1, <2>2
<1>5. n \in Nat /\ out \in [1 .. n -> T]
  BY <1>1, <1>3 DEF IsOrder
<1>6. out \in Seq(T) /\ Len(out) = n
  BY <1>5, SeqDef
<1>7. Lists(out, n, At(pairs, I), score)
  <2>1. ASSUME NEW a \in 1 .. n
        PROVE  f[a] \in I /\ f[a] \in 1 .. Len(pairs) /\ out[a] = pairs[f[a]]
    BY <1>3 DEF IsOrder
  <2>2. \A a, b \in 1 .. n : f[a] = f[b] => a = b
    BY <1>3 DEF IsOrder
  <2>3. \A x \in I : \E a \in 1 .. n : f[a] = x
    BY <1>3 DEF IsOrder
  <2> HIDE DEF n, out
  <2>4. \A a \in 1 .. n : /\ out[a][2] \in At(pairs, I)
                           /\ out[a] = <<score[out[a][2]], out[a][2]>>
    BY <2>1 DEF Lists, At
  <2>5. \A a, b \in 1 .. n : out[a][2] = out[b][2] => a = b
    <3>1. \A p, q \in 1 .. Len(pairs) : pairs[p][2] = pairs[q][2] => p = q
      BY DEF Lists
    <3> QED BY ONLY <2>1, <2>2, <3>1
  <2>6. \A id \in At(pairs, I) : \E a \in 1 .. n : out[a][2] = id
    BY <2>1, <2>3 DEF At
  <2> QED BY <2>4, <2>5, <2>6 DEF Lists
<1> QED BY <1>4, <1>5, <1>6, <1>7

\* Two listings of different positions, one after the other.
LEMMA JoinedLists ==
  ASSUME NEW T, NEW s \in Seq(T), NEW t \in Seq(T), NEW P, NEW Q, NEW score,
         Lists(s, Len(s), P, score), Lists(t, Len(t), Q, score), P \cap Q = {}
  PROVE  /\ s \o t \in Seq(T) /\ Len(s \o t) = Len(s) + Len(t)
         /\ Lists(s \o t, Len(s) + Len(t), P \cup Q, score)
<1> DEFINE u == s \o t
           m == Len(s)
           n == Len(t)
<1>1. /\ u \in Seq(T) /\ Len(u) = m + n /\ m \in Nat /\ n \in Nat
      /\ \A i \in 1 .. m + n : u[i] = IF i <= m THEN s[i] ELSE t[i - m]
  BY ConcatProperties, LenProperties
<1> HIDE DEF u, m, n
<1>2. /\ Lists(s, m, P, score) /\ Lists(t, n, Q, score)
  BY DEF m, n
<1>3. ASSUME NEW p \in 1 .. m + n
      PROVE  /\ u[p][2] \in P \cup Q /\ u[p] = <<score[u[p][2]], u[p][2]>>
             /\ p <= m => p \in 1 .. m /\ u[p] = s[p] /\ u[p][2] \in P
             /\ p > m => p - m \in 1 .. n /\ u[p] = t[p - m] /\ u[p][2] \in Q
  <2>1. CASE p <= m
    <3>1. p \in 1 .. m /\ u[p] = s[p] /\ ~(p > m)
      BY <1>1, <2>1
    <3> QED BY <1>2, <2>1, <3>1 DEF Lists
  <2>2. CASE p > m
    <3>1. p - m \in 1 .. n /\ u[p] = t[p - m] /\ ~(p <= m)
      BY <1>1, <2>2
    <3> QED BY <1>2, <2>2, <3>1 DEF Lists
  <2> QED BY <1>1, <2>1, <2>2
<1>4. ASSUME NEW p \in 1 .. m + n, NEW q \in 1 .. m + n, u[p][2] = u[q][2] PROVE p = q
  <2>1. CASE p <= m /\ q <= m
    BY <1>2, <1>3, <1>4, <2>1 DEF Lists
  <2>2. CASE p > m /\ q > m
    <3>1. p - m = q - m
      BY <1>2, <1>3, <1>4, <2>2 DEF Lists
    <3> QED BY <1>1, <3>1
  <2>3. (p <= m <=> ~(p > m)) /\ (q <= m <=> ~(q > m))
    BY <1>1
  <2> QED BY <1>3, <1>4, <2>1, <2>2, <2>3
<1>5. ASSUME NEW id \in P \cup Q PROVE \E p \in 1 .. m + n : u[p][2] = id
  <2>1. CASE id \in P
    <3>1. PICK p \in 1 .. m : s[p][2] = id
      BY <1>2, <2>1 DEF Lists
    <3>2. p \in 1 .. m + n /\ p <= m
      BY <1>1
    <3> QED BY <1>1, <3>1, <3>2
  <2>2. CASE id \in Q
    <3>1. PICK p \in 1 .. n : t[p][2] = id
      BY <1>2, <2>2 DEF Lists
    <3>2. m + p \in 1 .. m + n /\ ~(m + p <= m) /\ (m + p) - m = p
      BY <1>1
    <3> QED BY <1>1, <3>1, <3>2
  <2> QED BY <2>1, <2>2
<1>6. Lists(u, m + n, P \cup Q, score)
  BY <1>3, <1>4, <1>5 DEF Lists
<1> QED BY <1>1, <1>6 DEF u, m, n

\* A listing is one of its prefix.
LEMMA PrefixLists ==
  ASSUME NEW T, NEW s, NEW n \in Nat, \A p \in 1 .. n : s[p] \in T,
         NEW P, NEW score, Lists(s, n, P, score)
  PROVE  /\ SubSeq(s, 1, n) \in Seq(T) /\ Len(SubSeq(s, 1, n)) = n
         /\ Lists(SubSeq(s, 1, n), n, P, score)
<1> DEFINE u == SubSeq(s, 1, n)
<1>1. /\ u \in Seq(T) /\ Len(u) = IF 1 <= n THEN n - 1 + 1 ELSE 0
      /\ \A i \in 1 .. n - 1 + 1 : u[i] = s[1 + i - 1]
  BY SubSeqProperties
<1>2. Len(u) = n /\ \A i \in 1 .. n : u[i] = s[i]
  BY <1>1
<1> HIDE DEF u
<1>3. Lists(u, n, P, score)
  BY <1>2 DEF Lists
<1> QED BY <1>1, <1>2, <1>3 DEF u

\* Finitely many numbers have a bound.
LEMMA HasBound ==
  ASSUME NEW n \in Nat, NEW f \in [1 .. n -> Nat]
  PROVE  \E b \in Nat : \A i \in 1 .. n : f[i] < b
<1> DEFINE B(m) == \E b \in Nat : \A i \in 1 .. m : f[i] < b
           S == {m \in Nat : m <= n => B(m)}
<1>1. 0 \in S
  <2>1. \A i \in 1 .. 0 : f[i] < 0
    OBVIOUS
  <2> QED BY <2>1
<1>2. ASSUME NEW m \in Nat, m \in S PROVE m + 1 \in S
  <2>1. SUFFICES ASSUME m + 1 <= n PROVE B(m + 1)
    OBVIOUS
  <2>2. PICK b \in Nat : \A i \in 1 .. m : f[i] < b
    BY <1>2, <2>1
  <2>3. f[m + 1] \in Nat
    BY <2>1
  <2> DEFINE c == b + f[m + 1] + 1
  <2>4. c \in Nat /\ b < c /\ f[m + 1] < c
    BY <2>3
  <2> HIDE DEF c
  <2>5. ASSUME NEW i \in 1 .. m + 1 PROVE f[i] < c
    <3>1. CASE i = m + 1
      BY <2>4, <3>1
    <3>2. CASE i # m + 1
      <4>1. i \in 1 .. m /\ f[i] \in Nat
        BY <2>1, <3>2
      <4> QED BY <2>2, <2>4, <4>1
    <3> QED BY <3>1, <3>2
  <2> QED BY <2>4, <2>5
<1> HIDE DEF S
<1>3. \A m \in Nat : m \in S
  BY <1>1, <1>2, NatSetInduction
<1>4. n \in S /\ n <= n
  BY <1>3
<1> QED BY <1>4 DEF S

---------------------------------------------------------------------------
(* The selection of pairs.                                                  *)

Reaching(pairs, s) == {i \in DOMAIN pairs : pairs[i][1] >= s}
StrictlyAbove(pairs, s) == {i \in DOMAIN pairs : pairs[i][1] > s}

\* Of at least K pairs there is a K-th score.
IsKth(pairs, s) ==
  /\ \E i \in DOMAIN pairs : pairs[i][1] = s
  /\ Cardinality(StrictlyAbove(pairs, s)) < K
  /\ Cardinality(Reaching(pairs, s)) >= K

LEMMA KthExists ==
  ASSUME NEW pairs \in Seq(Scored), Len(pairs) >= K
  PROVE  IsKth(pairs, KthScore(pairs))
<1> DEFINE n == Len(pairs)
           D == 1 .. n
           key == [i \in D |-> pairs[i][1]]
<1>1. /\ n \in Nat /\ DOMAIN pairs = D /\ K \in Nat \ {0}
      /\ \A i \in D : pairs[i][1] \in Nat
  <2>1. n \in Nat /\ DOMAIN pairs = D /\ \A i \in D : pairs[i] \in Scored
    BY LenProperties
  <2> QED BY <2>1, RepairAssumption DEF Scored
<1>2. IsFiniteSet(D) /\ Cardinality(D) = n
  BY <1>1, IntervalSize
<1>3. key \in [D -> Nat]
  BY <1>1
<1>4. PICK b \in Nat : \A i \in D : key[i] < b
  <2> HIDE DEF key
  <2> QED BY <1>1, <1>3, HasBound
<1>5. PICK t \in Nat : CutsAt(D, key, K, t)
  <2>1. \A i \in D : key[i] \in Nat
    BY <1>3
  <2> HIDE DEF key, D
  <2> QED BY <1>1, <1>2, <1>4, <2>1, CutExists
<1>6. /\ {i \in D : key[i] >= t} = Reaching(pairs, t)
      /\ {i \in D : key[i] > t} = StrictlyAbove(pairs, t)
  BY <1>1 DEF Reaching, StrictlyAbove
<1>60. Cardinality(Reaching(pairs, t)) >= K /\ Cardinality(StrictlyAbove(pairs, t)) < K
  BY <1>5, <1>6 DEF CutsAt
<1>7. \E i \in D : pairs[i][1] = t
  <2> SUFFICES ASSUME \A i \in D : pairs[i][1] # t PROVE FALSE
    OBVIOUS
  <2>1. Reaching(pairs, t) = StrictlyAbove(pairs, t)
    BY <1>1 DEF Reaching, StrictlyAbove
  <2>2. Cardinality(Reaching(pairs, t)) \in Nat
    <3>1. IsFiniteSet(Reaching(pairs, t))
      BY <1>1, <1>2, FS_Subset DEF Reaching
    <3> QED BY <3>1, FS_CardinalityType
  <2> QED BY <1>1, <1>60, <2>1, <2>2
<1>8. IsKth(pairs, t)
  BY <1>1, <1>60, <1>7 DEF IsKth
<1> DEFINE Scores == {pairs[i][1] : i \in DOMAIN pairs}
<1>9. \E s \in Scores : IsKth(pairs, s)
  BY <1>8 DEF IsKth
<1>10. KthScore(pairs) = CHOOSE s \in Scores :
         /\ Cardinality(StrictlyAbove(pairs, s)) < K
         /\ Cardinality(Reaching(pairs, s)) >= K
  BY DEF KthScore, StrictlyAbove, Reaching
<1> HIDE DEF Scores
<1>11. /\ KthScore(pairs) \in Scores
       /\ Cardinality(StrictlyAbove(pairs, KthScore(pairs))) < K
       /\ Cardinality(Reaching(pairs, KthScore(pairs))) >= K
  BY <1>9, <1>10 DEF IsKth
<1> QED BY <1>11 DEF IsKth, Scores

\* The positions at some indexes of a listing, and how many they are.
LEMMA AtCount ==
  ASSUME NEW T, NEW pairs \in Seq(T), NEW P, NEW score, Lists(pairs, Len(pairs), P, score),
         NEW I \in SUBSET (1 .. Len(pairs))
  PROVE  /\ IsFiniteSet(At(pairs, I)) /\ Cardinality(At(pairs, I)) = Cardinality(I)
         /\ At(pairs, I) \subseteq P
<1>1. /\ Cardinality(I) \in Nat
      /\ Lists(Picked(pairs, I), Cardinality(I), At(pairs, I), score)
  BY PickedLists
<1>2. IsFiniteSet(At(pairs, I)) /\ Cardinality(At(pairs, I)) = Cardinality(I)
  BY <1>1, ListedCount
<1> QED BY <1>2 DEF At, Lists

\* What the selection leaves when it reports no error: K best, or all.
Selects(pairs, P, score, out) ==
  LET n == Min({Len(pairs), K})
  IN  /\ out \in [1 .. K -> Scored]
      /\ \E S \in SUBSET P : Best(S, P, n, score) /\ Lists(out, n, S, score)

LEMMA SelectsAll ==
  ASSUME NEW pairs \in Seq(Scored), NEW P, NEW score, Lists(pairs, Len(pairs), P, score),
         Len(pairs) <= K, NEW old, NEW out \in SelectTopKPairs(pairs, old)
  PROVE  Selects(pairs, P, score, out)
<1>1. out = Padded(pairs)
  BY DEF SelectTopKPairs
<1>2. /\ Len(pairs) \in Nat /\ K \in Nat \ {0} /\ Columns \in Nat \ {0}
      /\ pairs \in [1 .. Len(pairs) -> Scored]
  BY LenProperties, RepairAssumption
<1>3. Min({Len(pairs), K}) = Len(pairs)
  BY <1>2, MinOfTwo
<1>4. <<0, 0>> \in Scored
  BY <1>2 DEF Scored
<1>5. out \in [1 .. K -> Scored] /\ \A p \in 1 .. Len(pairs) : out[p] = pairs[p]
  BY <1>1, <1>2, <1>4 DEF Padded
<1>6. Lists(out, Len(pairs), P, score)
  BY <1>2, <1>5 DEF Lists
<1>7. Best(P, P, Len(pairs), score)
  BY <1>2, ListedCount DEF Best
<1> QED BY <1>3, <1>5, <1>6, <1>7 DEF Selects

LEMMA SelectsSome ==
  ASSUME NEW pairs \in Seq(Scored), NEW P, NEW score, Lists(pairs, Len(pairs), P, score),
         Len(pairs) > K, ~SelectionError(pairs), NEW old,
         NEW out \in SelectTopKPairs(pairs, old)
  PROVE  Selects(pairs, P, score, out)
<1> DEFINE t == KthScore(pairs)
           A == Above(pairs, t)
           E == Level(pairs, t)
           D == 1 .. Len(pairs)
<1>2. /\ Len(pairs) \in Nat /\ K \in Nat \ {0} /\ DOMAIN pairs = D
      /\ \A i \in D : pairs[i][1] \in Nat
  BY LenProperties, RepairAssumption DEF Scored
<1>1. PICK I \in kSubset(K - Cardinality(A), E) : out = Picked(pairs, A) \o Picked(pairs, I)
  BY <1>2 DEF SelectTopKPairs
<1>3. IsKth(pairs, t) /\ A = StrictlyAbove(pairs, t)
  BY <1>2, KthExists DEF Above, StrictlyAbove
<1>4. t \in Nat
  BY <1>2, <1>3 DEF IsKth
<1> HIDE DEF t
<1>5. /\ A \in SUBSET D /\ I \in SUBSET D /\ I \in SUBSET E /\ A \cap I = {}
      /\ \A i \in A : pairs[i][1] > t
      /\ \A i \in I : pairs[i][1] = t
      /\ \A i \in D \ A : ~(pairs[i][1] > t)
  BY <1>1, <1>2, <1>4 DEF kSubset, Above, Level
<1>6. Cardinality(I) = K - Cardinality(A)
  BY <1>1 DEF kSubset
<1> HIDE DEF A, E
<1> DEFINE SA == At(pairs, A)
           SI == At(pairs, I)
<1>7. /\ Picked(pairs, A) \in Seq(Scored) /\ Len(Picked(pairs, A)) = Cardinality(A)
      /\ Cardinality(A) \in Nat /\ Lists(Picked(pairs, A), Cardinality(A), SA, score)
  BY <1>5, PickedLists
<1>8. /\ Picked(pairs, I) \in Seq(Scored) /\ Len(Picked(pairs, I)) = Cardinality(I)
      /\ Cardinality(I) \in Nat /\ Lists(Picked(pairs, I), Cardinality(I), SI, score)
  BY <1>5, PickedLists
<1>9. SA \cap SI = {}
  BY <1>5 DEF At, Lists
<1>10. SA \subseteq P /\ SI \subseteq P
  BY <1>5 DEF At, Lists
<1> HIDE DEF SA, SI
<1>11. /\ out \in Seq(Scored) /\ Len(out) = Cardinality(A) + Cardinality(I)
       /\ Lists(out, Cardinality(A) + Cardinality(I), SA \cup SI, score)
  <2> DEFINE a == Picked(pairs, A)
             b == Picked(pairs, I)
  <2>1. /\ out = a \o b /\ a \in Seq(Scored) /\ b \in Seq(Scored)
        /\ Len(a) = Cardinality(A) /\ Len(b) = Cardinality(I)
        /\ Lists(a, Len(a), SA, score) /\ Lists(b, Len(b), SI, score)
    BY <1>1, <1>7, <1>8
  <2> HIDE DEF a, b
  <2>2. /\ a \o b \in Seq(Scored) /\ Len(a \o b) = Len(a) + Len(b)
        /\ Lists(a \o b, Len(a) + Len(b), SA \cup SI, score)
    BY ONLY <1>9, <2>1, JoinedLists
  <2> QED BY <2>1, <2>2
<1>12. Cardinality(A) + Cardinality(I) = K
  BY <1>2, <1>6, <1>7
<1>13. out \in [1 .. K -> Scored]
  BY <1>11, <1>12, LenProperties
<1>14. Best(SA \cup SI, P, K, score)
  <2>1. Cardinality(SA \cup SI) = K
    BY <1>2, <1>11, <1>12, ListedCount
  <2>2. ASSUME NEW x \in SA \cup SI, NEW y \in P \ (SA \cup SI) PROVE score[x] >= score[y]
    <3>1. PICK i \in A \cup I : x = pairs[i][2]
      BY DEF SA, SI, At
    <3>2. PICK j \in D : y = pairs[j][2]
      BY DEF Lists
    <3>3. j \notin A
      BY <2>2, <3>2 DEF SA, At
    <3>4. i \in D /\ pairs[i] = <<score[x], x>> /\ pairs[j] = <<score[y], y>>
      BY <1>5, <3>1, <3>2 DEF Lists
    <3>5. pairs[i][1] >= t /\ pairs[j][1] <= t
      <4>1. i \in D /\ j \in D /\ pairs[i][1] \in Nat /\ pairs[j][1] \in Nat
        BY <1>2, <3>4
      <4>2. pairs[i][1] > t \/ pairs[i][1] = t
        BY <1>5, <3>1
      <4>3. ~(pairs[j][1] > t)
        BY <1>5, <3>3
      <4> QED BY ONLY <1>4, <4>1, <4>2, <4>3
    <3>6. score[x] \in Nat /\ score[y] \in Nat /\ score[x] >= t /\ score[y] <= t
      BY <1>2, <3>4, <3>5
    <3> QED BY <1>4, <3>6
  <2> QED BY <1>10, <2>1, <2>2 DEF Best
<1>15. Min({Len(pairs), K}) = K
  BY <1>2, MinOfTwo
<1> QED BY <1>10, <1>11, <1>12, <1>13, <1>14, <1>15 DEF Selects

\* With an error fewer than K pairs are written, and the rest left.
LEMMA ErrsTyped ==
  ASSUME NEW pairs \in Seq(Scored), NEW P, NEW score, Lists(pairs, Len(pairs), P, score),
         Len(pairs) > K, SelectionError(pairs), NEW old \in [1 .. K -> Scored],
         NEW out \in SelectTopKPairs(pairs, old)
  PROVE  out \in [1 .. K -> Scored]
<1> DEFINE D == 1 .. Len(pairs)
           Z == StrictlyAbove(pairs, 0)
<1>1. /\ Len(pairs) \in Nat /\ K \in Nat \ {0} /\ DOMAIN pairs = D
      /\ \A i \in D : pairs[i][1] \in Nat
  <2>1. Len(pairs) \in Nat /\ DOMAIN pairs = D /\ \A i \in D : pairs[i] \in Scored
    BY LenProperties
  <2> QED BY <2>1, RepairAssumption DEF Scored
<1> DEFINE Scores == {x[1] : x \in ToSet(pairs)}
           Written(t) == Picked(pairs, Above(pairs, t)) \o Picked(pairs, Level(pairs, t))
           Left(t) == Written(t) \o SubSeq(old, Len(Written(t)) + 1, K)
<1>20. SelectTopKPairs(pairs, old) = {Left(t) : t \in Scores}
  <2>1. ~(Len(pairs) <= K)
    BY <1>1
  <2> QED BY <2>1, Zenon DEF SelectTopKPairs
<1> HIDE DEF Left
<1>2. PICK t \in Scores : out = Left(t)
  BY <1>20
<1> DEFINE A == Above(pairs, t)
           E == Level(pairs, t)
<1>3. t \in Nat
  BY <1>1 DEF ToSet
<1>4. IsFiniteSet(Z) /\ Cardinality(Z) < K
  <2>1. IsKth(pairs, 0)
    BY <1>1, KthExists DEF SelectionError
  <2>2. IsFiniteSet(D)
    BY <1>1, NumbersAreFinite
  <2>3. IsFiniteSet(Z)
    BY <1>1, <2>2, FS_Subset DEF StrictlyAbove
  <2> QED BY <2>1, <2>3 DEF IsKth
<1>5. /\ A \in SUBSET D /\ E \in SUBSET D /\ A \cap E = {} /\ A \cup E \in SUBSET Z
  BY <1>1, <1>3 DEF Above, Level, StrictlyAbove
<1> HIDE DEF A, E, Z, D
<1>6. Cardinality(A) + Cardinality(E) < K /\ Cardinality(A) \in Nat /\ Cardinality(E) \in Nat
  <2>1. IsFiniteSet(A \cup E) /\ Cardinality(A \cup E) <= Cardinality(Z)
    BY <1>4, <1>5, FS_Subset
  <2>2. IsFiniteSet(A) /\ IsFiniteSet(E)
    BY <1>5, <2>1, FS_Subset
  <2>3. Cardinality(A \cup E) = Cardinality(A) + Cardinality(E) - Cardinality({})
    BY <1>5, <2>2, FS_Union
  <2>4. /\ Cardinality(A) \in Nat /\ Cardinality(E) \in Nat /\ Cardinality({}) = 0
        /\ Cardinality(Z) \in Nat
    BY <1>4, <2>2, FS_CardinalityType, FS_EmptySet
  <2> QED BY <1>1, <1>4, <2>1, <2>3, <2>4
<1> DEFINE a == Picked(pairs, A)
           b == Picked(pairs, E)
           m == Cardinality(A) + Cardinality(E)
<1>7. a \in Seq(Scored) /\ b \in Seq(Scored) /\ Len(a) = Cardinality(A) /\ Len(b) = Cardinality(E)
  BY <1>5, PickedLists DEF D
<1>8. out = (a \o b) \o SubSeq(old, Len(a \o b) + 1, K)
  BY <1>2 DEF Left, A, E
<1> HIDE DEF a, b
<1>9. a \o b \in Seq(Scored) /\ Len(a \o b) = m
  BY <1>7, ConcatProperties
<1>10. m \in Nat /\ m < K
  BY <1>6
<1> HIDE DEF m
<1> DEFINE u == SubSeq(old, m + 1, K)
<1>11. u \in Seq(Scored) /\ Len(u) = K - m
  <2>1. \A i \in m + 1 .. K : old[i] \in Scored
    BY <1>1, <1>10
  <2>2. /\ u \in Seq(Scored) /\ Len(u) = IF m + 1 <= K THEN K - (m + 1) + 1 ELSE 0
    BY <1>1, <1>10, <2>1, SubSeqProperties
  <2> QED BY <1>1, <1>10, <2>2
<1> HIDE DEF u
<1>12. out = (a \o b) \o u
  BY <1>8, <1>9 DEF u
<1>13. out \in Seq(Scored) /\ Len(out) = m + (K - m)
  <2> DEFINE v == a \o b
  <2>1. v \in Seq(Scored) /\ u \in Seq(Scored) /\ Len(v) = m /\ Len(u) = K - m /\ out = v \o u
    BY <1>9, <1>11, <1>12
  <2> HIDE DEF v
  <2>2. v \o u \in Seq(Scored) /\ Len(v \o u) = Len(v) + Len(u)
    BY ONLY <2>1, ConcatProperties
  <2> QED BY <2>1, <2>2
<1>14. Len(out) = K
  BY <1>1, <1>10, <1>13
<1> QED BY <1>13, <1>14, LenProperties

\* All that is needed of the selection.
LEMMA SelectionMade ==
  ASSUME NEW pairs \in Seq(Scored), NEW P, NEW score, Lists(pairs, Len(pairs), P, score),
         NEW old \in [1 .. K -> Scored], NEW out \in SelectTopKPairs(pairs, old)
  PROVE  /\ out \in [1 .. K -> Scored]
         /\ ~SelectionError(pairs) => ListsBest(out, Min({Len(pairs), K}), P, score)
         /\ SelectionError(pairs) => \E id \in P : score[id] = 0
<1>1. Len(pairs) \in Nat /\ K \in Nat \ {0}
  BY LenProperties, RepairAssumption
<1>2. ASSUME SelectionError(pairs)
      PROVE  out \in [1 .. K -> Scored] /\ \E id \in P : score[id] = 0
  <2>1. Len(pairs) > K /\ KthScore(pairs) = 0
    BY <1>2 DEF SelectionError
  <2>2. IsKth(pairs, 0)
    BY <1>1, <2>1, KthExists
  <2>3. PICK i \in DOMAIN pairs : pairs[i][1] = 0
    BY <2>2 DEF IsKth
  <2>4. i \in 1 .. Len(pairs)
    BY LenProperties
  <2>5. pairs[i][2] \in P /\ pairs[i] = <<score[pairs[i][2]], pairs[i][2]>>
    BY <2>4 DEF Lists
  <2>6. score[pairs[i][2]] = 0
    BY <2>3, <2>5
  <2> QED BY <1>2, <2>1, <2>5, <2>6, ErrsTyped
<1>3. ASSUME ~SelectionError(pairs)
      PROVE  /\ out \in [1 .. K -> Scored]
             /\ ListsBest(out, Min({Len(pairs), K}), P, score)
  <2>1. Selects(pairs, P, score, out)
    BY <1>1, <1>3, SelectsAll, SelectsSome
  <2>2. Cardinality(P) = Len(pairs)
    BY <1>1, ListedCount
  <2>3. Min({Len(pairs), K}) = Min({K, Cardinality(P)})
    BY <1>1, <2>2, MinOfTwo
  <2> QED BY <2>1, <2>3 DEF Selects, ListsBest
<1> QED BY <1>2, <1>3

\* S has the n best of the n1 and n2 best of two sets, S1 and S2 of P1 and P2.
BestOfTwo(P1, S1, n1, P2, S2, n2, S, n, score) ==
  /\ IsFiniteSet(P1) /\ IsFiniteSet(P2) /\ P1 \cap P2 = {}
  /\ \A x \in P1 \cup P2 : score[x] \in Nat
  /\ n1 = Min({K, Cardinality(P1)}) /\ Best(S1, P1, n1, score)
  /\ n2 = Min({K, Cardinality(P2)}) /\ Best(S2, P2, n2, score)
  /\ n = Min({K, n1 + n2}) /\ Best(S, S1 \cup S2, n, score)

\* The best of the best of two sets are the best of both.
LEMMA BestOfBest ==
  ASSUME NEW P1, NEW S1, NEW n1, NEW P2, NEW S2, NEW n2, NEW S, NEW n, NEW score,
         BestOfTwo(P1, S1, n1, P2, S2, n2, S, n, score)
  PROVE  Best(S, P1 \cup P2, n, score) /\ n = Min({K, Cardinality(P1 \cup P2)})
<1> USE DEF BestOfTwo
<1>1. /\ K \in Nat \ {0} /\ Cardinality(P1) \in Nat /\ Cardinality(P2) \in Nat
      /\ IsFiniteSet(P1 \cup P2)
      /\ Cardinality(P1 \cup P2) = Cardinality(P1) + Cardinality(P2)
  <2>1. /\ IsFiniteSet(P1 \cup P2) /\ Cardinality({}) = 0
        /\ Cardinality(P1 \cup P2) = Cardinality(P1) + Cardinality(P2) - Cardinality({})
    BY FS_Union, FS_EmptySet
  <2>2. Cardinality(P1) \in Nat /\ Cardinality(P2) \in Nat
    BY FS_CardinalityType
  <2> QED BY <2>1, <2>2, RepairAssumption
<1>2. /\ n1 = IF K <= Cardinality(P1) THEN K ELSE Cardinality(P1)
      /\ n2 = IF K <= Cardinality(P2) THEN K ELSE Cardinality(P2)
  BY <1>1, MinOfTwo
<1>3. n1 \in Nat /\ n2 \in Nat
  BY <1>1, <1>2
<1>4. n = IF K <= n1 + n2 THEN K ELSE n1 + n2
  BY <1>1, <1>3, MinOfTwo
<1>5. n = Min({K, Cardinality(P1 \cup P2)})
  <2>1. Min({K, Cardinality(P1) + Cardinality(P2)})
          = IF K <= Cardinality(P1) + Cardinality(P2) THEN K ELSE Cardinality(P1) + Cardinality(P2)
    <3>1. Cardinality(P1) + Cardinality(P2) \in Int /\ K \in Int
      BY <1>1
    <3> QED BY ONLY <3>1, MinOfTwo
  <2> DEFINE c1 == Cardinality(P1)
             c2 == Cardinality(P2)
  <2>2. /\ c1 \in Nat /\ c2 \in Nat /\ K \in Nat \ {0}
        /\ n1 = (IF K <= c1 THEN K ELSE c1) /\ n2 = (IF K <= c2 THEN K ELSE c2)
        /\ n = (IF K <= n1 + n2 THEN K ELSE n1 + n2)
        /\ Min({K, c1 + c2}) = (IF K <= c1 + c2 THEN K ELSE c1 + c2)
    BY <1>1, <1>2, <1>4, <2>1
  <2>3. Cardinality(P1 \cup P2) = c1 + c2
    BY <1>1
  <2> HIDE DEF c1, c2
  <2>4. n = Min({K, c1 + c2})
    BY ONLY <2>2
  <2> QED BY <2>3, <2>4
<1>6. /\ S1 \subseteq P1 /\ S2 \subseteq P2 /\ S \subseteq S1 \cup S2 /\ Cardinality(S) = n
      /\ Cardinality(S1) = n1 /\ Cardinality(S2) = n2
      /\ IsFiniteSet(S) /\ IsFiniteSet(S1) /\ IsFiniteSet(S2)
  <2>1. /\ S1 \in SUBSET P1 /\ S2 \in SUBSET P2 /\ S \in SUBSET (P1 \cup P2)
        /\ S \subseteq S1 \cup S2 /\ Cardinality(S) = n
        /\ Cardinality(S1) = n1 /\ Cardinality(S2) = n2
    BY DEF Best
  <2> QED BY <1>1, <2>1, FS_Subset
\* If j is not among the best of its own set, K others of it are better.
<1>7. ASSUME NEW Q, NEW B, NEW i \in S, NEW j \in Q,
             Q \in {P1, P2}, B = IF Q = P1 THEN S1 ELSE S2, j \notin B
      PROVE  score[i] >= score[j]
  <2>1. /\ IsFiniteSet(Q) /\ IsFiniteSet(B) /\ B \subseteq Q /\ Cardinality(B) \in Nat
        /\ Cardinality(B) = IF K <= Cardinality(Q) THEN K ELSE Cardinality(Q)
        /\ \A s \in B : score[s] >= score[j]
        /\ B \subseteq S1 \cup S2
    <3>1. CASE Q = P1
      BY <1>2, <1>3, <1>6, <1>7, <3>1 DEF Best
    <3>2. CASE Q # P1
      BY <1>2, <1>3, <1>6, <1>7, <3>2 DEF Best
    <3> QED BY <3>1, <3>2
  <2>2. Cardinality(B) = K
    <3> SUFFICES ASSUME Cardinality(B) # K PROVE FALSE
      OBVIOUS
    <3>1. Cardinality(B) = Cardinality(Q)
      BY <2>1
    <3>2. B = Q
      BY <2>1, <3>1, FS_Subset
    <3> QED BY <1>7, <3>2
  <2>3. score[i] \in Nat /\ score[j] \in Nat /\ \A s \in B : score[s] \in Nat
    BY <1>6, <1>7, <2>1
  <2>4. SUFFICES ASSUME score[i] < score[j] PROVE FALSE
    BY <2>3
  <2>5. i \notin B
    BY <2>1, <2>3, <2>4
  <2>6. B \subseteq S
    <3> SUFFICES ASSUME NEW s \in B, s \notin S PROVE FALSE
      OBVIOUS
    <3>1. score[i] >= score[s]
      BY <2>1 DEF Best
    <3>2. score[s] >= score[j]
      BY <2>1
    <3> QED BY <2>3, <2>4, <3>1, <3>2
  <2>7. Cardinality(B \cup {i}) = K + 1
    BY <2>1, <2>2, <2>5, FS_AddElement
  <2>8. Cardinality(B \cup {i}) <= n
    <3>1. B \cup {i} \in SUBSET S
      BY <2>6
    <3> QED BY <1>6, <3>1, FS_Subset
  <2>9. n <= K
    BY <1>1, <1>3, <1>4
  <2>10. n \in Nat
    BY <1>1, <1>3, <1>4
  <2> QED BY <1>1, <2>7, <2>8, <2>9, <2>10
<1>8. ASSUME NEW i \in S, NEW j \in (P1 \cup P2) \ S PROVE score[i] >= score[j]
  <2>1. CASE j \in S1 \cup S2
    BY <2>1, <1>8 DEF Best
  <2>2. CASE j \notin S1 \cup S2 /\ j \in P1
    BY <1>7, <2>2
  <2>3. CASE j \notin S1 \cup S2 /\ j \in P2
    <3>1. P2 # P1
      BY <2>3
    <3> QED BY <1>7, <2>3, <3>1
  <2> QED BY <2>1, <2>2, <2>3
<1> QED BY <1>5, <1>6, <1>8 DEF Best

---------------------------------------------------------------------------
(* Chunks and ranges.                                                       *)

Base(c) == c * ChunkSize

LEMMA ChunksCover ==
  /\ Chunks \in Nat \ {0} /\ 0 \in Chunk
  /\ Chunks * ChunkSize >= Columns
  /\ \A c \in Chunk : /\ Base(c) \in Nat /\ Base(c) < Columns
                      /\ (c + 1) * ChunkSize = Base(c) + ChunkSize
<1> DEFINE q == Chunks
           x == Columns + ChunkSize - 1
           m == x % ChunkSize
<1>1. K \in Nat \ {0} /\ Columns \in Nat \ {0} /\ ChunkSize \in Nat \ {0} /\ x \in Nat
  BY RepairAssumption
<1>2. q \in Nat /\ m \in 0 .. ChunkSize - 1 /\ x = q * ChunkSize + m
  <2> HIDE DEF x
  <2>1. x \div ChunkSize \in Nat /\ x % ChunkSize \in 0 .. ChunkSize - 1
        /\ x = (x \div ChunkSize) * ChunkSize + (x % ChunkSize)
    BY <1>1, DivFloor
  <2> QED BY <2>1 DEF x, Chunks
<1> HIDE DEF q, m
<1>3. q * ChunkSize \in Nat
  BY <1>1, <1>2
<1>4. q * ChunkSize >= Columns /\ q * ChunkSize < Columns + ChunkSize
  BY <1>1, <1>2, <1>3
<1>5. q # 0
  <2> SUFFICES ASSUME q = 0 PROVE FALSE
    OBVIOUS
  <2>1. q * ChunkSize = 0
    BY <1>1
  <2> QED BY <1>1, <1>4, <2>1
<1>6. ASSUME NEW c \in 0 .. q - 1
      PROVE  c * ChunkSize \in Nat /\ c * ChunkSize < Columns
             /\ (c + 1) * ChunkSize = c * ChunkSize + ChunkSize
  <2>1. c \in Nat /\ q - 1 - c \in Nat
    BY <1>2
  <2>2. c * ChunkSize \in Nat /\ (q - 1 - c) * ChunkSize \in Nat
    BY <1>1, <2>1
  <2>3. q * ChunkSize = c * ChunkSize + (q - 1 - c) * ChunkSize + ChunkSize
    BY <1>1, <1>2, <2>1, Z3
  <2>4. (c + 1) * ChunkSize = c * ChunkSize + ChunkSize
    BY <1>1, <2>1, Z3
  <2> QED BY <1>1, <1>4, <2>2, <2>3, <2>4
<1> QED BY <1>2, <1>4, <1>5, <1>6 DEF Chunk, q, Base

\* The range of a row clipped to a chunk: the same positions, counted from the
\* first of the chunk.
LEMMA ClipIs ==
  ASSUME NEW c \in Chunk, NEW position \in 0 .. Columns
  PROVE  /\ Width(c) \in 1 .. ChunkSize /\ Base(c) + Width(c) <= Columns
         /\ Width(c) = ChunkSize \/ Base(c) + Width(c) = Columns
         /\ Clip(c, position) \in 0 .. Width(c)
         /\ \A id \in 0 .. Width(c) - 1 : Clip(c, position) <= id <=> position <= Base(c) + id
<1> DEFINE b == Base(c)
           w == Width(c)
           top == Max({0, position - b})
<1>1. b \in Nat /\ b < Columns /\ Columns \in Nat /\ ChunkSize \in Nat \ {0}
  BY ChunksCover, RepairAssumption
<1>2. w = IF ChunkSize <= Columns - b THEN ChunkSize ELSE Columns - b
  <2>1. ChunkSize \in Int /\ Columns - b \in Int
    BY <1>1
  <2>2. Min({ChunkSize, Columns - b}) = IF ChunkSize <= Columns - b THEN ChunkSize ELSE Columns - b
    BY ONLY <2>1, MinOfTwo
  <2> QED BY <2>2 DEF Width, Base
<1>3. top = IF 0 >= position - b THEN 0 ELSE position - b
  <2>1. position - b \in Int
    BY <1>1
  <2> QED BY ONLY <2>1, MaxOfTwo
<1>4. w \in 1 .. ChunkSize /\ b + w <= Columns /\ (w = ChunkSize \/ b + w = Columns)
  BY <1>1, <1>2
<1>5. Clip(c, position) = IF w <= top THEN w ELSE top
  <2>1. w \in Int /\ top \in Int
    BY <1>1, <1>3, <1>4
  <2>2. Min({w, top}) = IF w <= top THEN w ELSE top
    BY ONLY <2>1, MinOfTwo
  <2> QED BY <2>2 DEF Clip, Base
<1> HIDE DEF b, w, top
<1>6. Clip(c, position) \in 0 .. w
  BY <1>1, <1>3, <1>4, <1>5
<1>7. ASSUME NEW id \in 0 .. w - 1 PROVE Clip(c, position) <= id <=> position <= b + id
  BY <1>1, <1>3, <1>4, <1>5
<1> QED BY <1>4, <1>6, <1>7 DEF b, w

\* The valid positions of a row, before a chunk and in it.
LEMMA ChunksSplit ==
  ASSUME NEW row \in Inputs, NEW c \in Chunk
  PROVE  /\ IsFiniteSet(Before(row, c)) /\ IsFiniteSet(InChunk(row, c))
         /\ Before(row, c) \cap InChunk(row, c) = {}
         /\ Before(row, c + 1) = Before(row, c) \cup InChunk(row, c)
         /\ Before(row, 1) = InChunk(row, 0)
         /\ Before(row, Chunks) = Valid(row)
         /\ IsFiniteSet(Valid(row))
<1>1. /\ Base(c) \in Nat /\ (c + 1) * ChunkSize = Base(c) + ChunkSize
      /\ Columns \in Nat /\ ChunkSize \in Nat \ {0} /\ Chunks * ChunkSize >= Columns
      /\ Chunks * ChunkSize \in Nat
  BY ChunksCover, RepairAssumption
<1>2. \A id \in Valid(row) : id \in Nat /\ id < Columns
  BY <1>1 DEF Valid
<1>3. IsFiniteSet(Valid(row))
  <2>1. IsFiniteSet(0 .. Columns - 1)
    BY <1>1, FS_Interval
  <2> QED BY <2>1, FS_Subset DEF Valid
<1>4. IsFiniteSet(Before(row, c)) /\ IsFiniteSet(InChunk(row, c))
  BY <1>3, FS_Subset DEF Before, InChunk
<1>5. Before(row, c) \cap InChunk(row, c) = {}
  BY <1>1, <1>2 DEF Before, InChunk, Base
<1>6. Before(row, c + 1) = Before(row, c) \cup InChunk(row, c)
  BY <1>1, <1>2 DEF Before, InChunk, Base
<1>7. Before(row, 1) = InChunk(row, 0)
  <2>1. 1 * ChunkSize = ChunkSize /\ 0 * ChunkSize = 0 /\ (0 + 1) * ChunkSize = ChunkSize
    BY <1>1
  <2> QED BY <1>1, <1>2, <2>1 DEF Before, InChunk
<1>8. Before(row, Chunks) = Valid(row)
  BY <1>1, <1>2 DEF Before
<1> QED BY <1>3, <1>4, <1>5, <1>6, <1>7, <1>8

\* A row and its partner.
LEMMA PairsOfRows ==
  /\ \A r \in RowId : PairOf(r) \in Pair
  /\ \A p \in Pair, r \in RowId : r \in {2 * p - 1, 2 * p} <=> p = PairOf(r)
<1>1. NumRows \in Nat /\ NumRows = 2 * (NumRows \div 2)
  BY RepairAssumption
<1>2. ASSUME NEW r \in RowId
      PROVE  /\ PairOf(r) \in Pair
             /\ \A p \in Pair : r \in {2 * p - 1, 2 * p} <=> p = PairOf(r)
  BY <1>1 DEF RowId, Pair, PairOf
<1> QED BY <1>2

---------------------------------------------------------------------------
(* What the producer emits, and what the local selection gathers of it.     *)

\* The positions that a math warp scans in a chunk fit its segment.
LEMMA ShareFits ==
  ASSUME NEW r \in RowId, NEW s \in Segment, stage.chunk \in Chunk
  PROVE  /\ IsFiniteSet(Share(r, s)) /\ Cardinality(Share(r, s)) \in 0 .. SegmentCapacity
         /\ IsOrder(SetToSeq(Share(r, s)), Share(r, s))
<1> DEFINE c == stage.chunk
           S == Share(r, s)
           f == [id \in S |-> id \div Segments]
<1>1. /\ Width(c) \in 1 .. ChunkSize /\ Segments \in Nat \ {0} /\ SegmentCapacity \in Nat
      /\ ChunkSize = SegmentCapacity * Segments /\ ChunkSize \in Nat
  <2>1. /\ ChunkSize \in Nat /\ Segments \in Nat \ {0} /\ ChunkSize % Segments = 0
        /\ SegmentCapacity = ChunkSize \div Segments
    BY RepairAssumption
  <2>2. /\ ChunkSize \div Segments \in Nat
        /\ ChunkSize = (ChunkSize \div Segments) * Segments + (ChunkSize % Segments)
    BY <2>1, DivFloor
  <2>3. SegmentCapacity \in Nat /\ ChunkSize = SegmentCapacity * Segments + 0
    BY <2>1, <2>2
  <2>4. SegmentCapacity * Segments \in Nat
    BY <2>1, <2>3
  <2>5. 0 \in 0 .. Columns
    BY RepairAssumption
  <2> QED BY <2>1, <2>3, <2>4, <2>5, ClipIs
<1>2. S \subseteq 0 .. Width(c) - 1 /\ \A id \in S : id % Segments = s
  BY DEF Share
<1>3. ASSUME NEW id \in S
      PROVE  /\ id \div Segments \in 0 .. SegmentCapacity - 1
             /\ id = (id \div Segments) * Segments + s
  <2>1. id \in Nat /\ id < SegmentCapacity * Segments /\ id % Segments = s
    BY <1>1, <1>2
  <2>2. id \div Segments \in Nat /\ s \in Nat /\ id = (id \div Segments) * Segments + s
    <3>1. s \in Nat
      BY <1>1 DEF Segment
    <3>2. /\ id \div Segments \in Nat
          /\ id = (id \div Segments) * Segments + (id % Segments)
      BY <1>1, <2>1, DivFloor
    <3> QED BY <2>1, <3>1, <3>2
  <2> DEFINE q == id \div Segments
  <2> HIDE DEF q
  <2>3. q \in Nat /\ s \in Nat /\ id = q * Segments + s
    BY <2>2 DEF q
  <2>4. q < SegmentCapacity
    <3> SUFFICES ASSUME q >= SegmentCapacity PROVE FALSE
      BY <1>1, <2>3
    <3>1. q - SegmentCapacity \in Nat
      BY <1>1, <2>3
    <3>2. (q - SegmentCapacity) * Segments \in Nat /\ q * Segments \in Nat
      BY <1>1, <2>3, <3>1
    <3>3. q * Segments = SegmentCapacity * Segments + (q - SegmentCapacity) * Segments
      BY <1>1, <2>3, <3>1, Z3
    <3> QED BY <1>1, <2>1, <2>3, <3>2, <3>3
  <2>5. q \in 0 .. SegmentCapacity - 1
    BY <1>1, <2>3, <2>4
  <2> QED BY <2>2, <2>5 DEF q
<1>4. f \in Injection(S, 0 .. SegmentCapacity - 1)
  <2>1. f \in [S -> 0 .. SegmentCapacity - 1]
    BY <1>3
  <2>2. \A x, y \in S : f[x] = f[y] => x = y
    <3> TAKE x, y \in S
    <3>1. x = f[x] * Segments + s /\ y = f[y] * Segments + s
      BY <1>3
    <3> QED BY <3>1
  <2> QED BY <2>1, <2>2 DEF Injection, IsInjective
<1>5. /\ IsFiniteSet(0 .. SegmentCapacity - 1)
      /\ Cardinality(0 .. SegmentCapacity - 1) = SegmentCapacity
  BY <1>1, FS_Interval
<1> HIDE DEF f
<1>6. IsFiniteSet(S) /\ Cardinality(S) <= SegmentCapacity
  BY <1>4, <1>5, FS_Injection
<1>7. Cardinality(S) \in 0 .. SegmentCapacity
  BY <1>1, <1>6, FS_CardinalityType
<1> QED BY <1>6, <1>7, OrderOf

LEMMA EmittedIs ==
  ASSUME NEW r \in RowId, NEW s \in Segment, stage.chunk \in Chunk, input[r] \in Inputs
  PROVE  LET n == Cardinality(Share(r, s))
             f == SetToSeq(Share(r, s))
         IN  /\ Emitted(r, s) \in Seq(Scored) /\ Len(Emitted(r, s)) = n
             /\ \A i \in 1 .. n :
                  Emitted(r, s)[i] = <<input[r].score[Base(stage.chunk) + f[i]], f[i]>>
<1> DEFINE c == stage.chunk
           n == Cardinality(Share(r, s))
           f == SetToSeq(Share(r, s))
           e == [i \in 1 .. n |-> <<input[r].score[Base(c) + f[i]], f[i]>>]
<1>1. IsOrder(f, Share(r, s)) /\ n \in Nat
  BY ShareFits
<1>2. Share(r, s) \subseteq 0 .. Width(c) - 1
  BY DEF Share
<1>3. Base(c) \in Nat /\ Base(c) + Width(c) <= Columns /\ Width(c) \in Nat /\ Columns \in Nat
  <2>1. 0 \in 0 .. Columns /\ Columns \in Nat /\ ChunkSize \in Nat
    BY RepairAssumption
  <2> QED BY <2>1, ChunksCover, ClipIs
<1> HIDE DEF f
<1>4. Emitted(r, s) = e
  <2>1. DOMAIN f = 1 .. n
    BY <1>1 DEF IsOrder
  <2> QED BY <2>1 DEF Emitted, f, Base
<1>5. ASSUME NEW i \in 1 .. n PROVE e[i] \in Scored
  <2>1. f[i] \in 0 .. Width(c) - 1
    BY <1>1, <1>2 DEF IsOrder
  <2>2. Base(c) + f[i] \in 0 .. Columns - 1 /\ f[i] \in 0 .. Columns - 1
    BY <1>3, <2>1
  <2>3. input[r].score[Base(c) + f[i]] \in Nat
    BY <2>2, InputsAssumption
  <2> QED BY <2>2, <2>3 DEF Scored
<1>6. e \in [1 .. n -> Scored]
  BY <1>5
<1> HIDE DEF e
<1>7. e \in Seq(Scored) /\ Len(e) = n
  BY <1>1, <1>6, SeqDef
<1> QED BY <1>4, <1>7 DEF f, e

\* The valid positions of a flagged row in the chunk, as the share of each warp.
LEMMA ShareIs ==
  ASSUME NEW r \in RowId, NEW s \in Segment, stage.chunk \in Chunk, input[r] \in Inputs,
         failure[r] # 0, RangesRight(stage.chunk)
  PROVE  /\ Share(r, s) = {id \in 0 .. Width(stage.chunk) - 1 :
                             id % Segments = s /\ Base(stage.chunk) + id \in Valid(input[r])}
<1> DEFINE c == stage.chunk
           row == input[r]
<1>1. /\ row.start \in 0 .. Columns /\ row.end \in 0 .. Columns /\ Columns \in Nat
      /\ ChunkSize \in Nat /\ Base(c) \in Nat /\ Width(c) \in Nat
      /\ Base(c) + Width(c) <= Columns
  <2>1. row.start \in 0 .. Columns /\ row.end \in 0 .. Columns
    BY InputsAssumption
  <2> QED BY <2>1, RepairAssumption, ChunksCover, ClipIs
<1>2. chunkStart[c][r] = Clip(c, row.start) /\ chunkEnd[c][r] = Clip(c, row.end)
  BY DEF RangesRight
<1>3. ASSUME NEW id \in 0 .. Width(c) - 1
      PROVE  chunkStart[c][r] <= id /\ id < chunkEnd[c][r] <=> Base(c) + id \in Valid(row)
  <2>1. chunkStart[c][r] <= id <=> row.start <= Base(c) + id
    BY <1>1, <1>2, ClipIs
  <2>2. chunkEnd[c][r] <= id <=> row.end <= Base(c) + id
    BY <1>1, <1>2, ClipIs
  <2>3. chunkEnd[c][r] \in Int
    BY <1>1, <1>2, ClipIs
  <2>4. Base(c) + id \in 0 .. Columns - 1
    BY <1>1
  <2>5. id < chunkEnd[c][r] <=> Base(c) + id < row.end
    BY <1>1, <2>2, <2>3, <2>4
  <2> QED BY <2>1, <2>4, <2>5 DEF Valid
<1> QED BY <1>3 DEF Share

LEMMA OneSegment ==
  ASSUME NEW s, NEW n \in Nat
  PROVE  IsFiniteSet({s} \X (1 .. n)) /\ Cardinality({s} \X (1 .. n)) = n
<1> DEFINE f == [i \in 1 .. n |-> <<s, i>>]
<1>1. f \in Bijection(1 .. n, {s} \X (1 .. n))
  <2>1. f \in [1 .. n -> {s} \X (1 .. n)] /\ \A i \in 1 .. n : f[i] = <<s, i>>
    OBVIOUS
  <2> HIDE DEF f
  <2>2. \A i, j \in 1 .. n : f[i] = f[j] => i = j
    BY <2>1
  <2>3. \A x \in {s} \X (1 .. n) : \E i \in 1 .. n : f[i] = x
    <3> TAKE x \in {s} \X (1 .. n)
    <3>1. x[2] \in 1 .. n /\ x = <<s, x[2]>>
      OBVIOUS
    <3> QED BY <2>1, <3>1
  <2> QED BY <2>1, <2>2, <2>3 DEF Bijection, Injection, Surjection, IsInjective
<1>2. IsFiniteSet(1 .. n) /\ Cardinality(1 .. n) = n
  BY FS_Interval
<1> HIDE DEF f
<1> QED BY <1>1, <1>2, FS_Bijection DEF ExistsBijection

\* The number of valid positions of the chunk is what the ranges say.
LEMMA ChunkCount ==
  ASSUME NEW r \in RowId, stage.chunk \in Chunk, input[r] \in Inputs,
         RangesRight(stage.chunk), Valid(input[r]) # {}
  PROVE  /\ Cardinality(InChunk(input[r], stage.chunk)) = Expected(r)
         /\ Expected(r) <= ChunkSize
<1> DEFINE c == stage.chunk
           row == input[r]
           lo == Clip(c, row.start)
           hi == Clip(c, row.end)
           b == Base(c)
           w == Width(c)
<1>1. /\ row.start \in 0 .. Columns /\ row.end \in 0 .. Columns /\ Columns \in Nat
      /\ ChunkSize \in Nat
    BY InputsAssumption, RepairAssumption
<1>2. /\ b \in Nat /\ w \in 1 .. ChunkSize /\ b + w <= Columns
      /\ w = ChunkSize \/ b + w = Columns
      /\ lo \in 0 .. w /\ hi \in 0 .. w
      /\ \A id \in 0 .. w - 1 : lo <= id <=> row.start <= b + id
      /\ \A id \in 0 .. w - 1 : hi <= id <=> row.end <= b + id
      /\ (c + 1) * ChunkSize = b + ChunkSize
  BY <1>1, ChunksCover, ClipIs
<1>3. row.start < row.end
  BY <1>1 DEF Valid
<1>4. Expected(r) = hi - lo
  BY DEF Expected, RangesRight
<1>5. \A x : x \in InChunk(row, c) <=>
        /\ x \in 0 .. Columns - 1 /\ row.start <= x /\ x < row.end
        /\ b <= x /\ x < b + ChunkSize
  BY <1>2 DEF InChunk, Valid, Base
<1> HIDE DEF c, b, w, lo, hi
<1> DEFINE st == row.start
           en == row.end
<1>30. st \in 0 .. Columns /\ en \in 0 .. Columns /\ st < en
  BY <1>1, <1>3
<1>31. /\ \A id \in 0 .. w - 1 : lo <= id <=> st <= b + id
       /\ \A id \in 0 .. w - 1 : hi <= id <=> en <= b + id
  BY <1>2
<1> HIDE DEF st, en
<1>6. lo <= hi
  <2> SUFFICES ASSUME hi < lo PROVE FALSE
    BY <1>2
  <2>1. hi \in 0 .. w - 1 /\ ~(lo <= hi) /\ hi <= hi
    BY <1>1, <1>2
  <2>2. en <= b + hi /\ ~(st <= b + hi)
    BY <1>31, <2>1
  <2> QED BY <1>1, <1>2, <1>30, <2>2
<1>7. ASSUME NEW x PROVE x \in InChunk(row, c) <=> x \in b + lo .. b + hi - 1
  <2>1. ASSUME x \in InChunk(row, c) PROVE x \in b + lo .. b + hi - 1
    <3>1. x \in Int /\ x - b \in 0 .. w - 1 /\ st <= x /\ x < en /\ b + (x - b) = x
      BY <1>1, <1>2, <1>5, <2>1 DEF st, en
    <3>2. lo <= x - b /\ ~(hi <= x - b)
      BY <1>1, <1>30, <1>31, <3>1
    <3> QED BY <1>1, <1>2, <3>1, <3>2
  <2>2. ASSUME x \in b + lo .. b + hi - 1 PROVE x \in InChunk(row, c)
    <3>1. x \in Int /\ x - b \in 0 .. w - 1 /\ lo <= x - b /\ ~(hi <= x - b) /\ b + (x - b) = x
      BY <1>1, <1>2, <2>2
    <3>2. st <= x /\ ~(en <= x)
      BY <1>31, <3>1
    <3>3. x \in 0 .. Columns - 1 /\ st <= x /\ x < en /\ b <= x /\ x < b + ChunkSize
      BY <1>1, <1>2, <1>30, <3>1, <3>2
    <3> QED BY <1>5, <3>3 DEF st, en
  <2> QED BY <2>1, <2>2
<1>8. InChunk(row, c) = b + lo .. b + hi - 1
  BY <1>7
<1>9. Cardinality(InChunk(row, c)) = hi - lo
  <2>1. b + lo \in Int /\ b + hi - 1 \in Int
    BY <1>1, <1>2
  <2>2. Cardinality(b + lo .. b + hi - 1)
          = IF b + lo > b + hi - 1 THEN 0 ELSE (b + hi - 1) - (b + lo) + 1
    BY ONLY <2>1, FS_Interval
  <2> QED BY <1>1, <1>2, <1>6, <1>8, <2>2
<1> QED BY <1>1, <1>2, <1>4, <1>9 DEF c, lo, hi

\* The gathered pairs list the valid positions of the chunk, and the counts
\* are what they must be.
LEMMA GatheredLists ==
  ASSUME NEW r \in RowId, stage.chunk \in Chunk, input[r] \in Inputs,
         failure[r] # 0, RangesRight(stage.chunk), ProducedRight(r), Valid(input[r]) # {}
  PROVE  /\ Gathered(r) \in Seq(Scored) /\ Len(Gathered(r)) = Total(r)
         /\ Lists(Gathered(r), Len(Gathered(r)), InChunk(input[r], stage.chunk),
                  input[r].score)
         /\ ~BadCounts(r)
<1> DEFINE c == stage.chunk
           row == input[r]
           b == Base(c)
           h == [s \in Segment |-> Cardinality(Share(r, s))]
           F(s) == SetToSeq(Share(r, s))
           A == [s \in Segment |-> {s} \X (1 .. h[s])]
           slots == SetToSeq(Slots(r))
           n == Cardinality(Slots(r))
           g == [k \in 1 .. n |-> AddLogicalOffset(candidates[r][slots[k][1]][slots[k][2]])]
<1>1. ASSUME NEW s \in Segment
      PROVE  /\ segmentCounts[r][s] = h[s] /\ h[s] \in Nat /\ h[s] <= SegmentCapacity
             /\ h[s] = Cardinality(Share(r, s))
             /\ IsOrder(F(s), Share(r, s))
             /\ \A i \in 1 .. h[s] :
                  candidates[r][s][i] = <<row.score[b + F(s)[i]], F(s)[i]>>
  BY ShareFits, EmittedIs DEF ProducedRight
<1>2. \A s \in Segment : Share(r, s) = {id \in 0 .. Width(c) - 1 :
                                          id % Segments = s /\ b + id \in Valid(row)}
  BY ShareIs
<1>3. IsFiniteSet(Segment)
  BY RepairAssumption, FS_Interval DEF Segment
<1>4. Slots(r) = UnionOver(Segment, A)
  BY <1>1 DEF Slots, UnionOver
<1>5. \A s \in Segment : /\ IsFiniteSet(A[s]) /\ h[s] = Cardinality(A[s])
  BY <1>1, OneSegment
<1>6. \A s, t \in Segment : s # t => A[s] \cap A[t] = {}
  OBVIOUS
<1>7. IsFiniteSet(Slots(r))
  <2>1. SegmentCapacity \in Int
    BY RepairAssumption
  <2>2. Slots(r) \in SUBSET (Segment \X (1 .. SegmentCapacity))
    <3> SUFFICES ASSUME NEW x \in Slots(r) PROVE x \in Segment \X (1 .. SegmentCapacity)
      OBVIOUS
    <3>1. PICK s \in Segment : x \in {s} \X (1 .. segmentCounts[r][s])
      BY DEF Slots
    <3>2. segmentCounts[r][s] \in Nat /\ segmentCounts[r][s] <= SegmentCapacity
      BY <1>1
    <3> QED BY <2>1, <3>1, <3>2
  <2>3. SegmentCapacity \in Int
    BY RepairAssumption
  <2>4. IsFiniteSet(1 .. SegmentCapacity)
    BY <2>3, FS_Interval
  <2>5. IsFiniteSet(Segment \X (1 .. SegmentCapacity))
    BY <1>3, <2>4, FS_Product
  <2> QED BY <2>2, <2>5, FS_Subset
<1>8. IsOrder(slots, Slots(r)) /\ n \in Nat
  BY <1>7, OrderOf DEF IsOrder
<1>9. Total(r) = n
  <2>1. SumOver(segmentCounts[r], Segment) = Total(r)
    BY DEF SumOver, Total
  <2>2. \A s \in Segment : segmentCounts[r][s] = Cardinality(A[s])
    BY <1>1, <1>5
  <2> HIDE DEF A, h
  <2>3. SumOver(segmentCounts[r], Segment) = Cardinality(UnionOver(Segment, A))
    BY <1>3, <1>5, <1>6, <2>2, SumOfSizes
  <2> QED BY <1>4, <2>1, <2>3
<1> HIDE DEF slots, A
<1>10. Gathered(r) = g
  <2>1. DOMAIN slots = 1 .. n
    BY <1>8 DEF IsOrder
  <2> QED BY <2>1 DEF Gathered, slots
\* The position in the k-th slot.
<1> DEFINE S(k) == slots[k][1]
           I(k) == slots[k][2]
           D(k) == F(S(k))[I(k)]
<1>11. ASSUME NEW k \in 1 .. n
       PROVE  /\ S(k) \in Segment /\ I(k) \in 1 .. h[S(k)] /\ slots[k] = <<S(k), I(k)>>
              /\ D(k) \in Share(r, S(k))
              /\ candidates[r][S(k)][I(k)] = <<row.score[b + D(k)], D(k)>>
  <2>1. slots[k] \in Slots(r)
    BY <1>8 DEF IsOrder
  <2>2. PICK s \in Segment : slots[k] \in {s} \X (1 .. segmentCounts[r][s])
    BY <2>1 DEF Slots
  <2>3. S(k) = s /\ I(k) \in 1 .. segmentCounts[r][s] /\ slots[k] = <<S(k), I(k)>>
    BY <2>2
  <2>4. S(k) \in Segment /\ I(k) \in 1 .. h[S(k)]
    BY <1>1, <2>3
  <2> HIDE DEF S, I, F
  <2>5. /\ IsOrder(F(S(k)), Share(r, S(k)))
        /\ candidates[r][S(k)][I(k)] = <<row.score[b + F(S(k))[I(k)]], F(S(k))[I(k)]>>
        /\ h[S(k)] = Cardinality(Share(r, S(k)))
    BY <1>1, <2>4
  <2> HIDE DEF h
  <2>6. F(S(k))[I(k)] \in Share(r, S(k))
    BY <2>4, <2>5 DEF IsOrder
  <2> QED BY <2>3, <2>4, <2>5, <2>6
<1>12. b \in Nat /\ Width(c) \in Nat /\ b + Width(c) <= Columns /\ Columns \in Nat
  <2>1. 0 \in 0 .. Columns /\ Columns \in Nat /\ ChunkSize \in Nat
    BY RepairAssumption
  <2> QED BY <2>1, ChunksCover, ClipIs
<1> HIDE DEF S, I, D, F, h
<1>13. ASSUME NEW k \in 1 .. n
       PROVE  /\ g[k] = <<row.score[b + D(k)], b + D(k)>>
              /\ D(k) \in 0 .. Width(c) - 1 /\ D(k) % Segments = S(k)
              /\ b + D(k) \in Valid(row) /\ b + D(k) \in 0 .. Columns - 1
              /\ row.score[b + D(k)] \in Nat
  <2>1. /\ D(k) \in 0 .. Width(c) - 1 /\ D(k) % Segments = S(k) /\ b + D(k) \in Valid(row)
    BY <1>2, <1>11
  <2>2. b + D(k) \in 0 .. Columns - 1
    BY <2>1 DEF Valid
  <2>3. row.score[b + D(k)] \in Nat
    BY <2>2, InputsAssumption
  <2>4. candidates[r][slots[k][1]][slots[k][2]] = <<row.score[b + D(k)], D(k)>>
    BY <1>11 DEF S, I
  <2>5. g[k] = <<row.score[b + D(k)], D(k) + b>>
    <3>1. g[k] = AddLogicalOffset(candidates[r][slots[k][1]][slots[k][2]])
      OBVIOUS
    <3>2. g[k] = AddLogicalOffset(<<row.score[b + D(k)], D(k)>>)
      BY <2>4, <3>1
    <3> HIDE DEF g
    <3> QED BY <3>2 DEF AddLogicalOffset, Base
  <2>6. D(k) + b = b + D(k)
    BY <1>12, <2>1
  <2> QED BY <2>1, <2>2, <2>3, <2>5, <2>6
<1>14. g \in [1 .. n -> Scored]
  BY <1>13 DEF Scored
<1>15. g = [k \in 1 .. n |-> g[k]]
  OBVIOUS
<1> HIDE DEF g
<1>16. g \in Seq(Scored) /\ Len(g) = n
  BY <1>8, <1>14, SeqDef
<1>17. Lists(g, n, InChunk(row, c), row.score)
  <2>1. ASSUME NEW k \in 1 .. n
        PROVE  g[k][2] \in InChunk(row, c) /\ g[k] = <<row.score[g[k][2]], g[k][2]>>
    <3>1. g[k][2] = b + D(k) /\ g[k] = <<row.score[b + D(k)], b + D(k)>>
      BY <1>13
    <3>2. /\ b <= b + D(k) /\ b + D(k) < b + ChunkSize /\ (c + 1) * ChunkSize = b + ChunkSize
      <4>1. Width(c) \in 1 .. ChunkSize /\ ChunkSize \in Nat
            /\ (c + 1) * ChunkSize = b + ChunkSize
        <5>1. 0 \in 0 .. Columns
          BY RepairAssumption
        <5> QED BY <5>1, ChunksCover, ClipIs, RepairAssumption
      <4> QED BY <1>12, <1>13, <4>1
    <3> QED BY <1>13, <3>1, <3>2 DEF InChunk, Base
  <2>2. ASSUME NEW k \in 1 .. n, NEW l \in 1 .. n, g[k][2] = g[l][2] PROVE k = l
    <3>1. b + D(k) = b + D(l)
      BY <1>13, <2>2
    <3>2. D(k) = D(l)
      BY <1>12, <1>13, <3>1
    <3>3. S(k) = S(l)
      BY <1>13, <3>2
    <3>4. I(k) = I(l)
      <4>1. F(S(k))[I(k)] = F(S(k))[I(l)]
        BY <3>2, <3>3 DEF D
      <4>2. /\ I(k) \in 1 .. Cardinality(Share(r, S(k)))
            /\ I(l) \in 1 .. Cardinality(Share(r, S(k)))
            /\ IsOrder(F(S(k)), Share(r, S(k)))
        BY <1>1, <1>11, <3>3
      <4> QED BY <4>1, <4>2 DEF IsOrder
    <3>5. slots[k] = slots[l]
      BY <1>11, <3>3, <3>4
    <3> QED BY <1>8, <3>5 DEF IsOrder
  <2>3. ASSUME NEW x \in InChunk(row, c) PROVE \E k \in 1 .. n : g[k][2] = x
    <3> DEFINE id == x - b
               s == id % Segments
    <3>1. /\ x \in Valid(row) /\ id \in 0 .. Width(c) - 1 /\ b + id = x /\ x \in Nat
      <4>1. /\ x \in Valid(row) /\ b <= x /\ x < b + ChunkSize /\ x \in 0 .. Columns - 1
        <5>1. (c + 1) * ChunkSize = b + ChunkSize
          BY ChunksCover
        <5> QED BY <5>1 DEF InChunk, Base, Valid
      <4>2. Width(c) = ChunkSize \/ b + Width(c) = Columns
        <5>1. 0 \in 0 .. Columns
          BY RepairAssumption
        <5> QED BY <5>1, ClipIs
      <4> QED BY <1>12, <4>1, <4>2
    <3>2. s \in Segment
      <4> HIDE DEF id
      <4>1. id \in Nat /\ Segments \in Nat \ {0}
        BY <3>1, RepairAssumption, <1>12
      <4> QED BY <4>1 DEF Segment
    <3> HIDE DEF id
    <3>3. id \in Share(r, s)
      BY <1>2, <3>1, <3>2
    <3> HIDE DEF s
    <3>4. PICK i \in 1 .. h[s] : F(s)[i] = id
      BY <1>1, <3>2, <3>3 DEF IsOrder
    <3>5. <<s, i>> \in Slots(r)
      BY <1>1, <3>2, <3>4 DEF Slots
    <3>6. PICK k \in 1 .. n : slots[k] = <<s, i>>
      BY <1>8, <3>5 DEF IsOrder
    <3>7. D(k) = id
      BY <3>4, <3>6 DEF D, S, I
    <3>8. g[k] = <<row.score[b + D(k)], b + D(k)>>
      BY <1>13
    <3>9. g[k][2] = b + id
      BY <3>7, <3>8
    <3> QED BY <3>1, <3>9
  <2> QED BY <2>1, <2>2, <2>3 DEF Lists
<1>18. Cardinality(InChunk(row, c)) = n
  BY <1>8, <1>17, ListedCount
<1>19. ~BadCounts(r)
  <2>1. Total(r) = Expected(r) /\ Total(r) <= ChunkSize
    BY <1>9, <1>18, ChunkCount
  <2>2. ChunkSize \in Nat /\ SegmentCapacity \in Int /\ Total(r) \in Nat
    BY <1>8, <1>9, RepairAssumption
  <2>3. \A s \in Segment : ~(segmentCounts[r][s] > SegmentCapacity)
    <3> TAKE s \in Segment
    <3>1. segmentCounts[r][s] \in Nat /\ segmentCounts[r][s] <= SegmentCapacity
      BY <1>1
    <3> QED BY <2>2, <3>1
  <2>4. ~(Total(r) > ChunkSize)
    BY <2>1, <2>2
  <2> QED BY <2>1, <2>3, <2>4 DEF BadCounts
<1> QED BY <1>9, <1>10, <1>16, <1>17, <1>19

---------------------------------------------------------------------------
(* The steps.                                                               *)

Rest == <<output, failure, ranges, produced, local, merged, repairError>>

LEMMA ValidIs ==
  ASSUME NEW row \in Inputs
  PROVE  /\ Valid(row) = row.start .. row.end - 1 /\ IsFiniteSet(Valid(row))
         /\ Cardinality(Valid(row)) \in Nat
         /\ Cardinality(Valid(row)) = IF row.start > row.end - 1 THEN 0 ELSE row.end - row.start
<1>1. row.start \in 0 .. Columns /\ row.end \in 0 .. Columns /\ Columns \in Nat
  BY InputsAssumption, RepairAssumption
<1>2. Valid(row) = row.start .. row.end - 1
  BY <1>1 DEF Valid
<1> DEFINE lo == row.start
           hi == row.end - 1
<1>3. lo \in Int /\ hi \in Int
  BY <1>1
<1> HIDE DEF lo, hi
<1>4. IsFiniteSet(lo .. hi) /\ Cardinality(lo .. hi) = IF lo > hi THEN 0 ELSE hi - lo + 1
  BY <1>3, FS_Interval
<1>5. Cardinality(lo .. hi) \in Nat
  BY <1>4, FS_CardinalityType
<1>6. (row.end - 1) - row.start + 1 = row.end - row.start
  BY <1>1
<1> QED BY <1>2, <1>4, <1>5, <1>6 DEF lo, hi

LEMMA InitHolds ==
  ASSUME Init
  PROVE  IInv
<1>1. /\ Columns \in Nat \ {0} /\ K \in Nat \ {0} /\ ChunkSize \in Nat /\ 0 \in Chunk
      /\ SegmentCapacity \in Nat /\ SegmentCapacity >= 1 /\ MaxCalls \in Nat
  <2>1. /\ ChunkSize \in Nat \ {0} /\ Segments \in Nat \ {0} /\ ChunkSize % Segments = 0
        /\ SegmentCapacity = ChunkSize \div Segments
    BY RepairAssumption
  <2>2. /\ ChunkSize \div Segments \in Nat
        /\ ChunkSize = (ChunkSize \div Segments) * Segments + (ChunkSize % Segments)
    BY <2>1, DivFloor
  <2>3. SegmentCapacity # 0
    BY <2>1, <2>2
  <2> QED BY <2>1, <2>2, <2>3, ChunksCover, RepairAssumption
<1>2. <<9, 0>> \in Scored
  BY <1>1 DEF Scored
<1>3. << <<9, 0>> >> \in Seq(Scored)
  BY <1>2
<1>4. TypeOK
  BY <1>1, <1>2, <1>3 DEF Init, TypeOK
<1>5. StageRight
  BY <1>1, <1>3 DEF Init, StageRight, WorkOf
<1>6. /\ stage.kernel = "none" /\ call = 0
  BY DEF Init
<1>7. RowsRight /\ ChunksRight /\ CandidatesRight
  BY <1>6 DEF RowsRight, ChunksRight, CandidatesRight, FusedKnown, AnswerKnown, RangesKnown,
              ProducedKnown
<1>8. \A r \in RowId : Merged(r) = 0 /\ ~LocalKnown(r)
  BY <1>6 DEF Merged, LocalKnown
<1>9. LocalRight /\ MergedRight /\ ErrorsRight
  BY <1>8 DEF LocalRight, MergedRight, ErrorsRight, ErrorKnown
<1> QED BY <1>4, <1>5, <1>7, <1>9 DEF IInv

LEMMA CallStep ==
  ASSUME IInv, Call
  PROVE  IInv'
<1>1. /\ stage.kernel = "none" /\ call < MaxCalls /\ call' = call + 1 /\ input' \in [RowId -> Inputs]
      /\ stage' = [kernel |-> "fused", chunk |-> 0] /\ todo' = RowId
      /\ UNCHANGED Rest
  BY DEF Call, Launch, workspace, Rest
<1>2. stage'.kernel = "fused" /\ stage'.chunk = 0
  BY <1>1
<1>3. TypeOK'
  BY <1>1, ChunksCover DEF IInv, TypeOK, Rest, ranges, produced, local, merged
<1>4. StageRight'
  <2>1. call' \in 0 .. MaxCalls /\ call' > 0
    BY <1>1, RepairAssumption DEF IInv, StageRight
  <2> QED BY <1>1, <1>2, <2>1 DEF IInv, StageRight, WorkOf, Rest, produced
<1>5. RowsRight' /\ ChunksRight' /\ CandidatesRight'
  BY <1>1, <1>2 DEF RowsRight, ChunksRight, CandidatesRight, FusedKnown, AnswerKnown,
                    RangesKnown, ProducedKnown
<1>6. \A r \in RowId : Merged(r)' = 0 /\ ~LocalKnown(r)'
  BY <1>2 DEF Merged, LocalKnown
<1>7. LocalRight' /\ MergedRight' /\ ErrorsRight'
  BY <1>6 DEF LocalRight, MergedRight, ErrorsRight, ErrorKnown
<1> QED BY <1>3, <1>4, <1>5, <1>7 DEF IInv

\* Which kernel follows which.
LEMMA Successors ==
  ASSUME IInv, NextKernel
  PROVE  /\ todo = {} /\ UNCHANGED <<call, input, Rest>>
         /\ \/ /\ stage.kernel = "fused" /\ todo' = Chunk
               /\ stage' = [kernel |-> "ranges", chunk |-> 0]
            \/ /\ stage.kernel = "ranges" /\ todo' = Pair
               /\ stage' = [kernel |-> "produce", chunk |-> 0]
            \/ /\ stage.kernel = "produce" /\ todo' = RowId
               /\ stage' = [kernel |-> "local", chunk |-> stage.chunk]
            \/ /\ stage.kernel = "local" /\ todo' = RowId
               /\ stage' = [kernel |-> "merge", chunk |-> stage.chunk]
            \/ /\ stage.kernel = "merge" /\ stage.chunk + 1 \in Chunk /\ todo' = Pair
               /\ stage' = [kernel |-> "produce", chunk |-> stage.chunk + 1]
            \/ /\ stage.kernel = "merge" /\ stage.chunk + 1 = Chunks /\ todo' = RowId
               /\ stage' = [kernel |-> "finalize", chunk |-> 0]
            \/ /\ stage.kernel = "finalize" /\ todo' = {}
               /\ stage' = [kernel |-> "none", chunk |-> 0]
<1>1. stage.chunk \in Chunk /\ Chunks \in Nat
  BY ChunksCover DEF IInv, TypeOK
<1>2. stage.chunk + 1 \notin Chunk => stage.chunk + 1 = Chunks
  BY <1>1 DEF Chunk
<1>3. todo = {} /\ UNCHANGED <<call, input, Rest>>
  BY DEF NextKernel, Rest, workspace
<1>4. stage.kernel \in {"none", "fused", "ranges", "produce", "local", "merge", "finalize"}
  BY DEF IInv, TypeOK
<1> QED BY <1>2, <1>3, <1>4 DEF NextKernel, Launch

\* What the rows are said to have does not change when a kernel ends.
LEMMA SameRows ==
  ASSUME IInv, UNCHANGED <<call, input, Rest>>
  PROVE  /\ \A r \in RowId : /\ FusedRight(r)' <=> FusedRight(r)
                             /\ Answered(r)' <=> Answered(r)
         /\ \A c \in Chunk : RangesRight(c)' <=> RangesRight(c)
         /\ \A r \in RowId : failure[r]' = failure[r] /\ repairError[r]' = repairError[r]
         /\ stage'.chunk = stage.chunk =>
              \A r \in RowId : ProducedRight(r)' <=> ProducedRight(r)
<1> USE DEF Rest, ranges, produced, local, merged
<1>1. \A r \in RowId : /\ FusedRight(r)' <=> FusedRight(r)
                       /\ Answered(r)' <=> Answered(r)
  BY DEF FusedRight, Answered
<1>2. \A c \in Chunk : RangesRight(c)' <=> RangesRight(c)
  BY DEF RangesRight
<1>3. ASSUME stage'.chunk = stage.chunk, NEW r \in RowId
      PROVE  ProducedRight(r)' <=> ProducedRight(r)
  BY <1>3 DEF ProducedRight, Emitted, Share
<1> QED BY <1>1, <1>2, <1>3

LEMMA NextKernelStep ==
  ASSUME IInv, NextKernel
  PROVE  IInv'
<1> DEFINE k == stage.kernel
           l == stage'.kernel
           c == stage.chunk
           d == stage'.chunk
<1>1. todo = {} /\ UNCHANGED <<call, input, Rest>>
  BY Successors
<1>2. /\ \/ k = "fused" /\ todo' = Chunk /\ l = "ranges" /\ d = 0
         \/ k = "ranges" /\ todo' = Pair /\ l = "produce" /\ d = 0
         \/ k = "produce" /\ todo' = RowId /\ l = "local" /\ d = c
         \/ k = "local" /\ todo' = RowId /\ l = "merge" /\ d = c
         \/ k = "merge" /\ c + 1 \in Chunk /\ todo' = Pair /\ l = "produce" /\ d = c + 1
         \/ k = "merge" /\ c + 1 = Chunks /\ todo' = RowId /\ l = "finalize" /\ d = 0
         \/ k = "finalize" /\ todo' = {} /\ l = "none" /\ d = 0
      /\ stage' = [kernel |-> l, chunk |-> d]
  BY Successors
<1>3. c \in Chunk /\ 0 \in Chunk
  BY ChunksCover DEF IInv, TypeOK
<1>4. TypeOK'
  <2>1. d \in Chunk /\ l \in {"none", "fused", "ranges", "produce", "local", "merge", "finalize"}
    BY <1>2, <1>3
  <2> HIDE DEF d, l
  <2>2. UNCHANGED Rest
    BY <1>1
  <2> QED BY <2>1, <2>2 DEF IInv, TypeOK, Rest, ranges, produced, local, merged, d, l
<1>5. StageRight'
  <2>1. k # "none" /\ call > 0 /\ call \in 0 .. MaxCalls /\ input \in [RowId -> Inputs]
        /\ candidates \in [RowId -> [Segment -> Seq(Scored)]]
    BY <1>2 DEF IInv, StageRight
  <2>2. todo' \subseteq WorkOf(l) /\ (l \in {"none", "fused", "ranges", "finalize"} => d = 0)
    BY <1>2 DEF WorkOf
  <2>3. UNCHANGED <<call, input, candidates>>
    BY <1>1 DEF Rest, produced
  <2> QED BY <1>2, <2>1, <2>2, <2>3 DEF StageRight, WorkOf
<1>6. /\ \A r \in RowId : /\ FusedRight(r)' <=> FusedRight(r)
                          /\ Answered(r)' <=> Answered(r)
      /\ \A q \in Chunk : RangesRight(q)' <=> RangesRight(q)
      /\ \A r \in RowId : failure[r]' = failure[r] /\ repairError[r]' = repairError[r]
      /\ d = c => \A r \in RowId : ProducedRight(r)' <=> ProducedRight(r)
  BY <1>1, SameRows
<1>7. RowsRight'
  <2> SUFFICES ASSUME NEW r \in RowId
               PROVE  /\ FusedKnown(r)' => FusedRight(r)
                      /\ AnswerKnown(r)' => Answered(r)
    BY <1>6 DEF RowsRight
  <2>1. /\ FusedKnown(r) => FusedRight(r)
        /\ AnswerKnown(r) => Answered(r)
    BY DEF IInv, RowsRight
  <2>2. FusedKnown(r)' => FusedKnown(r)
    BY <1>1, <1>2 DEF FusedKnown
  <2>3. AnswerKnown(r)' => AnswerKnown(r)
    BY <1>1, <1>2 DEF AnswerKnown
  <2> QED BY <2>1, <2>2, <2>3
<1>8. ChunksRight'
  <2> SUFFICES ASSUME NEW q \in Chunk, RangesKnown(q)' PROVE RangesRight(q)
    BY <1>6 DEF ChunksRight
  <2>1. RangesKnown(q)
    BY <1>1, <1>2 DEF RangesKnown
  <2> QED BY <2>1 DEF IInv, ChunksRight
<1>9. CandidatesRight'
  <2> SUFFICES ASSUME NEW r \in RowId, failure[r] = 1, ProducedKnown(r)'
               PROVE  ProducedRight(r)'
    BY <1>6 DEF CandidatesRight
  <2>1. PairOf(r) \in Pair
    BY PairsOfRows
  <2>2. k = "produce" /\ d = c /\ ProducedKnown(r)
    BY <1>1, <1>2, <2>1 DEF ProducedKnown
  <2> QED BY <1>6, <2>2 DEF IInv, CandidatesRight
<1>10. ASSUME NEW r \in RowId
       PROVE  /\ Merged(r)' > 0 => Merged(r)' = Merged(r)
              /\ LocalKnown(r)' => LocalKnown(r) /\ d = c
  <2>1. LocalKnown(r)' => LocalKnown(r) /\ d = c
    BY <1>1, <1>2 DEF LocalKnown
  <2>2. Merged(r)' > 0 => Merged(r)' = Merged(r)
    BY <1>1, <1>2 DEF Merged
  <2> QED BY <2>1, <2>2
<1>11. LocalRight'
  <2> SUFFICES ASSUME NEW r \in RowId, failure[r] = 1, repairError[r] = 0, LocalKnown(r)'
               PROVE  LocalOf(r)'
    BY <1>6 DEF LocalRight
  <2>1. LocalKnown(r) /\ stage'.chunk = stage.chunk
    BY <1>10
  <2>2. LocalOf(r)
    BY <2>1 DEF IInv, LocalRight
  <2>3. /\ localPairs' = localPairs /\ localCounts' = localCounts /\ input' = input
    BY <1>1 DEF Rest, local
  <2>4. InChunk(input[r], stage.chunk)' = InChunk(input[r], stage.chunk)
    BY <2>1, <2>3 DEF InChunk, Valid
  <2> QED BY <2>2, <2>3, <2>4 DEF LocalOf
<1>12. MergedRight'
  <2> SUFFICES ASSUME NEW r \in RowId, failure[r] = 1, repairError[r] = 0, Merged(r)' > 0
               PROVE  MergedOf(r, Merged(r))'
    BY <1>6 DEF MergedRight
  <2>1. PICK m : m = Merged(r)
    OBVIOUS
  <2>2. m > 0 /\ Merged(r)' = m
    BY <1>10, <2>1
  <2>3. MergedOf(r, m)
    BY <2>1, <2>2 DEF IInv, MergedRight
  <2>4. MergedOf(r, m)'
    <3>1. /\ accumulatorPairs' = accumulatorPairs /\ input' = input
          /\ accumulatorCounts' = accumulatorCounts
      BY <1>1 DEF Rest, merged
    <3>2. Before(input[r], m)' = Before(input[r], m)
      BY <3>1 DEF Before, Valid
    <3> QED BY <2>3, <3>1, <3>2 DEF MergedOf
  <2> QED BY <2>2, <2>4
<1>13. ErrorsRight'
  <2> SUFFICES ASSUME NEW r \in RowId, failure[r] = 1, repairError[r] # 0, ErrorKnown(r)'
               PROVE  HasZero(input[r])
    BY <1>1, <1>6 DEF ErrorsRight
  <2>1. ErrorKnown(r)
    BY <1>10 DEF ErrorKnown
  <2> QED BY <2>1 DEF IInv, ErrorsRight
<1> QED BY <1>4, <1>5, <1>7, <1>8, <1>9, <1>11, <1>12, <1>13 DEF IInv

\* What a row has, and what it is when the row's part of the buffers does not
\* change.
RowRight(r) ==
  /\ FusedKnown(r) => FusedRight(r)
  /\ AnswerKnown(r) => Answered(r)
  /\ failure[r] = 1 /\ ProducedKnown(r) => ProducedRight(r)
  /\ failure[r] = 1 /\ repairError[r] = 0 /\ LocalKnown(r) => LocalOf(r)
  /\ failure[r] = 1 /\ repairError[r] = 0 /\ Merged(r) > 0 => MergedOf(r, Merged(r))
  /\ failure[r] = 1 /\ repairError[r] # 0 /\ ErrorKnown(r) => HasZero(input[r])

LEMMA RowByRow ==
  /\ IInv => \A r \in RowId : RowRight(r)
  /\ TypeOK' /\ StageRight' /\ ChunksRight' /\ (\A r \in RowId : RowRight(r)') => IInv'
<1>1. ASSUME IInv, NEW r \in RowId PROVE RowRight(r)
  BY <1>1 DEF IInv, RowRight, RowsRight, CandidatesRight, LocalRight, MergedRight, ErrorsRight
<1>2. ASSUME TypeOK', StageRight', ChunksRight', \A r \in RowId : RowRight(r)' PROVE IInv'
  BY <1>2 DEF IInv, RowRight, RowsRight, CandidatesRight, LocalRight, MergedRight, ErrorsRight
<1> QED BY <1>1, <1>2

LEMMA FusedKept ==
  ASSUME NEW r, input' = input, failure'[r] = failure[r], output'[r] = output[r]
  PROVE  (FusedRight(r)' <=> FusedRight(r)) /\ (Answered(r)' <=> Answered(r))
BY DEF FusedRight, Answered

LEMMA ProducedKept ==
  ASSUME NEW r, stage' = stage, input' = input, failure'[r] = failure[r],
         UNCHANGED ranges, candidates'[r] = candidates[r], segmentCounts'[r] = segmentCounts[r]
  PROVE  ProducedRight(r)' <=> ProducedRight(r)
BY DEF ProducedRight, Emitted, Share, ranges

LEMMA LocalKept ==
  ASSUME NEW r, stage' = stage, input' = input, localPairs'[r] = localPairs[r],
         localCounts'[r] = localCounts[r]
  PROVE  LocalOf(r)' <=> LocalOf(r)
<1>1. InChunk(input[r], stage.chunk)' = InChunk(input[r], stage.chunk)
  BY DEF InChunk, Valid
<1> QED BY <1>1 DEF LocalOf

LEMMA MergedKept ==
  ASSUME NEW r, NEW m, input' = input, accumulatorPairs'[r] = accumulatorPairs[r],
         accumulatorCounts'[r] = accumulatorCounts[r]
  PROVE  MergedOf(r, m)' <=> MergedOf(r, m)
<1>1. Before(input[r], m)' = Before(input[r], m)
  BY DEF Before, Valid
<1> QED BY <1>1 DEF MergedOf

\* A row that a step leaves alone.
RowKept(r) ==
  /\ UNCHANGED <<call, stage, input, ranges>>
  /\ failure'[r] = failure[r] /\ output'[r] = output[r] /\ repairError'[r] = repairError[r]
  /\ candidates'[r] = candidates[r] /\ segmentCounts'[r] = segmentCounts[r]
  /\ localPairs'[r] = localPairs[r] /\ localCounts'[r] = localCounts[r]
  /\ accumulatorPairs'[r] = accumulatorPairs[r]
  /\ accumulatorCounts'[r] = accumulatorCounts[r]

LEMMA OtherRow ==
  ASSUME NEW r, RowRight(r), RowKept(r),
         stage.kernel = "produce" => (PairOf(r) \in todo' <=> PairOf(r) \in todo),
         stage.kernel # "produce" => (r \in todo' <=> r \in todo)
  PROVE  RowRight(r)'
<1>1. /\ FusedKnown(r)' <=> FusedKnown(r)
      /\ AnswerKnown(r)' <=> AnswerKnown(r)
      /\ ProducedKnown(r)' <=> ProducedKnown(r)
      /\ LocalKnown(r)' <=> LocalKnown(r)
  BY DEF RowKept, FusedKnown, AnswerKnown, ProducedKnown, LocalKnown, PairOf
<1>2. PICK m : m = Merged(r)
  OBVIOUS
<1>3. Merged(r)' = m
  BY <1>2 DEF RowKept, Merged
<1>4. /\ FusedRight(r)' <=> FusedRight(r)
      /\ Answered(r)' <=> Answered(r)
      /\ ProducedRight(r)' <=> ProducedRight(r)
      /\ LocalOf(r)' <=> LocalOf(r)
      /\ MergedOf(r, m)' <=> MergedOf(r, m)
  BY FusedKept, ProducedKept, LocalKept, MergedKept DEF RowKept
<1>5. ErrorKnown(r)' <=> ErrorKnown(r)
  BY <1>1, <1>2, <1>3 DEF ErrorKnown
<1>6. HasZero(input[r])' <=> HasZero(input[r])
  BY DEF RowKept
<1>7. failure'[r] = failure[r] /\ repairError'[r] = repairError[r]
  BY DEF RowKept
<1>8. Merged(r)' > 0 => MergedOf(r, Merged(r))' \/ ~(failure[r] = 1 /\ repairError[r] = 0)
  BY <1>2, <1>3, <1>4 DEF RowRight
<1> QED BY <1>1, <1>4, <1>5, <1>6, <1>7, <1>8 DEF RowRight

\* What a kernel's step keeps of the stage and, but for "ranges", of the chunks.
LEMMA StageKept ==
  ASSUME IInv, NEW x, Done(x), candidates' \in [RowId -> [Segment -> Seq(Scored)]]
  PROVE  StageRight'
BY DEF IInv, StageRight, Done

LEMMA ChunksKept ==
  ASSUME IInv, stage' = stage, input' = input, UNCHANGED ranges, stage.kernel # "ranges"
  PROVE  ChunksRight'
<1> SUFFICES ASSUME NEW c \in Chunk, RangesKnown(c)' PROVE RangesRight(c)'
  BY DEF ChunksRight
<1>1. RangesKnown(c)
  BY DEF RangesKnown
<1>2. RangesRight(c)
  BY <1>1 DEF IInv, ChunksRight
<1> QED BY <1>2 DEF RangesRight, ranges

\* The rows of a call that has begun, and how many positions they have.
LEMMA RowsOfCall ==
  ASSUME IInv, stage.kernel # "none", NEW r \in RowId
  PROVE  /\ input[r] \in Inputs /\ Cardinality(Valid(input[r])) \in Nat
         /\ stage.chunk \in Chunk
         /\ stage.kernel \in {"produce", "local", "merge"} => RangesRight(stage.chunk)
<1>1. input[r] \in Inputs /\ stage.chunk \in Chunk
  BY DEF IInv, StageRight, TypeOK
<1>2. stage.kernel \in {"produce", "local", "merge"} => RangesRight(stage.chunk)
  BY <1>1 DEF IInv, ChunksRight, RangesKnown
<1> QED BY <1>1, <1>2, ValidIs

LEMMA FusedTopKStep ==
  ASSUME IInv, NEW r \in RowId, FusedTopK(r)
  PROVE  IInv'
<1>1. /\ stage.kernel = "fused" /\ r \in todo /\ todo' = todo \ {r}
      /\ UNCHANGED <<call, input, stage, ranges, produced, local, merged, repairError>>
  BY DEF FusedTopK, Running, Done, workspace
<1>2. /\ input[r] \in Inputs /\ Cardinality(Valid(input[r])) \in Nat
      /\ Columns \in Nat \ {0} /\ K \in Nat \ {0}
  BY <1>1, RowsOfCall, RepairAssumption
<1> DEFINE row == input[r]
           v == Cardinality(Valid(row))
<1>3. \E out \in [1 .. K -> -1 .. Columns - 1], flag \in {0, 1} :
        /\ output' = [output EXCEPT ![r] = out] /\ failure' = [failure EXCEPT ![r] = flag]
        /\ \/ flag = 0 /\ ExactOutput(row, out)
           \/ flag = 1 /\ out = Unset /\ v > K
  <2>1. CASE Flagged(r)
    <3>1. Unset \in [1 .. K -> -1 .. Columns - 1]
      BY <1>2 DEF Unset
    <3> QED BY <2>1, <3>1 DEF Flagged
  <2>2. CASE Accepted(r) /\ v <= K
    <3> DEFINE out == [p \in 1 .. K |-> IF p <= v THEN row.start + p - 1 ELSE -1]
    <3>1. row.start \in 0 .. Columns /\ row.end \in 0 .. Columns
      BY <1>2, InputsAssumption
    <3>2. v = IF row.start > row.end - 1 THEN 0 ELSE row.end - row.start
      BY <1>2, ValidIs
    <3>3. out \in [1 .. K -> -1 .. Columns - 1]
      <4> SUFFICES ASSUME NEW p \in 1 .. K, p <= v PROVE row.start + p - 1 \in -1 .. Columns - 1
        BY <1>2
      <4> QED BY <1>2, <3>1, <3>2
    <3>4. output' = [output EXCEPT ![r] = out] /\ failure' = [failure EXCEPT ![r] = 0]
      BY <2>2 DEF Accepted
    <3>5. ExactOutput(row, out)
      BY <2>2 DEF ExactOutput
    <3> QED BY <3>3, <3>4, <3>5
  <2>3. CASE Accepted(r) /\ ~(v <= K)
    <3>1. PICK S \in kSubset(K, Valid(row)) :
            /\ Best(S, Valid(row), K, row.score)
            /\ output' = [output EXCEPT ![r] = SetToSeq(S)]
            /\ failure' = [failure EXCEPT ![r] = 0]
      BY <2>3 DEF Accepted
    <3> DEFINE out == SetToSeq(S)
    <3>2. S \in SUBSET Valid(row) /\ Cardinality(S) = K
      BY <3>1 DEF Best
    <3>3. IsFiniteSet(S)
      BY <1>2, <3>2, ValidIs, FS_Subset
    <3>4. IsOrder(out, S)
      BY <3>3, OrderOf
    <3> HIDE DEF out
    <3>5. out \in [1 .. K -> S] /\ {out[p] : p \in 1 .. K} = S
      BY <3>2, <3>4 DEF IsOrder
    <3>6. S \subseteq -1 .. Columns - 1
      BY <1>2, <3>2 DEF Valid
    <3>7. out \in [1 .. K -> -1 .. Columns - 1]
      BY <3>5, <3>6
    <3>8. ExactOutput(row, out)
      BY <2>3, <3>1, <3>5 DEF ExactOutput
    <3> QED BY <3>1, <3>7, <3>8 DEF out
  <2> QED BY <2>1, <2>2, <2>3 DEF FusedTopK
<1>4. PICK out \in [1 .. K -> -1 .. Columns - 1], flag \in {0, 1} :
        /\ output' = [output EXCEPT ![r] = out] /\ failure' = [failure EXCEPT ![r] = flag]
        /\ \/ flag = 0 /\ ExactOutput(row, out)
           \/ flag = 1 /\ out = Unset /\ v > K
  BY <1>3
<1>5. TypeOK'
  BY <1>1, <1>4 DEF IInv, TypeOK, ranges, produced, local, merged
<1>6. StageRight' /\ ChunksRight'
  <2>1. candidates' \in [RowId -> [Segment -> Seq(Scored)]]
    BY <1>1 DEF IInv, StageRight, produced
  <2> QED BY <1>1, <2>1, StageKept, ChunksKept DEF FusedTopK
<1>7. ASSUME NEW q \in RowId PROVE RowRight(q)'
  <2>1. RowRight(q)
    BY RowByRow
  <2>2. CASE q # r
    <3>1. RowKept(q)
      BY <1>1, <1>4, <2>2 DEF RowKept, produced, local, merged, IInv, TypeOK
    <3> QED BY <1>1, <2>1, <2>2, <3>1, OtherRow
  <2>3. CASE q = r
    <3>1. /\ ~ProducedKnown(r)' /\ ~LocalKnown(r)' /\ ~AnswerKnown(r)' /\ Merged(r)' = 0
      BY <1>1 DEF ProducedKnown, LocalKnown, AnswerKnown, Merged
    <3>2. failure'[r] = flag /\ output'[r] = out /\ input'[r] = row
      BY <1>1, <1>4 DEF IInv, TypeOK
    <3>3. FusedRight(r)'
      BY <1>4, <3>2 DEF FusedRight
    <3> QED BY <2>3, <3>1, <3>3 DEF RowRight, ErrorKnown
  <2> QED BY <2>2, <2>3
<1> QED BY <1>5, <1>6, <1>7, RowByRow

LEMMA UpdateChunkRangesStep ==
  ASSUME IInv, NEW c \in Chunk, UpdateChunkRanges(c)
  PROVE  IInv'
<1>1. /\ stage.kernel = "ranges" /\ c \in todo /\ todo' = todo \ {c}
      /\ UNCHANGED <<call, input, stage, output, failure, produced, local, merged, repairError>>
      /\ chunkStart' = [chunkStart EXCEPT ![c] = [r \in RowId |-> Clip(c, input[r].start)]]
      /\ chunkEnd' = [chunkEnd EXCEPT ![c] = [r \in RowId |-> Clip(c, input[r].end)]]
  BY DEF UpdateChunkRanges, Running, Done
<1>2. ASSUME NEW r \in RowId
      PROVE  Clip(c, input[r].start) \in 0 .. ChunkSize /\ Clip(c, input[r].end) \in 0 .. ChunkSize
  <2>1. input[r].start \in 0 .. Columns /\ input[r].end \in 0 .. Columns
    BY <1>1, RowsOfCall, InputsAssumption
  <2>2. /\ Width(c) \in 1 .. ChunkSize /\ Clip(c, input[r].start) \in 0 .. Width(c)
        /\ Clip(c, input[r].end) \in 0 .. Width(c)
    BY <2>1, ClipIs
  <2> QED BY <2>2, RepairAssumption
<1>3. TypeOK'
  <2>1. /\ chunkStart' \in [Chunk -> [RowId -> 0 .. ChunkSize]]
        /\ chunkEnd' \in [Chunk -> [RowId -> 0 .. ChunkSize]]
    BY <1>1, <1>2 DEF IInv, TypeOK
  <2> QED BY <1>1, <2>1 DEF IInv, TypeOK, produced, local, merged
<1>4. StageRight'
  <2>1. candidates' \in [RowId -> [Segment -> Seq(Scored)]]
    BY <1>1 DEF IInv, StageRight, produced
  <2> QED BY <2>1, StageKept DEF UpdateChunkRanges
<1>5. ChunksRight'
  <2> SUFFICES ASSUME NEW q \in Chunk, RangesKnown(q)' PROVE RangesRight(q)'
    BY DEF ChunksRight
  <2>1. CASE q = c
    <3>1. /\ chunkStart'[c] = [r \in RowId |-> Clip(c, input[r].start)]
          /\ chunkEnd'[c] = [r \in RowId |-> Clip(c, input[r].end)]
      BY <1>1 DEF IInv, TypeOK
    <3> QED BY <1>1, <2>1, <3>1 DEF RangesRight
  <2>2. CASE q # c
    <3>1. RangesKnown(q)
      BY <1>1, <2>2 DEF RangesKnown
    <3>2. RangesRight(q)
      BY <3>1 DEF IInv, ChunksRight
    <3> QED BY <1>1, <2>2, <3>2 DEF RangesRight, IInv, TypeOK
  <2> QED BY <2>1, <2>2
<1>6. ASSUME NEW q \in RowId PROVE RowRight(q)'
  <2>1. /\ ~ProducedKnown(q)' /\ ~LocalKnown(q)' /\ ~AnswerKnown(q)' /\ Merged(q)' = 0
    BY <1>1 DEF ProducedKnown, LocalKnown, AnswerKnown, Merged
  <2>2. FusedRight(q)
    BY <1>1 DEF IInv, RowsRight, FusedKnown
  <2>3. FusedRight(q)'
    BY <1>1, <2>2, FusedKept
  <2> QED BY <2>1, <2>3 DEF RowRight, ErrorKnown
<1> QED BY <1>3, <1>4, <1>5, <1>6, RowByRow

\* The producer's step when a row of the pair is flagged.
LEMMA EmittedTyped ==
  ASSUME IInv, stage.kernel = "produce", NEW r \in RowId, NEW s \in Segment
  PROVE  Emitted(r, s) \in Seq(Scored) /\ Len(Emitted(r, s)) \in 0 .. SegmentCapacity
<1>1. input[r] \in Inputs /\ stage.chunk \in Chunk
  BY RowsOfCall
<1> QED BY <1>1, EmittedIs, ShareFits

LEMMA ProduceRepairCandidatesStep ==
  ASSUME IInv, NEW p \in Pair, ProduceRepairCandidates(p)
  PROVE  IInv'
<1> DEFINE pair == {2 * p - 1, 2 * p}
<1>1. /\ stage.kernel = "produce" /\ p \in todo /\ todo' = todo \ {p}
      /\ UNCHANGED <<call, input, stage, output, failure, ranges, local, merged, repairError>>
  BY DEF ProduceRepairCandidates, Running, Done
<1>2. \A r \in RowId : r \in pair <=> p = PairOf(r)
  BY PairsOfRows
<1>3. /\ candidates' \in [RowId -> [Segment -> Seq(Scored)]]
      /\ segmentCounts' \in [RowId -> [Segment -> 0 .. SegmentCapacity]]
      /\ \A r \in RowId : r \notin pair => /\ candidates'[r] = candidates[r]
                                           /\ segmentCounts'[r] = segmentCounts[r]
      /\ \A r \in RowId, s \in Segment : r \in pair /\ failure[r] = 1 =>
           /\ candidates'[r][s] = Emitted(r, s)
           /\ segmentCounts'[r][s] = Len(Emitted(r, s))
  <2>0. /\ candidates \in [RowId -> [Segment -> Seq(Scored)]]
        /\ segmentCounts \in [RowId -> [Segment -> 0 .. SegmentCapacity]]
    BY DEF IInv, StageRight, TypeOK
  <2>1. CASE \A r \in pair : failure[r] = 0
    <3>1. UNCHANGED produced
      BY <2>1 DEF ProduceRepairCandidates
    <3> QED BY <2>0, <2>1, <3>1 DEF produced
  <2>2. CASE ~\A r \in pair : failure[r] = 0
    <3>1. /\ candidates' = [r \in RowId |->
               IF r \in pair THEN [s \in Segment |-> Emitted(r, s)] ELSE candidates[r]]
          /\ segmentCounts' = [r \in RowId |->
               IF r \in pair THEN [s \in Segment |-> Len(Emitted(r, s))] ELSE segmentCounts[r]]
      BY <2>2 DEF ProduceRepairCandidates
    <3>2. \A r \in RowId, s \in Segment :
            Emitted(r, s) \in Seq(Scored) /\ Len(Emitted(r, s)) \in 0 .. SegmentCapacity
      BY <1>1, EmittedTyped
    <3> HIDE DEF pair
    <3> QED BY <2>0, <3>1, <3>2
  <2> QED BY <2>1, <2>2
<1> HIDE DEF pair
<1>4. TypeOK'
  <2>1. \A r \in RowId, s \in Segment : candidates'[r][s] \in Seq(Scored)
    BY <1>3
  <2> QED BY <1>1, <1>3, <2>1 DEF IInv, TypeOK, ranges, local, merged
<1>5. StageRight' /\ ChunksRight'
  BY <1>1, <1>3, StageKept, ChunksKept DEF ProduceRepairCandidates
<1>6. ASSUME NEW q \in RowId PROVE RowRight(q)'
  <2>1. RowRight(q)
    BY RowByRow
  <2>2. CASE q \notin pair
    <3>1. RowKept(q)
      BY <1>1, <1>3, <2>2 DEF RowKept, local, merged
    <3>2. PairOf(q) \in todo' <=> PairOf(q) \in todo
      BY <1>1, <1>2, <2>2
    <3> QED BY <1>1, <2>1, <3>1, <3>2, OtherRow
  <2>3. CASE q \in pair
    <3>1. ~LocalKnown(q)' /\ ~AnswerKnown(q)' /\ ~LocalKnown(q)
      BY <1>1 DEF LocalKnown, AnswerKnown
    <3>2. FusedRight(q)'
      <4>1. FusedRight(q)
        BY <1>1, <2>1 DEF RowRight, FusedKnown
      <4> QED BY <1>1, <4>1, FusedKept
    <3>3. failure[q] = 1 => ProducedRight(q)'
      <4> SUFFICES ASSUME failure[q] = 1, NEW s \in Segment
                   PROVE  /\ candidates'[q][s] = Emitted(q, s)'
                          /\ segmentCounts'[q][s] = Len(Emitted(q, s)')
        BY DEF ProducedRight
      <4>1. Emitted(q, s)' = Emitted(q, s)
        BY <1>1 DEF Emitted, Share, ranges
      <4> QED BY <1>3, <2>3, <4>1
    <3>4. PICK m : m = Merged(q)
      OBVIOUS
    <3>5. Merged(q)' = m
      BY <1>1, <3>4 DEF Merged
    <3>6. MergedOf(q, m)' <=> MergedOf(q, m)
      BY <1>1, MergedKept DEF merged
    <3>7. HasZero(input[q])' <=> HasZero(input[q])
      BY <1>1
    <3>8. failure'[q] = failure[q] /\ repairError'[q] = repairError[q]
      BY <1>1
    <3>9. failure[q] = 1 /\ repairError[q] = 0 /\ Merged(q)' > 0 => MergedOf(q, Merged(q))'
      BY <2>1, <3>4, <3>5, <3>6 DEF RowRight
    <3>10. failure[q] = 1 /\ repairError[q] # 0 /\ ErrorKnown(q)' => HasZero(input[q])
      BY <2>1, <3>1, <3>4, <3>5 DEF RowRight, ErrorKnown
    <3> QED BY <3>1, <3>2, <3>3, <3>7, <3>8, <3>9, <3>10 DEF RowRight
  <2> QED BY <2>2, <2>3
<1> QED BY <1>4, <1>5, <1>6, RowByRow

\* A flagged row's counts are what they must be, and it is a zero key that
\* makes the selection report an error.
LEMMA ChunkLocalTopKRow ==
  ASSUME IInv, NEW r \in RowId, ChunkLocalTopK(r), failure[r] = 1
  PROVE  \/ UNCHANGED <<local, repairError>> /\ repairError[r] # 0 /\ HasZero(input[r])
         \/ \E out \in [1 .. K -> Scored], n \in 0 .. K, code \in {0, 2} :
              /\ localPairs' = [localPairs EXCEPT ![r] = out]
              /\ localCounts' = [localCounts EXCEPT ![r] = n]
              /\ repairError' = [repairError EXCEPT ![r] = code]
              /\ code = 0 =>
                   ListsBest(out, n, InChunk(input[r], stage.chunk), input[r].score)
              /\ code # 0 => HasZero(input[r])
              /\ code = 0 => FirstChunk \/ repairError[r] = 0
<1> DEFINE row == input[r]
           P == InChunk(row, stage.chunk)
           pairs == Gathered(r)
           cleared == IF FirstChunk THEN 0 ELSE repairError[r]
<1>1. stage.kernel = "local" /\ r \in todo
  BY DEF ChunkLocalTopK, Running
<1>2. /\ row \in Inputs /\ stage.chunk \in Chunk /\ RangesRight(stage.chunk)
      /\ Cardinality(Valid(row)) \in Nat /\ K \in Nat \ {0}
  BY <1>1, RowsOfCall, RepairAssumption
<1>3. RowRight(r)
  BY RowByRow
<1>4. ProducedRight(r) /\ Valid(row) # {}
  <2>1. FusedRight(r)
    BY <1>1, <1>3 DEF RowRight, FusedKnown
  <2>2. Cardinality(Valid(row)) > K
    BY <2>1 DEF FusedRight
  <2> QED BY <1>1, <1>2, <1>3, <2>2, FS_EmptySet DEF RowRight, ProducedKnown
<1>5. /\ pairs \in Seq(Scored) /\ Len(pairs) = Total(r)
      /\ Lists(pairs, Len(pairs), P, row.score) /\ ~BadCounts(r)
  <2>1. r \in RowId /\ failure[r] # 0
    OBVIOUS
  <2> QED BY ONLY <1>2, <1>4, <2>1, GatheredLists
<1>6. localPairs[r] \in [1 .. K -> Scored]
  BY DEF IInv, TypeOK
<1>7. P \subseteq Valid(row)
  BY DEF InChunk
<1>8. CASE cleared # 0
  <2>1. UNCHANGED <<local, repairError>>
    BY <1>5, <1>8 DEF ChunkLocalTopK
  <2>2. repairError[r] # 0 /\ stage.chunk # 0
    BY <1>8 DEF FirstChunk
  <2>3. Merged(r) > 0
    BY <1>1, <1>2, <2>2, ChunksCover DEF Merged, Chunk
  <2> QED BY <1>3, <2>1, <2>2, <2>3 DEF RowRight, ErrorKnown
<1>9. CASE cleared = 0
  <2> DEFINE error == SelectionError(pairs)
  <2>1. /\ \E out \in SelectTopKPairs(pairs, localPairs[r]) :
             localPairs' = [localPairs EXCEPT ![r] = out]
        /\ repairError' = [repairError EXCEPT ![r] = IF error THEN 2 ELSE 0]
        /\ localCounts' = [localCounts EXCEPT ![r] = IF error THEN 0 ELSE Min({Total(r), K})]
    BY <1>5, <1>9 DEF ChunkLocalTopK, SetError
  <2>2. PICK out \in SelectTopKPairs(pairs, localPairs[r]) :
          localPairs' = [localPairs EXCEPT ![r] = out]
    BY <2>1
  <2> HIDE DEF pairs, P
  <2>3. /\ out \in [1 .. K -> Scored]
        /\ ~error => ListsBest(out, Min({Len(pairs), K}), P, row.score)
        /\ error => \E id \in P : row.score[id] = 0
    BY ONLY <1>5, <1>6, <2>2, SelectionMade DEF error
  <2>4. Min({Len(pairs), K}) \in 0 .. K
    <3>1. Len(pairs) \in Nat
      BY <1>5, LenProperties
    <3> QED BY <1>2, <3>1, MinOfTwo
  <2>5. error => HasZero(row)
    BY <1>7, <2>3 DEF HasZero
  <2>6. FirstChunk \/ repairError[r] = 0
    BY <1>9
  <2> HIDE DEF error
  <2>7. CASE error
    <3>1. /\ localCounts' = [localCounts EXCEPT ![r] = 0]
          /\ repairError' = [repairError EXCEPT ![r] = 2]
          /\ 0 \in 0 .. K
      BY <1>2, <2>1, <2>7
    <3>2. PICK n \in 0 .. K, code \in {0, 2} :
            /\ localCounts' = [localCounts EXCEPT ![r] = n]
            /\ repairError' = [repairError EXCEPT ![r] = code] /\ code # 0
      <4>1. 0 \in 0 .. K /\ 2 \in {0, 2} /\ 2 # 0
        BY <3>1
      <4> QED BY ONLY <3>1, <4>1, Zenon
    <3> QED BY <2>2, <2>3, <2>5, <2>7, <3>2
  <2>8. CASE ~error
    <3>1. /\ localCounts' = [localCounts EXCEPT ![r] = Min({Len(pairs), K})]
          /\ repairError' = [repairError EXCEPT ![r] = 0]
      BY <1>5, <2>1, <2>8
    <3> QED BY <2>2, <2>3, <2>4, <2>6, <2>8, <3>1 DEF P
  <2> QED BY <2>7, <2>8
<1> QED BY <1>8, <1>9

LEMMA ChunkLocalTopKStep ==
  ASSUME IInv, NEW r \in RowId, ChunkLocalTopK(r)
  PROVE  IInv'
<1>1. /\ stage.kernel = "local" /\ r \in todo /\ todo' = todo \ {r}
      /\ UNCHANGED <<call, input, stage, output, failure, ranges, produced, merged>>
  BY DEF ChunkLocalTopK, Running, Done
<1>2. /\ localPairs \in [RowId -> [1 .. K -> Scored]] /\ localCounts \in [RowId -> 0 .. K]
      /\ repairError \in [RowId -> 0 .. 3] /\ failure \in [RowId -> {0, 1}]
  BY DEF IInv, TypeOK
\* What becomes of the local selection.
<1>3. /\ localPairs' \in [RowId -> [1 .. K -> Scored]] /\ localCounts' \in [RowId -> 0 .. K]
      /\ repairError' \in [RowId -> 0 .. 3]
      /\ \A q \in RowId \ {r} : /\ localPairs'[q] = localPairs[q]
                                /\ localCounts'[q] = localCounts[q]
                                /\ repairError'[q] = repairError[q]
      /\ failure[r] = 1 =>
           /\ repairError'[r] = 0 =>
                /\ ListsBest(localPairs'[r], localCounts'[r],
                             InChunk(input[r], stage.chunk), input[r].score)
                /\ FirstChunk \/ repairError[r] = 0
           /\ repairError'[r] # 0 => HasZero(input[r])
  <2>1. CASE failure[r] = 0
    <3>1. UNCHANGED <<local, repairError>>
      BY <2>1 DEF ChunkLocalTopK
    <3> QED BY <1>2, <2>1, <3>1 DEF local
  <2>2. CASE failure[r] = 1 /\ UNCHANGED <<local, repairError>> /\ repairError[r] # 0
                            /\ HasZero(input[r])
    BY <1>2, <2>2 DEF local
  <2>3. CASE failure[r] = 1 /\ \E out \in [1 .. K -> Scored], n \in 0 .. K, code \in {0, 2} :
              /\ localPairs' = [localPairs EXCEPT ![r] = out]
              /\ localCounts' = [localCounts EXCEPT ![r] = n]
              /\ repairError' = [repairError EXCEPT ![r] = code]
              /\ code = 0 =>
                   ListsBest(out, n, InChunk(input[r], stage.chunk), input[r].score)
              /\ code # 0 => HasZero(input[r])
              /\ code = 0 => FirstChunk \/ repairError[r] = 0
    <3>1. PICK out \in [1 .. K -> Scored], n \in 0 .. K, code \in {0, 2} :
              /\ localPairs' = [localPairs EXCEPT ![r] = out]
              /\ localCounts' = [localCounts EXCEPT ![r] = n]
              /\ repairError' = [repairError EXCEPT ![r] = code]
              /\ code = 0 =>
                   ListsBest(out, n, InChunk(input[r], stage.chunk), input[r].score)
              /\ code # 0 => HasZero(input[r])
              /\ code = 0 => FirstChunk \/ repairError[r] = 0
      BY <2>3
    <3>2. localPairs'[r] = out /\ localCounts'[r] = n /\ repairError'[r] = code
      BY <1>2, <3>1
    <3> QED BY <1>2, <3>1, <3>2
  <2> QED BY <1>2, <2>1, <2>2, <2>3, ChunkLocalTopKRow
<1>4. TypeOK'
  BY <1>1, <1>3 DEF IInv, TypeOK, ranges, produced, merged
<1>5. StageRight' /\ ChunksRight'
  <2>1. candidates' \in [RowId -> [Segment -> Seq(Scored)]]
    BY <1>1 DEF IInv, StageRight, produced
  <2> QED BY <1>1, <2>1, StageKept, ChunksKept DEF ChunkLocalTopK
<1>6. ASSUME NEW q \in RowId PROVE RowRight(q)'
  <2>1. RowRight(q)
    BY RowByRow
  <2>2. CASE q # r
    <3>1. RowKept(q)
      BY <1>1, <1>3, <2>2 DEF RowKept, produced, merged
    <3> QED BY <1>1, <2>1, <2>2, <3>1, OtherRow
  <2>3. CASE q = r
    <3>1. /\ FusedRight(r)' <=> FusedRight(r)
          /\ ProducedRight(r)' <=> ProducedRight(r)
          /\ failure'[r] = failure[r]
          /\ ~AnswerKnown(r)' /\ FusedKnown(r) /\ ProducedKnown(r)
          /\ HasZero(input[r])' <=> HasZero(input[r])
      BY <1>1, FusedKept, ProducedKept
         DEF produced, AnswerKnown, FusedKnown, ProducedKnown
    <3>2. failure[r] = 1 /\ repairError'[r] = 0 => LocalOf(r)'
      <4>1. InChunk(input[r], stage.chunk)' = InChunk(input[r], stage.chunk)
        BY <1>1 DEF InChunk, Valid
      <4> QED BY <1>1, <1>3, <4>1 DEF LocalOf
    <3>3. PICK m : m = Merged(r)
      OBVIOUS
    <3>4. Merged(r)' = m /\ m = stage.chunk
      BY <1>1, <3>3 DEF Merged
    <3>5. MergedOf(r, m)' <=> MergedOf(r, m)
      BY <1>1, MergedKept DEF merged
    <3>6. failure[r] = 1 /\ repairError'[r] = 0 /\ Merged(r)' > 0 => MergedOf(r, Merged(r))'
      BY <1>3, <2>1, <2>3, <3>3, <3>4, <3>5 DEF RowRight, FirstChunk
    <3> QED BY <1>3, <2>1, <2>3, <3>1, <3>2, <3>6 DEF RowRight
  <2> QED BY <2>2, <2>3
<1> QED BY <1>4, <1>5, <1>6, RowByRow

\* The accumulator before the merge: the best of the chunks before, none for
\* the first of them.
LEMMA Accumulated ==
  ASSUME IInv, NEW r \in RowId, stage.kernel = "merge", r \in todo,
         failure[r] = 1, repairError[r] = 0
  PROVE  LET have == IF FirstChunk THEN 0 ELSE accumulatorCounts[r]
         IN  /\ have \in 0 .. K
             /\ ListsBest(accumulatorPairs[r], have, Before(input[r], stage.chunk),
                          input[r].score)
<1> DEFINE row == input[r]
<1>1. /\ row \in Inputs /\ stage.chunk \in Chunk /\ K \in Nat \ {0} /\ Chunks \in Nat
      /\ ChunkSize \in Nat /\ Columns \in Nat
  BY RowsOfCall, RepairAssumption, ChunksCover
<1>2. CASE FirstChunk
  <2>1. stage.chunk = 0 /\ 0 * ChunkSize = 0
    BY <1>1, <1>2 DEF FirstChunk
  <2>2. Before(row, stage.chunk) = {}
    BY <1>1, <2>1 DEF Before, Valid
  <2>3. Cardinality({}) = 0 /\ Min({K, 0}) = 0
    BY <1>1, MinOfTwo, FS_EmptySet
  <2>4. Best({}, {}, 0, row.score) /\ Lists(accumulatorPairs[r], 0, {}, row.score)
    BY <2>3 DEF Best, Lists
  <2>5. ListsBest(accumulatorPairs[r], 0, {}, row.score)
    BY <2>3, <2>4 DEF ListsBest
  <2> QED BY <1>1, <1>2, <2>2, <2>5
<1>3. CASE ~FirstChunk
  <2>1. stage.chunk > 0 /\ Merged(r) = stage.chunk
    BY <1>1, <1>3 DEF FirstChunk, Merged, Chunk
  <2>2. MergedOf(r, stage.chunk)
    BY <2>1, RowByRow DEF RowRight
  <2>3. accumulatorCounts[r] \in 0 .. K
    BY DEF IInv, TypeOK
  <2> QED BY <1>3, <2>2, <2>3 DEF MergedOf
<1> QED BY <1>2, <1>3

LEMMA MergeTopKPairsRow ==
  ASSUME IInv, NEW r \in RowId, MergeTopKPairs(r), failure[r] = 1, repairError[r] = 0
  PROVE  \E out \in [1 .. K -> Scored], n \in 0 .. K, code \in {0, 3} :
           /\ accumulatorPairs' = [accumulatorPairs EXCEPT ![r] = out]
           /\ accumulatorCounts' = [accumulatorCounts EXCEPT ![r] = n]
           /\ repairError' = [repairError EXCEPT ![r] = code]
           /\ code = 0 =>
                ListsBest(out, n, Before(input[r], stage.chunk + 1), input[r].score)
           /\ code # 0 => HasZero(input[r])
<1> DEFINE row == input[r]
           have == IF FirstChunk THEN 0 ELSE accumulatorCounts[r]
           got == localCounts[r]
           P0 == Before(row, stage.chunk)
           P1 == InChunk(row, stage.chunk)
           a == SubSeq(accumulatorPairs[r], 1, have)
           b == SubSeq(localPairs[r], 1, got)
           both == a \o b
<1>11. /\ \E out \in SelectTopKPairs(both, accumulatorPairs[r]) :
             accumulatorPairs' = [accumulatorPairs EXCEPT ![r] = out]
       /\ IF SelectionError(both)
          THEN SetError(r, 3) /\ UNCHANGED accumulatorCounts
          ELSE /\ accumulatorCounts' = [accumulatorCounts EXCEPT ![r] = Min({Len(both), K})]
               /\ UNCHANGED repairError
  <2>1. ~(failure[r] = 0 \/ repairError[r] # 0)
    OBVIOUS
  <2> QED BY ONLY <2>1, MergeTopKPairs(r), Zenon DEF MergeTopKPairs
<1>1. stage.kernel = "merge" /\ r \in todo
  BY DEF MergeTopKPairs, Running
<1>2. /\ row \in Inputs /\ stage.chunk \in Chunk /\ K \in Nat \ {0}
      /\ accumulatorPairs \in [RowId -> [1 .. K -> Scored]]
      /\ accumulatorCounts \in [RowId -> 0 .. K] /\ repairError \in [RowId -> 0 .. 3]
      /\ localPairs[r] \in [1 .. K -> Scored] /\ got \in 0 .. K
  BY <1>1, RowsOfCall, RepairAssumption DEF IInv, TypeOK
<1>3. have \in 0 .. K /\ ListsBest(accumulatorPairs[r], have, P0, row.score)
  BY <1>1, Accumulated
<1>4. ListsBest(localPairs[r], got, P1, row.score)
  BY <1>1, RowByRow DEF RowRight, LocalKnown, LocalOf
<1> HIDE DEF have, got
<1>5. PICK S0 \in SUBSET P0 :
        Best(S0, P0, have, row.score) /\ Lists(accumulatorPairs[r], have, S0, row.score)
  BY <1>3 DEF ListsBest
<1>6. PICK S1 \in SUBSET P1 :
        Best(S1, P1, got, row.score) /\ Lists(localPairs[r], got, S1, row.score)
  BY <1>4 DEF ListsBest
<1>7. /\ IsFiniteSet(P0) /\ IsFiniteSet(P1) /\ P0 \cap P1 = {}
      /\ Before(row, stage.chunk + 1) = P0 \cup P1
  BY <1>2, ChunksSplit
<1>8. /\ P0 \subseteq Valid(row) /\ P1 \subseteq Valid(row)
      /\ \A x \in P0 \cup P1 : row.score[x] \in Nat
  <2>1. P0 \subseteq Valid(row) /\ P1 \subseteq Valid(row)
    BY DEF Before, InChunk
  <2>2. \A x \in Valid(row) : row.score[x] \in Nat
    BY <1>2, InputsAssumption DEF Valid
  <2> QED BY <2>1, <2>2
<1>9. /\ a \in Seq(Scored) /\ Len(a) = have /\ Lists(a, have, S0, row.score)
      /\ b \in Seq(Scored) /\ Len(b) = got /\ Lists(b, got, S1, row.score)
  <2>1. have \in Nat /\ \A p \in 1 .. have : accumulatorPairs[r][p] \in Scored
    <3>1. accumulatorPairs[r] \in [1 .. K -> Scored]
      BY <1>2
    <3> QED BY <1>2, <1>3, <3>1
  <2>2. got \in Nat /\ \A p \in 1 .. got : localPairs[r][p] \in Scored
    BY <1>2
  <2>3. a \in Seq(Scored) /\ Len(a) = have /\ Lists(a, have, S0, row.score)
    BY ONLY <2>1, <1>5, PrefixLists
  <2>4. b \in Seq(Scored) /\ Len(b) = got /\ Lists(b, got, S1, row.score)
    BY ONLY <2>2, <1>6, PrefixLists
  <2> QED BY <2>3, <2>4
<1> HIDE DEF a, b, P0, P1
<1>10. /\ both \in Seq(Scored) /\ Len(both) = have + got
       /\ Lists(both, Len(both), S0 \cup S1, row.score)
  <2>1. S0 \cap S1 = {}
    BY <1>7
  <2>2. /\ a \in Seq(Scored) /\ b \in Seq(Scored)
        /\ Lists(a, Len(a), S0, row.score) /\ Lists(b, Len(b), S1, row.score)
    BY <1>9
  <2>3. /\ both \in Seq(Scored) /\ Len(both) = Len(a) + Len(b)
        /\ Lists(both, Len(a) + Len(b), S0 \cup S1, row.score)
    BY ONLY <2>1, <2>2, JoinedLists
  <2> QED BY <1>9, <2>3
<1> HIDE DEF both
<1>12. PICK out \in SelectTopKPairs(both, accumulatorPairs[r]) :
             accumulatorPairs' = [accumulatorPairs EXCEPT ![r] = out]
  BY <1>11
<1> DEFINE error == SelectionError(both)
           U == S0 \cup S1
<1>13. /\ out \in [1 .. K -> Scored]
       /\ ~error => ListsBest(out, Min({Len(both), K}), S0 \cup S1, row.score)
       /\ error => \E id \in S0 \cup S1 : row.score[id] = 0
  <2>1. accumulatorPairs[r] \in [1 .. K -> Scored]
    BY <1>2
  <2>2. both \in Seq(Scored) /\ Lists(both, Len(both), U, row.score)
    BY <1>10
  <2> HIDE DEF U
  <2>3. /\ out \in [1 .. K -> Scored]
        /\ ~error => ListsBest(out, Min({Len(both), K}), U, row.score)
        /\ error => \E id \in U : row.score[id] = 0
    BY ONLY <1>12, <2>1, <2>2, SelectionMade DEF error
  <2> QED BY <2>3 DEF U
<1>14. CASE error
  <2>1. /\ accumulatorCounts' = [accumulatorCounts EXCEPT ![r] = accumulatorCounts[r]]
        /\ repairError' = [repairError EXCEPT ![r] = 3] /\ accumulatorCounts[r] \in 0 .. K
    BY <1>2, <1>11, <1>14 DEF SetError
  <2>2. HasZero(row)
    BY <1>8, <1>13, <1>14 DEF HasZero
  <2>3. PICK n \in 0 .. K, code \in {0, 3} :
          /\ accumulatorCounts' = [accumulatorCounts EXCEPT ![r] = n]
          /\ repairError' = [repairError EXCEPT ![r] = code] /\ code # 0
    <3>1. 3 \in {0, 3} /\ 3 # 0
      OBVIOUS
    <3> QED BY ONLY <2>1, <3>1, Zenon
  <2> QED BY <1>12, <1>13, <2>2, <2>3
<1>15. CASE ~error
  <2>1. /\ accumulatorCounts' = [accumulatorCounts EXCEPT ![r] = Min({Len(both), K})]
        /\ repairError' = [repairError EXCEPT ![r] = 0]
    BY <1>2, <1>11, <1>15
  <2>2. Min({Len(both), K}) \in 0 .. K /\ Min({Len(both), K}) = Min({K, have + got})
    <3>1. have + got \in Nat
      BY <1>2, <1>3
    <3>2. K \in Nat /\ Len(both) = have + got
      BY <1>2, <1>10
    <3> QED BY ONLY <3>1, <3>2, MinOfTwo
  <2> DEFINE n == Min({Len(both), K})
  <2>3. PICK S \in SUBSET (S0 \cup S1) :
          Best(S, S0 \cup S1, n, row.score) /\ Lists(out, n, S, row.score)
    BY <1>13, <1>15 DEF ListsBest
  <2>4. Best(S, P0 \cup P1, n, row.score) /\ n = Min({K, Cardinality(P0 \cup P1)})
    <3>1. /\ have = Min({K, Cardinality(P0)}) /\ got = Min({K, Cardinality(P1)})
          /\ n = Min({K, have + got})
      BY <1>3, <1>4, <2>2 DEF ListsBest
    <3> DEFINE w == row.score
    <3> HIDE DEF n
    <3>2. BestOfTwo(P0, S0, have, P1, S1, got, S, n, w)
      BY <1>5, <1>6, <1>7, <1>8, <2>3, <3>1 DEF BestOfTwo
    <3> HIDE DEF w
    <3>3. \A A, B, c, d, m, f : BestOfTwo(A, S0, c, B, S1, d, S, m, f) =>
            Best(S, A \cup B, m, f) /\ m = Min({K, Cardinality(A \cup B)})
      BY BestOfBest
    <3>4. Best(S, P0 \cup P1, n, w) /\ n = Min({K, Cardinality(P0 \cup P1)})
      BY ONLY <3>2, <3>3
    <3> QED BY <3>4 DEF w
  <2>5. ListsBest(out, n, P0 \cup P1, row.score)
    <3>1. S \in SUBSET (P0 \cup P1)
      BY <1>5, <1>6
    <3> HIDE DEF n
    <3> QED BY <2>3, <2>4, <3>1 DEF ListsBest
  <2>6. PICK code \in {0, 3} : repairError' = [repairError EXCEPT ![r] = code] /\ code = 0
    BY <2>1
  <2> QED BY <1>7, <1>12, <1>13, <2>1, <2>2, <2>5, <2>6
<1> QED BY <1>14, <1>15

LEMMA MergeTopKPairsStep ==
  ASSUME IInv, NEW r \in RowId, MergeTopKPairs(r)
  PROVE  IInv'
<1>1. /\ stage.kernel = "merge" /\ r \in todo /\ todo' = todo \ {r}
      /\ UNCHANGED <<call, input, stage, output, failure, ranges, produced, local>>
  BY DEF MergeTopKPairs, Running, Done
<1>2. /\ accumulatorPairs \in [RowId -> [1 .. K -> Scored]]
      /\ accumulatorCounts \in [RowId -> 0 .. K]
      /\ repairError \in [RowId -> 0 .. 3] /\ failure \in [RowId -> {0, 1}]
  BY DEF IInv, TypeOK
<1>20. stage.chunk \in Chunk /\ Chunks \in Nat
  BY <1>1, RowsOfCall, ChunksCover
<1>30. RowRight(r)
  BY RowByRow
\* What becomes of the accumulator.
<1>3. /\ accumulatorPairs' \in [RowId -> [1 .. K -> Scored]]
      /\ accumulatorCounts' \in [RowId -> 0 .. K]
      /\ repairError' \in [RowId -> 0 .. 3]
      /\ \A q \in RowId \ {r} : /\ accumulatorPairs'[q] = accumulatorPairs[q]
                                /\ accumulatorCounts'[q] = accumulatorCounts[q]
                                /\ repairError'[q] = repairError[q]
      /\ failure[r] = 1 =>
           /\ repairError'[r] = 0 =>
                ListsBest(accumulatorPairs'[r], accumulatorCounts'[r],
                          Before(input[r], stage.chunk + 1), input[r].score)
           /\ repairError'[r] # 0 => HasZero(input[r])
  <2>1. CASE failure[r] = 0 \/ repairError[r] # 0
    <3>1. UNCHANGED <<merged, repairError>>
      BY <2>1 DEF MergeTopKPairs
    <3>2. failure[r] = 1 => HasZero(input[r])
      BY <1>1, <1>30, <2>1 DEF RowRight, ErrorKnown, LocalKnown
    <3> QED BY <1>2, <2>1, <3>1, <3>2 DEF merged
  <2>2. CASE failure[r] = 1 /\ repairError[r] = 0
    <3>1. PICK out \in [1 .. K -> Scored], n \in 0 .. K, code \in {0, 3} :
             /\ accumulatorPairs' = [accumulatorPairs EXCEPT ![r] = out]
             /\ accumulatorCounts' = [accumulatorCounts EXCEPT ![r] = n]
             /\ repairError' = [repairError EXCEPT ![r] = code]
             /\ code = 0 =>
                  ListsBest(out, n, Before(input[r], stage.chunk + 1), input[r].score)
             /\ code # 0 => HasZero(input[r])
      BY <2>2, MergeTopKPairsRow
    <3>2. /\ accumulatorPairs'[r] = out /\ accumulatorCounts'[r] = n
          /\ repairError'[r] = code
      BY <1>2, <3>1
    <3> QED BY <1>2, <3>1, <3>2
  <2> QED BY <1>2, <2>1, <2>2
<1>4. TypeOK'
  BY <1>1, <1>3 DEF IInv, TypeOK, ranges, produced, local
<1>5. StageRight' /\ ChunksRight'
  <2>1. candidates' \in [RowId -> [Segment -> Seq(Scored)]]
    BY <1>1 DEF IInv, StageRight, produced
  <2> QED BY <1>1, <2>1, StageKept, ChunksKept DEF MergeTopKPairs
<1>6. ASSUME NEW q \in RowId PROVE RowRight(q)'
  <2>1. RowRight(q)
    BY RowByRow
  <2>2. CASE q # r
    <3>1. RowKept(q)
      BY <1>1, <1>3, <2>2 DEF RowKept, produced, local
    <3> QED BY <1>1, <2>1, <2>2, <3>1, OtherRow
  <2>3. CASE q = r
    <3>1. /\ FusedRight(r)' <=> FusedRight(r)
          /\ failure'[r] = failure[r]
          /\ ~AnswerKnown(r)' /\ FusedKnown(r) /\ ~ProducedKnown(r)' /\ ~LocalKnown(r)'
          /\ HasZero(input[r])' <=> HasZero(input[r])
      BY <1>1, FusedKept DEF AnswerKnown, FusedKnown, ProducedKnown, LocalKnown
    <3>2. PICK m : m = stage.chunk + 1
      OBVIOUS
    <3>3. Merged(r)' = m
      BY <1>1, <3>2 DEF Merged
    <3>4. failure[r] = 1 /\ repairError'[r] = 0 => MergedOf(r, m)'
      <4>1. Before(input[r], m)' = Before(input[r], m)
        BY <1>1 DEF Before, Valid
      <4> QED BY <1>1, <1>3, <3>2, <4>1 DEF MergedOf
    <3>5. failure[r] = 1 /\ repairError'[r] = 0 => MergedOf(r, Merged(r))'
      BY <3>3, <3>4
    <3> QED BY <1>3, <1>30, <2>3, <3>1, <3>5 DEF RowRight
  <2> QED BY <2>2, <2>3
<1> QED BY <1>4, <1>5, <1>6, RowByRow

\* The accumulator of a flagged row without an error is full at the end, and
\* its positions are the row's answer.
LEMMA Committed ==
  ASSUME IInv, NEW r \in RowId, stage.kernel = "finalize", r \in todo,
         failure[r] = 1, repairError[r] = 0
  PROVE  /\ accumulatorCounts[r] = K
         /\ ExactOutput(input[r], [p \in 1 .. K |-> accumulatorPairs[r][p][2]])
<1> DEFINE row == input[r]
           out == [p \in 1 .. K |-> accumulatorPairs[r][p][2]]
<1>1. /\ row \in Inputs /\ Cardinality(Valid(row)) \in Nat /\ K \in Nat \ {0}
      /\ Chunks \in Nat \ {0}
  BY RowsOfCall, RepairAssumption, ChunksCover
<1>2. RowRight(r)
  BY RowByRow
<1>3. Cardinality(Valid(row)) > K
  BY <1>2 DEF RowRight, FusedKnown, FusedRight
<1>4. MergedOf(r, Chunks)
  <2>1. Merged(r) = Chunks
    BY DEF Merged
  <2>2. Merged(r) > 0
    BY <1>1, <2>1
  <2> QED BY <1>2, <2>1, <2>2 DEF RowRight
<1>5. Before(row, Chunks) = Valid(row)
  BY <1>1, ChunksCover, ChunksSplit
<1>6. accumulatorCounts[r] = K
  <2>1. accumulatorCounts[r] = Min({K, Cardinality(Valid(row))})
    BY <1>4, <1>5 DEF MergedOf, ListsBest
  <2>2. Cardinality(Valid(row)) \in Int /\ K \in Int /\ Cardinality(Valid(row)) > K
    BY <1>1, <1>3
  <2>3. Min({K, Cardinality(Valid(row))}) = K
    BY ONLY <2>2, MinOfTwo
  <2> QED BY <2>1, <2>3
<1>7. PICK S \in SUBSET Valid(row) :
        Best(S, Valid(row), K, row.score) /\ Lists(accumulatorPairs[r], K, S, row.score)
  BY <1>4, <1>5, <1>6 DEF MergedOf, ListsBest
<1>8. {out[p] : p \in 1 .. K} = S
  BY <1>7 DEF Lists
<1>9. ExactOutput(row, out)
  <2> HIDE DEF out
  <2>1. ~(Cardinality(Valid(row)) <= K)
    BY <1>1, <1>3
  <2>2. Best({out[p] : p \in 1 .. K}, Valid(row), K, row.score)
    BY <1>7, <1>8
  <2> QED BY <2>1, <2>2 DEF ExactOutput
<1> QED BY <1>6, <1>9

LEMMA FinalizeRepairStep ==
  ASSUME IInv, NEW r \in RowId, FinalizeRepair(r)
  PROVE  IInv'
<1>1. /\ stage.kernel = "finalize" /\ r \in todo /\ todo' = todo \ {r}
      /\ UNCHANGED <<call, input, stage, ranges, produced, local, merged, repairError>>
  BY DEF FinalizeRepair, Running, Done, workspace
<1>2. /\ output \in [RowId -> [1 .. K -> -1 .. Columns - 1]] /\ failure \in [RowId -> {0, 1}]
      /\ accumulatorPairs \in [RowId -> [1 .. K -> Scored]] /\ Columns \in Nat \ {0}
  BY RepairAssumption DEF IInv, TypeOK
<1>3. RowRight(r) /\ FusedRight(r)
  BY <1>1, RowByRow DEF RowRight, FusedKnown
<1> DEFINE new == [p \in 1 .. K |-> accumulatorPairs[r][p][2]]
<1>4. /\ output' \in [RowId -> [1 .. K -> -1 .. Columns - 1]]
      /\ failure' \in [RowId -> {0, 1}]
      /\ \A q \in RowId \ {r} : output'[q] = output[q] /\ failure'[q] = failure[q]
      /\ \/ failure'[r] = 0 /\ ExactOutput(input[r], output'[r])
         \/ /\ failure'[r] = 1 /\ failure[r] = 1 /\ output'[r] = Unset /\ HasZero(input[r])
            /\ repairError[r] # 0
  <2>1. CASE failure[r] = 0
    <3>1. UNCHANGED <<output, failure>>
      BY <2>1 DEF FinalizeRepair
    <3> QED BY <1>2, <1>3, <2>1, <3>1 DEF FusedRight
  <2>2. CASE failure[r] = 1 /\ repairError[r] # 0
    <3>1. UNCHANGED <<output, failure>>
      BY <2>2 DEF FinalizeRepair
    <3>2. ErrorKnown(r)
      BY <1>1, ChunksCover DEF ErrorKnown, Merged
    <3>3. HasZero(input[r])
      BY <1>3, <2>2, <3>2 DEF RowRight
    <3> QED BY <1>2, <1>3, <2>2, <3>1, <3>3 DEF FusedRight
  <2>3. CASE failure[r] = 1 /\ repairError[r] = 0
    <3>1. accumulatorCounts[r] = K /\ ExactOutput(input[r], new)
      BY <1>1, <2>3, Committed
    <3>2. output' = [output EXCEPT ![r] = new] /\ failure' = [failure EXCEPT ![r] = 0]
      BY <2>3, <3>1 DEF FinalizeRepair
    <3>3. new \in [1 .. K -> -1 .. Columns - 1]
      <4> SUFFICES ASSUME NEW p \in 1 .. K
                   PROVE  accumulatorPairs[r][p][2] \in -1 .. Columns - 1
        OBVIOUS
      <4>1. accumulatorPairs[r][p] \in Scored
        BY <1>2
      <4> QED BY <1>2, <4>1 DEF Scored
    <3> HIDE DEF new
    <3> QED BY <1>2, <3>1, <3>2, <3>3
  <2> QED BY <1>2, <2>1, <2>2, <2>3
<1>5. TypeOK'
  BY <1>1, <1>4 DEF IInv, TypeOK, ranges, produced, local, merged
<1>6. StageRight' /\ ChunksRight'
  <2>1. candidates' \in [RowId -> [Segment -> Seq(Scored)]]
    BY <1>1 DEF IInv, StageRight, produced
  <2> QED BY <1>1, <2>1, StageKept, ChunksKept DEF FinalizeRepair
<1>7. ASSUME NEW q \in RowId PROVE RowRight(q)'
  <2>1. RowRight(q)
    BY RowByRow
  <2>2. CASE q # r
    <3>1. RowKept(q)
      BY <1>1, <1>4, <2>2 DEF RowKept, produced, local, merged
    <3> QED BY <1>1, <2>1, <2>2, <3>1, OtherRow
  <2>3. CASE q = r
    <3>1. /\ ~FusedKnown(r)' /\ ~ProducedKnown(r)' /\ ~LocalKnown(r)'
      BY <1>1 DEF FusedKnown, ProducedKnown, LocalKnown
    <3>2. Answered(r)'
      BY <1>1, <1>4 DEF Answered
    <3>3. failure'[r] = 1 => repairError'[r] # 0 /\ HasZero(input[r])'
      BY <1>1, <1>4
    <3> QED BY <2>3, <3>1, <3>2, <3>3 DEF RowRight
  <2> QED BY <2>2, <2>3
<1> QED BY <1>5, <1>6, <1>7, RowByRow

LEMMA StutterStep ==
  ASSUME IInv, UNCHANGED vars
  PROVE  IInv'
<1>1. UNCHANGED <<call, input, stage, todo, Rest>>
  BY DEF vars, workspace, Rest
<1>2. TypeOK' /\ StageRight' /\ ChunksRight'
  BY <1>1 DEF IInv, TypeOK, StageRight, ChunksRight, RangesKnown, RangesRight, Rest, ranges,
              produced, local, merged
<1>3. ASSUME NEW q \in RowId PROVE RowRight(q)'
  <2>1. RowKept(q)
    BY <1>1 DEF RowKept, Rest, produced, local, merged
  <2> QED BY <1>1, <2>1, RowByRow, OtherRow
<1> QED BY <1>2, <1>3, RowByRow

---------------------------------------------------------------------------
(* The theorems.                                                            *)

LEMMA NextHolds ==
  ASSUME IInv, [Next]_vars
  PROVE  IInv'
<1>1. ASSUME NEW r \in RowId, ChunkLocalTopK(r) \/ MergeTopKPairs(r) \/ FinalizeRepair(r)
      PROVE  IInv'
  BY <1>1, ChunkLocalTopKStep, MergeTopKPairsStep, FinalizeRepairStep
<1>2. CASE RepairNext
  BY <1>1, <1>2, UpdateChunkRangesStep, ProduceRepairCandidatesStep DEF RepairNext
<1>3. CASE Call
  BY <1>3, CallStep
<1>4. CASE NextKernel
  BY <1>4, NextKernelStep
<1>5. CASE \E r \in RowId : FusedTopK(r)
  BY <1>5, FusedTopKStep
<1>6. CASE UNCHANGED vars
  BY <1>6, StutterStep
<1> QED BY <1>2, <1>3, <1>4, <1>5, <1>6 DEF Next

\* What every buffer holds at every moment of a call.
THEOREM BuffersRight == Spec => []IInv
<1>1. Init => IInv
  BY InitHolds
<1>2. IInv /\ [Next]_vars => IInv'
  BY NextHolds
<1> QED BY <1>1, <1>2, PTL DEF Spec

\* The device buffers have their types, so no count exceeds its buffer.
THEOREM RepairTypeCorrect == Spec => []TypeOK
<1>1. IInv => TypeOK
  BY DEF IInv
<1> QED BY <1>1, BuffersRight, PTL

\* The accumulator of a flagged row holds the best of the chunks merged.
THEOREM RepairAccumulatorExact == Spec => []AccumulatorExact
<1>1. IInv => AccumulatorExact
  <2> SUFFICES ASSUME IInv, NEW r \in RowId, stage.kernel = "merge", r \notin todo,
                      failure[r] = 1, repairError[r] = 0
               PROVE  LET P == Scanned(r, stage.chunk)
                          n == accumulatorCounts[r]
                          pairs == {accumulatorPairs[r][p] : p \in 1 .. n}
                      IN  /\ n = Min({K, Cardinality(P)})
                          /\ Best({x[2] : x \in pairs}, P, n, input[r].score)
                          /\ \A x \in pairs : x[1] = input[r].score[x[2]]
    BY DEF AccumulatorExact
  <2> DEFINE P == Scanned(r, stage.chunk)
             n == accumulatorCounts[r]
             pairs == {accumulatorPairs[r][p] : p \in 1 .. n}
             score == input[r].score
  <2>1. MergedOf(r, stage.chunk + 1)
    <3>1. Merged(r) = stage.chunk + 1 /\ stage.chunk \in Chunk /\ Chunks \in Nat
      BY RowsOfCall, ChunksCover DEF Merged
    <3>2. Merged(r) > 0
      BY <3>1 DEF Chunk
    <3> QED BY <3>1, <3>2, RowByRow DEF RowRight
  <2>2. Before(input[r], stage.chunk + 1) = P
    BY DEF Before, Scanned
  <2>3. n = Min({K, Cardinality(P)})
    BY <2>1, <2>2 DEF MergedOf, ListsBest
  <2>4. PICK S \in SUBSET P : Best(S, P, n, score) /\ Lists(accumulatorPairs[r], n, S, score)
    BY <2>1, <2>2 DEF MergedOf, ListsBest
  <2> HIDE DEF P, n, score
  <2>5. {x[2] : x \in pairs} = S
    BY <2>4 DEF Lists
  <2>6. \A x \in pairs : x[1] = score[x[2]]
    BY <2>4 DEF Lists
  <2> QED BY <2>3, <2>4, <2>5, <2>6 DEF P, n, score
<1> QED BY <1>1, BuffersRight, PTL

\* The repair changes no row that is not flagged, and flags none.
THEOREM RepairMasked == Spec => UnflaggedMasked
<1>1. IInv /\ [Next]_vars =>
        [RepairNext => \A r \in RowId : failure[r] = 0 =>
           output'[r] = output[r] /\ failure'[r] = 0]_vars
  <2> SUFFICES ASSUME IInv, RepairNext, NEW r \in RowId, failure[r] = 0
               PROVE  output'[r] = output[r] /\ failure'[r] = 0
    OBVIOUS
  <2>1. /\ output \in [RowId -> [1 .. K -> -1 .. Columns - 1]]
        /\ failure \in [RowId -> {0, 1}]
    BY DEF IInv, TypeOK
  <2>2. CASE UNCHANGED <<output, failure>>
    BY <2>2
  <2>3. ASSUME NEW q \in RowId, FinalizeRepair(q)
        PROVE  output'[r] = output[r] /\ failure'[r] = 0
    <3>1. CASE q = r
      BY <2>3, <3>1 DEF FinalizeRepair
    <3>2. CASE q # r
      BY <2>1, <2>3, <3>2 DEF FinalizeRepair
    <3> QED BY <3>1, <3>2
  <2>4. UNCHANGED <<output, failure>> \/ \E q \in RowId : FinalizeRepair(q)
    BY DEF RepairNext, UpdateChunkRanges, ProduceRepairCandidates, ChunkLocalTopK,
           MergeTopKPairs
  <2> QED BY <2>2, <2>3, <2>4
<1> QED BY <1>1, BuffersRight, PTL DEF Spec, UnflaggedMasked

---------------------------------------------------------------------------
(* The operator implements the exact Top-K.                                 *)

Shown == IF stage.kernel = "none" /\ call > 0
         THEN [r \in RowId |-> [flag |-> failure[r], places |-> output[r]]] ELSE <<>>

LEMMA ShownIsSome ==
  ASSUME NEW f, DOMAIN f = RowId
  PROVE  f # <<>>
<1>1. 1 \in RowId
  BY RepairAssumption DEF RowId
<1>2. DOMAIN <<>> = {}
  OBVIOUS
<1> QED BY <1>1, <1>2

LEMMA AnswerIs ==
  ASSUME NEW row \in Inputs, NEW out \in [1 .. K -> -1 .. Columns - 1]
  PROVE  /\ ExactOutput(row, out) => Operator!IsExact(row, out)
         /\ out = Unset /\ HasZero(row) => Operator!IsRefusal(row, out)
<1>0. \A S : Operator!Cardinality(S) = Cardinality(S)
  BY Zenon DEF Operator!Cardinality, Cardinality
<1>1. Valid(row) = Operator!ValidOf(row)
  BY ValidIs DEF Operator!ValidOf
<1>2. ASSUME ExactOutput(row, out) PROVE Operator!IsExact(row, out)
  <2>1. CASE Cardinality(Valid(row)) <= K
    BY <1>0, <1>1, <1>2, <2>1 DEF ExactOutput, Operator!IsExact
  <2>2. CASE ~(Cardinality(Valid(row)) <= K)
    <3> DEFINE S == {out[p] : p \in 1 .. K}
    <3>1. Best(S, Valid(row), K, row.score)
      BY <1>2, <2>2 DEF ExactOutput
    <3> HIDE DEF S
    <3>2. Operator!Best(S, Operator!ValidOf(row), K, row.score)
      BY <1>0, <1>1, <3>1 DEF Best, Operator!Best
    <3> QED BY <1>0, <1>1, <2>2, <3>2 DEF Operator!IsExact, S
  <2> QED BY <2>1, <2>2
<1>3. ASSUME out = Unset, HasZero(row) PROVE Operator!IsRefusal(row, out)
  BY <1>1, <1>3 DEF HasZero, Unset, Operator!IsRefusal
<1> QED BY <1>2, <1>3

LEMMA OperatorStep ==
  ASSUME IInv, IInv', [Next]_vars
  PROVE  [Operator!Next]_(Operator!vars)
<1> DEFINE Stays == call' = call /\ input' = input /\ Shown' = Shown
<1>0. Stays => [Operator!Next]_(Operator!vars)
  BY DEF Operator!vars, Shown
<1>1. CASE Call
  <2>1. /\ stage.kernel = "none" /\ call < MaxCalls /\ call' = call + 1 /\ call \in Nat
        /\ input' \in [RowId -> Inputs] /\ stage'.kernel = "fused"
    BY <1>1 DEF Call, Launch, IInv, StageRight
  <2>2. Shown' = <<>>
    BY <2>1 DEF Shown
  <2>3. call = 0 \/ Shown # <<>>
    <3> SUFFICES ASSUME call # 0 PROVE Shown # <<>>
      OBVIOUS
    <3>1. Shown = [r \in RowId |-> [flag |-> failure[r], places |-> output[r]]]
      BY <2>1 DEF Shown
    <3>2. DOMAIN Shown = RowId
      BY <3>1
    <3> QED BY <3>2, ShownIsSome
  <2> QED BY <2>1, <2>2, <2>3 DEF Operator!Next, Operator!Call, Operator!NoAnswer,
                                  Operator!RowId, RowId, Shown
<1>2. CASE NextKernel
  <2>1. UNCHANGED <<call, input, failure, output>>
    BY <1>2 DEF NextKernel
  <2>2. CASE stage'.kernel # "none"
    <3>1. stage.kernel # "none"
      BY <1>2, Successors
    <3> QED BY <1>0, <2>1, <2>2, <3>1 DEF Shown
  <2>3. CASE stage'.kernel = "none"
    <3>1. stage.kernel = "finalize" /\ todo = {}
      BY <1>2, <2>3, Successors
    <3>2. call > 0 /\ call' > 0 /\ call \in Nat
      BY <2>1, <3>1 DEF IInv, StageRight
    <3>3. Shown = <<>>
      BY <3>1 DEF Shown
    <3>4. Shown' = [r \in RowId |-> [flag |-> failure[r], places |-> output[r]]]
      BY <2>1, <2>3, <3>2 DEF Shown
    <3>5. DOMAIN Shown' = RowId
      BY <3>4
    <3>6. Shown' # <<>>
      BY <3>5, ShownIsSome
    <3>7. ASSUME NEW r \in RowId
          PROVE  \/ Shown'[r].flag = 0 /\ Operator!IsExact(input[r], Shown'[r].places)
                 \/ Shown'[r].flag = 1 /\ Operator!IsRefusal(input[r], Shown'[r].places)
      <4>1. Answered(r)
        BY <3>1 DEF IInv, RowsRight, AnswerKnown
      <4>2. input[r] \in Inputs /\ output[r] \in [1 .. K -> -1 .. Columns - 1]
        BY <3>1, RowsOfCall DEF IInv, TypeOK
      <4>3. Shown'[r].flag = failure[r] /\ Shown'[r].places = output[r]
        BY <3>4
      <4> QED BY <4>1, <4>2, <4>3, AnswerIs DEF Answered
    <3> QED BY <2>1, <3>2, <3>3, <3>6, <3>7 DEF Operator!Next, Operator!Answer,
               Operator!NoAnswer, Operator!RowId, RowId, Shown
  <2> QED BY <2>2, <2>3
<1>3. CASE RepairNext \/ \E r \in RowId : FusedTopK(r)
  <2>1. UNCHANGED <<call, input, stage>> /\ stage.kernel # "none"
    BY <1>3 DEF RepairNext, FusedTopK, UpdateChunkRanges, ProduceRepairCandidates,
                ChunkLocalTopK, MergeTopKPairs, FinalizeRepair, Done, Running
  <2> QED BY <1>0, <2>1 DEF Shown
<1>4. CASE UNCHANGED vars
  BY <1>0, <1>4 DEF vars, Shown
<1> QED BY <1>1, <1>2, <1>3, <1>4 DEF Next

\* At the end of every call every row is exact with its flag off, whatever the
\* fused kernel flagged and the buffers held; only a row with a key of 0 may
\* be left flagged, and it shows no position then.
THEOREM OperatorImplemented == Spec => ImplementsExactTopK
<1>1. Init => Operator!Init
  BY DEF Init, Operator!Init, Operator!RowId, Operator!NoInput, Operator!NoAnswer, RowId
<1>2. IInv /\ IInv' /\ [Next]_vars => [Operator!Next]_(Operator!vars)
  BY OperatorStep
<1> QED BY <1>1, <1>2, BuffersRight, PTL DEF Spec, Operator!Spec, ImplementsExactTopK
=============================================================================
