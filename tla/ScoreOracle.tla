----------------------------- MODULE ScoreOracle ----------------------------
(* The exact Top-K oracle of correctness.py as operators: what makes a       *)
(* tensor of indices valid, the cutoff oracle that is built from the scores  *)
(* and the reference's selection, and the comparison of a candidate with it. *)
(* A case is [Q, N, K]: Q causal rows over N keys.  Row r may select the ids *)
(* below End(case, r); its scores beyond them are whatever the indexer left. *)
(* indices[r] holds K ids, -1 for none; `sound` is shape, dtype and layout.  *)
EXTENDS Integers, FiniteSets

CONSTANT NegInf   \* the one score that is not finite; below every other

Rows(case) == 0..(case.Q - 1)
Keys(case) == 0..(case.N - 1)
End(case, r) == case.N - case.Q + r + 1
Prefix(case, r) == 0..(End(case, r) - 1)
Width(case, r) == IF case.K < End(case, r) THEN case.K ELSE End(case, r)
Slots(case) == 1..case.K

IsCase(case) == case.Q \in Nat \ {0} /\ case.N \in Nat /\ case.K \in Nat \ {0} /\ case.Q <= case.N
IsIds(t, case) == t.ids \in [Rows(case) -> [Slots(case) -> Int]]

Selected(t, case, r) == {t.ids[r][i] : i \in {k \in Slots(case) : t.ids[r][k] >= 0}}

---------------------------------------------------------------------------
(* Valid indices: one check over whole tensors, one over lists *)

TensorValid(t, case) ==
  /\ t.sound
  /\ \A r \in Rows(case), i \in Slots(case) : t.ids[r][i] >= -1
  /\ \A r \in Rows(case) :
       LET valid == {i \in Slots(case) : t.ids[r][i] >= 0}
       IN /\ Cardinality(valid) = Width(case, r)
          /\ \A i \in valid : t.ids[r][i] < End(case, r)
          /\ \A i, j \in valid : t.ids[r][i] = t.ids[r][j] => i = j

\* The list path counts what is not -1 and then the distinct ones.
ListValid(t, case) ==
  /\ t.sound
  /\ \A r \in Rows(case) :
       LET valid == {i \in Slots(case) : t.ids[r][i] # -1}
       IN /\ \A i \in valid : t.ids[r][i] >= 0 /\ t.ids[r][i] < End(case, r)
          /\ Cardinality(valid) = Width(case, r)
          /\ Cardinality({t.ids[r][i] : i \in valid}) = Cardinality(valid)

Valid(path, t, case) == IF path = "tensor" THEN TensorValid(t, case) ELSE ListValid(t, case)

---------------------------------------------------------------------------
(* The cutoff oracle *)

Eligible(case) == {r \in Rows(case) : End(case, r) > case.K}

\* The k-th largest score of a whole row, the part beyond its end included.
Largest(score, case, k) ==
  CHOOSE v \in {score[j] : j \in Keys(case)} :
    /\ Cardinality({j \in Keys(case) : score[j] > v}) < k
    /\ Cardinality({j \in Keys(case) : score[j] >= v}) >= k

Cutoff(score, case) == Largest(score, case, case.K)
IsTied(score, case) == Cutoff(score, case) = Largest(score, case, case.K + 1)

\* What every eligible row of the reference must satisfy.
ReferenceRowOK(score, base, case, r) ==
  LET cut == Cutoff(score, case)
      sel == Selected(base, case, r)
  IN /\ cut # NegInf /\ Largest(score, case, case.K + 1) # NegInf
     /\ \A j \in sel : score[j] >= cut
     /\ Cardinality({j \in sel : score[j] > cut}) = Cardinality({j \in Keys(case) : score[j] > cut})

\* The tied ids of a row and how many of them a selection holds.
Tie(score, case, r) ==
  LET cut == Cutoff(score, case)
  IN [boundary |-> {j \in Prefix(case, r) : score[j] = cut},
      required |-> case.K - Cardinality({j \in Prefix(case, r) : score[j] > cut})]

TiedRowOK(score, base, case, r) ==
  LET tie == Tie(score, case, r)
      sel == Selected(base, case, r)
  IN /\ Cardinality(sel) = case.K
     /\ Cardinality(sel \ tie.boundary) = case.K - tie.required
     /\ Cardinality(sel \cap tie.boundary) = tie.required
     /\ Cardinality(tie.boundary) > tie.required

TiedRows(scores, case) == {r \in Eligible(case) : IsTied(scores[r], case)}

OracleBuilds(path, scores, base, case) ==
  /\ Valid(path, base, case)
  /\ \A r \in Eligible(case) : ReferenceRowOK(scores[r], base, case, r)
  /\ \A r \in TiedRows(scores, case) : TiedRowOK(scores[r], base, case, r)

\* The oracle that outlives the scores: ties of the tied rows only.
OracleOf(scores, case) == [r \in TiedRows(scores, case) |-> Tie(scores[r], case, r)]

---------------------------------------------------------------------------
(* The comparison *)

\* Bug: any id of the tied boundary may stand in for a mandatory one.
TiedRowAcceptedLoosely(tie, actual, expected) ==
  /\ actual \subseteq expected \cup tie.boundary
  /\ Cardinality(actual) = Cardinality(expected)

TiedRowAccepted(tie, actual, expected) ==
  LET mandatory == expected \ tie.boundary
  IN /\ mandatory \subseteq actual
     /\ actual \subseteq mandatory \cup tie.boundary
     /\ Cardinality(actual \cap tie.boundary) = tie.required

\* On the tensor path two rows differ when their sorted ids do, on the list
\* path when their sets do.
Differs(path, cand, base, case, r) ==
  IF path = "tensor"
  THEN \E v \in Keys(case) :
         Cardinality({i \in Slots(case) : cand.ids[r][i] = v})
           # Cardinality({i \in Slots(case) : base.ids[r][i] = v})
  ELSE Selected(cand, case, r) # Selected(base, case, r)

Accepts(path, oracle, cand, base, case) ==
  /\ Valid(path, cand, case) /\ Valid(path, base, case)
  /\ \A r \in Rows(case) :
       Differs(path, cand, base, case, r) =>
         /\ r \in DOMAIN oracle
         /\ TiedRowAccepted(oracle[r], Selected(cand, case, r), Selected(base, case, r))

---------------------------------------------------------------------------
(* What it is all for: an exact Top-K of the causal keys of every row *)

ExactRow(score, case, r, sel) ==
  /\ sel \subseteq Prefix(case, r)
  /\ Cardinality(sel) = Width(case, r)
  /\ \A i \in sel, j \in Prefix(case, r) \ sel : score[i] >= score[j]

Exact(scores, t, case) ==
  \A r \in Rows(case) : ExactRow(scores[r], case, r, Selected(t, case, r))
=============================================================================
