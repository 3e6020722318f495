------------------------------ MODULE OracleCall ----------------------------
(* One use of the oracle: it is built from the scores and the reference's    *)
(* selection, the scores are released, and a candidate is compared.          *)
EXTENDS ScoreOracle

CONSTANT Questions   \* a case, scores, and the tensors variants may return for it

\* A causal case has at least one row and one id to select, at least as many keys
\* as rows, scores for all of them (as ranks in their order, minus infinity the
\* least) and tensors of its shape.
ASSUME QuestionsAreCases ==
  /\ NegInf \in Nat
  /\ \A q \in Questions :
       /\ IsCase(q.case)
       /\ q.scores \in [Rows(q.case) -> [Keys(q.case) -> Nat]]
       /\ \A r \in Rows(q.case), j \in Keys(q.case) : NegInf <= q.scores[r][j]
       /\ \A t \in q.tensors : IsIds(t, q.case)

VARIABLES
  question,   \* the case, its scores and the tensors to choose from
  path,       \* both tensors are on the device, or both are lists
  base,       \* the reference's selection
  oracle,     \* the ties that were kept
  cand,       \* the candidate's selection
  verdict     \* how far the call is

oracleVars == <<question, path, base, oracle, cand, verdict>>

OracleInit ==
  /\ question \in Questions
  /\ path \in {"tensor", "list"}
  /\ base \in question.tensors
  /\ oracle = <<>>
  /\ cand = base
  /\ verdict = "asked"

BuildOracle ==
  /\ verdict = "asked"
  /\ IF OracleBuilds(path, question.scores, base, question.case)
     THEN verdict' = "built" /\ oracle' = OracleOf(question.scores, question.case)
     ELSE verdict' = "noOracle" /\ UNCHANGED oracle
  /\ UNCHANGED <<question, path, base, cand>>

Compare ==
  /\ verdict = "built"
  /\ cand' \in question.tensors
  /\ verdict' = IF Accepts(path, oracle, cand', base, question.case) THEN "accepted" ELSE "rejected"
  /\ UNCHANGED <<question, path, base, oracle>>

OracleNext == BuildOracle \/ Compare

OracleSpec == OracleInit /\ [][OracleNext]_oracleVars

\* An accepted candidate is exact, whatever the indexer left beyond a row's
\* causal end (correctness.py:77-108, 381-407, 434-449).
AcceptedIsExact == verdict = "accepted" => Exact(question.scores, cand, question.case)

\* The scores beyond each row's end were cleaned, and those within are finite.
Clean(scores, case) ==
  \A r \in Rows(case), j \in Keys(case) : scores[r][j] = NegInf <=> j \notin Prefix(case, r)

IsTensor(t, case) ==
  /\ t.sound
  /\ \A r \in Rows(case) : \A i, k \in Slots(case) :
       /\ t.ids[r][i] >= -1
       /\ t.ids[r][i] = t.ids[r][k] => i = k \/ t.ids[r][i] = -1

\* The oracle is exact both ways: what it accepts is a Top-K, and of cleaned
\* scores it is built from every exact reference and accepts every other exact
\* selection, whichever of the tied ids that one took (correctness.py:23-33).
OracleExact ==
  /\ AcceptedIsExact
  /\ Clean(question.scores, question.case) /\ IsTensor(base, question.case)
       /\ Exact(question.scores, base, question.case) =>
     /\ verdict # "noOracle"
     /\ verdict = "rejected" =>
          ~(IsTensor(cand, question.case) /\ Exact(question.scores, cand, question.case))
=============================================================================
