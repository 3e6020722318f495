--------------------------- MODULE MCSelectPairs ---------------------------
(***************************************************************************)
(* One instance of SelectPairs: two rows one after another, each of any     *)
(* kind the code tells apart, and every single row of two or three scores.  *)
(***************************************************************************)
EXTENDS SelectPairs, SequencesExt

MCScores == 0 .. Weight[Digits] - 1
MCEveryRow == {s \in SeqOf(MCScores, 3) : Len(s) >= 2}

MCKinds ==
  { <<>>,                  \* nothing to copy
    <<3, 0>>,              \* as many as K
    <<0, 3, 1, 1, 0>>,     \* one greater, and one of two equal ones
    <<2, 2, 2, 2, 2>>,     \* all equal
    <<0, 0, 3, 0, 0>> }    \* too few that count

MCInputs == {<<a, b>> : a \in MCKinds, b \in MCKinds} \cup {<<r>> : r \in MCEveryRow}
=============================================================================
