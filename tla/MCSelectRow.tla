---------------------------- MODULE MCSelectRow ----------------------------
(***************************************************************************)
(* One instance of SelectRow: two rows one after another, each of any kind  *)
(* select_row tells apart, and single rows with ties of every kind in four  *)
(* places, or in an overflowing segment.                                    *)
(***************************************************************************)
EXTENDS SelectRow

\* n positions from `start`; scores as listed.
MCRow(start, floor, scores) ==
  [start |-> start, end |-> start + Len(scores), floor |-> floor,
   score |-> [id \in start .. start + Len(scores) - 1 |-> scores[id - start + 1]]]

\* Both digits of a score matter, and so does the tie at the K-th place.
MCFour ==
  {MCRow(0, 0, s) : s \in {t \in [1 .. 4 -> {0, 1, 5}] : t[1] >= t[2] /\ t[2] <= t[3] /\ t[3] <= t[4]}}

\* Positions 0, 4 and 8 share a segment of two places.
MCOverflow ==
  {MCRow(0, 1, <<a, 1, 0, 0, 1, 0, 0, 0, c>>) : a \in {0, 1, 4}, c \in {0, 1, 4}}

MCKinds ==
  { MCRow(1, 0, <<>>),                                      \* empty
    MCRow(1, 3, <<5, 9>>),                                  \* as many as K
    MCRow(0, 9, <<9, 3, 10, 2, 1>>),                        \* exactly K pass
    MCRow(0, 12, <<9, 3, 13, 2, 1>>),                       \* too few pass
    MCRow(2, 0, <<7, 7, 7, 7, 7>>),                         \* all equal
    MCRow(0, 4, <<5, 0, 0, 0, 9, 0, 0, 6, 14>>),            \* overflow, handled
    MCRow(0, 1, <<3, 3, 0, 0, 3, 0, 0, 0, 3, 0, 0, 0, 9>>)  \* overflow, lost
  }

MCInputs == {<<a, b>> : a \in MCKinds, b \in MCKinds} \cup {<<r>> : r \in MCFour \cup MCOverflow}
=============================================================================
