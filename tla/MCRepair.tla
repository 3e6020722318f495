------------------------------ MODULE MCRepair ------------------------------
(***************************************************************************)
(* Instances of Repair: two best of ten positions in chunks of four (the    *)
(* last one is narrower), two rows that share one producer scan.            *)
(***************************************************************************)
EXTENDS Repair

\* The scores of positions 0, 1, ...
MCRow(start, end, scores) ==
  [start |-> start, end |-> end, score |-> [id \in 0 .. Columns - 1 |-> scores[id + 1]]]

\* Rows that tell the kernels apart: every chunk improves on the ones before;
\* equal scores at the K-th place of a chunk and of a merge, in a range that
\* begins inside a chunk; the best come first, the first chunk is outside the
\* range, and the range ends in the second chunk; as many valid positions as
\* K; the key 0 at the K-th place of the second chunk.
MCRows ==
  { MCRow(0, 10, <<1, 2, 2, 1, 3, 1, 3, 4, 5, 5>>),
    MCRow(1, 10, <<6, 3, 3, 3, 4, 2, 3, 1, 4, 2>>),
    MCRow(4, 8,  <<6, 6, 6, 6, 5, 2, 4, 1, 6, 6>>),
    MCRow(3, 5,  <<6, 6, 6, 2, 1, 6, 6, 6, 6, 6>>),
    MCRow(0, 10, <<5, 1, 0, 2, 0, 0, 3, 0, 4, 1>>) }
=============================================================================
