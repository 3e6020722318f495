----------------------------- MODULE ExactTopK -----------------------------
(***************************************************************************)
(* What the complete operator promises: called with the scores and the      *)
(* valid range of every row, it answers with K best valid positions of      *)
(* every row (equal scores may be chosen freely, in any order), or with all *)
(* valid positions and -1 in the remaining places.  It may refuse a row     *)
(* only if a valid position has the key 0, which no finite score has, and   *)
(* then it raises the row's flag and shows none of its positions.           *)
(***************************************************************************)
EXTENDS Integers, Sequences, FiniteSets

CONSTANTS NumRows, K, Inputs, MaxCalls

VARIABLES
  call,    \* the calls begun
  input,   \* per row: start, end and score of every position, or NoInput
  answer   \* per row: the flag and the K places; or NoAnswer

vars == <<call, input, answer>>

RowId    == 1 .. NumRows
NoInput  == <<>>
NoAnswer == <<>>

ValidOf(row) == row.start .. row.end - 1

\* S holds n best of the positions P.
Best(S, P, n, score) ==
  /\ S \subseteq P /\ Cardinality(S) = n
  /\ \A i \in S, j \in P \ S : score[i] >= score[j]

IsExact(row, places) ==
  IF Cardinality(ValidOf(row)) <= K
  THEN places = [p \in 1 .. K |->
                   IF p <= Cardinality(ValidOf(row)) THEN row.start + p - 1 ELSE -1]
  ELSE /\ DOMAIN places = 1 .. K
       /\ Best({places[p] : p \in 1 .. K}, ValidOf(row), K, row.score)

IsRefusal(row, places) ==
  /\ \E id \in ValidOf(row) : row.score[id] = 0
  /\ places = [p \in 1 .. K |-> -1]

Init == call = 0 /\ input = [r \in RowId |-> NoInput] /\ answer = NoAnswer

Call ==
  /\ call < MaxCalls /\ (call = 0 \/ answer # NoAnswer)
  /\ call' = call + 1
  /\ input' \in [RowId -> Inputs]
  /\ answer' = NoAnswer

Answer ==
  /\ call > 0 /\ answer = NoAnswer /\ answer' # NoAnswer
  /\ \A r \in RowId :
       \/ answer'[r].flag = 0 /\ IsExact(input[r], answer'[r].places)
       \/ answer'[r].flag = 1 /\ IsRefusal(input[r], answer'[r].places)
  /\ UNCHANGED <<call, input>>

Next == Call \/ Answer

Spec == Init /\ [][Next]_vars
=============================================================================
