----------------------------- MODULE RadixSelect ----------------------------
(* What the three radix selections share: a score is an ordered key, read as *)
(* digits in base Radix (bytes in the code), and a histogram counts keys by   *)
(* one digit.                                                                *)
EXTENDS Integers, FiniteSetsExt

CONSTANT Radix   \* bins of the histogram

Bin == 0 .. Radix - 1

\* What a digit stands for: the shift of the code.
Weight[d \in Nat] == IF d = 0 THEN 1 ELSE Radix * Weight[d - 1]

DigitOf(score, d)    == (score \div Weight[d]) % Radix
AboveDigit(score, d) == score \div Weight[d + 1]

\* What a histogram counts in some bins, and in those above b.
CountIn(counts, bins) == MapThenSumSet(LAMBDA a : counts[a], bins)
CountAbove(counts, b) == CountIn(counts, b + 1 .. Radix - 1)

\* Of some bins, those that hold the key of this rank, from the greatest.
BinsOfRank(counts, rank, bins) ==
  {b \in bins : /\ CountAbove(counts, b) < rank
                /\ rank <= CountAbove(counts, b) + counts[b]}
=============================================================================
