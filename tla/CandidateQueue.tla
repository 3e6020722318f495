--------------------------- MODULE CandidateQueue ---------------------------
(***************************************************************************)
(* What the fused kernel's shared-memory pipeline promises the selection:   *)
(* a queue of at most Capacity blocks, each with the complete results of    *)
(* all its KV tiles from every math warp, in the order of the blocks.       *)
(***************************************************************************)
EXTENDS Integers, Sequences

CONSTANTS MathWarps, NumBlocks, Tiles, Capacity

VARIABLES
  next,   \* the block to be published next
  queue   \* the published blocks whose selection has not ended

vars == <<next, queue>>

Complete(i) == [w \in MathWarps |-> {<<i, t>> : t \in 0 .. Tiles[i] - 1}]

Init == next = 0 /\ queue = <<>>

Publish ==
  /\ next < NumBlocks /\ Len(queue) < Capacity
  /\ queue' = Append(queue, Complete(next))
  /\ next' = next + 1

Select ==
  /\ queue # <<>>
  /\ queue' = Tail(queue)
  /\ UNCHANGED next

Next == Publish \/ Select

Spec == Init /\ [][Next]_vars
=============================================================================
