--------------------------- MODULE MCFusedPipeline ---------------------------
(***************************************************************************)
(* Small instances of the fused pipeline.  Six blocks wrap the two-slot and *)
(* two-stage rings three times (a parity repeats after two); eleven tiles  *)
(* wrap the three KV stages twice and more.  Tiles has an empty block and   *)
(* odd and even tails.                                                      *)
(***************************************************************************)
EXTENDS FusedPipeline

MCTiles == <<3, 0, 2, 1, 2, 3>>
MCTileCount == [i \in 0 .. NumBlocks - 1 |-> MCTiles[i + 1]]
=============================================================================
