------------------------ MODULE FusedPipeline_proofs ------------------------
(***************************************************************************)
(* Proofs about the fused pipeline, for every set of math and Top-K warps,  *)
(* every number of blocks and every number of KV tiles of each block, in    *)
(* each of the layouts the kernel's static assertions allow.                *)
(*                                                                         *)
(* First the hand-off of the candidate slots.  Then the shared-memory       *)
(* stages and what they carry: the Q and KV rings between the TMA thread    *)
(* and the math warps, the operands of the WGMMA groups, the accumulators,  *)
(* and the candidates the selection reads.                                  *)
(***************************************************************************)
EXTENDS FusedPipeline, KernelLemmas, TLAPS, FiniteSetTheorems, SequenceTheorems

-----------------------------------------------------------------------------
(* Barriers.                                                                *)

\* An arrival keeps a barrier a barrier over the same participants.
LEMMA ArriveType ==
  ASSUME NEW P, NEW p \in P, NEW b \in BarrierOver(P)
  PROVE  Arrive(b, p, P) \in BarrierOver(P)
BY DEF Arrive, BarrierOver

\* Starting a copy of a value of D, and finishing one, keep the stages typed.
LEMMA StartCopyType ==
  ASSUME NEW R, NEW D, NEW smem \in StagesOver(R, D), NEW s, NEW x \in D
  PROVE  StartCopy(smem, s, x) \in StagesOver(R, D)
BY DEF StagesOver, StartCopy

LEMMA FinishCopyType ==
  ASSUME NEW R, NEW D, NEW smem \in StagesOver(R, D), NEW s \in R,
         smem[s].copying # None
  PROVE  FinishCopy(smem, s) \in StagesOver(R, D)
BY DEF StagesOver, FinishCopy, Stage

-----------------------------------------------------------------------------
(* Type correctness.  The guards that index Tiles need the scheduling facts *)
(* of TypeInv: a role that is inside a block is inside a scheduled one.     *)

TmaInBlock == tma.pc = "kv" => tma.iter < NumBlocks

\* m: the registers of a math warp.
MathInBlock(m) ==
  /\ m.pc # "free" => m.iter < NumBlocks
  /\ m.pc \in {"tiles", "store"} => m.issued <= Tiles[m.iter]
  /\ m.pc = "store" => m.consumed < m.issued

TopKInBlock(r) == r.pc = "select" => r.iter < NumBlocks

TypeInv ==
  /\ TypeOK
  /\ TmaInBlock
  /\ \A w \in MathWarps : MathInBlock(math[w])
  /\ \A k \in TopKWarps : TopKInBlock(topk[k])

\* Every block of the schedule has a number of tiles.
LEMMA TilesType ==
  /\ NumBlocks \in Nat /\ MaxTiles \in Nat
  /\ \A i \in Nat : i < NumBlocks => i \in Block /\ Tiles[i] \in Nat /\ Tiles[i] <= MaxTiles
BY PipelineAssumption DEF Block

\* A math warp's registers may be replaced by registers that are typed and
\* in a scheduled block, when nothing else that TypeInv types is disturbed.
LEMMA MathUpdate ==
  ASSUME math \in [MathWarps -> MathRegs], \A v \in MathWarps : MathInBlock(math[v]),
         NEW w \in MathWarps, NEW m \in MathRegs, MathInBlock(m),
         math' = [math EXCEPT ![w] = m]
  PROVE  math' \in [MathWarps -> MathRegs] /\ \A v \in MathWarps : MathInBlock(math'[v])
OBVIOUS

THEOREM TypeCorrect == Spec => []TypeInv
<1>1. Init => TypeInv
  BY PipelineAssumption
  DEF Init, TypeInv, TypeOK, StagesOver, Stage, NewBarrier, BarrierOver,
      QStage, KVStage, Slot, Block, Tile, None, Torn, Result, TmaRegs,
      MathRegs, TopKRegs, TmaInBlock, MathInBlock, TopKInBlock
<1>2. TypeInv /\ [Next]_vars => TypeInv'
  <2> SUFFICES ASSUME TypeInv, [Next]_vars PROVE TypeInv'
    OBVIOUS
  <2> USE TilesType
  <2>a. tma \in TmaRegs /\ TmaInBlock
    BY DEF TypeInv, TypeOK
  <2>b. ASSUME NEW w \in MathWarps PROVE math[w] \in MathRegs /\ MathInBlock(math[w])
    BY DEF TypeInv, TypeOK
  <2>c. tma.pc = "kv" => Tiles[tma.iter] \in Nat
    BY <2>a DEF TmaRegs, TmaInBlock
  <2>d. ASSUME NEW w \in MathWarps, math[w].pc # "free" PROVE Tiles[math[w].iter] \in Nat
    BY <2>b, <2>d DEF MathRegs, MathInBlock
  <2>1. CASE TmaPrefetch
    <3>1. smemQ' \in StagesOver(QStage, Block)
      BY <2>1, StartCopyType DEF TmaPrefetch, TypeInv, TypeOK
    <3>2. tma' \in TmaRegs /\ TmaInBlock'
      BY <2>1, <2>a DEF TmaPrefetch, TmaRegs, TmaInBlock
    <3> QED BY <2>1, <3>1, <3>2 DEF TmaPrefetch, slotVars, TypeInv, TypeOK
  <2>2. CASE TmaIssueQ
    <3>1. tma.iter + 1 < NumBlocks => tma.iter + 1 \in Block
      BY <2>2, <2>a DEF TmaIssueQ, TmaRegs
    <3>2. smemQ' \in StagesOver(QStage, Block)
      BY <2>2, <3>1, StartCopyType DEF TmaIssueQ, TypeInv, TypeOK
    <3>3. tma' \in TmaRegs /\ TmaInBlock'
      BY <2>2, <2>a DEF TmaIssueQ, TmaRegs, TmaInBlock
    <3> QED BY <2>2, <3>2, <3>3 DEF TmaIssueQ, slotVars, TypeInv, TypeOK
  <2>3. CASE TmaIssueKV
    <3>1. tma.kv \in Tile
      BY <2>3, <2>a DEF TmaIssueKV, TmaRegs, TmaInBlock, Tile
    <3>2. smemKV' \in StagesOver(KVStage, Tile)
      BY <2>3, <3>1, StartCopyType DEF TmaIssueKV, TypeInv, TypeOK
    <3>3. tma' \in TmaRegs /\ TmaInBlock'
      BY <2>3, <2>a DEF TmaIssueKV, TmaRegs, TmaInBlock
    <3> QED BY <2>3, <3>2, <3>3 DEF TmaIssueKV, slotVars, TypeInv, TypeOK
  <2>4. CASE TmaNextBlock
    <3>1. tma.iter + 1 \in Nat /\ tma.total + Tiles[tma.iter] \in Nat
      BY <2>4, <2>a, <2>c DEF TmaNextBlock, TmaRegs
    <3>2. tma' \in TmaRegs /\ TmaInBlock'
      BY <2>4, <2>a, <3>1 DEF TmaNextBlock, TmaRegs, TmaInBlock
    <3> QED BY <2>4, <3>2 DEF TmaNextBlock, slotVars, TypeInv, TypeOK
  <2>5. ASSUME NEW s \in QStage, QArrives(s) PROVE TypeInv'
    <3>1. smemQ' \in StagesOver(QStage, Block)
      BY <2>5, FinishCopyType DEF QArrives, TypeInv, TypeOK
    <3> QED BY <2>5, <3>1 DEF QArrives, slotVars, TypeInv, TypeOK, TmaInBlock
  <2>6. ASSUME NEW s \in KVStage, KVArrives(s) PROVE TypeInv'
    <3>1. smemKV' \in StagesOver(KVStage, Tile)
      BY <2>6, FinishCopyType DEF KVArrives, TypeInv, TypeOK
    <3> QED BY <2>6, <3>1 DEF KVArrives, slotVars, TypeInv, TypeOK, TmaInBlock
  <2>7. ASSUME NEW w \in MathWarps, MathWaitFree(w) PROVE TypeInv'
    <3> DEFINE m == [math[w] EXCEPT !.pc = "q"]
    <3>1. m \in MathRegs /\ MathInBlock(m)
      BY <2>7, <2>b DEF MathWaitFree, MathRegs, MathInBlock
    <3>2. math' = [math EXCEPT ![w] = m]
      BY <2>7 DEF MathWaitFree
    <3> HIDE DEF m
    <3> QED BY <2>7, <3>1, <3>2, MathUpdate
        DEF MathWaitFree, tmaVars, slotVars, TypeInv, TypeOK, TmaInBlock
  <2>8. ASSUME NEW w \in MathWarps, MathWaitQ(w) PROVE TypeInv'
    <3> DEFINE m == [math[w] EXCEPT !.pc = "tiles", !.issued = 0, !.consumed = 0]
    <3>1. m \in MathRegs /\ MathInBlock(m)
      <4>1. m \in MathRegs
        BY <2>b DEF MathRegs
      <4>2. m.iter < NumBlocks /\ m.issued = 0 /\ 0 <= Tiles[m.iter] /\ m.pc = "tiles"
        BY <2>8, <2>b, <2>d DEF MathWaitQ, MathRegs, MathInBlock
      <4> QED BY <4>1, <4>2 DEF MathInBlock
    <3>2. math' = [math EXCEPT ![w] = m]
      BY <2>8 DEF MathWaitQ
    <3> HIDE DEF m
    <3> QED BY <2>8, <3>1, <3>2, MathUpdate
        DEF MathWaitQ, tmaVars, slotVars, TypeInv, TypeOK, TmaInBlock
  <2>9. ASSUME NEW w \in MathWarps, IssueTile(w) PROVE TypeInv'
    <3> DEFINE m == [math[w] EXCEPT !.issued = @ + 1]
    <3>1. m \in MathRegs /\ MathInBlock(m)
      BY <2>9, <2>b DEF IssueTile, IssueNext, MathRegs, MathInBlock
    <3>2. math' = [math EXCEPT ![w] = m]
      BY <2>9 DEF IssueTile
    <3> HIDE DEF m
    <3>3. math[w].issued \in Tile
      BY <2>9, <2>b DEF IssueTile, IssueNext, MathRegs, MathInBlock, Tile
    <3>4. flight' \in [MathWarps -> SUBSET Tile]
      BY <2>9, <3>3 DEF IssueTile, TypeInv, TypeOK
    <3>5. acc' \in [MathWarps -> [{0, 1} -> Result]]
      BY <2>9 DEF IssueTile, Result, TypeInv, TypeOK
    <3> QED BY <2>9, <3>1, <3>2, <3>4, <3>5, MathUpdate
        DEF IssueTile, tmaVars, slotVars, TypeInv, TypeOK, TmaInBlock
  <2>10. ASSUME NEW w \in MathWarps, WgmmaCompletes(w) PROVE TypeInv'
    <3>1. PICK t \in flight[w] :
            acc' = [acc EXCEPT ![w][t % 2] =
              <<smemQ[StageOf(math[w].iter, NumQStages)].held,
                smemKV[StageOf(KVUse(math[w], t), NumKVStages)].held>>]
      BY <2>10 DEF WgmmaCompletes
    <3>2. flight' \in [MathWarps -> SUBSET Tile]
      BY <2>10 DEF WgmmaCompletes, TypeInv, TypeOK
    <3>3. StageOf(math[w].iter, NumQStages) \in QStage
      BY <2>b, PipelineAssumption DEF StageOf, QStage, MathRegs
    <3>4. t \in Nat
      BY DEF TypeInv, TypeOK, Tile
    <3>5. StageOf(KVUse(math[w], t), NumKVStages) \in KVStage
      <4>1. KVUse(math[w], t) \in Nat
        BY <2>b, <3>4 DEF KVUse, MathRegs
      <4> QED BY <4>1, PipelineAssumption DEF StageOf, KVStage
    <3>6. acc' \in [MathWarps -> [{0, 1} -> Result]]
      BY <3>1, <3>3, <3>5 DEF TypeInv, TypeOK, StagesOver, Result
    <3> QED BY <2>10, <3>2, <3>6 DEF WgmmaCompletes, tmaVars, slotVars, TypeInv, TypeOK, TmaInBlock
  <2>11. ASSUME NEW w \in MathWarps, ReleaseTile(w) PROVE TypeInv'
    <3> DEFINE m == [math[w] EXCEPT !.pc = "store"]
    <3>1. m \in MathRegs /\ MathInBlock(m)
      BY <2>11, <2>b DEF ReleaseTile, MathRegs, MathInBlock
    <3>2. math' = [math EXCEPT ![w] = m]
      BY <2>11 DEF ReleaseTile
    <3> HIDE DEF m
    <3>3. emptyKV' \in [KVStage -> BarrierOver(MathWarps)]
      BY <2>11, ArriveType DEF ReleaseTile, TypeInv, TypeOK
    <3> QED BY <2>11, <3>1, <3>2, <3>3, MathUpdate
        DEF ReleaseTile, tmaVars, slotVars, TypeInv, TypeOK, TmaInBlock
  <2>12. ASSUME NEW w \in MathWarps, StoreTile(w) PROVE TypeInv'
    <3> DEFINE m == [math[w] EXCEPT !.pc = "tiles", !.consumed = @ + 1]
    <3>1. m \in MathRegs /\ MathInBlock(m)
      <4>1. math[w].consumed + 1 \in Nat
        BY <2>b DEF MathRegs
      <4> QED BY <2>12, <2>b, <4>1 DEF StoreTile, MathRegs, MathInBlock
    <3>2. math' = [math EXCEPT ![w] = m]
      BY <2>12 DEF StoreTile
    <3> HIDE DEF m
    <3>3. math[w].consumed % 2 \in {0, 1}
      BY <2>b DEF MathRegs
    <3>4. Reduced(w) \in Result
      BY <3>3 DEF Reduced, Result, TypeInv, TypeOK
    <3>5. segment' \in [Slot -> [MathWarps -> [Tile -> Result]]]
      BY <2>12, <3>4 DEF StoreTile, TypeInv, TypeOK
    <3> QED BY <2>12, <3>1, <3>2, <3>5, MathUpdate
        DEF StoreTile, tmaVars, TypeInv, TypeOK, TmaInBlock
  <2>13. ASSUME NEW w \in MathWarps, Publish(w) PROVE TypeInv'
    <3> DEFINE m == [math[w] EXCEPT !.pc = IF Overlap THEN "releaseQ" ELSE "serial"]
    <3>1. m \in MathRegs /\ MathInBlock(m)
      BY <2>13, <2>b DEF Publish, MathRegs, MathInBlock
    <3>2. math' = [math EXCEPT ![w] = m]
      BY <2>13 DEF Publish
    <3> HIDE DEF m
    <3>3. ready' \in [Slot -> BarrierOver(MathWarps)]
      BY <2>13, ArriveType DEF Publish, TypeInv, TypeOK
    <3>4. counts' \in [Slot -> [MathWarps -> Nat]]
      BY <2>13, <2>b DEF Publish, TypeInv, TypeOK, MathRegs
    <3> QED BY <2>13, <3>1, <3>2, <3>3, <3>4, MathUpdate
        DEF Publish, tmaVars, TypeInv, TypeOK, TmaInBlock
  <2>14. ASSUME NEW w \in MathWarps, MathWaitSelected(w) PROVE TypeInv'
    <3> DEFINE m == [math[w] EXCEPT !.pc = "releaseQ"]
    <3>1. m \in MathRegs /\ MathInBlock(m)
      BY <2>14, <2>b DEF MathWaitSelected, MathRegs, MathInBlock
    <3>2. math' = [math EXCEPT ![w] = m]
      BY <2>14 DEF MathWaitSelected
    <3> HIDE DEF m
    <3> QED BY <2>14, <3>1, <3>2, MathUpdate
        DEF MathWaitSelected, tmaVars, slotVars, TypeInv, TypeOK, TmaInBlock
  <2>15. ASSUME NEW w \in MathWarps, ReleaseQ(w) PROVE TypeInv'
    <3> DEFINE m == [math[w] EXCEPT !.pc = "free", !.iter = @ + 1,
                                    !.total = @ + Tiles[math[w].iter]]
    <3>1. m \in MathRegs /\ MathInBlock(m)
      <4>1. math[w].iter + 1 \in Nat /\ math[w].total + Tiles[math[w].iter] \in Nat
        BY <2>15, <2>b, <2>d DEF ReleaseQ, MathRegs
      <4> QED BY <2>b, <4>1 DEF MathRegs, MathInBlock
    <3>2. math' = [math EXCEPT ![w] = m]
      BY <2>15 DEF ReleaseQ
    <3> HIDE DEF m
    <3>3. emptyQ' \in [QStage -> BarrierOver(MathWarps)]
      BY <2>15, ArriveType DEF ReleaseQ, TypeInv, TypeOK
    <3> QED BY <2>15, <3>1, <3>2, <3>3, MathUpdate
        DEF ReleaseQ, tmaVars, slotVars, TypeInv, TypeOK, TmaInBlock
  <2>16. ASSUME NEW k \in TopKWarps, TopKWaitReady(k) PROVE TypeInv'
    <3>1. topk' \in [TopKWarps -> TopKRegs] /\ \A j \in TopKWarps : TopKInBlock(topk'[j])
      BY <2>16 DEF TopKWaitReady, TypeInv, TypeOK, TopKRegs, TopKInBlock
    <3>2. entered' \in [TopKWarps -> Nat]
      BY <2>16 DEF TopKWaitReady, TypeInv, TypeOK
    <3> QED BY <2>16, <3>1, <3>2 DEF TopKWaitReady, tmaVars, slotVars, TypeInv, TypeOK, TmaInBlock
  <2>17. ASSUME NEW k \in TopKWarps, TopKRelease(k) PROVE TypeInv'
    <3> DEFINE r == [topk[k] EXCEPT !.pc = "ready", !.iter = @ + 1]
    <3>1. r \in TopKRegs /\ TopKInBlock(r)
      <4>1. topk[k] \in TopKRegs
        BY DEF TypeInv, TypeOK
      <4>2. topk[k].iter + 1 \in Nat
        BY <4>1 DEF TopKRegs
      <4> QED BY <4>1, <4>2 DEF TopKRegs, TopKInBlock
    <3>2. topk' = [topk EXCEPT ![k] = r]
      BY <2>17 DEF TopKRelease
    <3> HIDE DEF r
    <3>3. topk' \in [TopKWarps -> TopKRegs] /\ \A j \in TopKWarps : TopKInBlock(topk'[j])
      BY <3>1, <3>2 DEF TypeInv, TypeOK
    <3>4. free' \in [Slot -> BarrierOver(TopKWarps)]
      BY <2>17, ArriveType DEF TopKRelease, TypeInv, TypeOK
    <3> QED BY <2>17, <3>3, <3>4 DEF TopKRelease, tmaVars, slotVars, TypeInv, TypeOK, TmaInBlock
  <2>18. CASE UNCHANGED vars
    BY <2>18 DEF vars, TypeInv, TypeOK, TmaInBlock
  <2> QED
    BY <2>1, <2>2, <2>3, <2>4, <2>5, <2>6, <2>7, <2>8, <2>9, <2>10, <2>11, <2>12,
       <2>13, <2>14, <2>15, <2>16, <2>17, <2>18
    DEF Next, TmaStep, MathStep, TopKStep, Terminating
<1>3. QED BY <1>1, <1>2, PTL DEF Spec

-----------------------------------------------------------------------------
(* The candidate hand-off.                                                  *)

\* What TypeInv says of the registers and barriers of the hand-off.
HandoffType ==
  /\ math \in [MathWarps -> MathRegs]
  /\ topk \in [TopKWarps -> TopKRegs]
  /\ ready \in [Slot -> BarrierOver(MathWarps)]
  /\ free \in [Slot -> BarrierOver(TopKWarps)]

LEMMA HandoffTyped == TypeInv => HandoffType
BY DEF TypeInv, TypeOK, HandoffType

\* Blocks and slots: every block has one slot and one use of it, blocks of a
\* slot are CandidateSlots apart, and different slots have different blocks.
LEMMA BlockArithmetic ==
  /\ CandidateSlots \in {1, 2}
  /\ \A i \in Nat : /\ CandidateSlot(i) \in Slot
                     /\ UseOf(i, CandidateSlots) \in Nat
                     /\ i = BlockOf(UseOf(i, CandidateSlots), CandidateSlot(i))
  /\ \A c \in Slot, n \in Int :
       /\ BlockOf(n, c) \in Int
       /\ BlockOf(n + 1, c) = BlockOf(n, c) + CandidateSlots
       /\ BlockOf(n - 1, c) = BlockOf(n, c) - CandidateSlots
  /\ \A c, d \in Slot, m, n \in Int : BlockOf(m, c) = BlockOf(n, d) => c = d
<1>1. CASE CandidateSlots = 1
  BY <1>1 DEF BlockOf, CandidateSlot, StageOf, UseOf, Slot
<1>2. CASE CandidateSlots = 2
  BY <1>2 DEF BlockOf, CandidateSlot, StageOf, UseOf, Slot
<1>3. QED BY <1>1, <1>2, PipelineAssumption

\* The parity tests of a ring whose barrier is at most one phase off.
LEMMA ParityTests ==
  ASSUME NEW completed \in Nat, NEW n \in Nat, NEW size \in Nat, UseOf(n, size) \in Nat
  PROVE  /\ completed \in {UseOf(n, size) - 1, UseOf(n, size)}
              => ReleasedExact(completed, n, size)
         /\ completed \in {UseOf(n, size), UseOf(n, size) + 1}
              => FilledExact(completed, n, size)
BY DEF ReleasedExact, FilledExact, ReleasedFor, FilledBy, ParityPasses, ParityOf, Flip

\* Where a math warp waits for a free slot, the wait is exact, and passing it
\* gives the warp the turn to write the slot.
LEMMA FreeWait ==
  ASSUME HandoffType, HandoffInv, NEW w \in MathWarps, math[w].pc = "free",
         NEW c, c = CandidateSlot(math[w].iter)
  PROVE  /\ ReleasedExact(free[c].done, math[w].iter, CandidateSlots)
         /\ free[c].done >= UseOf(math[w].iter, CandidateSlots)
              => MayWrite(w)
<1> DEFINE i == math[w].iter
           n == UseOf(i, CandidateSlots)
           R == ready[c].done
           F == free[c].done
<1>1. i \in Nat /\ MathDone(w) = i
  BY DEF HandoffType, MathRegs, MathDone
<1>2. c \in Slot /\ n \in Nat /\ i = BlockOf(n, c)
  BY <1>1, BlockArithmetic
<1>3. R \in Nat /\ F \in Nat
  BY <1>2 DEF HandoffType, BarrierOver
<1>4. SlotInv(c)
  BY <1>2 DEF HandoffInv
<1>5. /\ w \in ready[c].arrived <=> i > BlockOf(R, c)
      /\ i <= BlockOf(R + 1, c)
      /\ i > BlockOf(R - 1, c) \/ R = 0
  BY <1>1, <1>4 DEF SlotInv, InStep
<1> HIDE DEF i, n, R, F
<1>6. R \in {n - 1, n}
  <2>1. CASE CandidateSlots = 1
    BY <2>1, <1>1, <1>2, <1>3, <1>5 DEF BlockOf, Slot
  <2>2. CASE CandidateSlots = 2
    BY <2>2, <1>1, <1>2, <1>3, <1>5 DEF BlockOf, Slot
  <2> QED BY <2>1, <2>2, BlockArithmetic
<1>7. F \in {n - 1, n} /\ (F >= n => R = n /\ R = F)
  <2>1. CASE R = n
    BY <2>1, <1>2, <1>3, <1>4 DEF SlotInv, R, F
  <2>2. CASE R = n - 1
    <3>1. w \in ready[c].arrived
      BY <2>2, <1>2, <1>3, <1>5, BlockArithmetic DEF BlockOf
    <3> QED BY <3>1, <2>2, <1>2, <1>3, <1>4 DEF SlotInv, R, F
  <2> QED BY <2>1, <2>2, <1>6
<1> QED BY <1>1, <1>2, <1>3, <1>7, ParityTests, BlockArithmetic DEF i, n, R, F, MayWrite

\* The same of a Top-K warp that waits for a published slot.
LEMMA ReadyWait ==
  ASSUME HandoffType, HandoffInv, NEW k \in TopKWarps, topk[k].pc = "ready",
         NEW c, c = CandidateSlot(topk[k].iter)
  PROVE  /\ FilledExact(ready[c].done, topk[k].iter, CandidateSlots)
         /\ ready[c].done > UseOf(topk[k].iter, CandidateSlots)
              => MaySelect(k)
<1> DEFINE i == topk[k].iter
           n == UseOf(i, CandidateSlots)
           R == ready[c].done
           F == free[c].done
<1>1. i \in Nat
  BY DEF HandoffType, TopKRegs
<1>2. c \in Slot /\ n \in Nat /\ i = BlockOf(n, c)
  BY <1>1, BlockArithmetic
<1>3. R \in Nat /\ F \in Nat
  BY <1>2 DEF HandoffType, BarrierOver
<1>4. SlotInv(c)
  BY <1>2 DEF HandoffInv
<1>5. /\ k \in free[c].arrived <=> i > BlockOf(F, c)
      /\ i <= BlockOf(F + 1, c)
      /\ i > BlockOf(F - 1, c) \/ F = 0
  BY <1>1, <1>4 DEF SlotInv, InStep
<1> HIDE DEF i, n, R, F
<1>6. F \in {n - 1, n}
  <2>1. CASE CandidateSlots = 1
    BY <2>1, <1>1, <1>2, <1>3, <1>5 DEF BlockOf, Slot
  <2>2. CASE CandidateSlots = 2
    BY <2>2, <1>1, <1>2, <1>3, <1>5 DEF BlockOf, Slot
  <2> QED BY <2>1, <2>2, BlockArithmetic
<1>7. R \in {n, n + 1} /\ (R > n => F = n /\ R = F + 1)
  <2>1. CASE F = n
    BY <2>1, <1>2, <1>3, <1>4 DEF SlotInv, R, F
  <2>2. CASE F = n - 1
    <3>1. k \in free[c].arrived
      BY <2>2, <1>2, <1>3, <1>5, BlockArithmetic DEF BlockOf
    <3> QED BY <3>1, <2>2, <1>2, <1>3, <1>4 DEF SlotInv, R, F
  <2> QED BY <2>1, <2>2, <1>6
<1> QED BY <1>1, <1>2, <1>3, <1>7, ParityTests, BlockArithmetic DEF i, n, R, F, MaySelect

\* And of a math warp that, without kOverlap, waits for its block's selection.
LEMMA SerialWait ==
  ASSUME HandoffType, HandoffInv, NEW w \in MathWarps, math[w].pc = "serial",
         NEW c, c = CandidateSlot(math[w].iter)
  PROVE  FilledExact(free[c].done, math[w].iter, CandidateSlots)
<1> DEFINE i == math[w].iter
           n == UseOf(i, CandidateSlots)
           R == ready[c].done
           F == free[c].done
<1>1. i \in Nat /\ MathDone(w) = i + 1
  BY DEF HandoffType, MathRegs, MathDone
<1>2. c \in Slot /\ n \in Nat /\ i = BlockOf(n, c)
  BY <1>1, BlockArithmetic
<1>3. R \in Nat /\ F \in Nat
  BY <1>2 DEF HandoffType, BarrierOver
<1>4. SlotInv(c)
  BY <1>2 DEF HandoffInv
<1>5. /\ w \in ready[c].arrived <=> i + 1 > BlockOf(R, c)
      /\ i + 1 <= BlockOf(R + 1, c)
      /\ i + 1 > BlockOf(R - 1, c) \/ R = 0
  BY <1>1, <1>4 DEF SlotInv, InStep
<1> HIDE DEF i, n, R, F
<1>6. R \in {n, n + 1}
  <2>1. CASE CandidateSlots = 1
    BY <2>1, <1>1, <1>2, <1>3, <1>5 DEF BlockOf, Slot, i
  <2>2. CASE CandidateSlots = 2
    BY <2>2, <1>1, <1>2, <1>3, <1>5 DEF BlockOf, Slot, i
  <2> QED BY <2>1, <2>2, BlockArithmetic
<1>7. F \in {n, n + 1}
  <2>1. CASE R = n
    <3>1. w \in ready[c].arrived
      BY <2>1, <1>1, <1>2, <1>3, <1>5
    <3> QED BY <3>1, <2>1, <1>2, <1>3, <1>4 DEF SlotInv, R, F
  <2>2. CASE R = n + 1
    BY <2>2, <1>2, <1>3, <1>4 DEF SlotInv, R, F
  <2> QED BY <2>1, <2>2, <1>6
<1> QED BY <1>1, <1>2, <1>3, <1>7, ParityTests, BlockArithmetic DEF i, n, R, F

\* A step that leaves the hand-off barriers alone, completes no block, and
\* starts writing or selecting only on the warp's turn keeps HandoffInv.
LEMMA QuietStep ==
  ASSUME HandoffInv, ready' = ready, free' = free,
         \A w \in MathWarps : MathDone(w)' = MathDone(w),
         \A k \in TopKWarps : topk'[k].iter = topk[k].iter,
         \A w \in MathWarps : Writing(w)'
            => math'[w].iter = math[w].iter /\ (Writing(w) \/ MayWrite(w)),
         \A k \in TopKWarps : Selecting(k)' => Selecting(k) \/ MaySelect(k)
  PROVE  HandoffInv'
<1>1. ASSUME NEW c \in Slot PROVE SlotInv(c)'
  BY DEF HandoffInv, SlotInv, InStep, BlockOf
<1>2. ASSUME NEW w \in MathWarps, Writing(w)' PROVE MayWrite(w)'
  BY <1>2 DEF HandoffInv, MayWrite, CandidateSlot, StageOf, BlockOf
<1>3. ASSUME NEW k \in TopKWarps, Selecting(k)' PROVE MaySelect(k)'
  BY <1>3 DEF HandoffInv, MaySelect, CandidateSlot, StageOf, BlockOf
<1> QED BY <1>1, <1>2, <1>3 DEF HandoffInv

\* The last arrival of a phase, and an arrival that is not the last.
LEMMA ArriveCases ==
  ASSUME NEW P, NEW p \in P, NEW b \in BarrierOver(P)
  PROVE  \/ /\ Arrive(b, p, P).done = b.done + 1 /\ Arrive(b, p, P).arrived = {}
            /\ \A q \in P : q # p => q \in b.arrived
         \/ /\ Arrive(b, p, P).done = b.done
            /\ Arrive(b, p, P).arrived = b.arrived \cup {p}
BY DEF Arrive, BarrierOver

\* An arrival of p, at the turn of p for block i, keeps every participant in
\* step with the barrier of the slot of i, and p with every other slot's.
LEMMA ArriveInStep ==
  ASSUME NEW P, NEW p \in P, NEW c \in Slot, NEW b \in BarrierOver(P),
         NEW i \in Nat, i = BlockOf(b.done, c),
         NEW blocks \in [P -> Nat], blocks[p] = i,
         \A q \in P : InStep(b, q, blocks[q], c)
  PROVE  \A q \in P :
           InStep(Arrive(b, p, P), q, IF q = p THEN i + 1 ELSE blocks[q], c)
<1> SUFFICES ASSUME NEW q \in P
             PROVE  InStep(Arrive(b, p, P), q, IF q = p THEN i + 1 ELSE blocks[q], c)
  OBVIOUS
<1> DEFINE a == Arrive(b, p, P)
           y == IF q = p THEN i + 1 ELSE blocks[q]
<1>1. b.done \in Nat /\ blocks[q] \in Nat /\ y \in Nat
  BY DEF BarrierOver
<1>2. /\ q \in b.arrived <=> blocks[q] > BlockOf(b.done, c)
      /\ blocks[q] <= BlockOf(b.done + 1, c)
      /\ blocks[q] > BlockOf(b.done - 1, c) \/ b.done = 0
  BY DEF InStep
<1>3. CandidateSlots \in {1, 2} /\ c \in Nat
  BY BlockArithmetic DEF Slot
<1> HIDE DEF a, y
<1>4. CASE /\ a.done = b.done + 1 /\ a.arrived = {}
           /\ \A r \in P : r # p => r \in b.arrived
  <2>1. y > BlockOf(b.done, c) /\ y <= BlockOf(b.done + 1, c)
    BY <1>1, <1>2, <1>3, <1>4 DEF y, BlockOf
  <2>2. ~(y > BlockOf(a.done, c))
    BY <2>1, <1>1, <1>3, <1>4 DEF BlockOf
  <2>3. y <= BlockOf(a.done + 1, c)
    BY <2>1, <1>1, <1>3, <1>4 DEF BlockOf
  <2>4. y > BlockOf(a.done - 1, c)
    BY <2>1, <1>1, <1>3, <1>4 DEF BlockOf
  <2> QED BY <2>2, <2>3, <2>4, <1>4 DEF InStep, a, y
<1>5. CASE a.done = b.done /\ a.arrived = b.arrived \cup {p}
  <2>1. CASE q = p
    <3>1. y > BlockOf(a.done, c) /\ y <= BlockOf(a.done + 1, c) /\ y > BlockOf(a.done - 1, c)
      BY <2>1, <1>1, <1>3, <1>5 DEF y, BlockOf
    <3> QED BY <3>1, <2>1, <1>5 DEF InStep, a, y
  <2>2. CASE q # p
    BY <2>2, <1>2, <1>5 DEF InStep, a, y
  <2> QED BY <2>1, <2>2
<1> QED BY <1>4, <1>5, ArriveCases DEF a, y

LEMMA OtherSlotInStep ==
  ASSUME NEW P, NEW p \in P, NEW c \in Slot, NEW d \in Slot, d # c,
         NEW n \in Nat, NEW i \in Nat, i = BlockOf(n, c),
         NEW b \in BarrierOver(P), InStep(b, p, i, d)
  PROVE  InStep(b, p, i + 1, d)
<1>1. b.done \in Nat
  BY DEF BarrierOver
<1>2. CASE CandidateSlots = 1
  BY <1>2 DEF Slot
<1>3. CASE CandidateSlots = 2
  <2>1. /\ i > BlockOf(b.done, d) <=> i + 1 > BlockOf(b.done, d)
        /\ i <= BlockOf(b.done + 1, d) => i + 1 <= BlockOf(b.done + 1, d)
        /\ i > BlockOf(b.done - 1, d) => i + 1 > BlockOf(b.done - 1, d)
    BY <1>1, <1>3 DEF BlockOf, Slot
  <2> QED BY <2>1 DEF InStep
<1> QED BY <1>2, <1>3, BlockArithmetic

\* Publishing a block on the warp's turn keeps HandoffInv.
LEMMA PublishStep ==
  ASSUME HandoffType, HandoffInv, NEW w \in MathWarps, Publish(w),
         NEW i \in Nat, math[w].iter = i, NEW c \in Slot, CandidateSlot(i) = c
  PROVE  HandoffInv'
<1> DEFINE blocks == [v \in MathWarps |-> MathDone(v)]
<1>1. /\ i \in Nat /\ c \in Slot
      /\ Writing(w) /\ MathDone(w) = i /\ MathDone(w)' = i + 1
      /\ ~Writing(w)' /\ math'[w].iter = i
  BY BlockArithmetic DEF HandoffType, MathRegs, Publish, Writing, MathDone
<1>2. \A v \in MathWarps \ {w} : math'[v] = math[v] /\ MathDone(v)' = MathDone(v)
  BY DEF HandoffType, Publish, MathDone
<1>3. blocks \in [MathWarps -> Nat]
  BY DEF HandoffType, MathRegs, MathDone
<1>4. /\ i = BlockOf(ready[c].done, c) /\ ready[c].done = free[c].done
      /\ ready[c] \in BarrierOver(MathWarps)
      /\ ready[c].done \in Nat /\ free[c].done \in Nat
      /\ ready[c].done # free[c].done + 1
  BY <1>1 DEF HandoffInv, MayWrite, HandoffType, BarrierOver
<1>5. /\ ready' = [ready EXCEPT ![c] = Arrive(ready[c], w, MathWarps)]
      /\ free' = free /\ topk' = topk
  BY DEF Publish
<1>6. free[c].arrived = {}
  BY <1>1, <1>4 DEF HandoffInv, SlotInv
<1>a. \/ /\ ready'[c].done = ready[c].done + 1 /\ ready'[c].arrived = {}
         /\ \A v \in MathWarps : v # w => v \in ready[c].arrived
      \/ ready'[c].done = ready[c].done
  <2>1. ready'[c] = Arrive(ready[c], w, MathWarps)
    BY <1>1, <1>5 DEF HandoffType
  <2>2. ready[c] \in BarrierOver(MathWarps)
    BY <1>4
  <2> QED BY <2>1, <2>2, ArriveCases
<1>7. SlotInv(c)'
  <2>1. \A v \in MathWarps : InStep(ready'[c], v, MathDone(v)', c)
    <3>1. \A v \in MathWarps : InStep(ready[c], v, blocks[v], c)
      BY <1>1 DEF HandoffInv, SlotInv
    <3>2. \A v \in MathWarps :
            InStep(Arrive(ready[c], w, MathWarps), v, IF v = w THEN i + 1 ELSE blocks[v], c)
      BY <3>1, <1>1, <1>3, <1>4, ArriveInStep
    <3> QED BY <3>2, <1>1, <1>2, <1>5 DEF HandoffType
  <2>2. \A k \in TopKWarps : InStep(free'[c], k, topk'[k].iter, c)
    BY <1>1, <1>5 DEF HandoffInv, SlotInv
  <2>3. ready'[c].done \in {free'[c].done, free'[c].done + 1}
        /\ (ready'[c].arrived # {} => ready'[c].done = free'[c].done)
    BY <1>a, <1>4, <1>5
  <2> QED BY <2>1, <2>2, <2>3, <1>5, <1>6 DEF SlotInv, InStep, BlockOf
<1>8. ASSUME NEW d \in Slot, d # c PROVE SlotInv(d)'
  <2>1. SlotInv(d) /\ ready'[d] = ready[d] /\ ready[d] \in BarrierOver(MathWarps)
    BY <1>5, <1>8 DEF HandoffInv, HandoffType
  <2>2. InStep(ready[d], w, i + 1, d)
    BY <2>1, <1>1, <1>4, <1>8, OtherSlotInStep DEF SlotInv
  <2>3. \A v \in MathWarps : InStep(ready'[d], v, MathDone(v)', d)
    BY <2>1, <2>2, <1>1, <1>2 DEF SlotInv
  <2> QED BY <2>1, <2>3, <1>5 DEF SlotInv, InStep, BlockOf
<1>9. ASSUME NEW v \in MathWarps, Writing(v)' PROVE MayWrite(v)'
  <2>1. v # w /\ Writing(v) /\ math'[v].iter = math[v].iter /\ MayWrite(v)
    BY <1>1, <1>2, <1>9 DEF Writing, HandoffInv
  <2>2. CASE CandidateSlot(math[v].iter) = c
    <3>1. MathDone(v) = math[v].iter /\ math[v].iter = i
      <4>1. math[v].iter = i
        BY <2>1, <2>2, <1>4 DEF MayWrite
      <4> QED BY <4>1, <2>1 DEF MathDone, Writing
    <3>2. InStep(ready[c], v, i, c)
      BY <3>1 DEF HandoffInv, SlotInv
    <3>3. v \notin ready[c].arrived
      <4>1. ~(i > BlockOf(ready[c].done, c))
        BY <1>1, <1>4
      <4> QED BY <3>2, <4>1 DEF InStep
    <3>4. ready'[c].done = ready[c].done
      BY <2>1, <3>3, <1>a
    <3> QED BY <2>1, <2>2, <3>4, <1>5 DEF MayWrite, CandidateSlot, StageOf, BlockOf
  <2>3. CASE CandidateSlot(math[v].iter) # c
    BY <2>1, <2>3, <1>1, <1>5 DEF MayWrite, CandidateSlot, StageOf, BlockOf, HandoffType
  <2> QED BY <2>2, <2>3
<1>10. ASSUME NEW k \in TopKWarps, Selecting(k)' PROVE MaySelect(k)'
  <2>1. MaySelect(k) /\ CandidateSlot(topk[k].iter) # c
    BY <1>4, <1>5, <1>10 DEF Selecting, HandoffInv, MaySelect
  <2> QED BY <2>1, <1>5 DEF MaySelect, CandidateSlot, StageOf, BlockOf, HandoffType
<1> QED BY <1>7, <1>8, <1>9, <1>10 DEF HandoffInv

\* Freeing a slot on the warp's turn keeps HandoffInv.
LEMMA FreeStep ==
  ASSUME HandoffType, HandoffInv, NEW k \in TopKWarps, TopKRelease(k),
         NEW i \in Nat, topk[k].iter = i, NEW c \in Slot, CandidateSlot(i) = c
  PROVE  HandoffInv'
<1> DEFINE blocks == [j \in TopKWarps |-> topk[j].iter]
<1>1. /\ i \in Nat /\ c \in Slot
      /\ Selecting(k) /\ ~Selecting(k)' /\ topk'[k].iter = i + 1
  BY DEF HandoffType, TopKRegs, TopKRelease, Selecting
<1>2. \A j \in TopKWarps \ {k} : topk'[j] = topk[j]
  BY DEF HandoffType, TopKRelease
<1>3. blocks \in [TopKWarps -> Nat]
  BY DEF HandoffType, TopKRegs
<1>4. /\ i = BlockOf(free[c].done, c) /\ ready[c].done = free[c].done + 1
      /\ free[c] \in BarrierOver(TopKWarps)
      /\ ready[c].done \in Nat /\ free[c].done \in Nat
      /\ ready[c].done # free[c].done
  BY <1>1 DEF HandoffInv, MaySelect, HandoffType, BarrierOver
<1>5. /\ free' = [free EXCEPT ![c] = Arrive(free[c], k, TopKWarps)]
      /\ ready' = ready /\ math' = math
  BY DEF TopKRelease, tmaVars
<1>6. ready[c].arrived = {}
  BY <1>1, <1>4 DEF HandoffInv, SlotInv
<1>7. \/ /\ free'[c].done = free[c].done + 1 /\ free'[c].arrived = {}
         /\ \A j \in TopKWarps : j # k => j \in free[c].arrived
      \/ free'[c].done = free[c].done
  <2>1. free'[c] = Arrive(free[c], k, TopKWarps)
    BY <1>1, <1>5 DEF HandoffType
  <2>2. free[c] \in BarrierOver(TopKWarps)
    BY <1>4
  <2> QED BY <2>1, <2>2, ArriveCases
<1>8. SlotInv(c)'
  <2>1. \A j \in TopKWarps : InStep(free'[c], j, topk'[j].iter, c)
    <3>1. \A j \in TopKWarps : InStep(free[c], j, blocks[j], c)
      BY <1>1 DEF HandoffInv, SlotInv
    <3>2. \A j \in TopKWarps :
            InStep(Arrive(free[c], k, TopKWarps), j, IF j = k THEN i + 1 ELSE blocks[j], c)
      BY <3>1, <1>1, <1>3, <1>4, ArriveInStep
    <3> QED BY <3>2, <1>1, <1>2, <1>5 DEF HandoffType
  <2>2. \A w \in MathWarps : InStep(ready'[c], w, MathDone(w)', c)
    BY <1>1, <1>5 DEF HandoffInv, SlotInv, MathDone
  <2>3. ready'[c].done \in {free'[c].done, free'[c].done + 1}
        /\ (free'[c].arrived # {} => ready'[c].done = free'[c].done + 1)
    BY <1>7, <1>4, <1>5
  <2> QED BY <2>1, <2>2, <2>3, <1>5, <1>6 DEF SlotInv, InStep, BlockOf
<1>9. ASSUME NEW d \in Slot, d # c PROVE SlotInv(d)'
  <2>1. SlotInv(d) /\ free'[d] = free[d] /\ free[d] \in BarrierOver(TopKWarps)
    BY <1>5, <1>9 DEF HandoffInv, HandoffType
  <2>2. InStep(free[d], k, i + 1, d)
    BY <2>1, <1>1, <1>4, <1>9, OtherSlotInStep DEF SlotInv
  <2>3. \A j \in TopKWarps : InStep(free'[d], j, topk'[j].iter, d)
    BY <2>1, <2>2, <1>1, <1>2 DEF SlotInv
  <2> QED BY <2>1, <2>3, <1>5 DEF SlotInv, InStep, BlockOf, MathDone
<1>10. ASSUME NEW j \in TopKWarps, Selecting(j)' PROVE MaySelect(j)'
  <2>1. j # k /\ Selecting(j) /\ topk'[j].iter = topk[j].iter /\ MaySelect(j)
    BY <1>1, <1>2, <1>10 DEF Selecting, HandoffInv
  <2>2. CASE CandidateSlot(topk[j].iter) = c
    <3>1. topk[j].iter = i
      BY <2>1, <2>2, <1>4 DEF MaySelect
    <3>2. InStep(free[c], j, i, c)
      BY <3>1 DEF HandoffInv, SlotInv
    <3>3. j \notin free[c].arrived
      <4>1. ~(i > BlockOf(free[c].done, c))
        BY <1>1, <1>4
      <4> QED BY <3>2, <4>1 DEF InStep
    <3>4. free'[c].done = free[c].done
      BY <2>1, <3>3, <1>7
    <3> QED BY <2>1, <2>2, <3>4, <1>5 DEF MaySelect, CandidateSlot, StageOf, BlockOf
  <2>3. CASE CandidateSlot(topk[j].iter) # c
    BY <2>1, <2>3, <1>1, <1>5 DEF MaySelect, CandidateSlot, StageOf, BlockOf, HandoffType
  <2> QED BY <2>2, <2>3
<1>11. ASSUME NEW w \in MathWarps, Writing(w)' PROVE MayWrite(w)'
  <2>1. MayWrite(w) /\ CandidateSlot(math[w].iter) # c
    BY <1>4, <1>5, <1>11 DEF Writing, HandoffInv, MayWrite
  <2> QED BY <2>1, <1>5 DEF MayWrite, CandidateSlot, StageOf, BlockOf, HandoffType
<1> QED BY <1>8, <1>9, <1>10, <1>11 DEF HandoffInv

\* The hand-off discipline is an invariant of the pipeline.
THEOREM HandoffCorrect == Spec => []HandoffInv
<1>1. Init => HandoffInv
  <2> SUFFICES ASSUME Init PROVE HandoffInv
    OBVIOUS
  <2>1. CandidateSlots \in {1, 2}
    BY BlockArithmetic
  <2>2. ASSUME NEW c \in Slot PROVE SlotInv(c)
    <3>1. /\ ready[c] = NewBarrier /\ free[c] = NewBarrier
          /\ \A w \in MathWarps : MathDone(w) = 0
          /\ \A k \in TopKWarps : topk[k].iter = 0
      BY DEF Init, MathDone
    <3>2. \A p : InStep(NewBarrier, p, 0, c)
      BY <2>1 DEF InStep, NewBarrier, BlockOf, Slot
    <3> QED BY <3>1, <3>2 DEF SlotInv, NewBarrier
  <2>3. \A w \in MathWarps : ~Writing(w)
    BY DEF Init, Writing
  <2>4. \A k \in TopKWarps : ~Selecting(k)
    BY DEF Init, Selecting
  <2> QED BY <2>2, <2>3, <2>4 DEF HandoffInv
<1>2. TypeInv /\ HandoffInv /\ [Next]_vars => HandoffInv'
  <2> SUFFICES ASSUME HandoffType, HandoffInv, [Next]_vars PROVE HandoffInv'
    BY HandoffTyped
  <2>1. CASE \/ TmaStep \/ (\E s \in QStage : QArrives(s))
             \/ (\E s \in KVStage : KVArrives(s)) \/ UNCHANGED vars
    <3>1. ready' = ready /\ free' = free /\ math' = math /\ topk' = topk
      BY <2>1 DEF TmaStep, TmaPrefetch, TmaIssueQ, TmaIssueKV, TmaNextBlock,
                  QArrives, KVArrives, vars
    <3> QED BY <3>1, QuietStep DEF MathDone, Writing, Selecting
  <2>2. ASSUME NEW w \in MathWarps,
               IssueTile(w) \/ WgmmaCompletes(w) \/ ReleaseTile(w) \/ StoreTile(w)
                 \/ MathWaitQ(w) \/ MathWaitSelected(w) \/ ReleaseQ(w)
        PROVE  HandoffInv'
    <3>1. ready' = ready /\ free' = free /\ topk' = topk
      BY <2>2 DEF IssueTile, WgmmaCompletes, ReleaseTile, StoreTile, MathWaitQ,
                  MathWaitSelected, ReleaseQ
    <3>2. ASSUME NEW v \in MathWarps
          PROVE  /\ MathDone(v)' = MathDone(v)
                 /\ Writing(v)' => math'[v].iter = math[v].iter /\ Writing(v)
      <4>0. /\ math[w] \in MathRegs /\ math[v] \in MathRegs
            /\ math[w].iter + 1 \in Nat /\ math[w].iter + 0 = math[w].iter
        BY DEF HandoffType, MathRegs
      <4>1. CASE WgmmaCompletes(w)
        BY <4>1 DEF WgmmaCompletes, MathDone, Writing
      <4>2. CASE IssueTile(w) \/ ReleaseTile(w) \/ StoreTile(w) \/ MathWaitQ(w)
        <5>1. /\ math'[v].iter = math[v].iter
              /\ math[v].pc \in {"serial", "releaseQ"} <=> math'[v].pc \in {"serial", "releaseQ"}
              /\ Writing(v)' => Writing(v)
          <6>1. CASE v = w
            <7>1. /\ math[w].pc \in {"q", "tiles", "store"}
                  /\ math'[w].iter = math[w].iter
                  /\ math'[w].pc \in {"tiles", "store"}
              <8>1. CASE IssueTile(w)
                BY <4>0, <8>1 DEF HandoffType, MathRegs, IssueTile
              <8>2. CASE ReleaseTile(w)
                BY <4>0, <8>2 DEF HandoffType, MathRegs, ReleaseTile
              <8>3. CASE StoreTile(w)
                BY <4>0, <8>3 DEF HandoffType, MathRegs, StoreTile
              <8>4. CASE MathWaitQ(w)
                BY <4>0, <8>4 DEF HandoffType, MathRegs, MathWaitQ
              <8> QED BY <4>2, <8>1, <8>2, <8>3, <8>4
            <7> QED BY <6>1, <7>1 DEF Writing
          <6>2. CASE v # w
            BY <4>2, <6>2 DEF HandoffType, Writing, IssueTile, ReleaseTile, StoreTile, MathWaitQ
          <6> QED BY <6>1, <6>2
        <5> QED BY <5>1 DEF MathDone
      <4>3. CASE MathWaitSelected(w)
        <5>1. CASE v = w
          BY <4>0, <4>3, <5>1 DEF HandoffType, MathDone, Writing, MathWaitSelected
        <5>2. CASE v # w
          BY <4>3, <5>2 DEF HandoffType, MathDone, Writing, MathWaitSelected
        <5> QED BY <5>1, <5>2
      <4>4. CASE ReleaseQ(w)
        <5>1. CASE v = w
          BY <4>0, <4>4, <5>1 DEF HandoffType, MathDone, Writing, ReleaseQ
        <5>2. CASE v # w
          BY <4>4, <5>2 DEF HandoffType, MathDone, Writing, ReleaseQ
        <5> QED BY <5>1, <5>2
      <4> QED BY <2>2, <4>1, <4>2, <4>3, <4>4
    <3> QED BY <3>1, <3>2, QuietStep DEF Selecting
  <2>3. ASSUME NEW w \in MathWarps, MathWaitFree(w) PROVE HandoffInv'
    <3>1. ready' = ready /\ free' = free /\ topk' = topk
      BY <2>3 DEF MathWaitFree
    <3>2. MayWrite(w)
      BY <2>3, FreeWait DEF MathWaitFree, ReleasedExact
    <3>3. ASSUME NEW v \in MathWarps
          PROVE  /\ MathDone(v)' = MathDone(v)
                 /\ Writing(v)' => math'[v].iter = math[v].iter /\ (Writing(v) \/ MayWrite(v))
      BY <2>3, <3>2 DEF HandoffType, MathRegs, MathDone, Writing, MathWaitFree
    <3> QED BY <3>1, <3>3, QuietStep DEF Selecting
  <2>4. ASSUME NEW w \in MathWarps, Publish(w) PROVE HandoffInv'
    <3>1. math[w].iter \in Nat /\ CandidateSlot(math[w].iter) \in Slot
      BY BlockArithmetic DEF HandoffType, MathRegs
    <3> QED BY <2>4, <3>1, PublishStep
  <2>5. ASSUME NEW k \in TopKWarps, TopKWaitReady(k) PROVE HandoffInv'
    <3>1. ready' = ready /\ free' = free /\ math' = math
      BY <2>5 DEF TopKWaitReady, tmaVars
    <3>2. MaySelect(k)
      BY <2>5, ReadyWait DEF TopKWaitReady, FilledExact
    <3>3. ASSUME NEW j \in TopKWarps
          PROVE  /\ topk'[j].iter = topk[j].iter
                 /\ Selecting(j)' => Selecting(j) \/ MaySelect(j)
      BY <2>5, <3>2 DEF HandoffType, TopKRegs, Selecting, TopKWaitReady
    <3> QED BY <3>1, <3>3, QuietStep DEF MathDone, Writing
  <2>6. ASSUME NEW k \in TopKWarps, TopKRelease(k) PROVE HandoffInv'
    <3>1. topk[k].iter \in Nat /\ CandidateSlot(topk[k].iter) \in Slot
      BY BlockArithmetic DEF HandoffType, TopKRegs
    <3> QED BY <2>6, <3>1, FreeStep
  <2> QED BY <2>1, <2>2, <2>3, <2>4, <2>5, <2>6
          DEF Next, MathStep, TopKStep, Terminating
<1>3. QED BY <1>1, <1>2, TypeCorrect, PTL DEF Spec

\* Every wait of the candidate hand-off is exact: its parity test passes if
\* and only if the phase the warp means has completed.
THEOREM HandoffWaits == Spec => []HandoffParityExact
<1>1. TypeInv /\ HandoffInv => HandoffParityExact
  BY HandoffTyped, FreeWait, ReadyWait, SerialWait DEF HandoffParityExact
<1> QED BY <1>1, TypeCorrect, HandoffCorrect, PTL

\* No math warp writes a candidate slot from which a Top-K warp selects.
THEOREM SlotsExclusive == Spec => []SlotExclusive
<1>1. TypeInv /\ HandoffInv => SlotExclusive
  <2> SUFFICES ASSUME TypeInv, HandoffInv,
                      NEW w \in MathWarps, NEW k \in TopKWarps, Writing(w), Selecting(k),
                      CandidateSlot(math[w].iter) = CandidateSlot(topk[k].iter)
               PROVE  FALSE
    BY DEF SlotExclusive
  <2> DEFINE c == CandidateSlot(topk[k].iter)
  <2>1. c \in Slot /\ free[c].done \in Nat
    BY HandoffTyped, BlockArithmetic DEF HandoffType, TopKRegs, BarrierOver
  <2>2. ready[c].done = free[c].done /\ ready[c].done = free[c].done + 1
    BY DEF HandoffInv, MayWrite, MaySelect
  <2> QED BY <2>1, <2>2
<1> QED BY <1>1, TypeCorrect, HandoffCorrect, PTL

\* The type invariant the runs check, for every size of the kernel.
THEOREM TypesHold == Spec => []TypeOK
BY TypeCorrect, PTL DEF TypeInv

-----------------------------------------------------------------------------
(* The rings of the Q and KV stages.                                        *)

\* The KV tiles of the blocks before block i.
TilesBefore[i \in 0 .. NumBlocks] == IF i = 0 THEN 0 ELSE TilesBefore[i - 1] + Tiles[i - 1]

\* A warp past its wait for Q works on the tiles of its block.
InTiles(m) == m.pc \notin {"free", "q"}

\* What the TMA thread has issued, and what the math warps have waited for and
\* have released, of either ring.
IssuedQ ==
  LET ahead == tma.iter + (IF tma.pc = "kv" THEN 2 ELSE 1)
  IN  IF tma.pc = "prefetch" THEN 0 ELSE IF ahead < NumBlocks THEN ahead ELSE NumBlocks

QWaited(m)    == m.iter + (IF InTiles(m) THEN 1 ELSE 0)
TilesDone(m)  == m.consumed + (IF m.pc = "store" THEN 1 ELSE 0)
KVWaited(m)   == m.total + (IF InTiles(m) THEN m.issued ELSE 0)
KVReleased(m) == m.total + (IF InTiles(m) THEN TilesDone(m) ELSE 0)

WaitedQ   == [w \in MathWarps |-> QWaited(math[w])]
ReleasedQ == [w \in MathWarps |-> math[w].iter]
PendingQ  == {s \in QStage : smemQ[s].copying # None}

IssuedKV   == tma.total + (IF tma.pc = "kv" THEN tma.kv ELSE 0)
WaitedKV   == [w \in MathWarps |-> KVWaited(math[w])]
ReleasedKV == [w \in MathWarps |-> KVReleased(math[w])]
PendingKV  == {s \in KVStage : smemKV[s].copying # None}

\* A role's running total is that of the blocks it has done, and it is within
\* its block.
TmaPlace ==
  /\ tma.iter <= NumBlocks /\ tma.total = TilesBefore[tma.iter]
  /\ tma.pc = "kv" => tma.kv <= Tiles[tma.iter]
  /\ tma.pc = "prefetch" => tma.iter = 0

MathPlace(m) ==
  /\ m.iter <= NumBlocks /\ m.total = TilesBefore[m.iter]
  /\ InTiles(m) =>
       /\ TilesDone(m) <= m.issued /\ m.issued <= m.consumed + 2
       /\ m.issued <= Tiles[m.iter]
  /\ m.pc \in {"serial", "releaseQ"} => m.consumed = Tiles[m.iter]

\* The last filling of every stage, under way or complete.
Filling(x) == {[held |-> Torn, copying |-> x], Stage(x)}

QHolds ==
  \A i \in Block : IssuedQ - NumQStages <= i /\ i < IssuedQ
    => smemQ[StageOf(i, NumQStages)] \in Filling(i)

KVHolds ==
  \A i \in Block : \A t \in 0 .. Tiles[i] - 1 :
    LET n == TilesBefore[i] + t
    IN  IssuedKV - NumKVStages <= n /\ n < IssuedKV
          => smemKV[StageOf(n, NumKVStages)] \in Filling(t)

\* What is in flight has been waited for and is not released.
FlightHeld(m, tiles) ==
  \A t \in tiles : m.pc \in {"tiles", "store"} /\ TilesDone(m) <= t /\ t < m.issued

QRing  == RingInv(NumQStages, MathWarps, IssuedQ, WaitedQ, ReleasedQ, fullQ, emptyQ, PendingQ)
KVRing == RingInv(NumKVStages, MathWarps, IssuedKV, WaitedKV, ReleasedKV, fullKV, emptyKV, PendingKV)

StageInv ==
  /\ TmaPlace /\ \A w \in MathWarps : MathPlace(math[w])
  /\ QRing /\ KVRing /\ QHolds /\ KVHolds
  /\ \A w \in MathWarps : FlightHeld(math[w], flight[w])

-----------------------------------------------------------------------------
(* The results.                                                             *)

\* The accumulator of a tile that is issued, complete and not stored.
Accumulated(w) ==
  math[w].pc \in {"tiles", "store"} =>
    \A t \in math[w].consumed .. math[w].issued - 1 :
      t \notin flight[w] => acc[w][t % 2] = <<math[w].iter, t>>

\* The segment a warp is writing.
Stored(w) ==
  math[w].pc \in {"tiles", "store"} =>
    \A p \in 0 .. math[w].consumed - 1 :
      segment[CandidateSlot(math[w].iter)][w][p] = <<math[w].iter, p>>

\* The segment of slot c that w has published and that has not been freed.
Delivered(w, c) ==
  LET i == BlockOf(free[c].done, c)
  IN  MathDone(w) > i =>
        /\ counts[c][w] = Tiles[i]
        /\ \A p \in 0 .. Tiles[i] - 1 : segment[c][w][p] = <<i, p>>

ResultInv ==
  /\ \A w \in MathWarps : Accumulated(w) /\ Stored(w)
  /\ \A w \in MathWarps, c \in Slot : Delivered(w, c)

-----------------------------------------------------------------------------
(* The tiles before a block.                                                *)

\* TilesBefore is the function its recursion describes.
LEMMA BeforeSums ==
  /\ TilesBefore \in [0 .. NumBlocks -> Nat] /\ TilesBefore[0] = 0
  /\ \A i \in Block : TilesBefore[i + 1] = TilesBefore[i] + Tiles[i]
<1> DEFINE Sums(f, n) == /\ f \in [0 .. n -> Nat] /\ f[0] = 0
                         /\ \A i \in 0 .. n - 1 : f[i + 1] = f[i] + Tiles[i]
           S == {n \in Nat : n <= NumBlocks => \E f : Sums(f, n)}
<1>1. 0 \in S
  <2>1. Sums([i \in 0 .. 0 |-> 0], 0)
    OBVIOUS
  <2> QED BY <2>1
<1>2. ASSUME NEW n \in Nat, n \in S PROVE n + 1 \in S
  <2> SUFFICES ASSUME n + 1 <= NumBlocks PROVE \E f : Sums(f, n + 1)
    BY SMTT(30)
  <2>1. PICK f : Sums(f, n)
    BY <1>2, TilesType
  <2>2. Tiles[n] \in Nat
    BY TilesType
  <2> DEFINE g == [i \in 0 .. n + 1 |-> IF i = n + 1 THEN f[n] + Tiles[n] ELSE f[i]]
  <2>3. g \in [0 .. n + 1 -> Nat] /\ g[0] = 0
    BY <2>1, <2>2
  <2>4. ASSUME NEW i \in 0 .. n + 1 - 1 PROVE g[i + 1] = g[i] + Tiles[i]
    <3>1. CASE i = n
      BY <3>1
    <3>2. CASE i # n
      <4>1. i \in 0 .. n - 1 /\ i + 1 # n + 1 /\ i + 1 \in 0 .. n + 1 /\ i \in 0 .. n + 1 /\ i # n + 1
        BY <3>2
      <4>2. g[i + 1] = f[i + 1] /\ g[i] = f[i]
        BY <4>1
      <4> QED BY <2>1, <4>1, <4>2
    <3> QED BY <3>1, <3>2
  <2> HIDE DEF g
  <2> QED BY <2>3, <2>4
<1>3. \E f : Sums(f, NumBlocks)
  <2> HIDE DEF S
  <2>1. \A n \in Nat : n \in S
    BY <1>1, <1>2, NatSetInduction
  <2>2. NumBlocks \in S /\ NumBlocks \in Nat
    BY <2>1, TilesType
  <2> QED BY <2>2 DEF S
<1>4. PICK f : Sums(f, NumBlocks)
  BY <1>3
<1>5. f = [i \in 0 .. NumBlocks |-> IF i = 0 THEN 0 ELSE f[i - 1] + Tiles[i - 1]]
  <2>1. ASSUME NEW i \in 0 .. NumBlocks, i # 0 PROVE f[i] = f[i - 1] + Tiles[i - 1]
    <3>1. i - 1 \in 0 .. NumBlocks - 1 /\ (i - 1) + 1 = i
      BY <2>1, TilesType
    <3> QED BY <1>4, <3>1
  <2> QED BY <1>4, <2>1
<1>6. TilesBefore = [i \in 0 .. NumBlocks |->
                       IF i = 0 THEN 0 ELSE TilesBefore[i - 1] + Tiles[i - 1]]
  <2> HIDE DEF Sums
  <2> QED BY <1>5 DEF TilesBefore
<1>7. TilesBefore[0] = 0
  BY <1>6, TilesType
<1>8. ASSUME NEW i \in Block PROVE TilesBefore[i + 1] = TilesBefore[i] + Tiles[i]
  <2>1. i + 1 \in 0 .. NumBlocks /\ i + 1 # 0 /\ i + 1 - 1 = i
    BY TilesType DEF Block
  <2>2. \A j \in 0 .. NumBlocks : j # 0 => TilesBefore[j] = TilesBefore[j - 1] + Tiles[j - 1]
    BY <1>6
  <2>3. ASSUME NEW j \in 0 .. NumBlocks, j = i + 1
        PROVE  TilesBefore[j] = TilesBefore[i] + Tiles[i]
    <3>1. j # 0 /\ j - 1 = i
      BY <2>1, <2>3, TilesType DEF Block
    <3>2. TilesBefore[j] = TilesBefore[j - 1] + Tiles[j - 1]
      BY <2>2, <3>1
    <3> QED BY <3>1, <3>2
  <2> QED BY <2>1, <2>3
<1>9. \A n \in 0 .. NumBlocks : TilesBefore[n] = f[n]
  <2> DEFINE E == {n \in Nat : n <= NumBlocks => TilesBefore[n] = f[n]}
  <2>1. 0 \in E
    BY <1>4, <1>7
  <2>2. ASSUME NEW n \in Nat, n \in E PROVE n + 1 \in E
    <3> SUFFICES ASSUME n + 1 <= NumBlocks PROVE TilesBefore[n + 1] = f[n + 1]
      OBVIOUS
    <3>1. n \in Block /\ n \in 0 .. NumBlocks - 1 /\ n <= NumBlocks
      BY TilesType DEF Block
    <3> QED BY <1>4, <1>8, <2>2, <3>1
  <2>3. \A n \in Nat : n \in E
    <3> HIDE DEF E
    <3> QED BY <2>1, <2>2, NatSetInduction
  <2> QED BY <2>3, TilesType
<1> QED BY <1>4, <1>6, <1>7, <1>8, <1>9

\* The places a block and its totals have.
LEMMA BlockPlaces ==
  ASSUME NEW i \in Block
  PROVE  /\ i \in Nat /\ i < NumBlocks /\ i \in 0 .. NumBlocks /\ i + 1 \in 0 .. NumBlocks
         /\ Tiles[i] \in Nat /\ Tiles[i] <= MaxTiles /\ TilesBefore[i] \in Nat
         /\ TilesBefore[i + 1] = TilesBefore[i] + Tiles[i]
<1>1. i \in Nat /\ i < NumBlocks /\ NumBlocks \in Nat
  BY TilesType DEF Block
<1>2. i \in 0 .. NumBlocks /\ i + 1 \in 0 .. NumBlocks
  BY <1>1
<1>3. Tiles[i] \in Nat /\ Tiles[i] <= MaxTiles
  BY <1>1, TilesType
<1> QED BY <1>1, <1>2, <1>3, BeforeSums

\* All the tiles of a block come before the next block.
LEMMA BeforeGrows ==
  ASSUME NEW i \in 0 .. NumBlocks, NEW j \in Block, j < i
  PROVE  TilesBefore[j] + Tiles[j] <= TilesBefore[i]
<1> DEFINE S == {n \in Nat : n <= NumBlocks =>
                   \A k \in Block : k < n => TilesBefore[k] + Tiles[k] <= TilesBefore[n]}
<1>1. 0 \in S
  BY DEF Block
<1>2. ASSUME NEW n \in Nat, n \in S PROVE n + 1 \in S
  <2> SUFFICES ASSUME n + 1 <= NumBlocks, NEW k \in Block, k < n + 1
               PROVE  TilesBefore[k] + Tiles[k] <= TilesBefore[n + 1]
    OBVIOUS
  <2>1. n \in Block /\ TilesBefore[n + 1] = TilesBefore[n] + Tiles[n]
    BY BeforeSums, TilesType DEF Block
  <2>2. Tiles[n] \in Nat /\ Tiles[k] \in Nat /\ k \in Nat
    BY <2>1, TilesType DEF Block
  <2>3. TilesBefore[n] \in Nat /\ TilesBefore[k] \in Nat
    BY BeforeSums, TilesType, <2>1 DEF Block
  <2>4. k < n => TilesBefore[k] + Tiles[k] <= TilesBefore[n]
    BY <1>2, TilesType
  <2> QED BY <2>1, <2>2, <2>3, <2>4
<1>3. \A n \in Nat : n \in S
  <2> HIDE DEF S
  <2> QED BY <1>1, <1>2, NatSetInduction
<1> QED BY <1>3, TilesType

\* A filling of the KV ring is one tile of one block.
LEMMA TileOfFilling ==
  ASSUME NEW i \in Block, NEW t \in 0 .. Tiles[i] - 1,
         NEW j \in Block, NEW u \in 0 .. Tiles[j] - 1,
         TilesBefore[i] + t = TilesBefore[j] + u
  PROVE  i = j /\ t = u
<1>1. /\ TilesBefore[i] \in Nat /\ TilesBefore[j] \in Nat
      /\ Tiles[i] \in Nat /\ Tiles[j] \in Nat /\ i \in Nat /\ j \in Nat
      /\ i \in 0 .. NumBlocks /\ j \in 0 .. NumBlocks
  BY BlockPlaces
<1>2. ~(i < j)
  <2> SUFFICES ASSUME i < j PROVE FALSE
    OBVIOUS
  <2>1. TilesBefore[i] + Tiles[i] <= TilesBefore[j]
    BY <1>1, BeforeGrows
  <2> QED BY <1>1, <2>1
<1>3. ~(j < i)
  <2> SUFFICES ASSUME j < i PROVE FALSE
    OBVIOUS
  <2>1. TilesBefore[j] + Tiles[j] <= TilesBefore[i]
    BY <1>1, BeforeGrows
  <2> QED BY <1>1, <2>1
<1> QED BY <1>1, <1>2, <1>3

-----------------------------------------------------------------------------
(* The stages of a ring hold what was copied into them last.                *)

\* Fillings less than a ring apart are in different stages.
LEMMA WindowDistinct ==
  ASSUME NEW size \in {2, 3}, NEW n \in Nat, NEW m \in Nat, m - size < n, n < m
  PROVE  n % size # m % size
<1>1. CASE size = 2
  BY <1>1
<1>2. CASE size = 3
  BY <1>2
<1> QED BY <1>1, <1>2

\* Starting a copy fills its own stage and disturbs no other.
LEMMA StartHolds ==
  ASSUME NEW R, NEW D, NEW smem \in StagesOver(R, D), NEW r \in R, NEW x
  PROVE  /\ StartCopy(smem, r, x)[r] \in Filling(x)
         /\ \A q \in R \ {r} : StartCopy(smem, r, x)[q] = smem[q]
BY DEF StartCopy, StagesOver, Filling

\* A copy that completes leaves in its stage what it was to bring.
LEMMA FinishHolds ==
  ASSUME NEW R, NEW D, NEW smem \in StagesOver(R, D), NEW s \in R, smem[s].copying # None,
         NEW r \in R, NEW x, smem[r] \in Filling(x)
  PROVE  FinishCopy(smem, s)[r] \in Filling(x)
<1>1. CASE r = s
  <2>1. smem[s].copying = x
    BY <1>1 DEF Filling, Stage
  <2> QED BY <1>1, <2>1 DEF FinishCopy, StagesOver, Filling
<1>2. CASE r # s
  BY <1>2 DEF FinishCopy, StagesOver
<1> QED BY <1>1, <1>2

-----------------------------------------------------------------------------
(* The roles' registers as the users of the rings.                          *)

\* The sizes of the rings.
LEMMA RingSizes ==
  /\ NumQStages \in {2, 3} /\ NumKVStages \in {2, 3} /\ MathWarps # {}
  /\ QStage = RingStage(NumQStages) /\ KVStage = RingStage(NumKVStages)
BY PipelineAssumption DEF QStage, KVStage, RingStage

\* A role is in a scheduled block, or past the last one.
LEMMA TmaNumbers ==
  ASSUME TypeInv, TmaPlace
  PROVE  /\ tma.iter \in Nat /\ tma.kv \in Nat /\ tma.total \in Nat /\ NumBlocks \in Nat
         /\ tma.pc \in {"prefetch", "q", "kv"} /\ tma.iter \in 0 .. NumBlocks
         /\ (tma.pc = "kv" => tma.iter \in Block)
         /\ IssuedQ \in Nat /\ IssuedQ <= NumBlocks /\ IssuedKV \in Nat
<1>1. tma \in TmaRegs /\ NumBlocks \in Nat
  BY TilesType DEF TypeInv, TypeOK
<1>2. tma.pc = "kv" => tma.iter < NumBlocks
  BY DEF TypeInv, TmaInBlock
<1> QED BY <1>1, <1>2 DEF TmaRegs, TmaPlace, Block, IssuedQ, IssuedKV

LEMMA MathNumbers ==
  ASSUME TypeInv, NEW w \in MathWarps, MathPlace(math[w])
  PROVE  LET m == math[w] IN
         /\ m \in MathRegs
         /\ m.iter \in Nat /\ m.issued \in Nat /\ m.consumed \in Nat /\ m.total \in Nat
         /\ m.pc \in {"free", "q", "tiles", "store", "serial", "releaseQ"}
         /\ m.pc # "free" => m.iter \in Block
         /\ QWaited(m) \in Nat /\ KVWaited(m) \in Nat /\ KVReleased(m) \in Nat
         /\ TilesDone(m) \in Nat
<1>1. math[w] \in MathRegs /\ MathInBlock(math[w]) /\ NumBlocks \in Nat
  BY TilesType DEF TypeInv, TypeOK
<1> QED BY <1>1 DEF MathRegs, MathInBlock, Block, QWaited, KVWaited, KVReleased, TilesDone

LEMMA RingsTyped ==
  ASSUME TypeInv, TmaPlace, \A w \in MathWarps : MathPlace(math[w])
  PROVE  /\ RingType(NumQStages, MathWarps, IssuedQ, WaitedQ, ReleasedQ, fullQ, emptyQ, PendingQ)
         /\ RingType(NumKVStages, MathWarps, IssuedKV, WaitedKV, ReleasedKV, fullKV, emptyKV,
                     PendingKV)
<1>1. IssuedQ \in Nat /\ IssuedKV \in Nat
  BY TmaNumbers
<1>2. /\ WaitedQ \in [MathWarps -> Nat] /\ ReleasedQ \in [MathWarps -> Nat]
      /\ WaitedKV \in [MathWarps -> Nat] /\ ReleasedKV \in [MathWarps -> Nat]
  BY MathNumbers DEF WaitedQ, ReleasedQ, WaitedKV, ReleasedKV
<1>3. PendingQ \subseteq QStage /\ PendingKV \subseteq KVStage
  BY DEF PendingQ, PendingKV
<1>4. /\ fullQ \in [QStage -> Nat] /\ fullKV \in [KVStage -> Nat]
      /\ emptyQ \in [QStage -> BarrierOver(MathWarps)]
      /\ emptyKV \in [KVStage -> BarrierOver(MathWarps)]
  BY DEF TypeInv, TypeOK
<1> QED BY <1>1, <1>2, <1>3, <1>4, RingSizes DEF RingType

\* What a math warp's new registers make of the rings' consumers.
LEMMA MathViews ==
  ASSUME math \in [MathWarps -> MathRegs], NEW w \in MathWarps, NEW m,
         math' = [math EXCEPT ![w] = m]
  PROVE  /\ WaitedQ' = [WaitedQ EXCEPT ![w] = QWaited(m)]
         /\ ReleasedQ' = [ReleasedQ EXCEPT ![w] = m.iter]
         /\ WaitedKV' = [WaitedKV EXCEPT ![w] = KVWaited(m)]
         /\ ReleasedKV' = [ReleasedKV EXCEPT ![w] = KVReleased(m)]
BY DEF WaitedQ, ReleasedQ, WaitedKV, ReleasedKV

-----------------------------------------------------------------------------
(* The steps keep StageInv.                                                 *)

\* A step of math warp w, which leaves the copies alone.
LEMMA MathStageStep ==
  ASSUME TypeInv, StageInv, NEW w \in MathWarps, NEW m, MathPlace(m),
         math' = [math EXCEPT ![w] = m], UNCHANGED tmaVars,
         \A v \in MathWarps : v # w => flight'[v] = flight[v], FlightHeld(m, flight'[w]),
         RingInv(NumQStages, MathWarps, IssuedQ, [WaitedQ EXCEPT ![w] = QWaited(m)],
                 [ReleasedQ EXCEPT ![w] = m.iter], fullQ, emptyQ', PendingQ),
         RingInv(NumKVStages, MathWarps, IssuedKV, [WaitedKV EXCEPT ![w] = KVWaited(m)],
                 [ReleasedKV EXCEPT ![w] = KVReleased(m)], fullKV, emptyKV', PendingKV)
  PROVE  StageInv'
<1>1. math \in [MathWarps -> MathRegs]
  BY DEF TypeInv, TypeOK
<1>2. /\ tma' = tma /\ fullQ' = fullQ /\ fullKV' = fullKV /\ smemQ' = smemQ /\ smemKV' = smemKV
      /\ IssuedQ' = IssuedQ /\ IssuedKV' = IssuedKV
      /\ PendingQ' = PendingQ /\ PendingKV' = PendingKV
  BY DEF tmaVars, IssuedQ, IssuedKV, PendingQ, PendingKV
<1>3. QRing' /\ KVRing'
  BY <1>1, <1>2, MathViews DEF QRing, KVRing
<1>4. TmaPlace' /\ QHolds' /\ KVHolds'
  BY <1>2 DEF StageInv, TmaPlace, QHolds, KVHolds
<1>5. ASSUME NEW v \in MathWarps
      PROVE  MathPlace(math[v])' /\ FlightHeld(math[v], flight[v])'
  <2>1. CASE v = w
    <3>1. math'[v] = m
      BY <1>1, <2>1
    <3> QED BY <2>1, <3>1
  <2>2. CASE v # w
    <3>1. math'[v] = math[v] /\ flight'[v] = flight[v]
      BY <1>1, <2>2
    <3> QED BY <3>1 DEF StageInv
  <2> QED BY <2>1, <2>2
<1> QED BY <1>3, <1>4, <1>5 DEF StageInv

\* Such a step that neither waits for nor releases a stage.
LEMMA MathQuietStep ==
  ASSUME TypeInv, StageInv, NEW w \in MathWarps, NEW m, MathPlace(m),
         math' = [math EXCEPT ![w] = m], UNCHANGED <<tmaVars, emptyQ, emptyKV>>,
         \A v \in MathWarps : v # w => flight'[v] = flight[v], FlightHeld(m, flight'[w]),
         QWaited(m) = QWaited(math[w]), m.iter = math[w].iter,
         KVWaited(m) = KVWaited(math[w]), KVReleased(m) = KVReleased(math[w])
  PROVE  StageInv'
<1>1. /\ [WaitedQ EXCEPT ![w] = QWaited(m)] = WaitedQ
      /\ [ReleasedQ EXCEPT ![w] = m.iter] = ReleasedQ
      /\ [WaitedKV EXCEPT ![w] = KVWaited(m)] = WaitedKV
      /\ [ReleasedKV EXCEPT ![w] = KVReleased(m)] = ReleasedKV
  BY DEF WaitedQ, ReleasedQ, WaitedKV, ReleasedKV
<1>2. emptyQ' = emptyQ /\ emptyKV' = emptyKV
  OBVIOUS
<1>3. /\ RingInv(NumQStages, MathWarps, IssuedQ, [WaitedQ EXCEPT ![w] = QWaited(m)],
                 [ReleasedQ EXCEPT ![w] = m.iter], fullQ, emptyQ', PendingQ)
      /\ RingInv(NumKVStages, MathWarps, IssuedKV, [WaitedKV EXCEPT ![w] = KVWaited(m)],
                 [ReleasedKV EXCEPT ![w] = KVReleased(m)], fullKV, emptyKV', PendingKV)
  BY <1>1, <1>2 DEF StageInv, QRing, KVRing
<1>4. UNCHANGED tmaVars
  OBVIOUS
<1> QED BY <1>3, <1>4, MathStageStep

\* The TMA thread, past its wait, starts the copy of the next block's Q.
LEMMA QFillStep ==
  ASSUME TypeInv, StageInv, IssuedQ < NumBlocks,
         \A w \in MathWarps : IssuedQ + 1 <= ReleasedQ[w] + NumQStages,
         smemQ' = StartCopy(smemQ, StageOf(IssuedQ, NumQStages), IssuedQ),
         IssuedQ' = IssuedQ + 1, UNCHANGED <<math, fullQ, emptyQ>>
  PROVE  QRing' /\ QHolds'
<1>1. RingType(NumQStages, MathWarps, IssuedQ, WaitedQ, ReleasedQ, fullQ, emptyQ, PendingQ)
      /\ IssuedQ \in Nat
  BY RingsTyped, TmaNumbers DEF StageInv
<1>2. smemQ \in StagesOver(RingStage(NumQStages), Block)
  BY RingSizes DEF TypeInv, TypeOK
<1> DEFINE s == IssuedQ % NumQStages
<1>3. s \in RingStage(NumQStages)
  BY <1>1, RingSizes, StageAndUse
<1>a. smemQ' = StartCopy(smemQ, s, IssuedQ)
  BY DEF StageOf
<1>4. PendingQ' = PendingQ \cup {s}
  <2>1. IssuedQ # None
    BY <1>1 DEF None
  <2> QED BY <1>2, <1>3, <2>1, RingSizes DEF PendingQ, StagesOver, StartCopy, StageOf
<1>5. WaitedQ' = WaitedQ /\ ReleasedQ' = ReleasedQ
  BY DEF WaitedQ, ReleasedQ
<1>6. RingInv(NumQStages, MathWarps, IssuedQ + 1, WaitedQ, ReleasedQ, fullQ, emptyQ,
              PendingQ \cup {IssuedQ % NumQStages})
  BY <1>1, RingSizes, FillStep DEF StageInv, QRing
<1>7. QRing'
  BY <1>4, <1>5, <1>6 DEF QRing
<1>8. ASSUME NEW i \in Block, IssuedQ' - NumQStages <= i, i < IssuedQ'
      PROVE  smemQ'[StageOf(i, NumQStages)] \in Filling(i)
  <2>1. i \in Nat /\ NumQStages \in Nat
    BY TilesType, RingSizes DEF Block
  <2>2. CASE i = IssuedQ
    BY <1>2, <1>3, <1>a, <2>2, StartHolds DEF StageOf
  <2>3. CASE i # IssuedQ
    <3>1. IssuedQ - NumQStages < i /\ i < IssuedQ /\ IssuedQ - NumQStages <= i
      BY <1>1, <1>8, <2>1, <2>3
    <3>2. smemQ'[i % NumQStages] = smemQ[i % NumQStages]
      <4>1. i % NumQStages \in RingStage(NumQStages) \ {s}
        BY <1>1, <2>1, <3>1, RingSizes, StageAndUse, WindowDistinct
      <4> HIDE DEF s
      <4> QED BY <1>2, <1>3, <4>1, <1>a, StartHolds
    <3> QED BY <3>1, <3>2 DEF StageInv, QHolds, StageOf
  <2> QED BY <2>2, <2>3
<1> QED BY <1>7, <1>8 DEF QHolds

\* And the copy of the next KV tile of its block.
LEMMA KVFillStep ==
  ASSUME TypeInv, StageInv, tma.pc = "kv", tma.kv < Tiles[tma.iter],
         \A w \in MathWarps : IssuedKV + 1 <= ReleasedKV[w] + NumKVStages,
         smemKV' = StartCopy(smemKV, StageOf(IssuedKV, NumKVStages), tma.kv),
         IssuedKV' = IssuedKV + 1, UNCHANGED <<math, fullKV, emptyKV>>
  PROVE  KVRing' /\ KVHolds'
<1>1. RingType(NumKVStages, MathWarps, IssuedKV, WaitedKV, ReleasedKV, fullKV, emptyKV, PendingKV)
      /\ IssuedKV \in Nat /\ tma.kv \in Nat /\ tma.iter \in Block
      /\ IssuedKV = TilesBefore[tma.iter] + tma.kv
  BY RingsTyped, TmaNumbers DEF StageInv, IssuedKV, TmaPlace
<1>2. smemKV \in StagesOver(RingStage(NumKVStages), Tile)
  BY RingSizes DEF TypeInv, TypeOK
<1> DEFINE s == IssuedKV % NumKVStages
<1>3. s \in RingStage(NumKVStages)
  BY <1>1, RingSizes, StageAndUse
<1>a. smemKV' = StartCopy(smemKV, s, tma.kv)
  BY DEF StageOf
<1>4. PendingKV' = PendingKV \cup {s}
  <2>1. tma.kv # None
    BY <1>1 DEF None
  <2> QED BY <1>2, <1>3, <2>1, RingSizes DEF PendingKV, StagesOver, StartCopy, StageOf
<1>5. WaitedKV' = WaitedKV /\ ReleasedKV' = ReleasedKV
  BY DEF WaitedKV, ReleasedKV
<1>6. RingInv(NumKVStages, MathWarps, IssuedKV + 1, WaitedKV, ReleasedKV, fullKV, emptyKV,
              PendingKV \cup {IssuedKV % NumKVStages})
  BY <1>1, RingSizes, FillStep DEF StageInv, KVRing
<1>7. KVRing'
  BY <1>4, <1>5, <1>6 DEF KVRing
<1>8. ASSUME NEW i \in Block, NEW t \in 0 .. Tiles[i] - 1, NEW n, n = TilesBefore[i] + t,
             IssuedKV' - NumKVStages <= n, n < IssuedKV'
      PROVE  smemKV'[StageOf(n, NumKVStages)] \in Filling(t)
  <2>1. n \in Nat /\ NumKVStages \in Nat /\ tma.kv \in 0 .. Tiles[tma.iter] - 1
    BY <1>1, <1>8, BlockPlaces, RingSizes
  <2>2. CASE n = IssuedKV
    <3>1. t = tma.kv
      BY <1>1, <1>8, <2>1, <2>2, TileOfFilling
    <3> QED BY <1>2, <1>3, <1>a, <2>2, <3>1, StartHolds DEF StageOf
  <2>3. CASE n # IssuedKV
    <3>1. IssuedKV - NumKVStages < n /\ n < IssuedKV /\ IssuedKV - NumKVStages <= n
      BY <1>1, <1>8, <2>1, <2>3
    <3>2. smemKV'[n % NumKVStages] = smemKV[n % NumKVStages]
      <4>1. n % NumKVStages \in RingStage(NumKVStages) \ {s}
        BY <1>1, <2>1, <3>1, RingSizes, StageAndUse, WindowDistinct
      <4> HIDE DEF s
      <4> QED BY <1>2, <1>3, <4>1, <1>a, StartHolds
    <3>3. smemKV[StageOf(n, NumKVStages)] \in Filling(t)
      BY <1>8, <3>1 DEF StageInv, KVHolds
    <3> QED BY <3>2, <3>3 DEF StageOf
  <2> QED BY <2>2, <2>3
<1>9. KVHolds'
  BY <1>8 DEF KVHolds
<1> QED BY <1>7, <1>9

\* The copy of a Q completes.
LEMMA QCopyStep ==
  ASSUME TypeInv, StageInv, NEW s \in QStage, QArrives(s)
  PROVE  QRing' /\ QHolds'
<1>1. RingType(NumQStages, MathWarps, IssuedQ, WaitedQ, ReleasedQ, fullQ, emptyQ, PendingQ)
  BY RingsTyped DEF StageInv
<1>2. smemQ \in StagesOver(QStage, Block)
  BY DEF TypeInv, TypeOK
<1>3. /\ s \in PendingQ /\ smemQ[s].copying # None
      /\ smemQ' = FinishCopy(smemQ, s) /\ fullQ' = [fullQ EXCEPT ![s] = @ + 1]
      /\ tma' = tma /\ math' = math /\ emptyQ' = emptyQ
  BY DEF QArrives, PendingQ
<1>4. PendingQ' = PendingQ \ {s}
  BY <1>2, <1>3 DEF PendingQ, StagesOver, FinishCopy, Stage
<1>5. IssuedQ' = IssuedQ /\ WaitedQ' = WaitedQ /\ ReleasedQ' = ReleasedQ
  BY <1>3 DEF IssuedQ, WaitedQ, ReleasedQ
<1>6. RingInv(NumQStages, MathWarps, IssuedQ, WaitedQ, ReleasedQ, fullQ', emptyQ,
              PendingQ \ {s})
  BY <1>1, <1>3, RingSizes, CopyStep DEF StageInv, QRing
<1>7. QRing'
  BY <1>3, <1>4, <1>5, <1>6 DEF QRing
<1>8. ASSUME NEW i \in Block, IssuedQ' - NumQStages <= i, i < IssuedQ'
      PROVE  smemQ'[StageOf(i, NumQStages)] \in Filling(i)
  <2>1. smemQ[StageOf(i, NumQStages)] \in Filling(i)
    BY <1>5, <1>8 DEF StageInv, QHolds
  <2>2. StageOf(i, NumQStages) \in QStage
    BY BlockPlaces, RingSizes, StageAndUse DEF StageOf
  <2> QED BY <1>2, <1>3, <2>1, <2>2, FinishHolds
<1> QED BY <1>7, <1>8 DEF QHolds

\* The copy of a KV tile completes.
LEMMA KVCopyStep ==
  ASSUME TypeInv, StageInv, NEW s \in KVStage, KVArrives(s)
  PROVE  KVRing' /\ KVHolds'
<1>1. RingType(NumKVStages, MathWarps, IssuedKV, WaitedKV, ReleasedKV, fullKV, emptyKV, PendingKV)
  BY RingsTyped DEF StageInv
<1>2. smemKV \in StagesOver(KVStage, Tile)
  BY DEF TypeInv, TypeOK
<1>3. /\ s \in PendingKV /\ smemKV[s].copying # None
      /\ smemKV' = FinishCopy(smemKV, s) /\ fullKV' = [fullKV EXCEPT ![s] = @ + 1]
      /\ tma' = tma /\ math' = math /\ emptyKV' = emptyKV
  BY DEF KVArrives, PendingKV
<1>4. PendingKV' = PendingKV \ {s}
  BY <1>2, <1>3 DEF PendingKV, StagesOver, FinishCopy, Stage
<1>5. IssuedKV' = IssuedKV /\ WaitedKV' = WaitedKV /\ ReleasedKV' = ReleasedKV
  BY <1>3 DEF IssuedKV, WaitedKV, ReleasedKV
<1>6. RingInv(NumKVStages, MathWarps, IssuedKV, WaitedKV, ReleasedKV, fullKV', emptyKV,
              PendingKV \ {s})
  BY <1>1, <1>3, RingSizes, CopyStep DEF StageInv, KVRing
<1>7. KVRing'
  BY <1>3, <1>4, <1>5, <1>6 DEF KVRing
<1>8. ASSUME NEW i \in Block, NEW t \in 0 .. Tiles[i] - 1, NEW n, n = TilesBefore[i] + t,
             IssuedKV' - NumKVStages <= n, n < IssuedKV'
      PROVE  smemKV'[StageOf(n, NumKVStages)] \in Filling(t)
  <2>1. smemKV[StageOf(n, NumKVStages)] \in Filling(t)
    BY <1>5, <1>8 DEF StageInv, KVHolds
  <2>2. n \in Nat
    BY <1>8, BlockPlaces
  <2>3. StageOf(n, NumKVStages) \in KVStage
    BY <2>2, RingSizes, StageAndUse DEF StageOf
  <2> QED BY <1>2, <1>3, <2>1, <2>3, FinishHolds
<1>9. KVHolds'
  BY <1>8 DEF KVHolds
<1> QED BY <1>7, <1>9

\* Where the TMA thread waits before it fills a stage again, the wait is
\* exact, and passing it keeps the thread within one ring of every release.
LEMMA QReleaseWait ==
  ASSUME TypeInv, StageInv, tma.pc = "q", NEW n, n = tma.iter + 1
  PROVE  /\ ReleasedExact(emptyQ[StageOf(n, NumQStages)].done, n, NumQStages)
         /\ ReleasedFor(emptyQ[StageOf(n, NumQStages)].done, n, NumQStages)
              => \A w \in MathWarps : n + 1 <= ReleasedQ[w] + NumQStages
<1>1. RingType(NumQStages, MathWarps, IssuedQ, WaitedQ, ReleasedQ, fullQ, emptyQ, PendingQ)
  BY RingsTyped DEF StageInv
<1>2. (n = IssuedQ \/ n = IssuedQ + 1) /\ n \in Nat
  BY TmaNumbers DEF StageInv, IssuedQ
<1>3. /\ emptyQ[n % NumQStages].done \in {(n \div NumQStages) - 1, n \div NumQStages}
      /\ emptyQ[n % NumQStages].done >= n \div NumQStages
           => \A w \in MathWarps : n + 1 <= ReleasedQ[w] + NumQStages
  <2>1. RingInv(NumQStages, MathWarps, IssuedQ, WaitedQ, ReleasedQ, fullQ, emptyQ, PendingQ)
    BY DEF StageInv, QRing
  <2>2. NumQStages \in {2, 3} /\ MathWarps # {}
    BY RingSizes
  <2> QED BY ONLY <1>1, <1>2, <2>1, <2>2, ProducerWait
<1>4. emptyQ[n % NumQStages].done \in Nat /\ n \div NumQStages \in Nat
  BY <1>1, <1>2, RingSizes, StageAndUse DEF RingType, BarrierOver
<1> QED BY <1>3, <1>4, ParityIsExact DEF ReleasedExact, ReleasedFor, StageOf, UseOf

LEMMA KVReleaseWait ==
  ASSUME TypeInv, StageInv, tma.pc = "kv", NEW n, n = tma.total + tma.kv
  PROVE  /\ ReleasedExact(emptyKV[StageOf(n, NumKVStages)].done, n, NumKVStages)
         /\ ReleasedFor(emptyKV[StageOf(n, NumKVStages)].done, n, NumKVStages)
              => \A w \in MathWarps : n + 1 <= ReleasedKV[w] + NumKVStages
<1>1. RingType(NumKVStages, MathWarps, IssuedKV, WaitedKV, ReleasedKV, fullKV, emptyKV, PendingKV)
  BY RingsTyped DEF StageInv
<1>2. (n = IssuedKV \/ n = IssuedKV + 1) /\ n \in Nat
  BY TmaNumbers DEF StageInv, IssuedKV
<1>3. /\ emptyKV[n % NumKVStages].done \in {(n \div NumKVStages) - 1, n \div NumKVStages}
      /\ emptyKV[n % NumKVStages].done >= n \div NumKVStages
           => \A w \in MathWarps : n + 1 <= ReleasedKV[w] + NumKVStages
  <2>1. RingInv(NumKVStages, MathWarps, IssuedKV, WaitedKV, ReleasedKV, fullKV, emptyKV, PendingKV)
    BY DEF StageInv, KVRing
  <2>2. NumKVStages \in {2, 3} /\ MathWarps # {}
    BY RingSizes
  <2> QED BY ONLY <1>1, <1>2, <2>1, <2>2, ProducerWait
<1>4. emptyKV[n % NumKVStages].done \in Nat /\ n \div NumKVStages \in Nat
  BY <1>1, <1>2, RingSizes, StageAndUse DEF RingType, BarrierOver
<1> QED BY <1>3, <1>4, ParityIsExact DEF ReleasedExact, ReleasedFor, StageOf, UseOf

\* Where a math warp waits for the Q of its block or for its next tile, the
\* wait is exact.
LEMMA QFilledWait ==
  ASSUME TypeInv, StageInv, NEW w \in MathWarps, math[w].pc = "q", NEW n, n = math[w].iter
  PROVE  /\ FilledExact(fullQ[StageOf(n, NumQStages)], n, NumQStages)
         /\ n = WaitedQ[w]
<1>1. RingType(NumQStages, MathWarps, IssuedQ, WaitedQ, ReleasedQ, fullQ, emptyQ, PendingQ)
  BY RingsTyped DEF StageInv
<1>2. n = WaitedQ[w] /\ n \in Nat
  BY MathNumbers DEF StageInv, WaitedQ, QWaited, InTiles
<1>3. fullQ[n % NumQStages] \in {n \div NumQStages, (n \div NumQStages) + 1}
  BY <1>1, <1>2, RingSizes, ConsumerWait DEF StageInv, QRing
<1>4. fullQ[n % NumQStages] \in Nat /\ n \div NumQStages \in Nat
  BY <1>1, <1>2, RingSizes, StageAndUse DEF RingType
<1> QED BY <1>2, <1>3, <1>4, ParityIsExact DEF FilledExact, FilledBy, StageOf, UseOf

LEMMA KVFilledWait ==
  ASSUME TypeInv, StageInv, NEW w \in MathWarps, math[w].pc = "tiles",
         NEW n, n = KVUse(math[w], math[w].issued)
  PROVE  /\ FilledExact(fullKV[StageOf(n, NumKVStages)], n, NumKVStages)
         /\ n = WaitedKV[w]
<1>1. RingType(NumKVStages, MathWarps, IssuedKV, WaitedKV, ReleasedKV, fullKV, emptyKV, PendingKV)
  BY RingsTyped DEF StageInv
<1>2. n = WaitedKV[w] /\ n \in Nat
  BY MathNumbers DEF StageInv, WaitedKV, KVWaited, InTiles, KVUse
<1>3. fullKV[n % NumKVStages] \in {n \div NumKVStages, (n \div NumKVStages) + 1}
  BY <1>1, <1>2, RingSizes, ConsumerWait DEF StageInv, KVRing
<1>4. fullKV[n % NumKVStages] \in Nat /\ n \div NumKVStages \in Nat
  BY <1>1, <1>2, RingSizes, StageAndUse DEF RingType
<1> QED BY <1>2, <1>3, <1>4, ParityIsExact DEF FilledExact, FilledBy, StageOf, UseOf

\* The TMA thread keeps StageInv.
LEMMA TmaStageStep ==
  ASSUME TypeInv, StageInv, TmaStep
  PROVE  StageInv'
<1>1. /\ math' = math /\ fullQ' = fullQ /\ emptyQ' = emptyQ /\ fullKV' = fullKV
      /\ emptyKV' = emptyKV /\ flight' = flight
  BY DEF TmaStep, TmaPrefetch, TmaIssueQ, TmaIssueKV, TmaNextBlock
<1>2. /\ tma.iter \in Nat /\ tma.kv \in Nat /\ tma.total \in Nat /\ NumBlocks \in Nat
      /\ tma.iter \in 0 .. NumBlocks /\ (tma.pc = "kv" => tma.iter \in Block)
      /\ tma \in TmaRegs
  BY TmaNumbers DEF StageInv, TypeInv, TypeOK
<1>3. /\ WaitedQ' = WaitedQ /\ ReleasedQ' = ReleasedQ
      /\ WaitedKV' = WaitedKV /\ ReleasedKV' = ReleasedKV
  BY <1>1 DEF WaitedQ, ReleasedQ, WaitedKV, ReleasedKV
<1>4. \A w \in MathWarps : MathPlace(math[w])' /\ FlightHeld(math[w], flight[w])'
  BY <1>1 DEF StageInv
<1>5. ASSUME smemQ' = smemQ, IssuedQ' = IssuedQ PROVE QRing' /\ QHolds'
  <2>1. PendingQ' = PendingQ
    BY <1>5 DEF PendingQ
  <2> QED BY <1>1, <1>3, <1>5, <2>1 DEF StageInv, QRing, QHolds
<1>6. ASSUME smemKV' = smemKV, IssuedKV' = IssuedKV PROVE KVRing' /\ KVHolds'
  <2>1. PendingKV' = PendingKV
    BY <1>6 DEF PendingKV
  <2> QED BY <1>1, <1>3, <1>6, <2>1 DEF StageInv, KVRing, KVHolds
<1>7. \A w \in MathWarps : ReleasedQ[w] \in Nat
  BY MathNumbers DEF StageInv, ReleasedQ
<1>8. CASE TmaPrefetch
  <2>1. tma.pc = "prefetch" /\ tma.iter = 0 /\ IssuedQ = 0
        /\ tma' = [tma EXCEPT !.pc = "q"] /\ tma'.pc = "q" /\ tma'.iter = 0 /\ smemKV' = smemKV
    BY <1>8, <1>2 DEF TmaPrefetch, StageInv, TmaPlace, IssuedQ, TmaRegs
  <2>2. TmaPlace' /\ IssuedKV' = IssuedKV
    BY <1>2, <2>1 DEF StageInv, TmaPlace, IssuedKV, TmaRegs
  <2>3. QRing' /\ QHolds'
    <3>1. CASE NumBlocks > 0
      <4>1. IssuedQ' = IssuedQ + 1
        BY <1>2, <2>1, <3>1 DEF IssuedQ
      <4>2. smemQ' = StartCopy(smemQ, StageOf(IssuedQ, NumQStages), IssuedQ)
        <5>1. StageOf(0, NumQStages) = 0
          BY RingSizes DEF StageOf
        <5> QED BY <1>8, <2>1, <3>1, <5>1 DEF TmaPrefetch
      <4>3. \A w \in MathWarps : IssuedQ + 1 <= ReleasedQ[w] + NumQStages
        BY <1>7, <2>1, RingSizes
      <4> QED BY <1>1, <2>1, <3>1, <4>1, <4>2, <4>3, QFillStep
    <3>2. CASE NumBlocks = 0
      <4>1. IssuedQ' = IssuedQ /\ smemQ' = smemQ
        BY <1>8, <1>2, <2>1, <3>2 DEF TmaPrefetch, IssuedQ
      <4> QED BY <1>5, <4>1
    <3> QED BY <1>2, <3>1, <3>2
  <2> QED BY <1>4, <1>6, <2>1, <2>2, <2>3 DEF StageInv
<1>9. CASE TmaIssueQ
  <2> DEFINE next == tma.iter + 1
  <2>1. tma.pc = "q" /\ tma.iter < NumBlocks
        /\ tma' = [tma EXCEPT !.pc = "kv", !.kv = 0]
        /\ tma'.pc = "kv" /\ tma'.iter = tma.iter /\ tma'.kv = 0 /\ tma'.total = tma.total
        /\ smemKV' = smemKV /\ IssuedQ = next
        /\ ReleasedFor(emptyQ[StageOf(next, NumQStages)].done, next, NumQStages)
    BY <1>9, <1>2 DEF TmaIssueQ, IssuedQ, TmaRegs
  <2>2. TmaPlace' /\ IssuedKV' = IssuedKV
    <3>1. Tiles[tma.iter] \in Nat
      BY <1>2, <2>1, TilesType
    <3> QED BY <1>2, <2>1, <3>1 DEF StageInv, TmaPlace, IssuedKV
  <2>3. QRing' /\ QHolds'
    <3>1. CASE next < NumBlocks
      <4>1. IssuedQ' = IssuedQ + 1
        BY <1>2, <2>1, <3>1 DEF IssuedQ
      <4>2. smemQ' = StartCopy(smemQ, StageOf(IssuedQ, NumQStages), IssuedQ)
        BY <1>9, <2>1, <3>1 DEF TmaIssueQ
      <4>3. \A w \in MathWarps : IssuedQ + 1 <= ReleasedQ[w] + NumQStages
        BY <2>1, QReleaseWait
      <4> QED BY <1>1, <2>1, <3>1, <4>1, <4>2, <4>3, QFillStep
    <3>2. CASE ~(next < NumBlocks)
      <4>1. IssuedQ' = IssuedQ /\ smemQ' = smemQ
        BY <1>9, <1>2, <2>1, <3>2 DEF TmaIssueQ, IssuedQ
      <4> QED BY <1>5, <4>1
    <3> QED BY <3>1, <3>2
  <2> QED BY <1>4, <1>6, <2>1, <2>2, <2>3 DEF StageInv
<1>10. CASE TmaIssueKV
  <2>1. tma.pc = "kv" /\ tma.kv < Tiles[tma.iter] /\ tma' = [tma EXCEPT !.kv = @ + 1]
        /\ tma'.pc = "kv" /\ tma'.iter = tma.iter /\ tma'.kv = tma.kv + 1
        /\ tma'.total = tma.total /\ smemQ' = smemQ
        /\ IssuedKV = tma.total + tma.kv
    BY <1>10, <1>2 DEF TmaIssueKV, IssuedKV, TmaRegs
  <2>2. TmaPlace' /\ IssuedKV' = IssuedKV + 1 /\ IssuedQ' = IssuedQ
    <3>1. Tiles[tma.iter] \in Nat
      BY <1>2, <2>1, BlockPlaces
    <3> QED BY <1>2, <2>1, <3>1 DEF StageInv, TmaPlace, IssuedKV, IssuedQ
  <2>3. /\ smemKV' = StartCopy(smemKV, StageOf(IssuedKV, NumKVStages), tma.kv)
        /\ ReleasedFor(emptyKV[StageOf(IssuedKV, NumKVStages)].done, IssuedKV, NumKVStages)
    BY <1>10, <2>1 DEF TmaIssueKV
  <2>4. \A w \in MathWarps : IssuedKV + 1 <= ReleasedKV[w] + NumKVStages
    BY <2>1, <2>3, KVReleaseWait
  <2>5. KVRing' /\ KVHolds'
    BY <1>1, <2>1, <2>2, <2>3, <2>4, KVFillStep
  <2> QED BY <1>4, <1>5, <2>1, <2>2, <2>5 DEF StageInv
<1>11. CASE TmaNextBlock
  <2>1. tma.pc = "kv" /\ tma.kv = Tiles[tma.iter] /\ tma.iter \in Block
        /\ tma' = [tma EXCEPT !.pc = "q", !.iter = @ + 1, !.total = @ + Tiles[tma.iter]]
        /\ tma'.pc = "q" /\ tma'.iter = tma.iter + 1
        /\ tma'.total = tma.total + Tiles[tma.iter] /\ smemQ' = smemQ /\ smemKV' = smemKV
    BY <1>11, <1>2 DEF TmaNextBlock, TmaRegs
  <2>2. TmaPlace' /\ IssuedKV' = IssuedKV /\ IssuedQ' = IssuedQ
    <3>1. TilesBefore[tma.iter + 1] = TilesBefore[tma.iter] + Tiles[tma.iter]
          /\ tma.iter < NumBlocks /\ Tiles[tma.iter] \in Nat
      BY <2>1, BlockPlaces
    <3> QED BY <1>2, <2>1, <3>1 DEF StageInv, TmaPlace, IssuedKV, IssuedQ
  <2> QED BY <1>4, <1>5, <1>6, <2>1, <2>2 DEF StageInv
<1> QED BY <1>8, <1>9, <1>10, <1>11 DEF TmaStep

\* A math warp that goes to wait for the Q of its block.
LEMMA MathQStep ==
  ASSUME TypeInv, StageInv, NEW w \in MathWarps, MathWaitFree(w) \/ MathWaitQ(w)
  PROVE  StageInv'
<1> DEFINE m0 == math[w]
<1>1. /\ m0 \in MathRegs /\ m0.iter \in Nat /\ MathPlace(m0) /\ NumBlocks \in Nat
      /\ (m0.pc # "free" => m0.iter \in Block)
      /\ ReleasedQ[w] = m0.iter /\ WaitedQ[w] = QWaited(m0)
      /\ FlightHeld(m0, flight[w])
  BY MathNumbers, TilesType DEF StageInv, ReleasedQ, WaitedQ
<1>2. CASE MathWaitFree(w)
  <2> DEFINE m == [m0 EXCEPT !.pc = "q"]
  <2>1. /\ m0.pc = "free" /\ math' = [math EXCEPT ![w] = m] /\ flight' = flight
        /\ UNCHANGED <<tmaVars, emptyQ, emptyKV>>
    BY <1>2 DEF MathWaitFree
  <2>2. /\ m.pc = "q" /\ m.iter = m0.iter /\ m.total = m0.total
        /\ m.consumed = m0.consumed /\ m.issued = m0.issued
    BY <1>1 DEF MathRegs
  <2>3. MathPlace(m)
    BY <1>1, <2>2 DEF MathPlace, InTiles
  <2>4. /\ QWaited(m) = QWaited(m0) /\ KVWaited(m) = KVWaited(m0)
        /\ KVReleased(m) = KVReleased(m0) /\ FlightHeld(m, flight'[w])
    BY <1>1, <2>1, <2>2 DEF QWaited, KVWaited, KVReleased, InTiles, FlightHeld
  <2> HIDE DEF m
  <2> QED BY <2>1, <2>2, <2>3, <2>4, MathQuietStep
<1>3. CASE MathWaitQ(w)
  <2> DEFINE m == [m0 EXCEPT !.pc = "tiles", !.issued = 0, !.consumed = 0]
  <2>1. /\ m0.pc = "q" /\ math' = [math EXCEPT ![w] = m] /\ flight' = flight
        /\ UNCHANGED <<tmaVars, emptyQ, emptyKV>> /\ emptyQ' = emptyQ /\ emptyKV' = emptyKV
        /\ FilledBy(fullQ[StageOf(m0.iter, NumQStages)], m0.iter, NumQStages)
    BY <1>3 DEF MathWaitQ
  <2>2. /\ m.pc = "tiles" /\ m.iter = m0.iter /\ m.total = m0.total
        /\ m.consumed = 0 /\ m.issued = 0
    BY <1>1 DEF MathRegs
  <2>3. MathPlace(m)
    <3>1. Tiles[m0.iter] \in Nat
      BY <1>1, <2>1, BlockPlaces
    <3> QED BY <1>1, <2>2, <3>1 DEF MathPlace, InTiles, TilesDone
  <2>4. /\ QWaited(m) = m0.iter + 1 /\ KVWaited(m) = KVWaited(m0)
        /\ KVReleased(m) = KVReleased(m0) /\ FlightHeld(m, flight'[w])
    <3>1. m0.total \in Nat
      BY <1>1 DEF MathRegs
    <3>2. flight[w] = {}
      BY <1>1, <2>1 DEF FlightHeld
    <3> QED BY <1>1, <2>1, <2>2, <3>1, <3>2
            DEF QWaited, KVWaited, KVReleased, InTiles, FlightHeld, TilesDone
  <2>5. /\ fullQ[m0.iter % NumQStages] > m0.iter \div NumQStages /\ WaitedQ[w] = m0.iter
    BY <1>1, <2>1, QFilledWait DEF FilledExact, StageOf, UseOf
  <2>6. RingInv(NumQStages, MathWarps, IssuedQ, [WaitedQ EXCEPT ![w] = QWaited(m)],
                ReleasedQ, fullQ, emptyQ, PendingQ)
    <3>1. RingType(NumQStages, MathWarps, IssuedQ, WaitedQ, ReleasedQ, fullQ, emptyQ, PendingQ)
      BY RingsTyped DEF StageInv
    <3>2. RingInv(NumQStages, MathWarps, IssuedQ, WaitedQ, ReleasedQ, fullQ, emptyQ, PendingQ)
      BY DEF StageInv, QRing
    <3>3. QWaited(m) = m0.iter + 1 /\ m0.iter = WaitedQ[w]
      BY <2>4, <2>5
    <3>4. fullQ[m0.iter % NumQStages] > m0.iter \div NumQStages
      BY <2>5
    <3> QED BY ONLY <3>1, <3>2, <3>3, <3>4, w \in MathWarps, RingSizes, WaitStep
  <2>7. /\ [ReleasedQ EXCEPT ![w] = m.iter] = ReleasedQ
        /\ [WaitedKV EXCEPT ![w] = KVWaited(m)] = WaitedKV
        /\ [ReleasedKV EXCEPT ![w] = KVReleased(m)] = ReleasedKV
    BY <2>2, <2>4 DEF ReleasedQ, WaitedKV, ReleasedKV
  <2>8. RingInv(NumKVStages, MathWarps, IssuedKV, WaitedKV, ReleasedKV, fullKV, emptyKV, PendingKV)
    BY DEF StageInv, KVRing
  <2> HIDE DEF m
  <2> QED BY <2>1, <2>3, <2>4, <2>6, <2>7, <2>8, MathStageStep
<1> QED BY <1>2, <1>3

\* A math warp that issues, releases or stores a tile.
LEMMA MathTileStep ==
  ASSUME TypeInv, StageInv, NEW w \in MathWarps,
         IssueTile(w) \/ ReleaseTile(w) \/ StoreTile(w)
  PROVE  StageInv'
<1> DEFINE m0 == math[w]
<1>1. /\ m0 \in MathRegs /\ m0.iter \in Nat /\ MathPlace(m0) /\ m0.iter \in Block
      /\ m0.total \in Nat /\ m0.issued \in Nat /\ m0.consumed \in Nat
      /\ InTiles(m0) /\ m0.pc \in {"tiles", "store"}
      /\ ReleasedQ[w] = m0.iter /\ WaitedQ[w] = QWaited(m0)
      /\ ReleasedKV[w] = KVReleased(m0) /\ WaitedKV[w] = KVWaited(m0)
      /\ FlightHeld(m0, flight[w]) /\ Tiles[m0.iter] \in Nat
  <2>1. m0.pc \in {"tiles", "store"}
    BY DEF IssueTile, ReleaseTile, StoreTile
  <2>2. m0.iter \in Block
    BY <2>1, MathNumbers DEF StageInv
  <2> QED BY <2>1, <2>2, MathNumbers, BlockPlaces
          DEF StageInv, ReleasedQ, WaitedQ, ReleasedKV, WaitedKV, InTiles
<1>2. flight \in [MathWarps -> SUBSET Tile]
  BY DEF TypeInv, TypeOK
<1>3. RingType(NumKVStages, MathWarps, IssuedKV, WaitedKV, ReleasedKV, fullKV, emptyKV, PendingKV)
  BY RingsTyped DEF StageInv
<1>4. RingInv(NumKVStages, MathWarps, IssuedKV, WaitedKV, ReleasedKV, fullKV, emptyKV, PendingKV)
  BY DEF StageInv, KVRing
<1>5. RingInv(NumQStages, MathWarps, IssuedQ, WaitedQ, ReleasedQ, fullQ, emptyQ, PendingQ)
  BY DEF StageInv, QRing
<1>6. ASSUME NEW m, m.pc \in {"tiles", "store"}, m.iter = m0.iter
      PROVE  /\ QWaited(m) = QWaited(m0) /\ [WaitedQ EXCEPT ![w] = QWaited(m)] = WaitedQ
             /\ [ReleasedQ EXCEPT ![w] = m.iter] = ReleasedQ
  BY <1>1, <1>6 DEF QWaited, InTiles, WaitedQ, ReleasedQ
<1>7. CASE IssueTile(w)
  <2> DEFINE m == [m0 EXCEPT !.issued = @ + 1]
  <2>1. /\ m0.pc = "tiles" /\ math' = [math EXCEPT ![w] = m]
        /\ flight' = [flight EXCEPT ![w] = @ \cup {m0.issued}]
        /\ UNCHANGED tmaVars /\ emptyQ' = emptyQ /\ emptyKV' = emptyKV /\ IssueNext(m0)
        /\ FilledBy(fullKV[StageOf(KVUse(m0, m0.issued), NumKVStages)],
                    KVUse(m0, m0.issued), NumKVStages)
    BY <1>7 DEF IssueTile
  <2>2. /\ m.pc = "tiles" /\ m.iter = m0.iter /\ m.total = m0.total
        /\ m.consumed = m0.consumed /\ m.issued = m0.issued + 1
    BY <1>1, <2>1 DEF MathRegs
  <2>3. MathPlace(m)
    <3>1. m0.issued < Tiles[m0.iter] /\ m0.issued <= m0.consumed + 1
      BY <1>1, <2>1 DEF IssueNext
    <3> QED BY <1>1, <2>2, <3>1 DEF MathPlace, InTiles, TilesDone
  <2>4. /\ KVWaited(m) = KVWaited(m0) + 1 /\ KVReleased(m) = KVReleased(m0)
        /\ KVWaited(m0) \in Nat
    BY <1>1, <2>1, <2>2 DEF KVWaited, KVReleased, InTiles, TilesDone
  <2>5. FlightHeld(m, flight'[w])
    <3>1. m0.consumed <= m0.issued
      BY <1>1, <2>1 DEF MathPlace, TilesDone, InTiles
    <3>2. flight'[w] = flight[w] \cup {m0.issued}
      BY <1>2, <2>1
    <3>3. flight[w] \subseteq Nat
      BY <1>2 DEF Tile
    <3> QED BY <1>1, <2>1, <2>2, <3>1, <3>2, <3>3 DEF FlightHeld, TilesDone
  <2>6. /\ fullKV[KVWaited(m0) % NumKVStages] > KVWaited(m0) \div NumKVStages
        /\ KVWaited(m0) = WaitedKV[w]
    <3>1. KVUse(m0, m0.issued) = KVWaited(m0)
      BY <1>1 DEF KVUse, KVWaited
    <3> QED BY <2>1, <3>1, KVFilledWait DEF FilledExact, StageOf, UseOf
  <2>7. RingInv(NumKVStages, MathWarps, IssuedKV, [WaitedKV EXCEPT ![w] = KVWaited(m)],
                ReleasedKV, fullKV, emptyKV, PendingKV)
    <3>1. KVWaited(m) = KVWaited(m0) + 1
      BY <2>4
    <3> QED BY ONLY <1>3, <1>4, <2>6, <3>1, w \in MathWarps, RingSizes, WaitStep
  <2>8. [ReleasedKV EXCEPT ![w] = KVReleased(m)] = ReleasedKV
    BY <2>4 DEF ReleasedKV
  <2>9. \A v \in MathWarps : v # w => flight'[v] = flight[v]
    BY <1>2, <2>1
  <2> HIDE DEF m
  <2>10. /\ [WaitedQ EXCEPT ![w] = QWaited(m)] = WaitedQ
         /\ [ReleasedQ EXCEPT ![w] = m.iter] = ReleasedQ
    BY <1>6, <2>2
  <2> QED BY <1>5, <2>1, <2>3, <2>5, <2>7, <2>8, <2>9, <2>10, MathStageStep
<1>8. CASE ReleaseTile(w)
  <2> DEFINE m == [m0 EXCEPT !.pc = "store"]
             n == KVUse(m0, m0.consumed)
  <2>1. /\ m0.pc = "tiles" /\ math' = [math EXCEPT ![w] = m]
        /\ flight' = flight /\ m0.consumed < m0.issued
        /\ \A t \in flight[w] : t >= m0.issued - MayStayInFlight(m0)
        /\ UNCHANGED tmaVars /\ emptyQ' = emptyQ
        /\ emptyKV' = [emptyKV EXCEPT ![StageOf(n, NumKVStages)] = Arrive(@, w, MathWarps)]
    BY <1>8 DEF ReleaseTile
  <2>2. /\ m.pc = "store" /\ m.iter = m0.iter /\ m.total = m0.total
        /\ m.consumed = m0.consumed /\ m.issued = m0.issued
    BY <1>1 DEF MathRegs
  <2>3. MathPlace(m)
    BY <1>1, <2>1, <2>2 DEF MathPlace, InTiles, TilesDone
  <2>4. /\ n = KVReleased(m0) /\ KVReleased(m) = n + 1 /\ KVWaited(m) = KVWaited(m0)
        /\ n < KVWaited(m0)
    BY <1>1, <2>1, <2>2 DEF KVWaited, KVReleased, InTiles, TilesDone, KVUse
  <2>5. FlightHeld(m, flight'[w])
    <3>1. \A t \in flight[w] : t \in Nat /\ t >= m0.consumed + 1 /\ t < m0.issued
      <4>1. flight[w] \subseteq Nat
        BY <1>2 DEF Tile
      <4>2. m0.issued - MayStayInFlight(m0) = m0.consumed + 1
        BY <1>1 DEF MayStayInFlight
      <4> QED BY <1>1, <2>1, <4>1, <4>2 DEF FlightHeld
    <3> QED BY <1>1, <2>1, <2>2, <3>1 DEF FlightHeld, TilesDone
  <2>6. RingInv(NumKVStages, MathWarps, IssuedKV, WaitedKV,
                [ReleasedKV EXCEPT ![w] = KVReleased(m)], fullKV, emptyKV', PendingKV)
    <3>1. n = ReleasedKV[w] /\ n < WaitedKV[w] /\ KVReleased(m) = n + 1
      BY <1>1, <2>4
    <3>2. emptyKV' = [emptyKV EXCEPT ![n % NumKVStages] = Arrive(@, w, MathWarps)]
      BY <2>1 DEF StageOf
    <3> HIDE DEF n
    <3> QED BY ONLY <1>3, <1>4, <3>1, <3>2, w \in MathWarps, RingSizes, ReleaseStep
  <2>7. [WaitedKV EXCEPT ![w] = KVWaited(m)] = WaitedKV
    BY <2>4 DEF WaitedKV
  <2> HIDE DEF m
  <2>8. /\ [WaitedQ EXCEPT ![w] = QWaited(m)] = WaitedQ
        /\ [ReleasedQ EXCEPT ![w] = m.iter] = ReleasedQ
    BY <1>6, <2>2
  <2> QED BY <1>5, <2>1, <2>3, <2>5, <2>6, <2>7, <2>8, MathStageStep
<1>9. CASE StoreTile(w)
  <2> DEFINE m == [m0 EXCEPT !.pc = "tiles", !.consumed = @ + 1]
  <2>1. /\ m0.pc = "store" /\ math' = [math EXCEPT ![w] = m] /\ flight' = flight
        /\ UNCHANGED <<tmaVars, emptyQ, emptyKV>>
    BY <1>9 DEF StoreTile
  <2>2. /\ m.pc = "tiles" /\ m.iter = m0.iter /\ m.total = m0.total
        /\ m.consumed = m0.consumed + 1 /\ m.issued = m0.issued
    BY <1>1 DEF MathRegs
  <2>3. MathPlace(m)
    BY <1>1, <2>1, <2>2 DEF MathPlace, InTiles, TilesDone
  <2>4. /\ KVWaited(m) = KVWaited(m0) /\ KVReleased(m) = KVReleased(m0)
        /\ FlightHeld(m, flight'[w])
    BY <1>1, <2>1, <2>2 DEF KVWaited, KVReleased, InTiles, FlightHeld, TilesDone
  <2> HIDE DEF m
  <2>5. QWaited(m) = QWaited(m0)
    BY <1>6, <2>2
  <2> QED BY <2>1, <2>2, <2>3, <2>4, <2>5, MathQuietStep
<1> QED BY <1>7, <1>8, <1>9

\* A math warp that ends a block.
LEMMA MathBlockStep ==
  ASSUME TypeInv, StageInv, NEW w \in MathWarps,
         Publish(w) \/ MathWaitSelected(w) \/ ReleaseQ(w)
  PROVE  StageInv'
<1> DEFINE m0 == math[w]
<1>1. /\ m0 \in MathRegs /\ m0.iter \in Nat /\ MathPlace(m0) /\ m0.iter \in Block
      /\ m0.total \in Nat /\ m0.issued \in Nat /\ m0.consumed \in Nat
      /\ InTiles(m0) /\ m0.pc \in {"tiles", "serial", "releaseQ"}
      /\ ReleasedQ[w] = m0.iter /\ WaitedQ[w] = m0.iter + 1
      /\ FlightHeld(m0, flight[w]) /\ Tiles[m0.iter] \in Nat
  <2>1. m0.pc \in {"tiles", "serial", "releaseQ"}
    BY DEF Publish, MathWaitSelected, ReleaseQ
  <2>2. m0.iter \in Block
    BY <2>1, MathNumbers DEF StageInv
  <2> QED BY <2>1, <2>2, MathNumbers, BlockPlaces
          DEF StageInv, ReleasedQ, WaitedQ, QWaited, InTiles
<1>2. ASSUME m0.consumed = Tiles[m0.iter]
      PROVE  m0.issued = m0.consumed /\ (m0.pc = "tiles" => flight[w] = {})
  <2>1. m0.issued = m0.consumed
    BY <1>1, <1>2 DEF MathPlace, TilesDone
  <2>2. flight[w] \subseteq Nat
    BY DEF TypeInv, TypeOK, Tile
  <2> QED BY <1>1, <2>1, <2>2 DEF FlightHeld, TilesDone
<1>3. ASSUME NEW m \in MathRegs, m.pc \in {"serial", "releaseQ"}, m.iter = m0.iter,
             m.total = m0.total, m.issued = m0.issued, m.consumed = m0.consumed,
             m0.consumed = Tiles[m0.iter],
             math' = [math EXCEPT ![w] = m], flight' = flight,
             UNCHANGED <<tmaVars, emptyQ, emptyKV>>
      PROVE  StageInv'
  <2>1. MathPlace(m)
    BY <1>1, <1>2, <1>3 DEF MathPlace, InTiles, TilesDone
  <2>2. flight[w] = {}
    BY <1>1, <1>2, <1>3 DEF FlightHeld
  <2>3. /\ QWaited(m) = QWaited(m0) /\ KVWaited(m) = KVWaited(m0)
        /\ KVReleased(m) = KVReleased(m0) /\ FlightHeld(m, flight'[w])
    BY <1>1, <1>3, <2>2 DEF QWaited, KVWaited, KVReleased, InTiles, FlightHeld, TilesDone
  <2> QED BY <1>3, <2>1, <2>3, MathQuietStep
<1>4. CASE Publish(w)
  <2> DEFINE m == [m0 EXCEPT !.pc = IF Overlap THEN "releaseQ" ELSE "serial"]
  <2>1. /\ m0.consumed = Tiles[m0.iter] /\ math' = [math EXCEPT ![w] = m] /\ flight' = flight
        /\ UNCHANGED <<tmaVars, emptyQ, emptyKV>>
    BY <1>4 DEF Publish
  <2>2. /\ m \in MathRegs /\ m.pc \in {"serial", "releaseQ"} /\ m.iter = m0.iter
        /\ m.total = m0.total /\ m.issued = m0.issued /\ m.consumed = m0.consumed
    BY <1>1 DEF MathRegs
  <2> HIDE DEF m
  <2> QED BY <1>3, <2>1, <2>2
<1>5. CASE MathWaitSelected(w)
  <2> DEFINE m == [m0 EXCEPT !.pc = "releaseQ"]
  <2>1. /\ m0.pc = "serial" /\ math' = [math EXCEPT ![w] = m] /\ flight' = flight
        /\ UNCHANGED <<tmaVars, emptyQ, emptyKV>>
    BY <1>5 DEF MathWaitSelected
  <2>2. /\ m \in MathRegs /\ m.pc \in {"serial", "releaseQ"} /\ m.iter = m0.iter
        /\ m.total = m0.total /\ m.issued = m0.issued /\ m.consumed = m0.consumed
        /\ m0.consumed = Tiles[m0.iter]
    BY <1>1, <2>1 DEF MathRegs, MathPlace
  <2> HIDE DEF m
  <2> QED BY <1>3, <2>1, <2>2
<1>6. CASE ReleaseQ(w)
  <2> DEFINE m == [m0 EXCEPT !.pc = "free", !.iter = @ + 1, !.total = @ + Tiles[m0.iter]]
  <2>1. /\ m0.pc = "releaseQ" /\ math' = [math EXCEPT ![w] = m] /\ flight' = flight
        /\ UNCHANGED tmaVars /\ emptyKV' = emptyKV
        /\ emptyQ' = [emptyQ EXCEPT ![StageOf(m0.iter, NumQStages)] = Arrive(@, w, MathWarps)]
    BY <1>6 DEF ReleaseQ
  <2>2. /\ m.pc = "free" /\ m.iter = m0.iter + 1 /\ m.total = m0.total + Tiles[m0.iter]
        /\ m0.consumed = Tiles[m0.iter] /\ m0.issued = m0.consumed
    BY <1>1, <1>2, <2>1 DEF MathRegs, MathPlace
  <2>3. MathPlace(m)
    <3>1. /\ TilesBefore[m0.iter + 1] = TilesBefore[m0.iter] + Tiles[m0.iter]
          /\ m0.iter + 1 <= NumBlocks
      BY <1>1, BlockPlaces, TilesType
    <3> QED BY <1>1, <2>2, <3>1 DEF MathPlace, InTiles
  <2>4. /\ QWaited(m) = m0.iter + 1 /\ KVWaited(m) = KVWaited(m0)
        /\ KVReleased(m) = KVReleased(m0) /\ FlightHeld(m, flight'[w])
    <3>1. flight[w] = {}
      BY <1>1, <2>1 DEF FlightHeld
    <3> QED BY <1>1, <2>1, <2>2, <3>1
            DEF QWaited, KVWaited, KVReleased, InTiles, FlightHeld, TilesDone
  <2>5. RingInv(NumQStages, MathWarps, IssuedQ, WaitedQ,
                [ReleasedQ EXCEPT ![w] = m.iter], fullQ, emptyQ', PendingQ)
    <3>1. RingType(NumQStages, MathWarps, IssuedQ, WaitedQ, ReleasedQ, fullQ, emptyQ, PendingQ)
      BY RingsTyped DEF StageInv
    <3>2. RingInv(NumQStages, MathWarps, IssuedQ, WaitedQ, ReleasedQ, fullQ, emptyQ, PendingQ)
      BY DEF StageInv, QRing
    <3>3. m0.iter = ReleasedQ[w] /\ m0.iter < WaitedQ[w] /\ m.iter = m0.iter + 1
      BY <1>1, <2>2
    <3>4. emptyQ' = [emptyQ EXCEPT ![m0.iter % NumQStages] = Arrive(@, w, MathWarps)]
      BY <2>1 DEF StageOf
    <3> HIDE DEF m0, m
    <3> QED BY ONLY <3>1, <3>2, <3>3, <3>4, w \in MathWarps, RingSizes, ReleaseStep
  <2>6. /\ [WaitedQ EXCEPT ![w] = QWaited(m)] = WaitedQ
        /\ [WaitedKV EXCEPT ![w] = KVWaited(m)] = WaitedKV
        /\ [ReleasedKV EXCEPT ![w] = KVReleased(m)] = ReleasedKV
    BY <1>1, <2>4 DEF WaitedQ, WaitedKV, ReleasedKV
  <2>7. RingInv(NumKVStages, MathWarps, IssuedKV, WaitedKV, ReleasedKV, fullKV, emptyKV, PendingKV)
    BY DEF StageInv, KVRing
  <2> HIDE DEF m
  <2> QED BY <2>1, <2>3, <2>4, <2>5, <2>6, <2>7, MathStageStep
<1> QED BY <1>4, <1>5, <1>6

\* A copy that completes, and a WGMMA group that does.
LEMMA ArrivalStep ==
  ASSUME TypeInv, StageInv,
         (\E s \in QStage : QArrives(s)) \/ (\E s \in KVStage : KVArrives(s))
  PROVE  StageInv'
<1>1. /\ tma' = tma /\ math' = math /\ flight' = flight
      /\ emptyQ' = emptyQ /\ emptyKV' = emptyKV
  BY DEF QArrives, KVArrives
<1>2. /\ TmaPlace' /\ (\A w \in MathWarps : MathPlace(math[w])' /\ FlightHeld(math[w], flight[w])')
      /\ IssuedQ' = IssuedQ /\ WaitedQ' = WaitedQ /\ ReleasedQ' = ReleasedQ
      /\ IssuedKV' = IssuedKV /\ WaitedKV' = WaitedKV /\ ReleasedKV' = ReleasedKV
  BY <1>1 DEF StageInv, TmaPlace, IssuedQ, WaitedQ, ReleasedQ, IssuedKV, WaitedKV, ReleasedKV
<1>3. ASSUME NEW s \in QStage, QArrives(s) PROVE StageInv'
  <2>1. smemKV' = smemKV /\ fullKV' = fullKV /\ PendingKV' = PendingKV
    BY <1>3 DEF QArrives, PendingKV
  <2>2. KVRing' /\ KVHolds'
    BY <1>1, <1>2, <2>1 DEF StageInv, KVRing, KVHolds
  <2> QED BY <1>2, <1>3, <2>2, QCopyStep DEF StageInv
<1>4. ASSUME NEW s \in KVStage, KVArrives(s) PROVE StageInv'
  <2>1. smemQ' = smemQ /\ fullQ' = fullQ /\ PendingQ' = PendingQ
    BY <1>4 DEF KVArrives, PendingQ
  <2>2. QRing' /\ QHolds'
    BY <1>1, <1>2, <2>1 DEF StageInv, QRing, QHolds
  <2> QED BY <1>2, <1>4, <2>2, KVCopyStep DEF StageInv
<1> QED BY <1>3, <1>4

\* A step that leaves the rings and the registers of their users alone, and
\* commits no WGMMA group.
LEMMA ElsewhereStep ==
  ASSUME TypeInv, StageInv, UNCHANGED <<tmaVars, math, emptyQ, emptyKV>>,
         \A w \in MathWarps : flight'[w] \subseteq flight[w]
  PROVE  StageInv'
<1>1. /\ tma' = tma /\ math' = math /\ emptyQ' = emptyQ /\ emptyKV' = emptyKV
      /\ fullQ' = fullQ /\ fullKV' = fullKV /\ smemQ' = smemQ /\ smemKV' = smemKV
  BY DEF tmaVars
<1>2. /\ IssuedQ' = IssuedQ /\ WaitedQ' = WaitedQ /\ ReleasedQ' = ReleasedQ
      /\ IssuedKV' = IssuedKV /\ WaitedKV' = WaitedKV /\ ReleasedKV' = ReleasedKV
      /\ PendingQ' = PendingQ /\ PendingKV' = PendingKV
  BY <1>1 DEF IssuedQ, WaitedQ, ReleasedQ, IssuedKV, WaitedKV, ReleasedKV, PendingQ, PendingKV
<1>3. QRing' /\ KVRing' /\ QHolds' /\ KVHolds' /\ TmaPlace'
  BY <1>1, <1>2 DEF StageInv, QRing, KVRing, QHolds, KVHolds, TmaPlace
<1>4. \A w \in MathWarps : MathPlace(math[w])' /\ FlightHeld(math[w], flight[w])'
  BY <1>1 DEF StageInv, FlightHeld
<1> QED BY <1>3, <1>4 DEF StageInv

\* The discipline of the Q and KV rings, of what their stages hold, and of
\* what is in flight, is an invariant of the pipeline.
THEOREM StageCorrect == Spec => []StageInv
<1>1. Init => StageInv
  <2> SUFFICES ASSUME Init PROVE StageInv
    OBVIOUS
  <2>1. /\ NumBlocks \in Nat /\ TilesBefore[0] = 0 /\ tma.iter = 0 /\ tma.total = 0
        /\ tma.pc = "prefetch"
        /\ \A w \in MathWarps : /\ math[w].pc = "free" /\ math[w].iter = 0
                                /\ math[w].total = 0 /\ flight[w] = {}
    BY TilesType, BeforeSums DEF Init
  <2>2. TmaPlace /\ \A w \in MathWarps : MathPlace(math[w]) /\ FlightHeld(math[w], flight[w])
    BY <2>1 DEF TmaPlace, MathPlace, InTiles, FlightHeld
  <2>3. /\ IssuedQ = 0 /\ IssuedKV = 0
        /\ WaitedQ = [w \in MathWarps |-> 0] /\ ReleasedQ = [w \in MathWarps |-> 0]
        /\ WaitedKV = [w \in MathWarps |-> 0] /\ ReleasedKV = [w \in MathWarps |-> 0]
        /\ PendingQ = {} /\ PendingKV = {}
    BY <2>1 DEF Init, IssuedQ, IssuedKV, WaitedQ, ReleasedQ, WaitedKV, ReleasedKV,
                QWaited, KVWaited, KVReleased, InTiles, PendingQ, PendingKV, Stage
  <2>4. /\ fullQ = [s \in RingStage(NumQStages) |-> 0]
        /\ emptyQ = [s \in RingStage(NumQStages) |-> NewBarrier]
        /\ fullKV = [s \in RingStage(NumKVStages) |-> 0]
        /\ emptyKV = [s \in RingStage(NumKVStages) |-> NewBarrier]
    BY RingSizes DEF Init
  <2>5. QRing /\ KVRing
    BY <2>3, <2>4, RingSizes, RingStart DEF QRing, KVRing
  <2>6. QHolds /\ KVHolds
    <3>1. \A i \in Block : ~(i < IssuedQ)
      BY <2>3, BlockPlaces
    <3>2. \A i \in Block : \A t \in 0 .. Tiles[i] - 1 : ~(TilesBefore[i] + t < IssuedKV)
      BY <2>3, BlockPlaces
    <3> QED BY <3>1, <3>2 DEF QHolds, KVHolds
  <2> QED BY <2>2, <2>5, <2>6 DEF StageInv
<1>2. TypeInv /\ StageInv /\ [Next]_vars => StageInv'
  <2> SUFFICES ASSUME TypeInv, StageInv, [Next]_vars PROVE StageInv'
    OBVIOUS
  <2>1. CASE TmaStep
    BY <2>1, TmaStageStep
  <2>2. CASE (\E s \in QStage : QArrives(s)) \/ (\E s \in KVStage : KVArrives(s))
    BY <2>2, ArrivalStep
  <2>3. ASSUME NEW w \in MathWarps, MathStep(w) PROVE StageInv'
    BY <2>3, MathQStep, MathTileStep, MathBlockStep DEF MathStep
  <2>4. ASSUME NEW w \in MathWarps, WgmmaCompletes(w) PROVE StageInv'
    <3>1. /\ \A v \in MathWarps : flight'[v] \subseteq flight[v]
          /\ UNCHANGED <<tmaVars, math, emptyQ, emptyKV>>
      BY <2>4 DEF WgmmaCompletes, TypeInv, TypeOK
    <3> QED BY <3>1, ElsewhereStep
  <2>5. ASSUME NEW k \in TopKWarps, TopKStep(k) PROVE StageInv'
    <3>1. flight' = flight /\ UNCHANGED <<tmaVars, math, emptyQ, emptyKV>>
      BY <2>5 DEF TopKStep, TopKWaitReady, TopKRelease
    <3> QED BY <3>1, ElsewhereStep
  <2>6. CASE UNCHANGED vars
    <3>1. flight' = flight /\ UNCHANGED <<tmaVars, math, emptyQ, emptyKV>>
      BY <2>6 DEF vars, tmaVars
    <3> QED BY <3>1, ElsewhereStep
  <2> QED BY <2>1, <2>2, <2>3, <2>4, <2>5, <2>6 DEF Next, Terminating
<1> QED BY <1>1, <1>2, TypeCorrect, PTL DEF Spec

\* Every wait of the Q and KV rings is exact: no waiter is ever a whole ring
\* behind or ahead of the barrier whose parity it tests.
THEOREM StageWaits == Spec => []StageParityExact
<1>1. TypeInv /\ StageInv => StageParityExact
  BY QReleaseWait, KVReleaseWait, QFilledWait, KVFilledWait DEF StageParityExact
<1> QED BY <1>1, TypeCorrect, StageCorrect, PTL

\* The Q a warp works with, and a tile in flight, are in their stages.
LEMMA QHeld ==
  ASSUME TypeInv, StageInv, NEW w \in MathWarps, math[w].pc \in {"tiles", "store"}
  PROVE  smemQ[StageOf(math[w].iter, NumQStages)] = Stage(math[w].iter)
<1> DEFINE i == math[w].iter
<1>1. i \in Block /\ i \in Nat /\ ReleasedQ[w] = i /\ WaitedQ[w] = i + 1
  BY MathNumbers DEF StageInv, ReleasedQ, WaitedQ, QWaited, InTiles
<1>2. RingType(NumQStages, MathWarps, IssuedQ, WaitedQ, ReleasedQ, fullQ, emptyQ, PendingQ)
  BY RingsTyped DEF StageInv
<1>3. RingInv(NumQStages, MathWarps, IssuedQ, WaitedQ, ReleasedQ, fullQ, emptyQ, PendingQ)
  BY DEF StageInv, QRing
<1>4. IssuedQ - NumQStages <= i /\ i < IssuedQ /\ i % NumQStages \notin PendingQ
  <2>1. ReleasedQ[w] <= i /\ i < WaitedQ[w]
    BY <1>1
  <2> HIDE DEF i
  <2> QED BY ONLY <1>1, <1>2, <1>3, <2>1, w \in MathWarps, RingSizes, HeldStable
<1>5. smemQ[i % NumQStages] \in Filling(i)
  BY <1>1, <1>4 DEF StageInv, QHolds, StageOf
<1>6. i % NumQStages \in QStage
  BY <1>1, RingSizes, StageAndUse
<1>7. smemQ[i % NumQStages].copying = None
  BY <1>4, <1>6 DEF PendingQ
<1>8. i # None
  BY <1>1 DEF None
<1> QED BY <1>5, <1>7, <1>8 DEF Filling, Stage, StageOf

LEMMA TileHeld ==
  ASSUME TypeInv, StageInv, NEW w \in MathWarps, NEW t \in flight[w]
  PROVE  /\ math[w].pc \in {"tiles", "store"} /\ t \in Nat
         /\ TilesDone(math[w]) <= t /\ t < math[w].issued
         /\ smemKV[StageOf(KVUse(math[w], t), NumKVStages)] = Stage(t)
<1> DEFINE m == math[w]
           n == KVUse(m, t)
<1>1. m.pc \in {"tiles", "store"} /\ TilesDone(m) <= t /\ t < m.issued
  BY DEF StageInv, FlightHeld
<1>2. t \in Nat /\ m.total \in Nat /\ m.issued \in Nat /\ m.iter \in Block
  BY <1>1, MathNumbers DEF StageInv, TypeInv, TypeOK, Tile
<1>3. /\ n \in Nat /\ ReleasedKV[w] <= n /\ n < WaitedKV[w]
      /\ n = TilesBefore[m.iter] + t /\ t \in 0 .. Tiles[m.iter] - 1
  <2>1. TilesDone(m) \in Nat /\ MathPlace(m) /\ InTiles(m) /\ Tiles[m.iter] \in Nat
    BY <1>1, <1>2, MathNumbers, BlockPlaces DEF StageInv, InTiles
  <2> QED BY <1>1, <1>2, <2>1
          DEF MathPlace, KVUse, ReleasedKV, WaitedKV, KVReleased, KVWaited
<1>4. RingType(NumKVStages, MathWarps, IssuedKV, WaitedKV, ReleasedKV, fullKV, emptyKV, PendingKV)
  BY RingsTyped DEF StageInv
<1>5. RingInv(NumKVStages, MathWarps, IssuedKV, WaitedKV, ReleasedKV, fullKV, emptyKV, PendingKV)
  BY DEF StageInv, KVRing
<1>6. IssuedKV - NumKVStages <= n /\ n < IssuedKV /\ n % NumKVStages \notin PendingKV
  <2>1. n \in Nat /\ ReleasedKV[w] <= n /\ n < WaitedKV[w]
    BY <1>3
  <2> HIDE DEF n
  <2> QED BY ONLY <1>4, <1>5, <2>1, w \in MathWarps, RingSizes, HeldStable
<1>7. smemKV[n % NumKVStages] \in Filling(t)
  BY <1>2, <1>3, <1>6 DEF StageInv, KVHolds, StageOf
<1>8. n % NumKVStages \in KVStage
  BY <1>3, RingSizes, StageAndUse
<1>9. smemKV[n % NumKVStages].copying = None
  BY <1>6, <1>8 DEF PendingKV
<1>10. t # None
  BY <1>2 DEF None
<1>11. smemKV[n % NumKVStages] = Stage(t)
  BY <1>7, <1>9, <1>10 DEF Filling, Stage
<1> QED BY <1>1, <1>2, <1>11 DEF StageOf

\* While a WGMMA group is in flight its operands are the Q of the warp's own
\* block and the KV tile it was issued for, and no copy is writing either.
THEOREM OperandsHold == Spec => []OperandsStable
<1>1. TypeInv /\ StageInv => OperandsStable
  BY QHeld, TileHeld DEF OperandsStable
<1> QED BY <1>1, TypeCorrect, StageCorrect, PTL

-----------------------------------------------------------------------------
(* The accumulators and the candidate segments.                             *)

\* A warp's registers in a block, as the accumulators and segments need them.
LEMMA InTilesNumbers ==
  ASSUME TypeInv, StageInv, NEW w \in MathWarps, math[w].pc \in {"tiles", "store"}
  PROVE  LET m == math[w] IN
         /\ m \in MathRegs /\ m.iter \in Block /\ m.iter \in Nat
         /\ m.issued \in Nat /\ m.consumed \in Nat /\ Tiles[m.iter] \in Nat
         /\ TilesDone(m) <= m.issued /\ m.issued <= m.consumed + 2
         /\ m.issued <= Tiles[m.iter]
         /\ flight[w] \subseteq Nat /\ FlightHeld(m, flight[w])
<1>1. /\ math[w] \in MathRegs /\ math[w].iter \in Block
      /\ math[w].issued \in Nat /\ math[w].consumed \in Nat
  BY MathNumbers DEF StageInv
<1>2. math[w].iter \in Nat /\ Tiles[math[w].iter] \in Nat
  BY <1>1, BlockPlaces
<1>3. /\ TilesDone(math[w]) <= math[w].issued /\ math[w].issued <= math[w].consumed + 2
      /\ math[w].issued <= Tiles[math[w].iter] /\ FlightHeld(math[w], flight[w])
  BY DEF StageInv, MathPlace, InTiles
<1>4. flight[w] \subseteq Nat
  BY DEF TypeInv, TypeOK, Tile
<1> QED BY <1>1, <1>2, <1>3, <1>4

\* Issuing a tile tears the accumulator of the tile stored last, and leaves
\* that of a tile still to be stored.
LEMMA IssueKeepsResults ==
  ASSUME TypeInv, StageInv, NEW w \in MathWarps, IssueTile(w), Accumulated(w)
  PROVE  Accumulated(w)'
<1> DEFINE m0 == math[w]
           m  == [m0 EXCEPT !.issued = @ + 1]
<1>1. /\ m0.pc = "tiles" /\ IssueNext(m0)
      /\ math' = [math EXCEPT ![w] = m]
      /\ flight' = [flight EXCEPT ![w] = @ \cup {m0.issued}]
      /\ acc' = [acc EXCEPT ![w][m0.issued % 2] = <<Torn, Torn>>]
  BY DEF IssueTile
<1>2. /\ m0 \in MathRegs /\ m0.issued \in Nat /\ m0.consumed \in Nat
      /\ m0.issued <= m0.consumed + 1
  BY <1>1, InTilesNumbers DEF IssueNext
<1>3. /\ math'[w] = m /\ m.pc = "tiles" /\ m.iter = m0.iter /\ m.consumed = m0.consumed
      /\ m.issued = m0.issued + 1 /\ flight'[w] = flight[w] \cup {m0.issued}
  BY <1>1, <1>2 DEF MathRegs, TypeInv, TypeOK
<1>4. ASSUME NEW t \in m0.consumed .. (m0.issued + 1) - 1, t \notin flight'[w]
      PROVE  acc'[w][t % 2] = <<m0.iter, t>>
  <2>1. t \in m0.consumed .. m0.issued - 1 /\ t \notin flight[w] /\ t % 2 # m0.issued % 2
    BY <1>2, <1>3, <1>4
  <2>2. acc[w][t % 2] = <<m0.iter, t>>
    BY <1>1, <2>1 DEF Accumulated
  <2>3. acc'[w][t % 2] = acc[w][t % 2]
    BY <1>1, <2>1 DEF TypeInv, TypeOK
  <2> QED BY <2>2, <2>3
<1> HIDE DEF m
<1> QED BY <1>3, <1>4 DEF Accumulated

\* A group that completes leaves the result of its own tile of this block.
LEMMA WgmmaMakesResult ==
  ASSUME TypeInv, StageInv, NEW w \in MathWarps, WgmmaCompletes(w), Accumulated(w)
  PROVE  Accumulated(w)'
<1> DEFINE m == math[w]
<1>1. PICK u \in flight[w] :
        /\ flight' = [flight EXCEPT ![w] = @ \ {u}]
        /\ acc' = [acc EXCEPT ![w][u % 2] =
                     <<smemQ[StageOf(m.iter, NumQStages)].held,
                       smemKV[StageOf(KVUse(m, u), NumKVStages)].held>>]
        /\ math' = math
  BY DEF WgmmaCompletes
<1>2. /\ m.pc \in {"tiles", "store"} /\ u \in Nat /\ TilesDone(m) <= u /\ u < m.issued
      /\ smemKV[StageOf(KVUse(m, u), NumKVStages)] = Stage(u)
  BY TileHeld
<1>3. smemQ[StageOf(m.iter, NumQStages)] = Stage(m.iter)
  BY <1>2, QHeld
<1>4. /\ m.issued \in Nat /\ m.consumed \in Nat /\ m.issued <= m.consumed + 2
      /\ m.consumed <= u
  BY <1>2, InTilesNumbers DEF TilesDone
<1>5. u % 2 \in {0, 1} /\ acc'[w] = [acc[w] EXCEPT ![u % 2] = <<m.iter, u>>]
      /\ flight'[w] = flight[w] \ {u} /\ acc[w] \in [{0, 1} -> Result]
  <2>1. acc' = [acc EXCEPT ![w][u % 2] = <<m.iter, u>>]
    BY <1>1, <1>2, <1>3 DEF Stage
  <2>2. acc \in [MathWarps -> [{0, 1} -> Result]] /\ flight \in [MathWarps -> SUBSET Tile]
    BY DEF TypeInv, TypeOK
  <2>3. u % 2 \in {0, 1}
    BY <1>2
  <2> QED BY <1>1, <2>1, <2>2, <2>3
<1>6. ASSUME NEW t \in m.consumed .. m.issued - 1, t \notin flight'[w]
      PROVE  acc'[w][t % 2] = <<m.iter, t>>
  <2>1. CASE t = u
    BY <1>5, <2>1
  <2>2. CASE t # u
    <3>1. t \notin flight[w] /\ t % 2 # u % 2 /\ t % 2 \in {0, 1}
      BY <1>2, <1>4, <1>5, <1>6, <2>2
    <3>2. acc[w][t % 2] = <<m.iter, t>>
      BY <1>2, <3>1 DEF Accumulated
    <3> QED BY <1>5, <3>1, <3>2
  <2> QED BY <2>1, <2>2
<1> QED BY <1>1, <1>6 DEF Accumulated

\* The result a warp stores is that of the tile it has consumed last.
LEMMA StoresResult ==
  ASSUME TypeInv, StageInv, NEW w \in MathWarps, math[w].pc = "store", Accumulated(w)
  PROVE  Reduced(w) = <<math[w].iter, math[w].consumed>>
<1> DEFINE m == math[w]
<1>1. /\ m.issued \in Nat /\ m.consumed \in Nat /\ m.consumed < m.issued
      /\ m.consumed \notin flight[w]
  BY InTilesNumbers DEF TilesDone, FlightHeld
<1>2. acc[w][m.consumed % 2] = <<m.iter, m.consumed>>
  BY <1>1 DEF Accumulated
<1>3. smemQ[StageOf(m.iter, NumQStages)].held = m.iter
  <2>1. smemQ[StageOf(m.iter, NumQStages)] = Stage(m.iter)
    BY QHeld
  <2> QED BY <2>1 DEF Stage
<1> QED BY <1>2, <1>3 DEF Reduced

LEMMA StoreKeepsResults ==
  ASSUME TypeInv, StageInv, NEW w \in MathWarps, StoreTile(w), Accumulated(w), Stored(w)
  PROVE  Accumulated(w)' /\ Stored(w)'
<1> DEFINE m0 == math[w]
           m  == [m0 EXCEPT !.pc = "tiles", !.consumed = @ + 1]
           c  == CandidateSlot(m0.iter)
<1>1. /\ m0.pc = "store" /\ math' = [math EXCEPT ![w] = m] /\ flight' = flight /\ acc' = acc
      /\ segment' = [segment EXCEPT ![c][w][m0.consumed] = Reduced(w)]
  BY DEF StoreTile
<1>2. /\ m0 \in MathRegs /\ m0.issued \in Nat /\ m0.consumed \in Nat /\ m0.iter \in Nat
      /\ m0.consumed \in Tile
  <2>1. m0.consumed < m0.issued /\ m0.issued <= Tiles[m0.iter] /\ Tiles[m0.iter] <= MaxTiles
        /\ Tiles[m0.iter] \in Nat /\ MaxTiles \in Nat
    BY <1>1, InTilesNumbers, BlockPlaces, TilesType DEF TilesDone
  <2> QED BY <1>1, <2>1, InTilesNumbers DEF Tile
<1>3. /\ math'[w] = m /\ m.pc = "tiles" /\ m.iter = m0.iter /\ m.issued = m0.issued
      /\ m.consumed = m0.consumed + 1
  BY <1>1, <1>2 DEF MathRegs, TypeInv, TypeOK
<1>4. c \in Slot
  BY <1>2, BlockArithmetic
<1>5. segment'[c][w] = [segment[c][w] EXCEPT ![m0.consumed] = <<m0.iter, m0.consumed>>]
      /\ segment[c][w] \in [Tile -> Result]
  BY <1>1, <1>4, StoresResult DEF TypeInv, TypeOK
<1>6. ASSUME NEW t \in m0.consumed + 1 .. m0.issued - 1, t \notin flight[w]
      PROVE  acc[w][t % 2] = <<m0.iter, t>>
  BY <1>1, <1>2, <1>6 DEF Accumulated
<1>7. ASSUME NEW p \in 0 .. (m0.consumed + 1) - 1
      PROVE  segment'[c][w][p] = <<m0.iter, p>>
  <2>1. CASE p = m0.consumed
    BY <1>2, <1>5, <2>1
  <2>2. CASE p # m0.consumed
    <3>1. p \in 0 .. m0.consumed - 1
      BY <1>2, <2>2
    <3>2. segment[c][w][p] = <<m0.iter, p>> /\ segment'[c][w][p] = segment[c][w][p]
      <4>1. p \in Tile
        BY <1>2, <3>1, TilesType DEF Tile
      <4> QED BY <1>1, <1>5, <2>2, <3>1, <4>1 DEF Stored
    <3> QED BY <3>2
  <2> QED BY <2>1, <2>2
<1> HIDE DEF m
<1>8. Accumulated(w)'
  BY <1>1, <1>3, <1>6 DEF Accumulated
<1>9. Stored(w)'
  BY <1>3, <1>7 DEF Stored
<1> QED BY <1>8, <1>9

\* A step of w leaves the results of the other warps alone.
LEMMA OthersResults ==
  ASSUME TypeInv, NEW v \in MathWarps, Accumulated(v), Stored(v),
         math'[v] = math[v], flight'[v] = flight[v], acc'[v] = acc[v],
         \A c \in Slot : segment'[c][v] = segment[c][v]
  PROVE  Accumulated(v)' /\ Stored(v)'
<1>1. CandidateSlot(math[v].iter) \in Slot
  BY BlockArithmetic DEF TypeInv, TypeOK, MathRegs
<1>2. Accumulated(v)'
  BY DEF Accumulated
<1>3. segment'[CandidateSlot(math[v].iter)][v] = segment[CandidateSlot(math[v].iter)][v]
  BY <1>1
<1>4. Stored(v)'
  <2> SUFFICES ASSUME math[v].pc \in {"tiles", "store"}, NEW p \in 0 .. math[v].consumed - 1
               PROVE  segment'[CandidateSlot(math[v].iter)][v][p] = <<math[v].iter, p>>
    BY DEF Stored, CandidateSlot, StageOf
  <2> QED BY <1>3 DEF Stored
<1> QED BY <1>2, <1>4

\* A step of w that writes no result of its own.
LEMMA PlainMathStep ==
  ASSUME TypeInv, NEW w \in MathWarps, Accumulated(w), Stored(w),
         \/ MathWaitFree(w) \/ MathWaitQ(w) \/ ReleaseTile(w)
         \/ Publish(w) \/ MathWaitSelected(w) \/ ReleaseQ(w)
  PROVE  Accumulated(w)' /\ Stored(w)'
<1>1. flight' = flight /\ acc' = acc /\ segment' = segment
  BY DEF MathWaitFree, MathWaitQ, ReleaseTile, Publish, MathWaitSelected, ReleaseQ, slotVars
<1>2. math \in [MathWarps -> MathRegs] /\ math[w] \in MathRegs
  BY DEF TypeInv, TypeOK
<1>3. \/ math'[w].pc \notin {"tiles", "store"}
      \/ math'[w].consumed = 0 /\ math'[w].issued = 0
      \/ /\ math[w].pc \in {"tiles", "store"} /\ math'[w].iter = math[w].iter
         /\ math'[w].consumed = math[w].consumed /\ math'[w].issued = math[w].issued
  <2>1. CASE MathWaitFree(w)
    BY <1>2, <2>1 DEF MathWaitFree, MathRegs
  <2>2. CASE MathWaitQ(w)
    BY <1>2, <2>2 DEF MathWaitQ, MathRegs
  <2>3. CASE ReleaseTile(w)
    BY <1>2, <2>3 DEF ReleaseTile, MathRegs
  <2>4. CASE Publish(w)
    BY <1>2, <2>4 DEF Publish, MathRegs
  <2>5. CASE MathWaitSelected(w)
    BY <1>2, <2>5 DEF MathWaitSelected, MathRegs
  <2>6. CASE ReleaseQ(w)
    BY <1>2, <2>6 DEF ReleaseQ, MathRegs
  <2> QED BY <2>1, <2>2, <2>3, <2>4, <2>5, <2>6
<1>4. CASE math'[w].pc \notin {"tiles", "store"}
  BY <1>4 DEF Accumulated, Stored
<1>5. CASE math'[w].consumed = 0 /\ math'[w].issued = 0
  BY <1>5 DEF Accumulated, Stored
<1>6. CASE /\ math[w].pc \in {"tiles", "store"} /\ math'[w].iter = math[w].iter
           /\ math'[w].consumed = math[w].consumed /\ math'[w].issued = math[w].issued
  BY <1>1, <1>6 DEF Accumulated, Stored, CandidateSlot, StageOf
<1> QED BY <1>3, <1>4, <1>5, <1>6

\* Every step keeps what the accumulators and the segments being written hold.
LEMMA WarpResultsStep ==
  ASSUME TypeInv, StageInv, ResultInv, [Next]_vars, NEW v \in MathWarps
  PROVE  Accumulated(v)' /\ Stored(v)'
<1>0. /\ Accumulated(v) /\ Stored(v)
      /\ math \in [MathWarps -> MathRegs] /\ flight \in [MathWarps -> SUBSET Tile]
      /\ acc \in [MathWarps -> [{0, 1} -> Result]]
      /\ segment \in [Slot -> [MathWarps -> [Tile -> Result]]]
  BY DEF ResultInv, TypeInv, TypeOK
<1>1. CASE \/ TmaStep \/ (\E s \in QStage : QArrives(s)) \/ (\E s \in KVStage : KVArrives(s))
           \/ (\E k \in TopKWarps : TopKStep(k)) \/ UNCHANGED vars
  <2>1. math' = math /\ flight' = flight /\ acc' = acc /\ segment' = segment
    BY <1>1 DEF TmaStep, TmaPrefetch, TmaIssueQ, TmaIssueKV, TmaNextBlock, QArrives, KVArrives,
                TopKStep, TopKWaitReady, TopKRelease, vars, slotVars
  <2> QED BY <1>0, <2>1, OthersResults
<1>2. ASSUME NEW w \in MathWarps, MathStep(w) \/ WgmmaCompletes(w), v # w
      PROVE  Accumulated(v)' /\ Stored(v)'
  <2>1. \E m : math' = [math EXCEPT ![w] = m]
    <3>1. CASE WgmmaCompletes(w)
      <4>1. math' = [math EXCEPT ![w] = math[w]]
        BY <1>0, <3>1 DEF WgmmaCompletes
      <4> QED BY <4>1
    <3>2. CASE MathStep(w)
      BY <3>2 DEF MathStep, MathWaitFree, MathWaitQ, IssueTile, ReleaseTile, StoreTile,
                  Publish, MathWaitSelected, ReleaseQ
    <3> QED BY <1>2, <3>1, <3>2
  <2>2. flight'[v] = flight[v] /\ acc'[v] = acc[v]
    <3>1. CASE WgmmaCompletes(w)
      BY <1>0, <1>2, <3>1 DEF WgmmaCompletes
    <3>2. CASE IssueTile(w)
      BY <1>0, <1>2, <3>2 DEF IssueTile
    <3>3. CASE flight' = flight /\ acc' = acc
      BY <3>3
    <3> QED BY <1>2, <3>1, <3>2, <3>3
            DEF MathStep, MathWaitFree, MathWaitQ, ReleaseTile, StoreTile, Publish,
                MathWaitSelected, ReleaseQ
  <2>3. \A c \in Slot : segment'[c][v] = segment[c][v]
    <3>1. CASE StoreTile(w)
      BY <1>0, <1>2, <3>1 DEF StoreTile
    <3>2. CASE segment' = segment
      BY <3>2
    <3> QED BY <1>2, <3>1, <3>2
            DEF MathStep, MathWaitFree, MathWaitQ, IssueTile, ReleaseTile, Publish,
                MathWaitSelected, ReleaseQ, WgmmaCompletes, slotVars
  <2> QED BY <1>0, <1>2, <2>1, <2>2, <2>3, OthersResults
<1>3. CASE MathStep(v)
  <2>1. CASE IssueTile(v)
    <3>1. segment' = segment /\ math'[v].iter = math[v].iter
          /\ math'[v].consumed = math[v].consumed /\ math[v].pc = "tiles"
      BY <1>0, <2>1 DEF IssueTile, slotVars, MathRegs
    <3>2. Stored(v)'
      BY <1>0, <3>1 DEF Stored, CandidateSlot, StageOf
    <3> QED BY <1>0, <2>1, <3>2, IssueKeepsResults
  <2>2. CASE StoreTile(v)
    BY <1>0, <2>2, StoreKeepsResults
  <2> QED BY <1>0, <1>3, <2>1, <2>2, PlainMathStep DEF MathStep
<1>4. CASE WgmmaCompletes(v)
  <2>1. math' = math /\ segment' = segment
    BY <1>4 DEF WgmmaCompletes, slotVars
  <2>2. Stored(v)'
    BY <1>0, <2>1 DEF Stored
  <2> QED BY <1>0, <1>4, <2>2, WgmmaMakesResult
<1> QED BY <1>1, <1>2, <1>3, <1>4 DEF Next, Terminating

\* Every step keeps what the published slots hold.
LEMMA DeliveredStep ==
  ASSUME TypeInv, HandoffInv, StageInv, ResultInv, [Next]_vars,
         NEW w \in MathWarps, NEW c \in Slot
  PROVE  Delivered(w, c)'
<1>0. /\ Delivered(w, c) /\ SlotInv(c)
      /\ math \in [MathWarps -> MathRegs] /\ topk \in [TopKWarps -> TopKRegs]
      /\ segment \in [Slot -> [MathWarps -> [Tile -> Result]]]
      /\ counts \in [Slot -> [MathWarps -> Nat]]
      /\ free \in [Slot -> BarrierOver(TopKWarps)] /\ ready \in [Slot -> BarrierOver(MathWarps)]
  BY DEF ResultInv, HandoffInv, TypeInv, TypeOK
<1>a. free[c].done \in Nat /\ BlockOf(free[c].done, c) \in Int
  <2>1. free[c].done \in Nat
    BY <1>0 DEF BarrierOver
  <2>2. \A n \in Int : BlockOf(n, c) \in Int
    BY BlockArithmetic
  <2> QED BY <2>1, <2>2
<1>b. ASSUME free'[c].done = free[c].done, MathDone(w)' = MathDone(w),
             counts'[c][w] = counts[c][w], segment'[c][w] = segment[c][w]
      PROVE  Delivered(w, c)'
  BY <1>0, <1>b DEF Delivered, BlockOf
<1>1. CASE \/ TmaStep \/ (\E s \in QStage : QArrives(s)) \/ (\E s \in KVStage : KVArrives(s))
           \/ (\E k \in TopKWarps : TopKWaitReady(k)) \/ UNCHANGED vars
           \/ (\E v \in MathWarps : WgmmaCompletes(v))
  <2>1. math' = math /\ free' = free /\ counts' = counts /\ segment' = segment
    BY <1>1 DEF TmaStep, TmaPrefetch, TmaIssueQ, TmaIssueKV, TmaNextBlock, QArrives, KVArrives,
                TopKWaitReady, WgmmaCompletes, vars, slotVars
  <2> QED BY <1>b, <2>1 DEF MathDone
<1>2. ASSUME NEW v \in MathWarps, v # w, MathStep(v) PROVE Delivered(w, c)'
  <2>1. math'[w] = math[w] /\ free' = free
    BY <1>0, <1>2 DEF MathStep, MathWaitFree, MathWaitQ, IssueTile, ReleaseTile, StoreTile,
                      Publish, MathWaitSelected, ReleaseQ
  <2>2. counts'[c][w] = counts[c][w]
    <3>1. CASE Publish(v)
      BY <1>0, <1>2, <3>1 DEF Publish
    <3>2. CASE counts' = counts
      BY <3>2
    <3> QED BY <1>2, <3>1, <3>2
            DEF MathStep, MathWaitFree, MathWaitQ, IssueTile, ReleaseTile, StoreTile,
                MathWaitSelected, ReleaseQ, slotVars
  <2>3. segment'[c][w] = segment[c][w]
    <3>1. CASE StoreTile(v)
      BY <1>0, <1>2, <3>1 DEF StoreTile
    <3>2. CASE segment' = segment
      BY <3>2
    <3> QED BY <1>2, <3>1, <3>2
            DEF MathStep, MathWaitFree, MathWaitQ, IssueTile, ReleaseTile, Publish,
                MathWaitSelected, ReleaseQ, slotVars
  <2> QED BY <1>b, <2>1, <2>2, <2>3 DEF MathDone
<1>3. CASE \/ MathWaitFree(w) \/ MathWaitQ(w) \/ IssueTile(w) \/ ReleaseTile(w)
           \/ MathWaitSelected(w) \/ ReleaseQ(w)
  <2>1. free' = free /\ counts' = counts /\ segment' = segment
    BY <1>3 DEF MathWaitFree, MathWaitQ, IssueTile, ReleaseTile, MathWaitSelected, ReleaseQ,
                slotVars
  <2>2. math[w] \in MathRegs /\ math[w].iter + 1 \in Nat
    BY <1>0 DEF MathRegs
  <2>3. MathDone(w)' = MathDone(w)
    <3>1. CASE MathWaitFree(w)
      BY <1>0, <2>2, <3>1 DEF MathWaitFree, MathRegs, MathDone
    <3>2. CASE MathWaitQ(w)
      BY <1>0, <2>2, <3>2 DEF MathWaitQ, MathRegs, MathDone
    <3>3. CASE IssueTile(w)
      BY <1>0, <2>2, <3>3 DEF IssueTile, MathRegs, MathDone
    <3>4. CASE ReleaseTile(w)
      BY <1>0, <2>2, <3>4 DEF ReleaseTile, MathRegs, MathDone
    <3>5. CASE MathWaitSelected(w)
      BY <1>0, <2>2, <3>5 DEF MathWaitSelected, MathRegs, MathDone
    <3>6. CASE ReleaseQ(w)
      BY <1>0, <2>2, <3>6 DEF ReleaseQ, MathRegs, MathDone
    <3> QED BY <1>3, <3>1, <3>2, <3>3, <3>4, <3>5, <3>6
  <2> QED BY <1>b, <2>1, <2>3
<1>4. ASSUME StoreTile(w) \/ Publish(w)
      PROVE  LET i == math[w].iter d == CandidateSlot(i) IN
             /\ d \in Slot /\ i \in Nat /\ i = BlockOf(free[d].done, d) /\ free' = free
             /\ (d # c => i # BlockOf(free[c].done, c))
             /\ MathDone(w) = i /\ math[w].pc \in {"tiles", "store"}
  <2> DEFINE i == math[w].iter
             d == CandidateSlot(i)
  <2>1. math[w].pc \in {"tiles", "store"} /\ free' = free
    BY <1>4 DEF StoreTile, Publish
  <2>2. i \in Nat /\ d \in Slot
    BY <1>0, BlockArithmetic DEF MathRegs
  <2>3. i = BlockOf(ready[d].done, d) /\ ready[d].done = free[d].done
    BY <2>1 DEF HandoffInv, Writing, MayWrite
  <2>4. free[d].done \in Int /\ free[c].done \in Int
    BY <1>0, <2>2 DEF BarrierOver
  <2>5. d # c => i # BlockOf(free[c].done, c)
    <3>1. \A x, y \in Slot, m, n \in Int : BlockOf(m, x) = BlockOf(n, y) => x = y
      BY BlockArithmetic
    <3>2. i = BlockOf(free[d].done, d)
      BY <2>3
    <3> HIDE DEF i, d
    <3> QED BY <2>2, <2>4, <3>1, <3>2
  <2> QED BY <2>1, <2>2, <2>3, <2>5 DEF MathDone
<1>5. CASE StoreTile(w)
  <2> DEFINE d == CandidateSlot(math[w].iter)
  <2>1. MathDone(w)' = MathDone(w) /\ counts' = counts
    BY <1>0, <1>5 DEF StoreTile, MathRegs, MathDone
  <2>2. CASE d = c
    <3>1. ~(MathDone(w)' > BlockOf(free'[c].done, c))
      BY <1>4, <1>5, <2>1, <2>2
    <3> QED BY <3>1 DEF Delivered, BlockOf
  <2>3. CASE d # c
    <3>1. segment'[c] = segment[c]
      BY <1>0, <1>5, <2>3 DEF StoreTile
    <3> QED BY <1>4, <1>5, <1>b, <2>1, <3>1
  <2> QED BY <2>2, <2>3
<1>6. CASE Publish(w)
  <2> DEFINE i == math[w].iter
             d == CandidateSlot(i)
  <2>1. /\ MathDone(w)' = i + 1 /\ segment' = segment /\ math[w].pc = "tiles"
        /\ math[w].consumed = Tiles[i] /\ counts' = [counts EXCEPT ![d][w] = math[w].consumed]
    BY <1>0, <1>6 DEF Publish, MathRegs, MathDone
  <2>2. CASE d = c
    <3>1. BlockOf(free'[c].done, c) = i /\ counts'[c][w] = Tiles[i]
      BY <1>0, <1>4, <1>6, <2>1, <2>2
    <3>2. \A p \in 0 .. Tiles[i] - 1 : segment[c][w][p] = <<i, p>>
      BY <2>1, <2>2 DEF ResultInv, Stored
    <3> QED BY <2>1, <3>1, <3>2 DEF Delivered, BlockOf
  <2>3. CASE d # c
    <3>1. counts'[c] = counts[c] /\ free' = free
      BY <1>0, <1>4, <1>6, <2>1, <2>3
    <3>2. i # BlockOf(free[c].done, c) /\ MathDone(w) = i /\ i \in Nat
      BY <1>4, <1>6, <2>3
    <3>3. MathDone(w)' > BlockOf(free[c].done, c) => MathDone(w) > BlockOf(free[c].done, c)
      BY <1>a, <2>1, <3>2
    <3> QED BY <1>0, <2>1, <3>1, <3>3 DEF Delivered, BlockOf
  <2> QED BY <2>2, <2>3
<1>7. ASSUME NEW k \in TopKWarps, TopKRelease(k) PROVE Delivered(w, c)'
  <2> DEFINE d == CandidateSlot(topk[k].iter)
  <2>1. /\ math' = math /\ counts' = counts /\ segment' = segment
        /\ MathDone(w)' = MathDone(w) /\ ready' = ready
        /\ free' = [free EXCEPT ![d] = Arrive(@, k, TopKWarps)]
    BY <1>7 DEF TopKRelease, slotVars, MathDone
  <2>2. CASE free'[c].done = free[c].done
    BY <1>b, <2>1, <2>2
  <2>3. CASE free'[c].done # free[c].done
    <3>1. d = c /\ free'[c].done = free[c].done + 1
      <4>1. d = c
        BY <1>0, <2>1, <2>3
      <4>2. free'[c] = Arrive(free[c], k, TopKWarps) /\ free[c] \in BarrierOver(TopKWarps)
        BY <1>0, <2>1, <4>1
      <4> QED BY <2>3, <4>1, <4>2, ArriveCases
    <3>2. ready[c].done = free[c].done + 1
      BY <1>7, <3>1 DEF TopKRelease, Selecting, HandoffInv, MaySelect
    <3>3. ready[c].arrived = {}
      BY <1>0, <1>a, <3>2 DEF SlotInv
    <3>4. ~(MathDone(w) > BlockOf(free[c].done + 1, c))
      BY <1>0, <3>2, <3>3 DEF SlotInv, InStep
    <3> QED BY <2>1, <3>1, <3>4 DEF Delivered, BlockOf
  <2> QED BY <2>2, <2>3
<1> QED BY <1>1, <1>2, <1>3, <1>5, <1>6, <1>7 DEF Next, MathStep, TopKStep, Terminating

\* What the accumulators, the segments being written and the published slots
\* hold is an invariant of the pipeline.
THEOREM ResultsCorrect == Spec => []ResultInv
<1>1. Init => ResultInv
  <2> SUFFICES ASSUME Init PROVE ResultInv
    OBVIOUS
  <2>1. ASSUME NEW w \in MathWarps, NEW c \in Slot PROVE Delivered(w, c)
    <3>1. MathDone(w) = 0 /\ free[c].done = 0
      BY DEF Init, MathDone, NewBarrier
    <3>2. BlockOf(0, c) \in Nat
      BY PipelineAssumption DEF BlockOf, Slot
    <3>3. ~(MathDone(w) > BlockOf(free[c].done, c))
      BY <3>1, <3>2
    <3> QED BY <3>3 DEF Delivered
  <2>2. ASSUME NEW w \in MathWarps PROVE Accumulated(w) /\ Stored(w)
    BY DEF Init, Accumulated, Stored
  <2> QED BY <2>1, <2>2 DEF ResultInv
<1>2. TypeInv /\ HandoffInv /\ StageInv /\ ResultInv /\ [Next]_vars => ResultInv'
  BY WarpResultsStep, DeliveredStep DEF ResultInv
<1> QED BY <1>1, <1>2, TypeCorrect, HandoffCorrect, StageCorrect, PTL DEF Spec

\* A slot from which a Top-K warp may select is delivered by every math warp.
LEMMA SelectedComplete ==
  ASSUME TypeInv, HandoffInv, ResultInv, NEW k \in TopKWarps, MaySelect(k),
         NEW w \in MathWarps
  PROVE  LET i == topk[k].iter c == CandidateSlot(i) IN
         /\ counts[c][w] = Tiles[i]
         /\ \A p \in 0 .. Tiles[i] - 1 : segment[c][w][p] = <<i, p>>
<1> DEFINE i == topk[k].iter
           c == CandidateSlot(i)
<1>1. c \in Slot
  BY BlockArithmetic DEF TypeInv, TypeOK, TopKRegs
<1>2. free[c].done \in Nat /\ i = BlockOf(free[c].done, c) /\ ready[c].done = free[c].done + 1
  BY <1>1 DEF TypeInv, TypeOK, BarrierOver, MaySelect
<1>3. InStep(ready[c], w, MathDone(w), c)
  BY <1>1 DEF HandoffInv, SlotInv
<1>4. MathDone(w) > i
  BY <1>2, <1>3 DEF InStep
<1>5. Delivered(w, c)
  BY <1>1 DEF ResultInv
<1> QED BY <1>2, <1>4, <1>5 DEF Delivered

\* From the moment a Top-K warp starts selecting for a block until it frees
\* the slot, the slot holds, for every math warp, the count and the results
\* of all the tiles of that block and of no other.
THEOREM SelectionReads == Spec => []SelectionInput
<1>1. TypeInv /\ HandoffInv /\ ResultInv => SelectionInput
  <2> SUFFICES ASSUME TypeInv, HandoffInv, ResultInv, NEW k \in TopKWarps, Selecting(k),
                      NEW w \in MathWarps
               PROVE  LET i == topk[k].iter c == CandidateSlot(i) IN
                      /\ counts[c][w] = Tiles[i]
                      /\ \A p \in 0 .. Tiles[i] - 1 : segment[c][w][p] = <<i, p>>
    BY DEF SelectionInput
  <2> QED BY SelectedComplete DEF HandoffInv
<1> QED BY <1>1, TypeCorrect, HandoffCorrect, ResultsCorrect, PTL

-----------------------------------------------------------------------------
(* The candidate slots implement the queue of CandidateQueue.               *)

\* What the refinement mapping makes of the slots: the blocks every math warp
\* has published and the slowest Top-K warp has not freed, complete, in order.
QueueView ==
  /\ Published \in Nat /\ Freed \in Nat /\ Freed <= Published
  /\ \A w \in MathWarps : Published <= MathDone(w)
  /\ \E w \in MathWarps : Published = MathDone(w)
  /\ \A k \in TopKWarps : Freed <= topk[k].iter
  /\ \E k \in TopKWarps : Freed = topk[k].iter
  /\ \A j \in 1 .. Published - Freed :
       SlotContents(CandidateSlot(Freed + j - 1)) = Queue!Complete(Freed + j - 1)

\* The least of some numbers below NumBlocks counts the blocks below all of
\* them.
LEMMA LeastCounts ==
  ASSUME NEW P, P # {}, NEW f \in [P -> Nat], \A p \in P : f[p] <= NumBlocks,
         NEW S, S \subseteq Block, \A i \in Block : i \in S <=> \A p \in P : f[p] > i,
         NEW n, n = Cardinality(S)
  PROVE  n \in Nat /\ (\A p \in P : n <= f[p]) /\ \E p \in P : n = f[p]
<1>1. PICK p \in P : \A q \in P : f[p] <= f[q]
  <2> DEFINE T == {f[q] : q \in P}
  <2>1. PICK x \in T : \A y \in T : x <= y
    <3>1. T \in SUBSET Nat /\ T # {}
      OBVIOUS
    <3> HIDE DEF T
    <3> QED BY <3>1, HasLeast
  <2> QED BY <2>1
<1>2. f[p] \in Nat /\ f[p] <= NumBlocks /\ NumBlocks \in Nat
  BY TilesType
<1>3. S = 0 .. f[p] - 1
  <2>1. ASSUME NEW i \in Block, \A q \in P : f[q] > i PROVE i \in 0 .. f[p] - 1
    BY <1>2, <2>1 DEF Block
  <2>2. ASSUME NEW i \in 0 .. f[p] - 1 PROVE i \in Block /\ \A q \in P : f[q] > i
    BY <1>1, <1>2, <2>2 DEF Block
  <2> QED BY <2>1, <2>2
<1>4. Cardinality(0 .. f[p] - 1) = f[p]
  BY <1>2, FS_Interval
<1> QED BY <1>1, <1>2, <1>3, <1>4

\* No Top-K warp has freed more blocks than any math warp has published.
LEMMA TopKBehind ==
  ASSUME HandoffType, HandoffInv, NEW k \in TopKWarps, NEW w \in MathWarps
  PROVE  topk[k].iter <= MathDone(w)
<1> DEFINE n == topk[k].iter
           d == MathDone(w)
<1>1. n \in Nat /\ d \in Nat
  BY DEF HandoffType, TopKRegs, MathRegs, MathDone
<1> SUFFICES ASSUME n > 0 PROVE n <= d
  BY <1>1
<1>2. PICK b \in Nat : n = b + 1
  <2>1. n - 1 \in Nat /\ n = (n - 1) + 1
    BY <1>1
  <2> QED BY <2>1
<1> DEFINE c == CandidateSlot(b)
           u == UseOf(b, CandidateSlots)
           R == ready[c].done
           F == free[c].done
<1>3. c \in Slot /\ u \in Nat /\ b = BlockOf(u, c)
  BY BlockArithmetic
<1>4. R \in Nat /\ F \in Nat
  BY <1>3 DEF HandoffType, BarrierOver
<1>5. /\ k \in free[c].arrived <=> n > BlockOf(F, c)
      /\ n <= BlockOf(F + 1, c)
      /\ free[c].arrived # {} => R = F + 1
      /\ R \in {F, F + 1}
      /\ d > BlockOf(R - 1, c) \/ R = 0
  BY <1>3 DEF HandoffInv, SlotInv, InStep
<1> HIDE DEF n, d, c, u, R, F
<1>6. u <= F /\ (u = F => R = F + 1)
  <2>1. CASE CandidateSlots = 1
    BY <2>1, <1>1, <1>2, <1>3, <1>4, <1>5 DEF BlockOf, Slot
  <2>2. CASE CandidateSlots = 2
    BY <2>2, <1>1, <1>2, <1>3, <1>4, <1>5 DEF BlockOf, Slot
  <2> QED BY <2>1, <2>2, BlockArithmetic
<1>7. R # 0 /\ u <= R - 1
  BY <1>3, <1>4, <1>5, <1>6
<1>8. BlockOf(u, c) <= BlockOf(R - 1, c)
  <2>1. CASE CandidateSlots = 1
    BY <2>1, <1>3, <1>4, <1>7 DEF BlockOf, Slot
  <2>2. CASE CandidateSlots = 2
    BY <2>2, <1>3, <1>4, <1>7 DEF BlockOf, Slot
  <2> QED BY <2>1, <2>2, BlockArithmetic
<1>9. BlockOf(R - 1, c) \in Int
  BY <1>3, <1>4, BlockArithmetic
<1> QED BY <1>1, <1>2, <1>3, <1>5, <1>7, <1>8, <1>9

\* A block published by all and not freed by all is the block of its slot.
LEMMA WaitingBlock ==
  ASSUME HandoffType, HandoffInv, NEW b \in Nat, \A w \in MathWarps : MathDone(w) > b,
         NEW k \in TopKWarps, topk[k].iter <= b
  PROVE  b = BlockOf(free[CandidateSlot(b)].done, CandidateSlot(b))
<1> DEFINE c == CandidateSlot(b)
           u == UseOf(b, CandidateSlots)
           n == topk[k].iter
           R == ready[c].done
           F == free[c].done
<1>1. n \in Nat /\ \A w \in MathWarps : MathDone(w) \in Nat
  BY DEF HandoffType, TopKRegs, MathRegs, MathDone
<1>2. c \in Slot /\ u \in Nat /\ b = BlockOf(u, c)
  BY BlockArithmetic
<1>3. R \in Nat /\ F \in Nat
  BY <1>2 DEF HandoffType, BarrierOver
<1>4. PICK w \in MathWarps : TRUE
  BY PipelineAssumption
<1> DEFINE d == MathDone(w)
<1>5. /\ n > BlockOf(F - 1, c) \/ F = 0
      /\ R \in {F, F + 1}
      /\ ready[c].arrived # {} => R = F
      /\ w \in ready[c].arrived <=> d > BlockOf(R, c)
      /\ d <= BlockOf(R + 1, c)
  BY <1>2 DEF HandoffInv, SlotInv, InStep
<1>6. d \in Nat /\ d > b /\ n <= b
  BY <1>1
<1> HIDE DEF n, d, c, u, R, F
<1>7. u = F
  <2>1. CASE CandidateSlots = 1
    BY <2>1, <1>1, <1>2, <1>3, <1>5, <1>6 DEF BlockOf, Slot
  <2>2. CASE CandidateSlots = 2
    BY <2>2, <1>1, <1>2, <1>3, <1>5, <1>6 DEF BlockOf, Slot
  <2> QED BY <2>1, <2>2, BlockArithmetic
<1> QED BY <1>2, <1>7 DEF c, F

\* The refinement mapping's view of the slots.
LEMMA QueueViewHolds ==
  TypeInv /\ HandoffInv /\ StageInv /\ ResultInv => QueueView
<1> SUFFICES ASSUME TypeInv, HandoffInv, StageInv, ResultInv PROVE QueueView
  OBVIOUS
<1>1. HandoffType
  BY HandoffTyped
<1>2. ASSUME NEW w \in MathWarps
      PROVE  /\ MathDone(w) \in Nat /\ MathDone(w) <= NumBlocks
             /\ \A i \in Block : PublishedBy(w, i) <=> MathDone(w) > i
  <2>1. /\ math[w] \in MathRegs /\ math[w].iter \in Nat /\ NumBlocks \in Nat
        /\ math[w].iter <= NumBlocks /\ (math[w].pc # "free" => math[w].iter < NumBlocks)
    BY TilesType DEF TypeInv, TypeOK, MathRegs, StageInv, MathPlace, MathInBlock
  <2>2. ASSUME NEW i \in Block PROVE PublishedBy(w, i) <=> MathDone(w) > i
    <3>1. i \in Nat
      BY BlockPlaces
    <3> QED BY <2>1, <3>1 DEF PublishedBy, MathDone
  <2> QED BY <2>1, <2>2 DEF MathDone
<1>3. /\ Published \in Nat /\ (\A w \in MathWarps : Published <= MathDone(w))
      /\ \E w \in MathWarps : Published = MathDone(w)
  <2> DEFINE f == [w \in MathWarps |-> MathDone(w)]
  <2>1. f \in [MathWarps -> Nat] /\ \A w \in MathWarps : f[w] <= NumBlocks
    BY <1>2
  <2> DEFINE S == {i \in Block : \A w \in MathWarps : PublishedBy(w, i)}
  <2>2. S \subseteq Block /\ \A i \in Block : i \in S <=> \A w \in MathWarps : f[w] > i
    BY <1>2
  <2>3. Published = Cardinality(S)
    BY DEF Published
  <2>4. \A w \in MathWarps : f[w] = MathDone(w)
    OBVIOUS
  <2> HIDE DEF f, S
  <2>5. /\ Published \in Nat /\ (\A w \in MathWarps : Published <= f[w])
        /\ \E w \in MathWarps : Published = f[w]
    <3>1. MathWarps # {}
      BY PipelineAssumption
    <3> QED BY ONLY <2>1, <2>2, <2>3, <3>1, LeastCounts
  <2> QED BY <2>4, <2>5
<1>4. /\ Freed \in Nat /\ (\A k \in TopKWarps : Freed <= topk[k].iter)
      /\ \E k \in TopKWarps : Freed = topk[k].iter
  <2> DEFINE f == [k \in TopKWarps |-> topk[k].iter]
  <2>1. f \in [TopKWarps -> Nat] /\ \A k \in TopKWarps : f[k] <= NumBlocks
    <3>1. PICK w \in MathWarps : TRUE
      BY PipelineAssumption
    <3>2. ASSUME NEW k \in TopKWarps PROVE topk[k].iter \in Nat /\ topk[k].iter <= NumBlocks
      <4>1. topk[k].iter \in Nat
        BY DEF TypeInv, TypeOK, TopKRegs
      <4> QED BY <1>1, <1>2, <4>1, TopKBehind, TilesType
    <3> QED BY <3>2
  <2> DEFINE S == {i \in Block : \A k \in TopKWarps : topk[k].iter > i}
  <2>2. Freed = Cardinality(S)
    BY DEF Freed
  <2>3. \A k \in TopKWarps : f[k] = topk[k].iter
    OBVIOUS
  <2>5. S \subseteq Block /\ \A i \in Block : i \in S <=> \A k \in TopKWarps : f[k] > i
    OBVIOUS
  <2> HIDE DEF f, S
  <2>4. /\ Freed \in Nat /\ (\A k \in TopKWarps : Freed <= f[k])
        /\ \E k \in TopKWarps : Freed = f[k]
    <3>1. TopKWarps # {}
      BY PipelineAssumption
    <3> QED BY ONLY <2>1, <2>2, <2>5, <3>1, LeastCounts
  <2> QED BY <2>3, <2>4
<1>5. PICK k \in TopKWarps : Freed = topk[k].iter
  BY <1>4
<1>6. Freed <= Published
  BY <1>1, <1>3, <1>5, TopKBehind
<1>7. ASSUME NEW j \in 1 .. Published - Freed
      PROVE  SlotContents(CandidateSlot(Freed + j - 1)) = Queue!Complete(Freed + j - 1)
  <2> DEFINE b == Freed + j - 1
             c == CandidateSlot(b)
  <2>1. b \in Nat /\ Freed <= b /\ b < Published
    BY <1>3, <1>4
  <2>2. \A w \in MathWarps : MathDone(w) > b
    BY <1>2, <1>3, <2>1
  <2>3. b = BlockOf(free[c].done, c) /\ c \in Slot
    BY <1>1, <1>5, <2>1, <2>2, WaitingBlock, BlockArithmetic
  <2> HIDE DEF b, c
  <2>4. ASSUME NEW w \in MathWarps
        PROVE  {segment[c][w][p] : p \in 0 .. counts[c][w] - 1}
                 = {<<b, t>> : t \in 0 .. Tiles[b] - 1}
    <3>1. counts[c][w] = Tiles[b] /\ \A p \in 0 .. Tiles[b] - 1 : segment[c][w][p] = <<b, p>>
      BY <2>2, <2>3 DEF ResultInv, Delivered
    <3> QED BY <3>1
  <2>5. SlotContents(c) = Queue!Complete(b)
    BY <2>4 DEF SlotContents, Queue!Complete
  <2> QED BY <2>5 DEF b, c
<1> QED BY <1>3, <1>4, <1>6, <1>7 DEF QueueView

\* What a step does to the progress of the warps: one math warp publishes the
\* block it has written, one Top-K warp frees the block it has selected from,
\* or nobody's progress is changed.
LEMMA ProgressStep ==
  ASSUME TypeInv, HandoffInv, [Next]_vars
  PROVE  \/ /\ \A w \in MathWarps : MathDone(w)' = MathDone(w)
            /\ \A k \in TopKWarps : topk'[k].iter = topk[k].iter
         \/ \E w \in MathWarps :
              /\ MathDone(w)' = MathDone(w) + 1 /\ MathDone(w) < NumBlocks /\ MayWrite(w)
              /\ MathDone(w) = math[w].iter
              /\ \A v \in MathWarps \ {w} : MathDone(v)' = MathDone(v)
              /\ \A k \in TopKWarps : topk'[k].iter = topk[k].iter
         \/ \E k \in TopKWarps :
              /\ topk'[k].iter = topk[k].iter + 1 /\ MaySelect(k)
              /\ \A j \in TopKWarps \ {k} : topk'[j].iter = topk[j].iter
              /\ \A w \in MathWarps : MathDone(w)' = MathDone(w)
<1>0. math \in [MathWarps -> MathRegs] /\ topk \in [TopKWarps -> TopKRegs]
  BY DEF TypeInv, TypeOK
<1>1. CASE \/ TmaStep \/ (\E s \in QStage : QArrives(s)) \/ (\E s \in KVStage : KVArrives(s))
           \/ (\E w \in MathWarps : WgmmaCompletes(w)) \/ UNCHANGED vars
  <2>1. math' = math /\ topk' = topk
    BY <1>1 DEF TmaStep, TmaPrefetch, TmaIssueQ, TmaIssueKV, TmaNextBlock, QArrives, KVArrives,
                WgmmaCompletes, vars
  <2> QED BY <2>1 DEF MathDone
<1>2. ASSUME NEW w \in MathWarps,
             \/ MathWaitFree(w) \/ MathWaitQ(w) \/ IssueTile(w) \/ ReleaseTile(w)
             \/ StoreTile(w) \/ MathWaitSelected(w) \/ ReleaseQ(w),
             NEW v \in MathWarps
      PROVE  MathDone(v)' = MathDone(v) /\ topk' = topk
  <2>1. topk' = topk
    BY <1>2 DEF MathWaitFree, MathWaitQ, IssueTile, ReleaseTile, StoreTile, MathWaitSelected,
                ReleaseQ
  <2>2. CASE v # w
    <3>1. math'[v] = math[v]
      BY <1>0, <1>2, <2>2 DEF MathWaitFree, MathWaitQ, IssueTile, ReleaseTile, StoreTile,
                  MathWaitSelected, ReleaseQ
    <3> QED BY <2>1, <3>1 DEF MathDone
  <2>3. CASE v = w
    <3>0. math[w] \in MathRegs /\ math[w].iter + 1 \in Nat
      BY <1>0 DEF MathRegs
    <3>1. CASE MathWaitFree(w)
      BY <1>0, <2>1, <2>3, <3>0, <3>1 DEF MathWaitFree, MathRegs, MathDone
    <3>2. CASE MathWaitQ(w)
      BY <1>0, <2>1, <2>3, <3>0, <3>2 DEF MathWaitQ, MathRegs, MathDone
    <3>3. CASE IssueTile(w)
      BY <1>0, <2>1, <2>3, <3>0, <3>3 DEF IssueTile, MathRegs, MathDone
    <3>4. CASE ReleaseTile(w)
      BY <1>0, <2>1, <2>3, <3>0, <3>4 DEF ReleaseTile, MathRegs, MathDone
    <3>5. CASE StoreTile(w)
      BY <1>0, <2>1, <2>3, <3>0, <3>5 DEF StoreTile, MathRegs, MathDone
    <3>6. CASE MathWaitSelected(w)
      BY <1>0, <2>1, <2>3, <3>0, <3>6 DEF MathWaitSelected, MathRegs, MathDone
    <3>7. CASE ReleaseQ(w)
      BY <1>0, <2>1, <2>3, <3>0, <3>7 DEF ReleaseQ, MathRegs, MathDone
    <3> QED BY <1>2, <3>1, <3>2, <3>3, <3>4, <3>5, <3>6, <3>7
  <2> QED BY <2>2, <2>3
<1>3. ASSUME NEW w \in MathWarps, Publish(w)
      PROVE  /\ MathDone(w)' = MathDone(w) + 1 /\ MathDone(w) < NumBlocks /\ MayWrite(w)
             /\ MathDone(w) = math[w].iter
             /\ \A v \in MathWarps \ {w} : MathDone(v)' = MathDone(v)
             /\ topk' = topk
  <2>1. /\ math[w].pc = "tiles" /\ topk' = topk
        /\ math'[w].iter = math[w].iter /\ math'[w].pc \in {"serial", "releaseQ"}
        /\ \A v \in MathWarps \ {w} : math'[v] = math[v]
    BY <1>0, <1>3 DEF Publish, MathRegs
  <2>2. MathDone(w)' = math[w].iter + 1 /\ MathDone(w) = math[w].iter
    BY <1>0, <2>1 DEF MathDone, MathRegs
  <2>3. MathDone(w) < NumBlocks
    BY <2>1, <2>2 DEF TypeInv, MathInBlock
  <2>4. MayWrite(w)
    BY <2>1 DEF HandoffInv, Writing
  <2> QED BY <2>1, <2>2, <2>3, <2>4 DEF MathDone
<1>4. ASSUME NEW k \in TopKWarps, TopKWaitReady(k), NEW j \in TopKWarps
      PROVE  topk'[j].iter = topk[j].iter /\ math' = math
  BY <1>0, <1>4 DEF TopKWaitReady, TopKRegs
<1>5. ASSUME NEW k \in TopKWarps, TopKRelease(k)
      PROVE  /\ topk'[k].iter = topk[k].iter + 1 /\ MaySelect(k)
             /\ \A j \in TopKWarps \ {k} : topk'[j].iter = topk[j].iter
             /\ math' = math
  <2>1. MaySelect(k)
    BY <1>5 DEF TopKRelease, HandoffInv, Selecting
  <2> QED BY <1>0, <1>5, <2>1 DEF TopKRelease, TopKRegs
<1>6. CASE \E k \in TopKWarps : TopKStep(k)
  BY <1>4, <1>5, <1>6 DEF TopKStep, MathDone
<1>7. CASE \E w \in MathWarps : MathStep(w)
  BY <1>2, <1>3, <1>7 DEF MathStep
<1> QED BY <1>1, <1>6, <1>7 DEF Next, Terminating

\* A function on the first n positions is a sequence of length n.
LEMMA FunctionIsSeq ==
  ASSUME NEW S, NEW n \in Nat, NEW q \in [1 .. n -> S]
  PROVE  q \in Seq(S) /\ Len(q) = n
<1>1. q \in Seq(S)
  BY SeqDef
<1> QED BY <1>1, LenProperties

\* A step that no Top-K warp's or math warp's progress shows maps to a stutter,
\* the last publication of a block to Publish, the last release to Select.
LEMMA QueueStep ==
  ASSUME TypeInv, HandoffInv, QueueView, QueueView', TypeInv', HandoffInv', [Next]_vars
  PROVE  [Queue!Next]_(Queue!vars)
<1> DEFINE P == Published
           F == Freed
           Q == [j \in 1 .. P - F |-> SlotContents(CandidateSlot(F + j - 1))]
<1> USE DEF Queue!Next, Queue!vars
<1>1. /\ P \in Nat /\ F \in Nat /\ F <= P /\ P' \in Nat /\ F' \in Nat /\ F' <= P'
      /\ Q = [j \in 1 .. P - F |-> Queue!Complete(F + j - 1)]
      /\ Q' = [j \in 1 .. P' - F' |-> Queue!Complete(F' + j - 1)]
  BY DEF QueueView
<1>2. /\ \A w \in MathWarps : MathDone(w) \in Nat /\ MathDone(w)' \in Nat
      /\ \A k \in TopKWarps : topk[k].iter \in Nat /\ topk'[k].iter \in Nat
  BY DEF TypeInv, TypeOK, MathRegs, TopKRegs, MathDone
<1>3. /\ \A w \in MathWarps : P <= MathDone(w) /\ P' <= MathDone(w)'
      /\ (\E w \in MathWarps : P = MathDone(w)) /\ (\E w \in MathWarps : P' = MathDone(w)')
      /\ \A k \in TopKWarps : F <= topk[k].iter /\ F' <= topk'[k].iter
      /\ (\E k \in TopKWarps : F = topk[k].iter) /\ (\E k \in TopKWarps : F' = topk'[k].iter)
  BY DEF QueueView
<1> HIDE DEF P, F, Q
<1>4. ASSUME P' = P, F' = F PROVE [Queue!Next]_(Queue!vars)
  <2>1. Q' = Q
    BY <1>1, <1>4
  <2> QED BY <1>4, <2>1 DEF P, F, Q
<1>5. ASSUME \A w \in MathWarps : MathDone(w)' = MathDone(w) PROVE P' = P
  BY <1>1, <1>2, <1>3, <1>5
<1>6. ASSUME \A k \in TopKWarps : topk'[k].iter = topk[k].iter PROVE F' = F
  BY <1>1, <1>2, <1>3, <1>6
<1> DEFINE S == {Queue!Complete(i) : i \in Nat}
<1>7. Q \in [1 .. P - F -> S] /\ P - F \in Nat
  BY <1>1, SMTT(30)
<1> HIDE DEF S
<1>8. ASSUME NEW w \in MathWarps, MathDone(w)' = MathDone(w) + 1, MathDone(w) < NumBlocks,
             MayWrite(w), MathDone(w) = math[w].iter,
             \A v \in MathWarps \ {w} : MathDone(v)' = MathDone(v), F' = F, P' # P
      PROVE  Queue!Publish
  <2>1. P' = P + 1 /\ MathDone(w) = P
    BY <1>1, <1>2, <1>3, <1>8
  <2>2. P - F < CandidateSlots
    <3> DEFINE c == CandidateSlot(P)
               f == free[c].done
    <3>1. P = BlockOf(f, c) /\ c \in Slot /\ f \in Nat
      BY <1>1, <1>8, <2>1, BlockArithmetic DEF MayWrite, TypeInv, TypeOK, BarrierOver
    <3>2. PICK k \in TopKWarps : F = topk[k].iter
      BY <1>3
    <3>3. F > BlockOf(f - 1, c) \/ f = 0
      BY <3>1, <3>2 DEF HandoffInv, SlotInv, InStep
    <3> HIDE DEF c, f
    <3>4. CASE CandidateSlots = 1
      BY <1>1, <3>1, <3>3, <3>4 DEF BlockOf, Slot
    <3>5. CASE CandidateSlots = 2
      BY <1>1, <3>1, <3>3, <3>5 DEF BlockOf, Slot
    <3> QED BY <3>4, <3>5, BlockArithmetic
  <2>3. Q \in Seq(S) /\ Len(Q) = P - F
    BY <1>1, <1>7, FunctionIsSeq
  <2>4. Q' = Append(Q, Queue!Complete(P))
    <3>1. Append(Q, Queue!Complete(P))
            = [j \in 1 .. P - F + 1 |-> IF j = P - F + 1 THEN Queue!Complete(P) ELSE Q[j]]
      BY <1>1, <2>3
    <3>2. Q' = [j \in 1 .. P - F + 1 |-> Queue!Complete(F + j - 1)]
      BY <1>1, <1>8, <2>1
    <3>3. ASSUME NEW j \in 1 .. P - F + 1
          PROVE  Queue!Complete(F + j - 1)
                   = IF j = P - F + 1 THEN Queue!Complete(P) ELSE Q[j]
      <4>1. CASE j = P - F + 1
        <5>1. F + j - 1 = P
          BY <1>1, <4>1
        <5> QED BY <4>1, <5>1
      <4>2. CASE j # P - F + 1
        BY <1>1, <4>2
      <4> QED BY <4>1, <4>2
    <3> QED BY <3>1, <3>2, <3>3
  <2>5. P < NumBlocks
    BY <1>8, <2>1
  <2> QED BY <2>1, <2>2, <2>3, <2>4, <2>5 DEF Queue!Publish, P, F, Q
<1>9. ASSUME NEW k \in TopKWarps, topk'[k].iter = topk[k].iter + 1, MaySelect(k),
             \A j \in TopKWarps \ {k} : topk'[j].iter = topk[j].iter, P' = P, F' # F
      PROVE  Queue!Select
  <2>1. F' = F + 1 /\ topk[k].iter = F
    <3>1. PICK j \in TopKWarps : F = topk[j].iter
      BY <1>3
    <3>2. F' <= topk'[j].iter /\ F <= topk[k].iter
      BY <1>3
    <3>3. PICK l \in TopKWarps : F' = topk'[l].iter
      BY <1>3
    <3>4. F <= topk[l].iter /\ topk[l].iter \in Nat /\ topk[j].iter \in Nat
          /\ topk[k].iter \in Nat
      BY <1>2, <1>3
    <3>5. topk'[l].iter \in {topk[l].iter, topk[l].iter + 1}
      BY <1>9
    <3>6. F <= F' /\ F' \in Nat /\ F \in Nat /\ F' # F
      BY <1>1, <1>9, <3>3, <3>4, <3>5, SMTT(30)
    <3>7. ASSUME j # k PROVE FALSE
      <4>1. topk'[j].iter = topk[j].iter
        BY <1>9, <3>7
      <4> QED BY <3>1, <3>2, <3>6, <4>1
    <3>8. topk'[k].iter = topk[k].iter + 1
      BY <1>9
    <3>9. F' <= topk'[k].iter /\ F = topk[k].iter
      BY <1>3, <3>1, <3>7
    <3> QED BY <3>6, <3>8, <3>9
  <2>2. F < P
    BY <1>1, <1>9, <2>1
  <2>3. Q \in Seq(S) /\ Len(Q) = P - F /\ Q # <<>>
    <3>1. Q \in Seq(S) /\ Len(Q) = P - F
      BY <1>7, FunctionIsSeq
    <3>2. Len(Q) # 0
      BY <1>1, <2>2, <3>1
    <3> QED BY <3>1, <3>2, EmptySeq
  <2>4. Q' = Tail(Q)
    <3>1. /\ Tail(Q) \in [1 .. P - F - 1 -> S]
          /\ \A j \in 1 .. P - F - 1 : Tail(Q)[j] = Q[j + 1]
      BY <1>1, <2>3, HeadTailProperties, LenProperties
    <3>2. Q' = [j \in 1 .. P - F - 1 |-> Queue!Complete(F + 1 + j - 1)]
      BY <1>1, <1>9, <2>1
    <3>3. ASSUME NEW j \in 1 .. P - F - 1 PROVE Q[j + 1] = Queue!Complete(F + 1 + j - 1)
      <4>1. j + 1 \in 1 .. P - F /\ F + (j + 1) - 1 = F + 1 + j - 1
        BY <1>1
      <4> QED BY <1>1, <4>1
    <3> QED BY <3>1, <3>2, <3>3
  <2> QED BY <1>9, <2>3, <2>4 DEF Queue!Select, P, F, Q
<1> QED BY <1>4, <1>5, <1>6, <1>8, <1>9, ProgressStep

\* Blocks reach selection in order, complete, each exactly once, and at most
\* CandidateSlots of them wait: the pipeline implements CandidateQueue.
THEOREM QueueImplemented == Spec => ImplementsQueue
<1>1. Init => Queue!Init
  <2> SUFFICES ASSUME Init PROVE Queue!Init
    OBVIOUS
  <2>1. PICK w \in MathWarps, k \in TopKWarps : math[w].iter = 0 /\ math[w].pc = "free"
                                                /\ topk[k].iter = 0
    BY PipelineAssumption DEF Init
  <2>2. {i \in Block : \A v \in MathWarps : PublishedBy(v, i)} = {}
    BY <2>1, BlockPlaces DEF PublishedBy
  <2>3. {i \in Block : \A j \in TopKWarps : topk[j].iter > i} = {}
    BY <2>1, BlockPlaces
  <2>4. Published = 0 /\ Freed = 0
    BY <2>2, <2>3, FS_EmptySet DEF Published, Freed
  <2> QED BY <2>4 DEF Queue!Init
<1>2. TypeInv /\ HandoffInv /\ QueueView /\ QueueView' /\ TypeInv' /\ HandoffInv' /\ [Next]_vars
        => [Queue!Next]_(Queue!vars)
  BY QueueStep
<1> QED BY <1>1, <1>2, TypeCorrect, HandoffCorrect, StageCorrect, ResultsCorrect,
           QueueViewHolds, PTL DEF Spec, Queue!Spec, ImplementsQueue
=============================================================================
