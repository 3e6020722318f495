------------------------------ MODULE MCKernels -----------------------------
(* Three parts of the kernels, side by side: one behaviour is one part's, the *)
(* others rest.                                                              *)
EXTENDS CandidateStorage, RepairProducer, SampledThreshold, SequencesExt

---------------------------------------------------------------------------
(* Storage: the first and the last warp, the first, a middle and the last    *)
(* tile of the longest context, segments of three places and a spill of two: *)
(* one batch is split between them, and two of the longer ones overflow both. *)

MCTiles   == {0, 2, MaxContext \div BlockKV - 1}
MCBatches == {<<15>>, <<0, 9, 7>>}

---------------------------------------------------------------------------
(* Repair producer: chunks of up to 56 keys, which are seven tiles, that fill *)
(* every segment or end inside a tile; rows that begin and end anywhere, end  *)
(* beyond the chunk, or miss it.                                             *)

Of(first, second) == [r \in PairRow |-> IF r = 0 THEN first ELSE second]
Scan(columns, starts, ends, flags) ==
  [columns |-> columns, start |-> starts, end |-> ends, flag |-> flags]
Flags == [PairRow -> BOOLEAN]
MCRowPairs ==
  {Scan(56, Of(0, 3), Of(56, 50), f) : f \in Flags \ {Of(FALSE, FALSE)}}
  \cup {Scan(45, Of(9, 0), Of(19, 60), f) : f \in Flags}
  \cup {Scan(30, Of(0, 28), Of(0, 30), f) : f \in Flags}
  \cup {Scan(20, Of(0, 0), Of(0, 0), f) : f \in Flags}

---------------------------------------------------------------------------
(* Sampled threshold: a row of seven keys, four of them sampled, with every   *)
(* score or none, every range of the row and every rank.                     *)

MCSampleIds == <<0, 2, 3, 6>>
MCKeys == {<<3, 1, 1, 2>>, <<1, 1, 1, 1>>, <<2, 3, 3, 3>>, <<NotFinite, 1, 3, 2>>,
           <<2, NotFinite, NotFinite, 3>>, <<1, 2, 3, 3>>}
MCSamplings ==
  {[start |-> s, end |-> e, ids |-> MCSampleIds, rank |-> n,
    key |-> [p \in 0..6 |-> IF p \in {0, 2, 3, 6}
                            THEN k[CHOOSE i \in 1..4 : MCSampleIds[i] = p] ELSE 1]] :
     s \in {0, 1, 3}, e \in {2, 4, 7}, n \in 1..4, k \in MCKeys}

---------------------------------------------------------------------------
(* One part at a time *)

VARIABLE active
mcVars == <<active, vars, producerVars, thresholdVars>>

StorageRests ==
  /\ scores = [r \in Rows |-> [i \in Index |-> 1]] /\ spill = [r \in Rows |-> [i \in Spill |-> <<1, 0>>]]
  /\ Init
ProducerRests ==
  /\ pair = Scan(20, Of(0, 0), Of(0, 0), Of(FALSE, FALSE))
  /\ tma = [pc |-> "done", tile |-> 0]
  /\ mathWarp = [w \in MathWarp |-> [pc |-> "done"]] /\ running = {}
  /\ qStage = [s \in QRing |-> Holding(Nothing, {})]
  /\ kvStage = [s \in KVRing |-> Holding(Nothing, {})]
  /\ fullQ = <<>> /\ fullKV = <<>> /\ emptyQ = <<>> /\ emptyKV = <<>>
  /\ produced = [r \in PairRow |-> [w \in MathWarp |-> {}]] /\ segmentCounts = <<>>
ThresholdRests ==
  /\ sampling = [start |-> 0, end |-> 0] /\ gathered = <<>>
  /\ warp = [w \in Warp |-> [pc |-> "done"]] /\ entered = [w \in Warp |-> 0]
  /\ histogram = <<>> /\ shared = <<>> /\ threshold = MinusInfinity

MCInit ==
  \/ active = "storage" /\ ProducerRests /\ ThresholdRests /\ Init
  \/ active = "producer" /\ StorageRests /\ ThresholdRests /\ ProducerInit
  \/ active = "threshold" /\ StorageRests /\ ProducerRests /\ ThresholdInit

MCNext ==
  \/ active = "storage" /\ Next /\ UNCHANGED <<active, producerVars, thresholdVars>>
  \/ active = "producer" /\ ProducerNext /\ UNCHANGED <<active, vars, thresholdVars>>
  \/ active = "threshold" /\ ThresholdNext /\ UNCHANGED <<active, vars, producerVars>>

MCSpec == MCInit /\ [][MCNext]_mcVars /\ ProducerFair /\ ThresholdFair

\* The warps that take part end: no role of the producer waits for ever at a
\* barrier, and no warp of the pre-pass is left at a round of __syncthreads.
KernelsEnd == <>(ProducerEnded /\ ThresholdEnded)
=============================================================================
