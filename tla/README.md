# FusedIndexTopK: TLA+ models and proofs

The repository computes, on one Hopper GPU, the exact Top-2048 key positions of
every query row of the DeepSeek V3.2 indexer without writing the dense score
matrix, and carries a framework that checks and measures that operator and
turns measurements into evidence. Two things can go wrong that a test hardly
reaches: the kernels meet only at barriers (a wrong phase or a missing round
shows up in one interleaving of thousands), and the measuring processes share
files and a GPU and may fail, be interrupted or be killed at any step.

This directory holds TLA+ modules of these components, TLC configurations that
check them on small instances, and TLAPS proofs of the properties that matter
most. Paths below are relative to `src/`; `csrc` stands for
`src/fused_index_topk/kernel/csrc`, `py` for `src/fused_index_topk`.

Contents: 1 inventory, 2 modules and how they correspond to the code, 3 runs,
4 fairness, 5 proofs, 6 where code and text disagree, 7 what is not modelled,
8 plan.

## 1. Inventory of the system

### The operator (CUDA, and the host code that launches it)

**Fused pipeline** (`csrc/include/fused_index_topk/long_fused_topk.cuh`). One
persistent CTA has three roles: an elected TMA thread copies Q and KV tiles to
shared-memory stages; eight math warps multiply them with asynchronous WGMMA,
drop scores below a sampled threshold and append the rest to the candidate slot
of the block; three Top-K warps select from a published slot. State: rings of 2
or 3 Q stages, 3 KV stages and 1 or 2 candidate slots, an empty and a full (or
free and ready) transaction barrier per entry, the WGMMA groups in flight, the
counts and candidates of a slot. The roles meet only at barriers, and a wait
names only the *parity* of a phase, so a role one lap ahead or behind would pass
silently. Correct when no buffer is written while it is read, when a slot is
published only complete, when blocks are selected in order, once each, and when
nobody waits for ever.

**Row selection** (`csrc/include/fused_index_topk/long_cta_topk.cuh`,
`select_row`). 96 threads radix-select the K best candidates of a row in four
digit rounds, using shared counts, histogram, threshold, rank and counters,
between rounds of one named barrier that is joined from many places in the code.
A row that lost candidates (segment and spill full) or has too few is flagged.
Correct when all warps always join the same round, when shared fields have one
writer between two rounds, and when every row is exact or flagged.

**Pair selection** (`csrc/long_context_repair.cu`, `radix_select_score`,
`select_topk_pairs`). The same idea for the repair: a histogram selection over
score/position pairs in shared memory, with counters that are reused inside one
row and from row to row, and an error when too few pairs count.

**Exact repair** (`csrc/long_context_repair.cu`, `py/kernel/plugin.py`). Flagged
rows are computed again in chunks of the keys: chunk ranges, a masked producer,
a local Top-K, a merge into an accumulator, and a final commit that clears the
flag. State: device buffers allocated once by `prepare`, never initialised, and
used by every call. The same launches are enqueued whatever the rows need; every
kernel masks itself. Correct when the operator is the exact Top-K whatever rows
were flagged and whatever the buffers held, and when unflagged rows come out
untouched.

**Repair producer** (`csrc/repair`). One CTA per pair of rows scans a chunk of the
keys for both and emits the flagged ones: a TMA thread, a ring of three KV
stages filled by two copies each, sixteen math warps with a segment each and
one WGMMA group at a time. It has a barrier protocol of its own, and shares a
scan between a row that is repaired and one that is not. Correct when each
segment holds exactly its warp's share of the flagged rows, scored from the
tiles it says, and when the scan ends.
**Sampled threshold** (`csrc/sampling_threshold.cu`, `py/kernel/sampling.py`).
Estimates a threshold from a sample: `docs/ARCHITECTURE.md` says "Sampling
changes only the amount of fast-path work: it never changes the exact result."
Four warps select the score of a guarded rank byte by byte between rounds of
`__syncthreads`, and return in between when too few samples are valid. Correct
when all return together and when the rank asked for, ties included, reaches
the threshold: one that is too high makes rows fail that need not.
**Host plugin and bindings.** Shapes, JIT builds, workspaces, launch order.

### The framework (Python and shell)

**Artifacts** (`py/artifacts.py`). `write_json_atomic`: serialise, make the
directory, temporary file, sync, chmod, rename, sync of the directory (not of those
above it). Hard: system calls fail, processes are killed, power goes, calls race.
Correct when readers and the disk never have a torn artifact and one that was
acknowledged in a directory that lasts stays.

**Benchmark runs and campaigns** (`py/runner.py`, `py/campaign.py`,
`scripts/run_campaign.sh`, `scripts/live_progress.py`, `py/runtime.py`). A plan
freezes the settings; the script starts one process per slot, in order, under a
progress wrapper; a process looks for leftovers, takes the GPU, measures each
case between two snapshots of who else is on the GPU, seals a file per case,
then writes a table and a manifest; `campaign-seal` reads all of them and writes
the campaign. State: the files, the processes on the GPU, the plan. Hard:
operators start runs and seals beside the script; whatever raises ends in a
handler that writes a failed manifest; a killed wrapper leaves its run going;
nothing is cleaned up or locked. Correct when what is sealed is complete,
comparable, undisturbed, and was read as it was written.

**Graph executor** (`py/graph.py`, `py/api.py`). A variant submits stages with
dependencies, consumed and produced artifacts and what each one means; the graph
is sorted (the least ready identifier first), its flow checked, and then executed,
again and again, over one artifact store. State: the sort, the store, the stage
that runs. Correct when the verdict is the graph's and not the listing's, when a
stage runs after all it depends on and finds what it consumes.

**Case lifecycle and oracle** (`py/lifecycle.py`, `py/correctness.py`,
`py/contract.py`, `py/inputs.py`). Two fixtures per case; exact references for
both before the candidate exists; the candidate prepared with one of them and
run with both; after each phase its answers compared with the oracle and its
inputs hashed again. State: device tensors, version counters, the buffers of the
two plugins, launched work. Hard: the device lags behind the host, a replay
returns the same buffer at every call, a candidate may remember or write its
inputs, and the oracle outlives the scores it was built from. Correct when
whatever was measured was exact and on the inputs that were made.

**Benchmark protocol** (`py/benchmark.py`, `py/kineto.py`, `py/summary.py`).
Warmups, a CUDA-event pass and a profiled pass with alternating fixtures between
two checks, attribution of CUDA activities to trials and stages by correlation
numbers, the table of a run. Correct when a trial is charged with its own work
and nothing else, and when a manifest never outlives the table it names.

**Comparison** (`py/comparison.py`) and **runtime and provenance**
(`py/runtime.py`, `py/provenance.py`, `py/nvtx.py`). Artifacts carry digests of
the code, the settings, the machine and the inputs, taken at different moments; a
benchmark is gated by a correctness artifact made earlier; a comparison looks at
two artifacts alone. Correct when what is decided rests on what was checked,
although code, settings, machine or a stored section changed in between.

**Profiling** (`py/profile.py`), **configuration and registry**, **replay and
corpus**, **reference variants**, **set-up scripts**: see section 7.

How they interact: `plugin.py` builds a graph whose nodes launch sampling, the
fused kernel (pipeline + row selection) and the repair (producer + pair
selection) on one stream; `lifecycle.py` prepares and checks that graph,
`benchmark.py` measures it, `runner.py` does both per case and writes artifacts,
the script calls `runner.py` per slot, and the seal reads what was written.

## 2. The modules

| Module | Models | State | Actions |
|---|---|---|---|
| `MBarrier` | the transaction barrier of CUTLASS, as the kernels use it | phases completed, arrivals | (operators) `Arrive`, `ParityPasses` |
| `FusedPipeline` | one persistent CTA | registers of each role, stages, slots, barriers, groups in flight | one per blocking point or asynchronous completion: `TmaIssueQ`, `TmaIssueKV`, `FinishCopy`, `MathWaitFree`, `IssueTile`, `ReleaseTile`, `StoreTile`, `Publish`, `TopKWaitReady`, `TopKRelease`... |
| `CandidateQueue` | what the pipeline promises: a bounded queue of complete blocks | `next`, `queue` | `Publish`, `Select` |
| `SelectRow` | `select_row` by several warps, row after row on one scratch | warps, rounds arrived at, scratch, histogram, output | the work between two rounds of `selection_sync`, cut where another warp could tell |
| `CandidateStorage` | one block's candidates in the compact slot and the spill, `CandidateStorage<5888>` | slot, spill, counters of the math warps, what they found | `StoreTile`: a warp appends what reaches the threshold in one tile |
| `SelectPairs` | `select_topk_pairs` with `radix_select_score` | the same, for a CTA | the same, for `__syncthreads` |
| `RepairProducer` | one CTA of the masked producer | the TMA thread, math warps, stages with the copies still to arrive, barriers, groups, segments | one per blocking point or completion: `EnterProducer`, `IssueKV`, `KVCopied`, `MultiplyTile`, `GroupCompletes`, `ReleaseKV`, `AppendTile`, `PublishCounts`... |
| `SampledThreshold` | the sampled pre-pass of one row | gathered sample, warps, rounds arrived at, histogram, the threshold | `Gather`, then the work between two rounds of `__syncthreads` |
| `RadixSelect` | what `SelectRow`, `SelectPairs` and `SampledThreshold` share: digits of a score, sums over the histogram, the bins that hold a rank | | (operators) `DigitOf`, `CountAbove`, `BinsOfRank` |
| `MCKernels` | `CandidateStorage`, `RepairProducer` and `SampledThreshold` side by side | | |
| `Repair` | one call after another of the whole operator | device buffers, the kernel that runs, its rows still to do | one per kernel and row |
| `ExactTopK` | what the operator promises | call, input, answer | `Call`, `Answer` |
| `AtomicWrite` | concurrent `write_json_atomic` | the directory, file, disk, temporaries, calls | one per system call; `Fail`, `KillCall`, `WriteBack`, `WriteBackAbove`, `PowerLoss` |
| `ArtifactFile` | what it promises | content, stable content, whether the directory lasts | `Replace`, `Persist`, `Last`, `PowerLoss` |
| `StageGraph` | `validate_graph` and `execute_graph` | the submitted graph, the sort, the store | `CountDependencies`, `TakeReady`, `EndSort`, `CheckFlow`, `Execute`, `RunStage`, `EndRun` |
| `ScoreOracle` | `correctness.py` as operators: valid indices, the cutoff oracle, the comparison on both paths | | (operators) `OracleBuilds`, `OracleOf`, `Accepts` |
| `OracleCall` | one use of the oracle | case, scores, reference, candidate, verdict | `BuildOracle`, `Compare` |
| `CaseRun` | one case of a correctness, benchmark or profile command: `CaseLifecycle` and the schedules of `benchmark.py`, `runner.py`, `profile.py` | the host's program, streams, device memory, version counters, what timed runs read and gave | one per step of the host; `Device` executes the head of a stream |
| `TrialProtocol` | how many trials there are and which fixture each uses | | (operator) `FixtureOf` |
| `Attribution` | the profiled pass and `kineto.py` | recorded CPU events and CUDA activities, the trial in progress | `Flush`, `RunProfiled`, `Extract` |
| `Evidence` | `run_correctness`, `run_benchmark`, the capture of a profile, their gates and `compare_benchmarks`, by what each looks at and when | the world (code, settings, machine), artifacts, the running command | one per look of a command; `ChangeWorld`, `EditBench`, `EditCheck`, `FailCommand` |
| `Decision` | what a seal concludes from blocks of runs | the frozen orders, what the machine was like per block | `RunBlock`, `Decide` |
| `RunFiles` | the files of a run and their directories | directory entries seen and on disk | `Rename`, `SyncDirectory`, `Return`, `GiveUp`, `WriteBackEntry`, `LosePower` |
| `MCHost` | the seven host components above side by side | | |
| `KernelLemmas` | what the proofs about the kernels share: numbers and finite sets, the step of a radix selection, the rings of stages, the output of a selection | | (operators and lemmas) `RankBin`, `RingInv`, `FillStep`, `ReleaseStep`, `IsOutput` |
| `Campaign` | `run_benchmark`, the script, the wrapper, the seal | all files of a campaign, the GPU, processes, drivers | one per step that another process could see; `Raise`, `Kill`, `Interrupt`, `Die` |

Proofs are in `FusedPipeline_proofs`, `SelectRow_proofs`, `SelectPairs_proofs`,
`Kernels_proofs` (of the components of `MCKernels`), `Repair_proofs`,
`Campaign_proofs` (also of `AtomicWrite` and `Decision`) and `Host_proofs`, and in a
library of lemmas, `KernelLemmas`; section 5.

Names follow the source; `PROJECT.json` maps every definition to its lines.
A definition commented `Bug:` is a mutation of the one below it, used to show
that a property can fail.

*Composition.* `FusedPipeline` uses `MBarrier` and implements `CandidateQueue`.
`SelectRow` takes rows as `CandidateQueue` hands them over: a complete slot,
whose pairs `CandidateStorage` gives back as they were found.
`Repair` takes from `SelectRow` that a fused row is exact or flagged and filled
with -1, from `RepairProducer` that a chunk's segments hold exactly what they
should, and from `SelectPairs` the set of outcomes a selection may leave; it
implements `ExactTopK`. `Campaign` takes from `AtomicWrite` that a write is one
step, with its one oddity: it may raise after the file was replaced. `RunFiles`
takes from it that one file is whole or absent and is about several files.
`CaseRun` judges with the operators of `ScoreOracle`, which `OracleCall` checks
and `Host_proofs` proves exact. `CaseRun`, `Attribution` and `Evidence`
share `TrialProtocol`: the fixtures that are run, charged and expected are the
same ones. `Evidence` takes from `CaseRun` that a case that passes was exact, and
`Decision` from `Campaign` that the runs it is given are complete and alone on
the GPU. `MCHost` puts `StageGraph`, `OracleCall`, `CaseRun`, `Attribution`,
`Evidence`, `Decision` and `RunFiles` side by side; in a behaviour one of them is
active and the others rest, so its states are the sum and not the product.

*Abstractions.* A score is its ordered bit pattern in a small radix. A tile's
result is the pair of tiles that were really in shared memory when the group
read them (or `Torn`), so a stage reused early shows as a wrong result, not as a
flag. The candidates of a row are a set of positions: a segment has them in
ascending order, so the place of one in its segment, its batch and its lane are
its rank among those before it. The output of a row is the set of (place,
position) writes, so a place written twice shows. Uninitialised shared and device memory holds values that
look like a finished row's, or any flag. A key of 0 is the ordered pattern of a
NaN only; `Repair` includes it because padding has that key. The threshold is
any number: nothing depends on the sampling. Settings are compared as records
of a protocol and a runtime. A digest is the thing it was taken of, with a label;
an edit of a stored artifact replaces one section by something it was not. The
candidates of `CaseRun` answer by either order of ties, by position, with what they
prepared or with their first answer, on the current or a stream of their own, and
write their inputs through an operator (which moves the version counter) or from a
kernel (which does not), when prepared or when run. They answer timed and untimed
runs alike, and what they have written stays (section 6).
Of the directories above an artifact only two facts are kept: whether all of them
are there, and whether all their entries are on disk.
What a graph, a case, a profile or a machine may be is a CONSTANT.

## 3. The runs

Each property has a mutant of a mapped definition in `PROJECT.json` that TLC
refutes under the same configuration.

| Run | Instance | What it shows |
|---|---|---|
| `fused_pipeline` | 2 math and 2 Top-K warps, 2 Q stages, 3 KV stages, 2 slots, overlap, 6 blocks of 3, 0, 2, 1, 2, 3 tiles | the waits are exact although they name a parity (`HandoffParityExact`, `StageParityExact`), operands of a WGMMA in flight do not change (`OperandsStable`), slots are not shared (`SlotExclusive`), a selection reads exactly its block (`SelectionInput`), the slots are a bounded queue (`ImplementsQueue`), everything is selected (`Completes`) |
| `serial_pipeline` | 3 Q stages, 1 slot, no overlap, paired schedule | `ImplementsQueue`, no deadlock |
| `select_row` | 3 warps of 2 lanes, K = 2, 4 segments of 2 places and 1 spill, 2 digits in radix 4; every pair of 7 kinds of rows, and single rows with all kinds of ties | warps never meet in different rounds (`SyncSitesAgree`), rows are exact or flagged (`RowsExact`), all end (`AllSelected`) |
| `select_pairs` | 3 warps, K = 2, 2 binary digits; every pair of 5 kinds, every row of 2 or 3 scores | the greater count is read before its counter is reused (`GreaterHandedOff`), a row is exact, or an error is reported, which happens exactly when too few pairs count (`PairsExact`), all end |
| `kernel_parts` | storage: the first and the last warp, 3 tiles with the last of the longest context, segments of 3 places, a spill of 2, 2 scores; producer: 2 math warps of 4 positions, 3 Q and 3 KV stages, chunks of up to 7 tiles that fill every segment, 15 pairs of rows; pre-pass: 2 warps, 2 binary digits, 4 samples of 7 keys, every rank, 9 ranges, 6 lists of scores | every pair is read back with its full position (`NothingLost`); every warp publishes its share of the flagged rows, scored from the right tile (`ProducerExact`); the threshold has the rank asked for or lets everything pass (`ThresholdExact`); both kernels end (`KernelsEnd`) |
| `repair` | 2 rows sharing a scan, K = 2, 10 positions in chunks of 4, 5 kinds of rows, 2 calls | chunks merge to the exact Top-K of what they covered (`AccumulatorExact`), unflagged rows are left alone (`UnflaggedMasked`), and what a call returns is the exact Top-K or, for a row it still flags, nothing (`ImplementsExactTopK`) |
| `atomic_write` | 3 concurrent calls, 2 values and one that cannot be serialised; a directory that is missing, or there, with or without its entries on disk; calls that begin after a power loss | readers and the disk have whole files (`NeverTorn`), a call that found its directory kept and has synced it is durable (`AcknowledgedIsDurable`), a call that ended by itself leaves no temporary file (`NoLitter`), the file is replaced as a whole (`ImplementsFile`) |
| `campaign_script` | 2 slots, 2 cases, 2 processes, the script started twice, 3 settings | `CompleteIsMeasured`, and with nobody acting beside the script `InFrozenOrder` |
| `campaign_races` | 2 slots, 1 case, the script with 2 processes and an operator with one | `MeasuringAlone`, `SealedEvidence`, `ScriptEnds` |
| `host_components` | every dependency relation of 3 stages, and three of them with every flow of two artifacts and an answer; every score and tensor of cases of up to 2 rows and 3 keys; one row of 2 keys with 60 candidates, 3 references and 3 commands; graphs of 1 or 2 profiled stages; 3 codes, settings and machines with 2 incidents; 3 blocks of 2 cases; both lists of files | a sorted graph's stages are fed (`OrderedAndFed`) and its verdict does not depend on the listing (`VerdictIsTheGraphs`); the oracle accepts the exact selections and no other (`OracleExact`); what was timed was exact and on intact inputs (`GateExact`, `MeasuredIntact`); trials are charged with their own work (`AttributionExact`); comparisons and gates rest on what was checked (`DecidesOnEvidence`, `GateFresh`); a drifting machine decides nothing (`DriftCancels`); files named survive (`TableDurable`) |
| `campaign_overwrite`, `campaign_order` | see section 6 | expected violations |

*Why the bounds are enough.* The pipeline's rings have 2 or 3 entries and waits
distinguish two phases, so a role that is a lap off needs two laps to be
noticed: six blocks go round the slots and Q stages three times, eleven tiles
round the KV stages three times. Blocks with no tile, odd and even tails are
among them. Two warps per role show a role whose members pass a barrier one by
one; the proofs cover any number. In `select_row` three warps over four
segments give one warp two segments, as 3 over 8 do; lanes are 2 because the
order inside a ballot matters and its width does not. Two digits exercise
"narrow, then narrow again", K = 2 the difference between greater and equal at
the K-th place. In `repair` the last chunk is narrower, rows begin and end
inside chunks or miss the first one, and two calls are one reuse of every buffer.
In `kernel_parts` one batch is split between segment and spill and two overflow
both, of one row because rows have no place in common; seven tiles use one of the
three KV stages a third time, when its parity is that of the first, and a chunk
ends at the end of a tile, inside a warp's part or before any; two digits narrow
once and again, and the samples of a row are none, all, tied, not finite or one
fewer than the rank. In `host_components` three stages are the least with a path
of dependencies beside a direct one; the keys of the oracle's cases leave room for
a row shorter than K, a boundary of two ties and scores beyond the causal end;
the two trials of a pass use both fixtures, and the three warmups end on another
one than they began; a profile starts with two activities of the phase before
and operators numbered below, at and beyond the launches; of changes (at most
`MaxChanges` = 2), edits (`MaxEdits` = 1) and failures (`MaxFailures` = 1)
`MaxIncidents` = 2 may happen, which is one before and one after any look; three
blocks are the least a campaign decides on. Two slots are the least that have an order; three processes let two interfere
with a third's files.

*Symmetry* is used in the `Campaign` runs without temporal properties
(interchangeable processes and drivers); not with `ScriptEnds`.

*Deadlock* is checked except where a run also states that everything ends (a
stop is then the violation of `Completes`, `AllSelected` or `KernelsEnd`), and in
`Campaign` and `MCHost`, which really stop when every process has ended and the component
is done.

## 4. Fairness

Pipeline: weak fairness of each role's step and of each hardware completion
(TMA copy, WGMMA group). Roles are resident warps of one CTA that the hardware
schedules as long as one can go on, and an issued copy or group completes.
Selections, the pre-pass and the repair producer: weak fairness of each warp (and
lane step), and of each copy and group of the producer, for the same reason.
`Campaign`: weak fairness of each process's next step and each driver's next
step; never of `Raise`, `Kill`, `Interrupt`, `Die`, of starting anything, or of
an operator. The claim is accordingly modest: an invocation ends, sealed or
stopped. The components of `MCHost` are checked for safety only and state no
fairness: a graph, an oracle or a case ends because the host's program is finite,
which `TLC` shows by exploring it to the end. A benchmark that hangs inside a measurement is outside the model, since
the code has no timeout there.

## 5. Proofs

All theorems hold for every value of the constants that satisfies the named
assumptions; TLC evaluates these on every run.

**`FusedPipeline_proofs`** (from `PipelineAssumption`: the two configurations the
static assertions allow, non-empty roles, any blocks and tiles). `TypesHold`:
`TypeOK`, which no run lists because the theorem covers it. It is not inductive alone: that the TMA thread is inside a block while
it copies KV has to be carried along (`TypeInv`). `HandoffCorrect`: the
invariant `HandoffInv` relates, per slot, the completed phases and the arrivals
of the free and ready barriers to the places of all math and Top-K warps: how
many times each has passed. From it follow `HandoffWaits` (a wait passes
exactly when the use it is meant for is over, so parity is enough: no two roles
are ever two phases apart) and `SlotsExclusive`. Parity alone would not give
this: the step lemma shows that a role two uses ahead would need a phase that
some other warp has not arrived in.

**`KernelLemmas`**, *rings*. What a ring of stages with a full and an empty barrier each
promises, stated once over the numbers a role has issued, waited for and
released, for rings of 2 or 3 stages. `RingInv` relates these numbers to the
completed phases, the arrivals of the phase in progress and the copies under
way. `ProducerWait` and `ConsumerWait`: a parity wait passes exactly when the
filling it is meant for has been released, or has arrived; `HeldStable`: the
producer writes no stage that somebody has waited for and not released;
`RingStart`, `FillStep`, `CopyStep`, `WaitStep` and `ReleaseStep`: the invariant
holds at the start and after each move. The lemmas are instantiated by the two
kernels, whose roles only have to say what their numbers are.

In the same module, on the stages: `StageCorrect`: `StageInv`
takes the Q ring with one filling per block and the KV ring with one per tile.
The number of a tile is that of the tiles of all earlier blocks and its own
(`TilesBefore`, a recursive function; `BeforeSums` shows that it exists, by
induction over a set of numbers), and the running total each role keeps is that
sum. The rest says which filling a stage holds (`QHolds`, `KVHolds`) and that a
group in flight reads tiles waited for and not released (`FlightHeld`). From it
`StageWaits` and `OperandsHold`. `ResultsCorrect` adds what the math warps made of
the operands: accumulators of issued and completed groups, the segment so far,
and what was published and not yet freed. With `HandoffInv` it gives
`SelectionReads`, and `QueueImplemented`: the queue of the abstract specification
is the blocks all math warps have published and not all Top-K warps released, and
every step of the pipeline publishes or selects one block of it or leaves it as
it is.

**`Campaign_proofs`** (from `CampaignAssumption`; any number of slots, cases,
processes, drivers, settings). `CampaignInv` has four parts. Types, with what
each place implies (a process past its check has a slot and settings). `GpuInv`:
a process between its snapshots is on the GPU, and no other that got there after
the first snapshot can be past its own: this gives `Alone`, although each
process only looks and never locks. `CountInv`: a process at case c has measured
all cases before c, which gives `Complete` whatever raised in between.
`ReadInv`: what a seal has read so far was acceptable when read; since manifests
record by whom and measurements only grow, it stays acceptable while others run,
which gives `Evidence`. `ReadInv` is the heart: files may change under the seal,
so nothing can be said of the files, only of what was read. `SlotsInOrder` has
the hypothesis `ByHand = {}`, which is the claim itself: with the script alone,
what is sealed completed in the frozen order. `OrderInv` has three parts: no two
processes that may still complete have one slot, and those that completed did so
in the order of their slots (`SlotsOrdered`); every complete manifest, everything
a seal has read and every sealed run is in that history (`RunsRecorded`); and one
invocation at a time is at work, since only one ever finds that there is no plan
(`OneScript`). It must hold through killed wrappers, whose run goes on: that the
script does not go on to the next slot then is what keeps the order.
`DriftIsNoVerdict` (from `FewBlocks`, the plans the protocol admits, and
`LatenciesArePositive`: a latency that is not positive gets into no table) is about
the comparison that a campaign ends with. In a block of either order the positions
of an arm add up to five, so both arms' sums carry the drift alike and a block's
speedup is above one exactly when the other arm is faster without it
(`ArmSumIs`, `DriftAddsUp`, `SpeedupIs`). With three to five blocks the interval
reaches from the least of their speedups to the greatest (`KthIsExtreme`), so a
status speaks of every block (`StatusTells`).

In the same module, on `AtomicWrite` (from `ValuesAssumption`; any number of calls).
`WriteInv`: temporaries hold what their call got that far with, destination and
disk are whole, a directory that a call found kept stays kept, and versions order the
replacements. `FileNeverTorn`, `NothingLeft`, `Durable` (the value of a call that found
its directory kept and has synced it is on disk, or was replaced by a later version
that is) and `Implements`: every step is a `Replace`, `Persist`, `Last`, `PowerLoss` or
a stutter of `ArtifactFile`.

**`Host_proofs`** is about six of the host's components.

*The graph executor* (from `StagesSort` and `GraphsAreGraphs`: any finitely
many ordered stages, any artifacts, any graphs, cyclic ones included).
`GraphInv` says of Kahn's counters what the code relies on: the count of a stage
that is not ordered is the number of its dependencies that are not ordered, so
the ready ones are exactly those whose dependencies all are. `GraphIsSorted`
proves it; `StagesAreFed` follows for any run of an accepted graph, since an
execution that checks what was made has in its store all that the stages so far
declared; `CyclesAreReal` shows that when nothing is ready the stages left over
wait for each other. `VerdictsAreRight`: what the code collects for a stage while
it walks the order are the stages it rests on, however the order was chosen
(`AncestorsAreRests`; the collection is a recursive function, whose existence is
shown by giving it and whose values are unique by a least counterexample), so one
pass accepts exactly the graphs that are well formed.

*The oracle* (from `QuestionsAreCases`). `OracleSound`: from an oracle
that was built of any scores and any reference, on either path, what the
comparison accepts is an exact Top-K of each row's causal keys, although the
cutoff is the K-th score of the *whole* row with whatever lies beyond the causal
end, and although the scores are gone when the candidate comes. The argument: the
reference's row holds every key above the cutoff and only keys at or above it, so
the whole row's cutoff is the causal prefix's; a row the oracle kept no tie of
has one exact selection; a tied row may differ inside the boundary only and by
count. `AcceptedAreExact` carries it to the states of a call. `OracleComplete` is
the converse: of scores cleaned beyond the causal end the oracle is built from
every exact reference (`CleanRowIsCut`) and accepts every exact candidate, since
an exact selection holds what is above the cutoff and nothing below it
(`ExactIsBetween`), and a row is tied exactly when more than K keys are not below
it. `OracleIsExact` states both in every state of a call. The assumption names
the score the code cleans with, and that no other score is below it.

*The case* (from `CaseAssumption`: any fixtures, plugins, trials and warmups, one
stream or two). `CaseIsGated` and `MeasuresIntact` rest on `CaseInv`. The program
of the host is a sequence that grows shorter, so the invariant speaks of what is
left of it: it is a tail of a program of the right shape (`ProgramShape`, by
induction over the trials flattened into it), and each stream still holds what
was launched and not executed. Its parts say what that implies: what later steps
will judge is judged right (`JudgesRight`, `ValidatesRight`), what was judged is
still what it was (`Judged`, `Validated`, `MeasuredSame`), nothing is under way
when the host looks (`Quiet`), and a case that ends went through all of it
(`Verified`, `Ended`). One lemma each for a step that stays, one that passes, a
launch and a step of the device.

*The gates* (from `CasesAreConfigured`: a configuration without cases is refused
when it is read). `GatesAreFresh`, by `EvidenceInv`: every entry of the *cases* of
a correctness file is bound to the operator, protocol, plan and machine of the run
that found it exact (`BoundTo`), so a file whose cases are complete has such a run
behind it, whatever was put into its other sections; a gate compares these
bindings with what it is about to run, and what the gate compared with is
compared again before the artifact is written. Only the core is not among the
bindings, which is why the property asks for the same core only as long as no
section was replaced.

*The attribution* (from `WorkIsListed`: graphs of any length, stages labelled or
not, that launch any kinds of activities, for any number of trials and wherever
operators are numbered). `ProfileInv`: no two launches have one number and none
has a number of the phase before, and every recorded activity of this phase has
the number of a launch that was made in the ranges of what launched it; only
launches are asked, so an operator with the same number does not matter. So what a
range is charged with is what was launched in it (`Explained`), and since ranges
of stages share no launch the sum over the stages is the size of a disjoint union
(`DisjointSum`): that it equals the operator's count means that nothing was left
out (`CoverIsExact`), which is `ChargesAreExact`.

*The files of a run* (from `CaseFilesAssumption`). `FilesSurvive`: the manifest is
saved last and its sync is one of the directory of all other files, so what was
renamed without a sync before is on disk when the call returns.

**`Kernels_proofs`** is about the three components of `MCKernels`.

*Candidate storage* (from `StorageAssumption`: eight segments, tiles
that end at or before the longest context, any capacities and batches).
`Lossless`: the invariant is `TypeOK` with `NothingLost`. The arithmetic is in
three lemmas (a segment's index divided by the capacity is the segment; a
position fits the 16 bits and comes back from them; parts of different warps
do not meet), the rest is that an append leaves other warps (`OthersKept`) and
earlier tiles (`OwnKept`) alone.

*Repair producer* (from `ProducerAssumption`; any number of math warps,
any width of a tile, any capacity, any pair of rows). `ProducerInv` carries the
three KV stages as a ring of `KernelLemmas` with its last three tiles (`KVHeld`),
the Q stages, which are filled once per chunk (`QHeld`), what the accumulators
were made of (`ReadsRight`) and the segments so far (`SegmentsRight`). The heart
is arithmetic over sets: the lanes that keep a score take places by their rank
among those before them, and these places are a bijection onto an interval
(`PlacesAreDense`), so a segment grows by exactly the warp's share of a tile
(`ShareOfATile`) and after the last tile is its share of the range
(`ShareIsWanted`). Nothing is dropped because a warp's share of a chunk of the width the
host asks for fits the capacity (`ShareFits`). `ProducerIsExact` is the result.

*Sampled threshold* (from `ThresholdAssumption`: positive numbers of warps, lanes
and digits, a radix of 2 or more, samples without repetition whose sizes are
multiples of a warp). `ThresholdInvariant`: `ThresholdInv` says what every warp's
registers must hold when the digits above the current one are fixed: the prefix
of the key of the rank and the rank less the keys that are greater already
(`Stands`); that no warp is more than one round ahead, and none clears before all
have read (`Paced`); that, per bin, the histogram holds what the warps that have
counted found of it (`BinsRight`); and that the numbers warp 0 left for the others
stay until all have read them (`SharedRight`). The rounds of `__syncthreads` a
warp has arrived at give away which digit it is at (`RoundsApart`), so no digit's
counts are taken for another's. The step from the counts to the byte is
`KernelLemmas`' `RankBin`: of the bins of a digit, exactly the key's digit holds the
rank. `ThresholdIsExact` follows, since a key of the rank exists (`CutExists`).

**`Repair_proofs`** (from `RepairAssumption`: pairs of rows, any K of 1 or more, any
context, any width of a chunk that the segments divide, any number of calls; and
`InputsAssumption`: a row's range lies in the context and every position has a
score, which `contract.py` and the plugin check before a graph is prepared).
`BuffersRight`: `IInv` says of every buffer what it lists when the kernels of the
stream have come so far, and nothing of what no kernel reads before it was written. A
buffer *lists* a set of positions when it has each of them once, with its score
(`Lists`), and the *best* of them when the set is K best ones or all (`ListsBest`).
The parts are: which rows the running kernel still has to do (`StageRight`); that
a row that is off is exact and one that is on may still show anything
(`RowsRight`); the clipped ranges of the chunks that have been launched
(`ChunksRight`); the segments of a flagged row (`CandidatesRight`), its local
selection (`LocalRight`) and its accumulator (`MergedRight`), each with the chunk it
is of; and that an error means a key of 0 (`ErrorsRight`), since counts that do not
add up never occur. The buffers are reused by every chunk, row and call, so
each part says for which rows it is known (`ProducedKnown`, `LocalKnown`,
`Merged`). The radix selection of these kernels is stated by its result: the
largest score with K others at or above it (`KthScore`), which is shown to exist when
there are K pairs (`KthExists`, by the largest element of a bounded set), so the
pairs above it and enough at it are K best (`SelectsSome`). The heart is a merge
lemma (`BestOfBest`): K best of the K best of two parts are K best of their union. `RepairAccumulatorExact` and
`RepairTypeCorrect` follow, `RepairMasked` is one case per kernel (a row that is
not flagged has no segment, no local selection and no merge, and `FinalizeRepair`
skips it), and `OperatorImplemented` maps each launch of a fused kernel to `Call`,
the end of the call to `Answer` and every other step to a stutter of `ExactTopK`.

**`SelectRow_proofs`** (from `SelectAssumption`: positive numbers of warps, lanes,
segments and digits, any capacities, a radix that the lanes divide; and
`InputsAssumption`: every position of a row has a score of that many digits). The
proof has two layers.

*The rounds.* All calls of `selection_sync` are one barrier, and nothing but the
number of rounds a warp has arrived at (`entered`) relates one warp to another.
`RoundsTellScratch`: `SyncInv` says everything by these numbers. How many rounds a
row takes is a property of the row alone (`RoundsOf`: one for a short row, two for
one that fails, three per digit and two more else), so the rounds tell row and
place (`InStep`, of which `WarpsAgree` is a corollary: two warps with the same
count stand at the same call). No warp is more than a round ahead, and none clears
or emits before all have arrived (`Paced`). The scratch holds what the digits fixed
so far say of the *cut*, the key of the K-th candidate, and the rank that is left
(`ScratchRight`), with a lane that has found its bin as the only point where it
changes (`LanesRight`); a bin that was cleared holds what the warps that have counted
found of it (`BinsRight`). None of these names another warp's program counter, so a
step of one warp is checked against numbers only. `SelectRowTypes` is contained.

*The output.* `OutputsAreRight`: `RowsRight` says of every row, begun, under way or
left, what has been written. Short and failed rows are filled by a strided loop
(`FilledRight`). For the others (`IsOutput`): the candidates above the cut whose batch
is done have a place each below the places reserved and outside the spans of the
warps that are between reserving and writing; the ties have, after the places of
*all* candidates above the cut, the first places as far as they are needed.
Reserving adds a span at the end (`ReserveKeepsOutput`), writing a batch fills one
(`PlaceKeepsOutput`). That the places after the greater ones begin at K less the
remaining rank is the arithmetic of the cut (`BeyondIs`). When every warp has left a
row, all places reserved are all places above the cut, and injective into as many
places means onto (`OutputIsExact`): `RowsAreExact`. It needs nothing of the sampled
threshold: a row with fewer than K candidates, or with one that was not stored, fails.

**`SelectPairs_proofs`** (from `PairsAssumption`: a K, numbers of warps, lanes and
digits and a radix of 1 or more; and `InputsAssumption`: scores have that many digits).
`PairsInvariant`, by `IInv`. Every round of `__syncthreads` is one barrier, and a
warp's row and place give the number of rounds it has arrived at (`InStep`), so warps
are never more than one round apart, and what shared memory holds can be said by the
place of any of them: a type that allows for what was never written
(`MemoryTyped`), what all registers have in common (`Agree`), the digits of the cut
that are fixed (`CutRight`), the bins of warps that have counted (`BinsRight`), the
counter of greater pairs while it is summed, handed off and reused
(`CountersRight`, `TotalsRight`), the verdict on the row (`ErrorsRight`) and the rows
(`RowsRight`). `SelectPairsTypes` is contained. `GreaterIsHandedOff`: the total that a
warp took is that of its row, also in a row that will be refused. `PairsAreExact`:
with `IsOutput` of `KernelLemmas` for a row that is cut, once all warps have left it; a
row with fewer than K keys above 0 has an error, since its cut is 0 and ties at 0 are
not taken.

**`KernelLemmas`**, *outputs*: what a row looks like while warps place the pairs above
its cut and some of those at it, batch by batch in any order (`IsOutput`), with
the two moves (`ReserveKeepsOutput`, `PlaceKeepsOutput`) and the end
(`OutputIsSelection`). `SelectRow_proofs` and `SelectPairs_proofs` instantiate it.

**`KernelLemmas`**, *numbers*: induction over sets of numbers, sums over disjoint sets
and over histograms (`DisjointSum`, `SumOfSizes`), powers as a recursive function
(`PowersOf`), digits of a number (`DigitSplits`) and the two lemmas on ranks that
both radix selections rest on: a key of every rank exists (`CutExists`), and of the
bins of a digit exactly that key's holds the rank (`RankBin`). It has no constants.

*Only model-checked.*

* Liveness (`Completes`, `AllSelected`, `KernelsEnd`, `ScriptEnds`): the proof
  system has no rules for fairness and ENABLED that its installed back ends can
  use.
* `Evidence.DecidesOnEvidence`: bounded by the edits and changes a run of the
  model may see. It is about what a comparison can conclude from two artifacts
  that were edited at most so often, not about any number of edits.

Induction theorems that take an operator cannot be used with the installed back
ends. Induction is done over sets instead: a set of numbers without a least
element is empty (`WFMin` and `NatLessThanWellFounded`), and a recursive function
is unfolded after a function with its equations was given. RECURSIVE operators
are used by no module of a proof.

## 6. Where code and text disagree

* `campaign_overwrite`. `runner.py` refuses to overwrite a benchmark artifact,
  but looks once, before the run; the manifest is written hours later, and the
  handler writes a failed manifest over whatever is there. Of two runs of one
  slot that both found nothing, the later replaces the earlier's manifest.
  What gets sealed is still one run's evidence (`SealedEvidence`).
* `campaign_order`. `campaign-seal` raises when a campaign "does not follow its
  frozen order", but compares the plan with itself sorted: runs made by hand in
  another order seal. Under the script alone the order holds (`InFrozenOrder`, proved:
  `SlotsInOrder`).

Also seen, and part of the models: the write of an artifact raises after its
rename when the sync of the directory fails, so a complete manifest can be
replaced by a failed one; a script that was killed cannot be resumed, since a
second invocation stops at the plan that exists (`campaign-seal` can be run).

Seen while modelling the framework, and part of the models as they are:

* A comparison takes neither the raw hardware signature nor the latencies of an
  artifact from anything sealed; case files have digests, but only
  `campaign-seal` looks at them. `DecidesOnEvidence` says accordingly which
  sections it is about.
* An artifact whose core changed under the run is incomparable by its schema 3
  checks; relabelled as schema 1 it decides (TLC found this against an earlier,
  stronger property). The core is not among the components of an experiment
  either, so an identity replaced by one that differs in the core alone verifies
  in a correctness artifact.
* `measurements.csv` is renamed without a sync of its directory. That nothing
  is lost is due to the order of the files: the manifest comes last and syncs the
  same directory. Before the call returns, a manifest found after a power loss
  may name a table that is gone. The run's own entry in its parent is never
  synced; `TableDurable` is about what is below the run's directory.
* `write_json_atomic` makes the directories it needs and syncs the last one only. An
  artifact whose call has returned, having synced, can still be gone after a power
  loss, with a directory that was made for it. `AcknowledgedIsDurable` is about
  directories whose entries were on disk when the call took them. A temporary file
  that cannot be removed is not modelled.
* `contract.py` (line 214) writes "score[K-1] != score[K]" as the precondition on
  ties into an artifact. The oracle asks for less: it accepts any choice among the
  ties at the boundary (`OracleExact`).
* A candidate that answers B with A's selection passes when that selection is
  exact for B too. The docstring of `lifecycle.py` that fixtures catch it is
  true of fixtures whose selections differ.
* A kernel that writes an input and undoes it before the next look goes
  unnoticed, as does a candidate that answers differently when timed; neither is
  among the candidates of `CaseRun`.

## 7. What is not modelled, and why

* Numbers: FP8 products, scales, floating-point reductions, statistics.
* Of the repair producer, the unmasked instance with sampled thresholds, which
  the bindings do not export. Of the pre-pass, how many samples are drawn and the
  guard of the rank: arithmetic on the host that changes how much work there is.
  The ballots of the pre-pass take whole warps, so the models (and the code)
  need sample sizes that are multiples of a warp: `production_sample_elements`
  gives multiples of 256, the kernel does not check.
* Of the benchmark protocol, the older path that measures a graph without a
  lifecycle (`benchmark.py` 109-138, 271-310, 576-603) and the statistics of a
  summary; of the comparison, the bootstrap of a ratio and its thresholds, for which
  `Decision` has the same shape; of profiling, everything after the capture
  (`_finalize`, `profile_validation.py`, the scripts), which parses the reports
  of external tools. `write_run_tables` is modelled although only tests call it.
* A stage that names one artifact twice in `produces`, which `validate_graph` refuses:
  what a stage produces is a set in `StageGraph`.
* The moment code is imported or compiled, as opposed to fingerprinted: an edit
  between the two is recorded as what ran. `Evidence` takes them for one moment.
* The diagnostic build's time stamps; wording and layout of artifacts, logs and
  reports; generators of synthetic inputs; configuration parsing, command line,
  corpus readers, set-up scripts, wrappers of external operators: sequential glue
  without state of its own, or pure input and output.
* GPU memory order below the level of barriers: an action between two barriers
  is atomic where no other role may look at what it writes, and the exclusion
  properties show that none does.

## 8. Plan

Built in this order: `MBarrier`, `FusedPipeline` with `CandidateQueue`,
`SelectRow`, `SelectPairs`, `Repair` with `ExactTopK`, `AtomicWrite` with
`ArtifactFile`, `Campaign`, `CandidateStorage`, the host's components
(`StageGraph`, `ScoreOracle` with `OracleCall`, `CaseRun`, `Attribution`,
`Evidence`, `Decision`, `RunFiles`), `RepairProducer` and `SampledThreshold`, and
the proof modules of section 5. The components that keep state are modelled; what is left
of them is named in section 7.

Nothing of the plan is left to prove but `DecidesOnEvidence` and what the proof
system cannot do (section 5).
