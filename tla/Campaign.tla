------------------------------ MODULE Campaign ------------------------------
(* A benchmark campaign: scripts/run_campaign.sh freezes a plan, runs one    *)
(* benchmark process per slot under scripts/live_progress.py and seals the   *)
(* campaign when every slot is complete.  Operators also start benchmarks    *)
(* and seals by hand.  Processes share the files of the campaign and the     *)
(* GPU; any of them can raise at any step, be interrupted or be killed, and  *)
(* nothing is ever cleaned up.  A write is one step: AtomicWrite shows that  *)
(* write_json_atomic is.                                                     *)
EXTENDS Naturals, FiniteSets, Sequences

CONSTANTS
  NumSlots,   \* planned runs, in the frozen order
  NumCases,   \* Q/N cases of one run
  Procs,      \* benchmark processes that can be started
  Drivers,    \* invocations of run_campaign.sh, or of campaign-seal by hand
  Settings,   \* configuration, sources and runtime a process can run under
  ByHand,     \* the benchmark processes that operators start themselves
  None

ASSUME CampaignAssumption ==
  /\ NumSlots \in Nat \ {0}
  /\ NumCases \in Nat \ {0}
  /\ ByHand \subseteq Procs /\ None \notin Procs \cup Settings

Slot == 1 .. NumSlots
Case == 1 .. NumCases

VARIABLES
  plan,       \* the settings the plan was frozen under, or None
  logs,       \* slots that have a run log
  csv,        \* slots that have a measurement table
  sealed,     \* per slot and case: the process whose sealed case file is there
  manifest,   \* per slot: the run manifest, or None
  campaign,   \* the sealed campaign, or None
  bench,      \* per process: its place, slot, settings, next case, records
  gpu,        \* the processes that have a context on the GPU
  driver,     \* per driver: its place, slot, child and what its seal has read
  measured,   \* per process: the cases it measured between two clean snapshots
  history     \* the processes in the order they completed

files == <<plan, logs, csv, sealed, manifest, campaign>>
ghosts == <<measured, history>>
vars == <<files, bench, gpu, driver, ghosts>>

Init ==
  /\ plan = None /\ logs = {} /\ csv = {}
  /\ sealed = [s \in Slot |-> [c \in Case |-> None]]
  /\ manifest = [s \in Slot |-> None]
  /\ campaign = None
  /\ bench = [p \in Procs |-> [at |-> "unused", slot |-> 0, under |-> None, case |-> 1, records |-> <<>>]]
  /\ gpu = {}
  /\ driver = [d \in Drivers |-> [at |-> "idle", slot |-> 1, child |-> None, under |-> None, read |-> <<>>]]
  /\ measured = [p \in Procs |-> {}]
  /\ history = <<>>
-----------------------------------------------------------------------------
(* One benchmark process: run_benchmark.                                     *)

At(p, place)   == bench[p].at = place
Goto(p, place) == bench' = [bench EXCEPT ![p].at = place]
Trying  == {"context", "runtime", "case", "measure", "after", "seal", "hash", "manifest"}
Ended   == {"refused", "done", "failed", "killed"}
Leave(p) == gpu' = gpu \ {p}

Launch(p, s, under) ==
  /\ At(p, "unused")
  /\ bench' = [bench EXCEPT ![p].at = "check", ![p].slot = s, ![p].under = under]

\* Artifacts of an earlier run are never written over, whatever they are.
Leftovers(s) == manifest[s] # None \/ s \in csv \/ \E c \in Case : sealed[s][c] # None

\* The plugins and the correctness gate are checked before the try block: a
\* process that is refused there writes nothing.
CheckFiles(p) ==
  /\ At(p, "check")
  /\ \/ ~Leftovers(bench[p].slot) /\ Goto(p, "context")
     \/ Goto(p, "refused")
  /\ UNCHANGED <<files, gpu, driver, ghosts>>

\* collect_runtime initialises CUDA before it looks who else is on the GPU.
EnterGpu(p) ==
  /\ At(p, "context")
  /\ gpu' = gpu \cup {p}
  /\ Goto(p, "runtime")
  /\ UNCHANGED <<files, driver, ghosts>>

\* Bug: no other process counts as using the selected GPU.
OthersUnseen(p) == {}

Others(p) == gpu \ {p}

\* Bug: a process waits for the GPU to itself, on which it has a context.
CheckRuntimeWaits(p) ==
  /\ At(p, "runtime") /\ Others(p) = {}
  /\ Goto(p, "case")
  /\ UNCHANGED <<files, gpu, driver, ghosts>>

\* A snapshot with another process on the GPU raises.
CheckRuntime(p) ==
  /\ At(p, "runtime")
  /\ Goto(p, IF Others(p) = {} THEN "case" ELSE "failing")
  /\ UNCHANGED <<files, gpu, driver, ghosts>>

SnapshotBefore(p) ==
  /\ At(p, "case") /\ bench[p].case <= NumCases
  /\ Goto(p, IF Others(p) = {} THEN "measure" ELSE "failing")
  /\ UNCHANGED <<files, gpu, driver, ghosts>>

Measure(p) ==
  /\ At(p, "measure") /\ Goto(p, "after")
  /\ UNCHANGED <<files, gpu, driver, ghosts>>

SnapshotAfter(p) ==
  /\ At(p, "after")
  /\ IF Others(p) = {}
     THEN /\ measured' = [measured EXCEPT ![p] = @ \cup {bench[p].case}]
          /\ Goto(p, "seal")
     ELSE Goto(p, "failing") /\ UNCHANGED measured
  /\ UNCHANGED <<files, gpu, driver, history>>

\* The case is sealed in a file of its own; the record of the file is taken
\* from what the file holds afterwards.
SealCase(p) ==
  /\ At(p, "seal")
  /\ sealed' = [sealed EXCEPT ![bench[p].slot][bench[p].case] = p]
  /\ Goto(p, "hash") \/ Goto(p, "failing")
  /\ UNCHANGED <<plan, logs, csv, manifest, campaign, gpu, driver, ghosts>>

HashCase(p) ==
  /\ At(p, "hash")
  /\ bench' = [bench EXCEPT ![p].at = "case", ![p].case = @ + 1,
                 ![p].records = Append(@, sealed[bench[p].slot][bench[p].case])]
  /\ UNCHANGED <<files, gpu, driver, ghosts>>

\* Bug: the table is written when a case is still missing.
WriteTableEarly(p) ==
  /\ At(p, "case") /\ bench[p].case >= NumCases
  /\ csv' = csv \cup {bench[p].slot}
  /\ Goto(p, "manifest")
  /\ UNCHANGED <<plan, logs, sealed, manifest, campaign, gpu, driver, ghosts>>

WriteTable(p) ==
  /\ At(p, "case") /\ bench[p].case > NumCases
  /\ csv' = csv \cup {bench[p].slot}
  /\ Goto(p, "manifest")
  /\ UNCHANGED <<plan, logs, sealed, manifest, campaign, gpu, driver, ghosts>>

Manifest(p, status) ==
  [by |-> p, slot |-> bench[p].slot, under |-> bench[p].under, status |-> status,
   records |-> bench[p].records]

\* A write that fails after its rename raises with the manifest in place.
WriteManifest(p) ==
  /\ At(p, "manifest")
  /\ manifest' = [manifest EXCEPT ![bench[p].slot] = Manifest(p, "complete")]
  /\ history' = Append(history, p)
  /\ \/ Goto(p, "done") /\ Leave(p)
     \/ Goto(p, "failing") /\ UNCHANGED gpu
  /\ UNCHANGED <<plan, logs, csv, sealed, campaign, driver, measured>>

\* Whatever raises in the try block, interrupts included, ends in the handler.
Raise(p) ==
  /\ bench[p].at \in Trying /\ Goto(p, "failing")
  /\ UNCHANGED <<files, gpu, driver, ghosts>>

\* The handler writes a failed manifest, over anything that is there, or fails.
Handle(p) ==
  /\ At(p, "failing")
  /\ \/ manifest' = [manifest EXCEPT ![bench[p].slot] = Manifest(p, "failed")]
     \/ UNCHANGED manifest
  /\ Goto(p, "failed") /\ Leave(p)
  /\ UNCHANGED <<plan, logs, csv, sealed, campaign, driver, ghosts>>

Kill(p) ==
  /\ bench[p].at \notin Ended \cup {"unused"}
  /\ Goto(p, "killed") /\ Leave(p)
  /\ UNCHANGED <<files, driver, ghosts>>

BenchStep(p) ==
  \/ CheckFiles(p) \/ EnterGpu(p) \/ CheckRuntime(p) \/ SnapshotBefore(p) \/ Measure(p)
  \/ SnapshotAfter(p) \/ SealCase(p) \/ HashCase(p) \/ WriteTable(p) \/ WriteManifest(p)
  \/ Handle(p)
-----------------------------------------------------------------------------
(* run_campaign.sh, and live_progress.py under it.                           *)

Stand(d, place) == driver' = [driver EXCEPT ![d].at = place]
Is(d, place)    == driver[d].at = place
Idle            == {"idle", "stopped", "sealed"}

\* An invocation of the script, or of campaign-seal alone once there is a plan.
\* Only operators who act beside the script start one that overlaps another.
Start(d) ==
  /\ Is(d, "idle")
  /\ ByHand # {} \/ \A e \in Drivers : driver[e].at \in Idle
  /\ \/ Stand(d, "plan")
     \/ plan # None /\ Stand(d, "seal")
  /\ UNCHANGED <<files, bench, gpu, ghosts>>

CheckPlan(d) ==
  /\ Is(d, "plan")
  /\ Stand(d, IF plan = None THEN "freeze" ELSE "stopped")
  /\ UNCHANGED <<files, bench, gpu, ghosts>>

Freeze(d) ==
  /\ Is(d, "freeze")
  /\ plan' \in Settings
  /\ Stand(d, "launch")
  /\ UNCHANGED <<logs, csv, sealed, manifest, campaign, bench, gpu, ghosts>>

\* live_progress.py starts a slot that has neither an artifact nor a run log.
Runnable(s) == manifest[s] = None /\ s \notin logs

CheckSlot(d) ==
  /\ Is(d, "launch") /\ Stand(d, IF Runnable(driver[d].slot) THEN "popen" ELSE "stopped")
  /\ UNCHANGED <<files, bench, gpu, ghosts>>

\* The log is opened for writing, whatever is there by now.
LaunchSlot(d) ==
  /\ Is(d, "popen")
  /\ logs' = logs \cup {driver[d].slot}
  /\ \E p \in Procs \ ByHand, under \in Settings :
       /\ Launch(p, driver[d].slot, under)
       /\ driver' = [driver EXCEPT ![d].at = "wait", ![d].child = p]
  /\ UNCHANGED <<plan, csv, sealed, manifest, campaign, gpu, ghosts>>

\* The next slot only after a run that exits with 0 and a complete manifest.
Succeeded(d) ==
  /\ At(driver[d].child, "done")
  /\ manifest[driver[d].slot] # None /\ manifest[driver[d].slot].status = "complete"

\* Bug: the script does not wait for a run it started.
ChildUnawaited(d) ==
  /\ Is(d, "wait")
  /\ driver' = [driver EXCEPT ![d].slot = @ + 1,
                               ![d].at = IF driver[d].slot < NumSlots THEN "launch" ELSE "seal"]
  /\ UNCHANGED <<files, bench, gpu, ghosts>>

ChildEnded(d) ==
  /\ Is(d, "wait") /\ bench[driver[d].child].at \in Ended
  /\ IF Succeeded(d)
     THEN driver' = [driver EXCEPT ![d].slot = @ + 1,
                                  ![d].at = IF driver[d].slot < NumSlots THEN "launch" ELSE "seal"]
     ELSE Stand(d, "stopped")
  /\ UNCHANGED <<files, bench, gpu, ghosts>>

\* Control-C reaches live_progress.py, which interrupts the run it waits for.
Interrupt(d) ==
  /\ Is(d, "wait") /\ Stand(d, "stopped")
  /\ LET p == driver[d].child IN
     \/ bench[p].at \in Trying /\ Goto(p, "failing")
     \/ At(p, "check") /\ Goto(p, "refused")
     \/ bench[p].at \in Ended \cup {"failing"} /\ UNCHANGED bench
  /\ UNCHANGED <<files, gpu, ghosts>>

\* Anything else that ends the script leaves the run going.
Die(d) ==
  /\ driver[d].at \notin Idle
  /\ Stand(d, "stopped")
  /\ UNCHANGED <<files, bench, gpu, ghosts>>
-----------------------------------------------------------------------------
(* campaign-seal: seal_campaign reads the slots one after another.           *)

SealStart(d) ==
  /\ Is(d, "seal")
  /\ driver' = [driver EXCEPT ![d].at = "load", ![d].slot = 1, ![d].under = plan]
  /\ UNCHANGED <<files, bench, gpu, ghosts>>

\* A run counts if it was made under the plan's protocol and like the first.
Comparable(d, run) ==
  /\ run.under.protocol = driver[d].under.protocol
  /\ driver[d].read # <<>> => run.under = driver[d].read[1].under

\* Bug: the status of the manifest is not looked at.
ValidAnyStatus(d, s) ==
  /\ manifest[s] # None
  /\ manifest[s].slot = s
  /\ Len(manifest[s].records) = NumCases
  /\ Comparable(d, manifest[s])

Valid(d, s) ==
  /\ manifest[s] # None
  /\ manifest[s].status = "complete" /\ manifest[s].slot = s
  /\ Len(manifest[s].records) = NumCases
  /\ Comparable(d, manifest[s])

SealLoad(d) ==
  /\ Is(d, "load") /\ driver[d].slot <= NumSlots
  /\ IF Valid(d, driver[d].slot)
     THEN driver' = [driver EXCEPT ![d].at = "cases",
                                  ![d].read = Append(@, manifest[driver[d].slot])]
     ELSE Stand(d, "stopped")
  /\ UNCHANGED <<files, bench, gpu, ghosts>>

\* Every case file is the recorded one, and says what the manifest says.
CasesMatch(run) ==
  \A c \in Case : sealed[run.slot][c] = run.records[c] /\ sealed[run.slot][c] = run.by

SealCases(d) ==
  /\ Is(d, "cases")
  /\ IF CasesMatch(driver[d].read[driver[d].slot])
     THEN driver' = [driver EXCEPT ![d].at = "load", ![d].slot = @ + 1]
     ELSE Stand(d, "stopped")
  /\ UNCHANGED <<files, bench, gpu, ghosts>>

SealCheck(d) ==
  /\ Is(d, "load") /\ driver[d].slot > NumSlots
  /\ Stand(d, IF campaign = None THEN "write" ELSE "stopped")
  /\ UNCHANGED <<files, bench, gpu, ghosts>>

SealWrite(d) ==
  /\ Is(d, "write")
  /\ campaign' = [by |-> d, under |-> driver[d].under, runs |-> driver[d].read]
  /\ Stand(d, "sealed")
  /\ UNCHANGED <<plan, logs, csv, sealed, manifest, bench, gpu, ghosts>>

DriverStep(d) ==
  \/ CheckPlan(d) \/ Freeze(d) \/ CheckSlot(d) \/ LaunchSlot(d) \/ ChildEnded(d)
  \/ SealStart(d) \/ SealLoad(d) \/ SealCases(d) \/ SealCheck(d) \/ SealWrite(d)

\* An operator starts a benchmark of a planned slot outside the script.
LaunchByHand ==
  /\ plan # None
  /\ \E p \in ByHand, s \in Slot, under \in Settings : Launch(p, s, under)
  /\ UNCHANGED <<files, gpu, driver, ghosts>>

Next ==
  \/ \E p \in Procs : BenchStep(p) \/ Raise(p) \/ Kill(p)
  \/ \E d \in Drivers : Start(d) \/ DriverStep(d) \/ Interrupt(d) \/ Die(d)
  \/ LaunchByHand

Spec == Init /\ [][Next]_vars

\* Processes and the script run on as long as nothing stops them.
FairSpec ==
  /\ Spec
  /\ \A p \in Procs : WF_vars(BenchStep(p))
  /\ \A d \in Drivers : WF_vars(DriverStep(d))
-----------------------------------------------------------------------------
Runs == [by : Procs, slot : Slot, under : Settings, status : {"complete", "failed"},
         records : Seq(Procs)]

Benches == [at : Trying \cup Ended \cup {"unused", "check", "failing"}, slot : Slot \cup {0},
            under : Settings \cup {None}, case : 1 .. NumCases + 1, records : Seq(Procs)]

Stands == [at : Idle \cup {"plan", "freeze", "launch", "popen", "wait", "seal", "load", "cases", "write"},
           slot : 1 .. NumSlots + 1, child : Procs \cup {None},
           under : Settings \cup {None}, read : Seq(Runs)]

FilesOK ==
  /\ plan \in Settings \cup {None}
  /\ logs \subseteq Slot /\ csv \subseteq Slot
  /\ sealed \in [Slot -> [Case -> Procs \cup {None}]]
  /\ manifest \in [Slot -> Runs \cup {None}]
  /\ campaign # None => campaign.runs \in [Slot -> Runs]

BenchOK ==
  /\ bench \in [Procs -> Benches]
  /\ \A p \in Procs : Len(bench[p].records) = bench[p].case - 1
  /\ gpu \subseteq Procs

DriverOK == driver \in [Drivers -> Stands]

GhostsOK ==
  /\ measured \in [Procs -> SUBSET Case]
  /\ history \in Seq(Procs)

TypeOK == FilesOK /\ BenchOK /\ DriverOK /\ GhostsOK

\* A manifest that says complete is one of a process that measured every case
\* with nobody else on the GPU before and after, whatever raised meanwhile.
CompleteIsMeasured ==
  \A s \in Slot : manifest[s] # None /\ manifest[s].status = "complete" =>
    measured[manifest[s].by] = Case

\* No two processes are ever between the snapshots of a measurement together.
MeasuringAlone ==
  \A p, q \in Procs : p # q =>
    ~(bench[p].at \in {"measure", "after"} /\ bench[q].at \in {"measure", "after"})

\* A sealed campaign rests, slot by slot, on the measurements of one process
\* that ran to its end, recorded what it measured itself, and ran like all the
\* others under the plan's protocol, although the slots are read one by one
\* while anything else may run, raise or be killed.
SealedEvidence ==
  campaign # None =>
    \A s \in Slot : LET run == campaign.runs[s] IN
      /\ run.status = "complete" /\ run.slot = s
      /\ measured[run.by] = Case
      /\ \A c \in Case : run.records[c] = run.by
      /\ run.under = campaign.runs[1].under
      /\ run.under.protocol = campaign.under.protocol

\* With the script alone, a sealed campaign completed every slot once and in
\* the frozen order, whatever was interrupted, orphaned and restarted.
InFrozenOrder == campaign # None => history = [s \in Slot |-> campaign.runs[s].by]

\* The runs of any sealed campaign were completed in the frozen order.
SealedInOrder ==
  campaign # None =>
    \A i, j \in 1 .. Len(history), s, t \in Slot :
      history[i] = campaign.runs[s].by /\ history[j] = campaign.runs[t].by /\ s < t => i < j

\* A run never writes over the artifact of another one.
NoOverwrite ==
  [][\A s \in Slot : manifest[s] # None /\ manifest'[s] # manifest[s] =>
       manifest'[s].by = manifest[s].by]_vars

\* The script, once started, seals the campaign or stops.
ScriptEnds ==
  \A d \in Drivers : Is(d, "plan") ~> driver[d].at \in {"sealed", "stopped"}
=============================================================================
