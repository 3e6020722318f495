------------------------------ MODULE Evidence ------------------------------
(* What binds a measurement to what was checked: run_correctness,            *)
(* run_benchmark and the profile capture write artifacts that identify the   *)
(* sources, settings and machine they saw, each at the moment the code looks *)
(* at it; verify_correctness_artifact and compare_benchmarks decide from the *)
(* artifacts alone.  Between any two looks the sources, the configuration or *)
(* the machine may change, and a section of a stored artifact may be replaced. *)
EXTENDS TrialProtocol, Sequences, FiniteSets

CONSTANTS
  Checks,        \* paths of correctness artifacts
  Paths,         \* paths of benchmark artifacts
  Assignments,   \* which variant each path may be for: functions on Paths
  CheckCases, BenchCases,      \* the configured cases
  Sources,       \* versions of the code: [core, operator]
  Settings,      \* of the configuration: [semantics, plan, diagnostics]
  Machines,      \* of the machine: [compute, power, python]
  MaxChanges,    \* bound: how often one of these changes
  MaxEdits,      \* bound: how often a section of an artifact is replaced
  MaxFailures,   \* bound: how many commands raise
  MaxIncidents   \* bound: on all three together

\* The configuration refuses an empty list of cases.
ASSUME CasesAreConfigured == CheckCases # {}

VARIABLES
  world,       \* sources, settings and machine as they are now
  variantOf,   \* the variant measured for each path
  checks,      \* the correctness artifacts
  benches,     \* the benchmark artifacts
  sidecar,     \* the metadata of the profile capture
  process,     \* the command that runs, its place and the artifact it builds
  passed,      \* (history) what run_correctness found exact in every case
  written,     \* (history) every benchmark artifact as it was written
  compared     \* the last comparison
  
evidenceVars == <<world, variantOf, checks, benches, sidecar, process, passed, written, compared>>

NoFile == [status |-> "absent"]
Idle == [at |-> "idle"]

\* Bounds: a history ends with a comparison or a capture, and changes only where
\* something still looks.
Open == compared = Idle /\ sidecar = NoFile
Bounded == world.changes + world.edits + world.failures < MaxIncidents
Building == Open /\ \E s \in Paths : benches[s] = NoFile

\* A hash stands for what was hashed.  A sealed record carries its own hash.
Hash(x) == <<"sha256", x>>
Seal(x) == [payload |-> x, sha256 |-> Hash(x)]
Intact(r) == r.sha256 = Hash(r.payload)
NotYet == [payload |-> <<>>, sha256 |-> <<>>]

ProtocolOf(s) == Seal(<<"protocol", s.semantics>>)
PlanOf(s) == Seal(<<"plan", s.plan>>)
RuntimeOf(m) == Seal(<<"runtime", m.compute, m.python>>)
SignatureOf(m) == <<m.compute, m.power>>
OperatorHash(v, src) == Hash(<<"operator", v, src.operator>>)
IdentityOf(v, src) == Seal(<<v, src.core, OperatorHash(v, src)>>)
Core(identity) == identity.payload[2]
Operator(identity) == identity.payload[3]

ContractOf(s, core) ==
  [core |-> core, protocol |-> ProtocolOf(s), plan |-> PlanOf(s),
   event |-> EventTrials, kineto |-> KinetoTrials, cases |-> BenchCases]

\* The five components that make one experiment.
Experiment(a, inputs) ==
  Seal(<<a.protocol.sha256, a.plan.sha256, Operator(a.identity), a.runtime.sha256, inputs>>)

EvidenceInit ==
  /\ world \in [sources : Sources, settings : Settings, machine : Machines, changes : {0}, edits : {0}, failures : {0}]
  /\ variantOf \in Assignments
  /\ checks = [p \in Checks |-> NoFile]
  /\ benches = [s \in Paths |-> NoFile]
  /\ sidecar = NoFile
  /\ process = Idle
  /\ passed = {} /\ written = {} /\ compared = Idle

---------------------------------------------------------------------------
(* What a case leaves in an artifact *)

\* Inputs follow from the settings; the libraries of a machine may differ in
\* how they draw them.
ContentOf(m, s, c, f) == Seal(<<s.plan, m.python, c, f>>)
Inputs(m, s, c) == [f \in {"A", "B"} |-> ContentOf(m, s, c, f)]
InputHash(inputs) == Hash([f \in {"A", "B"} |-> inputs[f].sha256])

CaseRecord(a, m, s, c, phases, gates) ==
  [inputs |-> Inputs(m, s, c), contentHash |-> InputHash(Inputs(m, s, c)),
   phases |-> {"before_candidate", "candidate_prepare"} \cup phases, gates |-> gates,
   exclusive |-> TRUE, topology |-> KinetoTrials,
   experiment |-> Experiment(a, InputHash(Inputs(m, s, c)))]

CheckedCase(a, m, s, c) ==
  CaseRecord(a, m, s, c, {"correctness"}, [correctness |-> <<"A", "B", "A">>])
MeasuredCase(a, m, s, c) ==
  CaseRecord(a, m, s, c, {"benchmark_preflight", "benchmark_postflight"},
             [preflight |-> <<"A", "B">>, postflight |-> <<"B", "A">>])

KinetoPasses == {"formal_kernel_sum", "kineto_activity_sum", "kineto_device_span", "kineto_stage_kernel_sum"}

RowKeys(cases) ==
  {[case |-> c, pass |-> p, trial |-> t, fixture |-> FixtureOf(t)] :
     c \in cases, p \in KinetoPasses, t \in 0..(KinetoTrials - 1)}
  \cup {[case |-> c, pass |-> "cuda_event_total", trial |-> t, fixture |-> FixtureOf(t)] :
     c \in cases, t \in 0..(EventTrials - 1)}

\* Rows carry what they belong to, and how often each is there.
RowsOf(a, cases) ==
  [run |-> a.run, variant |-> a.variant, contractHash |-> a.contractHash,
   of |-> [k \in RowKeys(cases) |-> 1]]

---------------------------------------------------------------------------
(* run_correctness *)

Runs(do, at) == process # Idle /\ process.do = do /\ process.at = at
Goto(at, artifact) == process' = [process EXCEPT !.at = at, !.artifact = artifact]

StartCheck(p, v) ==
  /\ Building /\ process = Idle /\ checks[p] = NoFile
  /\ process' =
       [do |-> "check", at |-> "runtime", path |-> p, settings |-> world.settings, machine |-> world.machine,
        artifact |-> [status |-> "running", variant |-> v, identity |-> IdentityOf(v, world.sources),
                      protocol |-> NotYet, plan |-> NotYet, runtime |-> NotYet, cases |-> <<>>]]
  /\ UNCHANGED <<world, variantOf, checks, benches, sidecar, passed, written, compared>>

CheckRuntime ==
  /\ Runs("check", "runtime")
  /\ process' = [process EXCEPT !.at = "cases", !.machine = world.machine,
                   !.artifact.protocol = ProtocolOf(process.settings), !.artifact.plan = PlanOf(process.settings),
                   !.artifact.runtime = RuntimeOf(world.machine)]
  /\ UNCHANGED <<world, variantOf, checks, benches, sidecar, passed, written, compared>>

CheckCase ==
  /\ Runs("check", "cases")
  /\ \E c \in CheckCases \ DOMAIN process.artifact.cases :
       LET done == DOMAIN process.artifact.cases \cup {c}
       IN /\ Goto("cases",
               [process.artifact EXCEPT !.cases = [x \in done |->
                  IF x = c THEN CheckedCase(process.artifact, process.machine, process.settings, c) ELSE @[x]]])
          /\ passed' = IF done = CheckCases
                       THEN passed \cup {[identity |-> process.artifact.identity,
                                          settings |-> process.settings, machine |-> process.machine]}
                       ELSE passed
  /\ UNCHANGED <<world, variantOf, checks, benches, sidecar, written, compared>>

WriteCheck ==
  /\ Runs("check", "cases") /\ DOMAIN process.artifact.cases = CheckCases
  /\ checks' = [checks EXCEPT ![process.path] = [process.artifact EXCEPT !.status = "passed"]]
  /\ process' = Idle
  /\ UNCHANGED <<world, variantOf, benches, sidecar, passed, written, compared>>

---------------------------------------------------------------------------
(* verify_correctness_artifact *)

\* The records of a case against each other; `phases` and `gates` are what the
\* command must have left.
CaseBinds(a, c, phases, gates) ==
  LET r == a.cases[c] IN
    /\ \A f \in {"A", "B"} : Intact(r.inputs[f])
    /\ r.inputs["A"].sha256 # r.inputs["B"].sha256
    /\ r.contentHash = InputHash(r.inputs)
    /\ phases \subseteq r.phases
    /\ r.gates = gates
    /\ r.experiment = Experiment(a, r.contentHash)

\* A gate has executed both fixtures, in whatever order.
CheckedCaseHolds(a, c) ==
  /\ CaseBinds(a, c, {"before_candidate", "candidate_prepare", "correctness"}, a.cases[c].gates)
  /\ {"A", "B"} \subseteq {a.cases[c].gates.correctness[i] : i \in DOMAIN a.cases[c].gates.correctness}

\* Bug: the plan is only required to be intact, not to be today's.
VerifyCorrectnessOfAnyPlan(a, identity, settings) ==
  /\ a # NoFile /\ a.status = "passed"
  /\ a.identity = identity /\ Intact(a.identity)
  /\ Intact(a.protocol) /\ Intact(a.plan) /\ Intact(a.runtime)
  /\ a.protocol = ProtocolOf(settings)
  /\ DOMAIN a.cases = CheckCases
  /\ \A c \in CheckCases : CheckedCaseHolds(a, c)

VerifyCorrectness(a, identity, settings) ==
  /\ a # NoFile /\ a.status = "passed"
  /\ a.identity.sha256 = identity.sha256 /\ Intact(a.identity)
  /\ Intact(a.protocol) /\ Intact(a.plan) /\ Intact(a.runtime)
  /\ a.protocol.sha256 = ProtocolOf(settings).sha256
  /\ a.plan.sha256 = PlanOf(settings).sha256
  /\ DOMAIN a.cases = CheckCases
  /\ \A c \in CheckCases : CheckedCaseHolds(a, c)

---------------------------------------------------------------------------
(* run_benchmark, and the capture of a profile *)

\* Nothing is written by a command whose correctness artifact does not verify.
Gate(p, identity) ==
  IF VerifyCorrectness(checks[p], identity, world.settings)
  THEN [status |-> "passed", fingerprint |-> identity.sha256, runtime |-> checks[p].runtime.sha256]
  ELSE NoFile

StartBench(s, p) ==
  /\ Open /\ process = Idle /\ benches[s] = NoFile
  /\ LET identity == IdentityOf(variantOf[s], world.sources)
     IN /\ Gate(p, identity) # NoFile
        /\ process' =
             [do |-> "benchmark", at |-> "contract", path |-> s, settings |-> world.settings,
              machine |-> world.machine,
              artifact |->
                [schema |-> 3, status |-> "running", run |-> Cardinality(written), variant |-> variantOf[s],
                 identity |-> identity, gate |-> Gate(p, identity),
                 contract |-> <<>>, contractHash |-> <<>>, protocol |-> NotYet, plan |-> NotYet,
                 runtime |-> NotYet, signature |-> <<>>, caseFiles |-> {}, cases |-> <<>>,
                 rows |-> [of |-> <<>>]]]
  /\ UNCHANGED <<world, variantOf, checks, benches, sidecar, passed, written, compared>>

\* The contract takes the fingerprint of the core again.
ReadContract ==
  /\ Runs("benchmark", "contract")
  /\ LET contract == ContractOf(process.settings, world.sources.core)
     IN Goto("runtime", [process.artifact EXCEPT !.contract = contract, !.contractHash = Hash(contract)])
  /\ UNCHANGED <<world, variantOf, checks, benches, sidecar, passed, written, compared>>

WithRuntime(a) ==
  [a EXCEPT !.runtime = RuntimeOf(world.machine), !.signature = SignatureOf(world.machine),
            !.protocol = ProtocolOf(process.settings), !.plan = PlanOf(process.settings)]

BenchRuntime ==
  /\ Runs("benchmark", "runtime")
  /\ process.artifact.gate.runtime = RuntimeOf(world.machine).sha256
  /\ process' = [process EXCEPT !.at = "cases", !.machine = world.machine, !.artifact = WithRuntime(@)]
  /\ UNCHANGED <<world, variantOf, checks, benches, sidecar, passed, written, compared>>

BenchCase ==
  /\ Runs("benchmark", "cases")
  /\ \E c \in BenchCases \ DOMAIN process.artifact.cases :
       LET a == process.artifact
           done == DOMAIN a.cases \cup {c}
       IN Goto("cases",
               [a EXCEPT !.cases = [x \in done |->
                            IF x = c THEN MeasuredCase(a, process.machine, process.settings, c) ELSE @[x]],
                         !.caseFiles = @ \cup {[case |-> c, sha256 |-> Hash(<<a.run, c>>)]},
                         !.rows = RowsOf(a, done)])
  /\ UNCHANGED <<world, variantOf, checks, benches, sidecar, passed, written, compared>>

WriteArtifact(status) ==
  LET a == [process.artifact EXCEPT !.status = status]
  IN benches' = [benches EXCEPT ![process.path] = a] /\ written' = written \cup {a}

WriteBench ==
  /\ Runs("benchmark", "cases") /\ DOMAIN process.artifact.cases = BenchCases
  /\ WriteArtifact("complete")
  /\ process' = Idle
  /\ UNCHANGED <<world, variantOf, checks, sidecar, passed, compared>>

\* Whatever raises once the try block is entered: a machine that is not the
\* gate's, a wrong answer, a busy GPU, a full disk.
FailCommand ==
  /\ process # Idle /\ Bounded /\ world.failures < MaxFailures
  /\ world' = [world EXCEPT !.failures = @ + 1]
  /\ \/ /\ process.do = "check"
        /\ checks' = [checks EXCEPT ![process.path] = [process.artifact EXCEPT !.status = "failed"]]
        /\ UNCHANGED <<benches, written>>
     \/ /\ process.do = "benchmark" /\ process.at # "contract"
        /\ WriteArtifact("failed") /\ UNCHANGED checks
     \/ process.do = "profile" /\ UNCHANGED <<checks, benches, written>>
  /\ process' = Idle
  /\ UNCHANGED <<variantOf, sidecar, passed, compared>>

StartCapture(s, p) ==
  /\ Building /\ process = Idle
  /\ LET identity == IdentityOf(variantOf[s], world.sources)
     IN /\ Gate(p, identity) # NoFile
        /\ process' = [do |-> "profile", at |-> "runtime", settings |-> world.settings, machine |-> world.machine,
                       artifact |-> [status |-> "running", identity |-> identity, gate |-> Gate(p, identity),
                                     runtime |-> NotYet, protocol |-> NotYet, plan |-> NotYet,
                                     signature |-> <<>>]]
  /\ UNCHANGED <<world, variantOf, checks, benches, sidecar, passed, written, compared>>

\* A capture leaves its metadata only when it is complete.
Capture ==
  /\ Runs("profile", "runtime")
  /\ process.artifact.gate.runtime = RuntimeOf(world.machine).sha256
  /\ sidecar' = [WithRuntime(process.artifact) EXCEPT !.status = "complete"]
  /\ process' = Idle
  /\ UNCHANGED <<world, variantOf, checks, benches, passed, written, compared>>

---------------------------------------------------------------------------
(* benchmark_validation_errors and compare_benchmarks *)

\* Bug: the core in the contract is not compared with the variant's.
IdentitiesBindTorn(a) ==
  /\ Intact(a.identity) /\ Intact(a.protocol) /\ Intact(a.plan) /\ Intact(a.runtime)
  /\ a.protocol = a.contract.protocol /\ a.plan = a.contract.plan
  /\ a.gate.runtime = a.runtime.sha256

IdentitiesBind(a) ==
  /\ Intact(a.identity) /\ Intact(a.protocol) /\ Intact(a.plan) /\ Intact(a.runtime)
  /\ a.protocol = a.contract.protocol /\ a.plan = a.contract.plan
  /\ Core(a.identity) = a.contract.core
  /\ a.gate.runtime = a.runtime.sha256

MeasuredCaseHolds(a, c) ==
  /\ CaseBinds(a, c, {"before_candidate", "candidate_prepare", "benchmark_postflight"},
               [preflight |-> <<"A", "B">>, postflight |-> <<"B", "A">>])
  /\ a.cases[c].exclusive
  /\ a.schema >= 3 => a.cases[c].topology = a.contract.kineto

\* Every row belongs to this artifact, once; the trials are all there and used
\* the fixtures in turn.
RowsHold(a) ==
  /\ \A k \in DOMAIN a.rows.of : a.rows.of[k] = 1 /\ k.case \in DOMAIN a.cases
  /\ DOMAIN a.rows.of # {} =>
       a.rows.run = a.run /\ a.rows.variant = a.variant /\ a.rows.contractHash = a.contractHash
  /\ a.schema >= 2 =>
       \A k \in DOMAIN a.rows.of :
         k.pass \in {"formal_kernel_sum", "cuda_event_total"} => k.fixture = FixtureOf(k.trial)
  /\ a.schema >= 3 => \A c \in a.contract.cases :
       /\ \A p \in KinetoPasses :
            {k.trial : k \in {j \in DOMAIN a.rows.of : j.case = c /\ j.pass = p}} = 0..(a.contract.kineto - 1)
       /\ {k.trial : k \in {j \in DOMAIN a.rows.of : j.case = c /\ j.pass = "cuda_event_total"}}
            = 0..(a.contract.event - 1)

\* Older schemas are read with fewer demands.
BenchmarkValid(a) ==
  /\ a.status = "complete"
  /\ a.contract # <<>> /\ Hash(a.contract) = a.contractHash
  /\ Intact(a.identity)
  /\ a.gate.status = "passed" /\ a.gate.fingerprint = a.identity.sha256
  /\ DOMAIN a.cases = a.contract.cases
  /\ a.schema >= 2 =>
       /\ IdentitiesBind(a)
       /\ {f.case : f \in a.caseFiles} = a.contract.cases
       /\ Cardinality(a.caseFiles) = Cardinality(a.contract.cases)
       /\ \A c \in DOMAIN a.cases : MeasuredCaseHolds(a, c)
  /\ RowsHold(a)

SampledCases(a, pass) == {k.case : k \in {j \in DOMAIN a.rows.of : j.pass = pass}}
InputsOf(a) == [c \in DOMAIN a.cases |-> a.cases[c].contentHash]

Comparable(b, c) ==
  /\ BenchmarkValid(b) /\ BenchmarkValid(c)
  /\ b.contractHash = c.contractHash
  /\ b.signature = c.signature
  /\ SampledCases(b, "formal_kernel_sum") = SampledCases(c, "formal_kernel_sum")
  /\ \A a \in {b, c} :
       /\ SampledCases(a, "cuda_event_total") = SampledCases(b, "formal_kernel_sum")
       /\ SampledCases(a, "formal_kernel_sum") # {}
  /\ InputsOf(b) = InputsOf(c)

CompareBenchmarks(s, t) ==
  /\ Open /\ process = Idle /\ s # t /\ benches[s] # NoFile /\ benches[t] # NoFile
  /\ compared' = [at |-> "compared", base |-> benches[s], candidate |-> benches[t],
                  decided |-> Comparable(benches[s], benches[t])]
  /\ UNCHANGED <<world, variantOf, checks, benches, sidecar, process, passed, written>>

---------------------------------------------------------------------------
(* The environment *)

\* Somebody edits the code or the configuration, or uses another machine.
ChangeWorld ==
  /\ Building /\ Bounded /\ world.changes < MaxChanges
  /\ \/ \E x \in Sources : world' = [world EXCEPT !.sources = x, !.changes = @ + 1]
     \/ \E x \in Settings : world' = [world EXCEPT !.settings = x, !.changes = @ + 1]
     \/ \E x \in Machines : world' = [world EXCEPT !.machine = x, !.changes = @ + 1]
  /\ UNCHANGED <<variantOf, checks, benches, sidecar, process, passed, written, compared>>

Sections == {"schema", "status", "run", "variant", "identity", "gate", "contract", "contractHash",
             "protocol", "plan", "runtime", "caseFiles", "cases", "rows"}
CheckSections == {"status", "variant", "identity", "protocol", "plan", "runtime", "cases"}

\* What may stand in a section besides that of another artifact.
Damaged(a, section) ==
  CASE section = "schema" -> {1, 2}
    [] section = "status" -> {"complete"}
    [] section = "runtime" -> {[a.runtime EXCEPT !.payload = RuntimeOf(m).payload] : m \in Machines}
    [] section = "contract" -> {[a.contract EXCEPT !.kineto = 0]}
    [] section = "cases" ->
         {[c \in DOMAIN a.cases \ {d} |-> a.cases[c]] : d \in DOMAIN a.cases}
         \cup {[a.cases EXCEPT ![d].phases = {"before_candidate", "candidate_prepare"}] : d \in DOMAIN a.cases}
         \cup {[a.cases EXCEPT ![d].gates.postflight = <<"A", "B">>] : d \in DOMAIN a.cases}
         \cup {[a.cases EXCEPT ![d].inputs["B"] = a.cases[d].inputs["A"]] : d \in DOMAIN a.cases}
         \cup {[a.cases EXCEPT ![d].exclusive = FALSE, ![d].topology = 0] : d \in DOMAIN a.cases}
    [] section = "rows" ->
         {[a.rows EXCEPT !.of = [k \in DOMAIN @ \ {d} |-> 1]] : d \in DOMAIN a.rows.of}
         \cup {[a.rows EXCEPT !.of[d] = 2] : d \in DOMAIN a.rows.of}
    [] OTHER -> {}

EditBench(s) ==
  /\ Open /\ Bounded /\ world.edits < MaxEdits /\ process = Idle
  /\ ~Building /\ benches[s].contract # <<>>
  /\ \E section \in Sections :
       \E new \in Damaged(benches[s], section) \cup {benches[t][section] : t \in Paths} :
         benches' = [benches EXCEPT ![s] = [@ EXCEPT ![section] = new]]
  /\ world' = [world EXCEPT !.edits = @ + 1]
  /\ UNCHANGED <<variantOf, checks, sidecar, process, passed, written, compared>>

EditCheck(p) ==
  /\ Building /\ Bounded /\ world.edits < MaxEdits /\ process = Idle /\ checks[p] # NoFile
  /\ \E section \in CheckSections, q \in Checks :
       /\ checks[q] # NoFile
       /\ checks' = [checks EXCEPT ![p] =
            [@ EXCEPT ![section] = IF section = "status" THEN "passed" ELSE checks[q][section]]]
  /\ world' = [world EXCEPT !.edits = @ + 1]
  /\ UNCHANGED <<variantOf, benches, sidecar, process, passed, written, compared>>

EvidenceNext ==
  \/ \E p \in Checks, s \in Paths :
       StartCheck(p, variantOf[s]) \/ StartBench(s, p) \/ StartCapture(s, p)
  \/ CheckRuntime \/ CheckCase \/ WriteCheck
  \/ ReadContract \/ BenchRuntime \/ BenchCase \/ WriteBench
  \/ Capture \/ FailCommand
  \/ \E s, t \in Paths : CompareBenchmarks(s, t)
  \/ ChangeWorld
  \/ \E s \in Paths : EditBench(s)
  \/ \E p \in Checks : EditCheck(p)

EvidenceSpec == EvidenceInit /\ [][EvidenceNext]_evidenceVars

---------------------------------------------------------------------------
(* Properties *)

Completed == {w \in written : w.status = "complete"} \cup (IF sidecar = NoFile THEN {} ELSE {sidecar})

\* A benchmark that completes and a profile that is captured rest on a
\* correctness run whose cases all passed for the same operator, protocol, plan and
\* machine, whatever changed in between and whatever section of a correctness
\* artifact was replaced; of the same core as well when none was, since the core
\* is not among the components of an experiment (runner.py:196-390, 496-500,
\* profile.py:205-222).
GateFresh ==
  \A a \in Completed : \E r \in passed :
    /\ Operator(a.identity) = Operator(r.identity)
    /\ a.protocol = ProtocolOf(r.settings) /\ a.plan = PlanOf(r.settings)
    /\ a.runtime = RuntimeOf(r.machine)
    /\ world.edits = 0 => a.identity = r.identity

Full(w) == DOMAIN w.cases = BenchCases /\ DOMAIN w.rows.of = RowKeys(BenchCases)
Untorn(w) == w.status = "complete" /\ Core(w.identity) = w.contract.core

\* A comparison decides only on two benchmarks as they were written, of one
\* contract, one core and one set of inputs: one whose core changed under it,
\* that failed, or in which one section was replaced is incomparable.  The
\* digests of the case files are not looked at (the campaign seal does that), and
\* the core is not in an artifact that says it is of schema 1.
\* And it does decide on any two benchmarks that completed under the same core,
\* settings and machine: what run_benchmark writes, the validation takes
\* (comparison.py:149-434, 483-538).
DecidesOnEvidence ==
  compared # Idle =>
    LET b == compared.base
        c == compared.candidate
    IN /\ compared.decided =>
            /\ \A a \in {b, c} : \E w \in written :
                 /\ Full(w) /\ (a.schema >= 2 => Core(w.identity) = w.contract.core)
                 /\ \A s \in Sections \ {"schema", "status", "caseFiles"} : a[s] = w[s]
            /\ b.contract = c.contract /\ b.signature = c.signature /\ InputsOf(b) = InputsOf(c)
       /\ {b, c} \subseteq written /\ Untorn(b) /\ Untorn(c) /\ b.contract = c.contract
            /\ b.signature = c.signature /\ b.runtime = c.runtime
          => compared.decided
=============================================================================
