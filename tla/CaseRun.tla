------------------------------- MODULE CaseRun ------------------------------
(* One case of a correctness, benchmark or profile run: lifecycle.py and the *)
(* schedules that benchmark.py and profile.py drive it through.  The host    *)
(* works through a program of steps; what it launches is executed later, in  *)
(* order per stream, by the device, on one memory.  A candidate may answer   *)
(* wrongly, remember what it saw, or overwrite its inputs.  It answers timed *)
(* and untimed runs alike, and what it has overwritten stays so: nothing in  *)
(* the code would notice one that does otherwise.                            *)
EXTENDS ScoreOracle, TrialProtocol, Sequences, SequencesExt

CONSTANTS
  Case,         \* the shape of this case
  Contents,     \* the tensor contents fixtures are made with, as score rows
  References,   \* how the exact reference may answer
  Candidates,   \* what the candidate may be
  Commands,     \* which of the programs below may run
  WarmUps       \* iterations that are not measured

\* What the configuration and the plugins' interface guarantee.
ASSUME CaseAssumption ==
  /\ IsCase(Case)
  /\ \A scores \in Contents : scores \in [Rows(Case) -> [Keys(Case) -> Nat]]
  /\ \A c \in Candidates : c.stream \in {"main", "side"}
  /\ Commands \subseteq {"correctness", "benchmark", "profile"}
  /\ {WarmUps, EventTrials, KinetoTrials} \subseteq Nat

Fixtures == {"A", "B"}
Streams == {"main", "side"}

\* Content that no fixture was made with.
Spoilt == [r \in Rows(Case) |-> [j \in Keys(Case) |-> 0]]

VARIABLES
  created,    \* the content each fixture was made with
  plugins,    \* the reference and the candidate of this run
  program,    \* the steps the host still has to make
  caseStatus, \* running, complete or failed
  version,    \* which fixtures' version counters have moved
  memory,     \* device memory
  queue,      \* launched operations, per stream
  keeps,      \* the buffer each oracle's indices are in
  ties,       \* the oracles' tied rows, on the host
  timed       \* what the measured executions read and returned

caseVars == <<created, plugins, program, caseStatus, version, memory, queue, keeps, ties, timed>>

---------------------------------------------------------------------------
(* The programs.  A step is a record; "run" launches the whole graph.        *)

Step(do, f) == [do |-> do, fixture |-> f]
Sync == Step("deviceSync", "")
StreamSync == Step("streamSync", "")
Verify == Step("verify", "")
RunOn(f) == <<Step("run", f)>>
TimedOn(f) == <<Step("timedRun", f)>>

\* Each of the fixtures, in this order, executed and judged; then the inputs.
CheckCandidate(fixtures) ==
  FlattenSeq([i \in DOMAIN fixtures |-> RunOn(fixtures[i]) \o <<Sync, Step("validate", fixtures[i])>>])
    \o <<Verify>>

CreateFixtures == <<Step("create", "")>>
BuildOracles ==
  FlattenSeq([i \in 1..2 |-> LET f == FixtureOf(i - 1) IN
                <<Step("reference", f), Sync, Step("clone", f), Step("judge", f)>>]) \o <<Verify>>
PrepareCandidate == <<Step("prepare", "A"), Sync, Verify>>
WarmUp(n) == FlattenSeq([i \in 1..n |-> RunOn(FixtureOf(i - 1))]) \o <<Sync>>

MemoryPass == <<StreamSync>> \o RunOn("A") \o <<StreamSync>>
EventPass ==
  <<StreamSync>> \o FlattenSeq([i \in 1..EventTrials |-> TimedOn(FixtureOf(i - 1)) \o <<StreamSync>>])

\* The first of the two profiled phases is not recorded.
KinetoPass ==
  RunOn("A") \o <<StreamSync>>
    \o FlattenSeq([i \in 1..KinetoTrials |-> RunOn(FixtureOf(i - 1))])
    \o FlattenSeq([i \in 1..KinetoTrials |-> TimedOn(FixtureOf(i - 1))]) \o <<StreamSync>>

Prelude == CreateFixtures \o BuildOracles \o PrepareCandidate

ProgramOf(command) ==
  Prelude \o
    CASE command = "correctness" -> CheckCandidate(<<"A", "B", "A">>)
      [] command = "benchmark" ->
           <<StreamSync>> \o WarmUp(WarmUps) \o CheckCandidate(<<"A", "B">>)
             \o MemoryPass \o EventPass \o KinetoPass \o CheckCandidate(<<"B", "A">>)
      [] command = "profile" ->
           WarmUp(WarmUps) \o CheckCandidate(<<"A", "B">>)
             \o <<Sync>> \o TimedOn("A") \o <<Sync, Step("validate", "A")>>
             \o CheckCandidate(<<"B", "A">>)

---------------------------------------------------------------------------
(* What the plugins compute *)

Beats(score, up, k, j) ==
  score[k] > score[j] \/ (score[k] = score[j] /\ IF up THEN k < j ELSE k > j)

\* A row's ids by score, ties by id, up or down.
Ranked(scores, up) ==
  [sound |-> TRUE,
   ids |-> [r \in Rows(Case) |-> [i \in Slots(Case) |->
     IF i > Width(Case, r) THEN -1
     ELSE CHOOSE j \in Prefix(Case, r) :
            Cardinality({k \in Prefix(Case, r) : Beats(scores[r], up, k, j)}) = i - 1]]]

\* The first ids of every row, whatever their scores.
LeadingIds ==
  [sound |-> TRUE,
   ids |-> [r \in Rows(Case) |-> [i \in Slots(Case) |-> IF i > Width(Case, r) THEN -1 ELSE i - 1]]]

AnswerTo(way, scores) ==
  CASE way = "low" -> Ranked(scores, TRUE)
    [] way = "high" -> Ranked(scores, FALSE)
    [] OTHER -> LeadingIds

Nothing == [sound |-> FALSE, ids |-> [r \in Rows(Case) |-> [i \in Slots(Case) |-> -1]]]

CaseInit ==
  /\ created \in [Fixtures -> Contents]
  /\ plugins \in [reference : References, candidate : Candidates]
  /\ program \in {ProgramOf(c) : c \in Commands}
  /\ caseStatus = "running"
  /\ version = {}
  /\ memory = [input |-> created, logits |-> Spoilt, cache |-> Nothing,
               indices |-> [b \in Fixtures \cup {"reference", "candidate"} |-> Nothing]]
  /\ keeps = [f \in Fixtures |-> f]
  /\ queue = [s \in Streams |-> <<>>]
  /\ ties = [f \in Fixtures |-> <<>>]
  /\ timed = {}

---------------------------------------------------------------------------
(* The host *)

Now(do) == caseStatus = "running" /\ program # <<>> /\ Head(program).do = do
Fixture == Head(program).fixture
Pass == program' = Tail(program) /\ UNCHANGED caseStatus
Fail == caseStatus' = "failed" /\ UNCHANGED program
PassIf(ok) == IF ok THEN Pass ELSE Fail
Launch(stream, op) == queue' = [queue EXCEPT ![stream] = Append(@, op)]
Oracle(f) == memory.indices[keeps[f]]
Drained(stream) == queue[stream] = <<>>
Operation(what, f) == [what |-> what, fixture |-> f, timed |-> FALSE]

\* Fixtures of one content are refused; so are ones the factory got wrong.
Create ==
  /\ Now("create")
  /\ PassIf(created["A"] # created["B"]) \/ Fail
  /\ UNCHANGED <<created, plugins, version, memory, queue, keeps, ties, timed>>

\* A plugin may turn out not to support the case or to build an unsound graph.
RunReference ==
  /\ Now("reference")
  /\ \/ Launch("main", Operation("reference", Fixture)) /\ Pass
     \/ Fail /\ UNCHANGED queue
  /\ UNCHANGED <<created, plugins, version, memory, keeps, ties, timed>>

\* Bug: the oracle keeps the reference's output buffer and not a copy of it.
CloneByReference ==
  /\ Now("clone") /\ Pass
  /\ keeps' = [keeps EXCEPT ![Fixture] = "reference"]
  /\ UNCHANGED <<created, plugins, version, memory, queue, ties, timed>>

\* The selection is copied out of the buffer the reference returns it in.
Clone ==
  /\ Now("clone") /\ Pass
  /\ keeps' = [keeps EXCEPT ![Fixture] = Fixture]
  /\ Launch("main", Operation("clone", Fixture))
  /\ UNCHANGED <<created, plugins, version, memory, ties, timed>>

\* The host reads tensors through the current stream, hence after all on it.
Judge ==
  /\ Now("judge") /\ Drained("main")
  /\ PassIf(OracleBuilds("tensor", memory.logits, Oracle(Fixture), Case))
  /\ ties' = [ties EXCEPT ![Fixture] = OracleOf(memory.logits, Case)]
  /\ UNCHANGED <<created, plugins, version, memory, queue, keeps, timed>>

\* The candidate is prepared with A.  It may write the input it was given, by
\* an operation that moves the version counter or behind the counter's back.
Prepare ==
  /\ Now("prepare")
  /\ \/ /\ Launch(plugins.candidate.stream, Operation("prepare", Fixture)) /\ Pass
        /\ version' = IF plugins.candidate.writes = [at |-> "prepare", by |-> "operator"]
                      THEN version \cup {Fixture} ELSE version
     \/ Fail /\ UNCHANGED <<queue, version>>
  /\ UNCHANGED <<created, plugins, memory, keeps, ties, timed>>

Run ==
  /\ Now("run") \/ Now("timedRun")
  /\ Launch(plugins.candidate.stream,
            [what |-> "candidate", fixture |-> Fixture, timed |-> Head(program).do = "timedRun"])
  /\ Pass
  /\ version' = IF plugins.candidate.writes = [at |-> "run", by |-> "operator"]
                THEN version \cup {Fixture} ELSE version
  /\ UNCHANGED <<created, plugins, memory, keeps, ties, timed>>

Validate ==
  /\ Now("validate") /\ Drained("main")
  /\ PassIf(Accepts("tensor", ties[Fixture], memory.indices["candidate"], Oracle(Fixture), Case))
  /\ UNCHANGED <<created, plugins, version, memory, queue, keeps, ties, timed>>

\* Bug: the version counters are trusted and the bytes are not hashed again.
VerifyInputsByVersion ==
  /\ Now("verify") /\ Drained("main")
  /\ PassIf(version = {})
  /\ UNCHANGED <<created, plugins, version, memory, queue, keeps, ties, timed>>

VerifyInputs ==
  /\ Now("verify") /\ Drained("main")
  /\ PassIf(memory.input = created /\ version = {})
  /\ UNCHANGED <<created, plugins, version, memory, queue, keeps, ties, timed>>

Synchronize ==
  /\ \/ Now("deviceSync") /\ \A s \in Streams : Drained(s)
     \/ Now("streamSync") /\ Drained("main")
  /\ Pass
  /\ UNCHANGED <<created, plugins, version, memory, queue, keeps, ties, timed>>

Complete ==
  /\ caseStatus = "running" /\ program = <<>>
  /\ caseStatus' = "complete"
  /\ UNCHANGED <<created, plugins, program, version, memory, queue, keeps, ties, timed>>

---------------------------------------------------------------------------
(* The device executes the head of a stream *)

\* What the candidate returns: computed, prepared, or remembered.
Output(f) ==
  LET way == plugins.candidate.answers IN
    IF way = "prepared" \/ (way = "first" /\ memory.cache.sound)
    THEN memory.cache
    ELSE AnswerTo(IF way = "first" THEN "low" ELSE way, memory.input[f])

\* The input after an operation of the candidate: spoilt if it writes there
\* behind the counter, rewritten with what it was if it writes with it.
InputAfter(when, f) ==
  IF plugins.candidate.writes = [at |-> when, by |-> "kernel"]
  THEN [memory.input EXCEPT ![f] = Spoilt] ELSE memory.input

Device(stream) ==
  /\ queue[stream] # <<>>
  /\ queue' = [queue EXCEPT ![stream] = Tail(@)]
  /\ LET op == Head(queue[stream])
         f == op.fixture
     IN \/ /\ op.what = "reference"
           /\ memory' = [memory EXCEPT !.logits = memory.input[f],
                        !.indices["reference"] = AnswerTo(plugins.reference, memory.input[f])]
           /\ UNCHANGED timed
        \/ /\ op.what = "clone"
           /\ memory' = [memory EXCEPT !.indices[f] = memory.indices["reference"]]
           /\ UNCHANGED timed
        \/ /\ op.what = "prepare"
           /\ memory' = [memory EXCEPT !.input = InputAfter("prepare", f),
                        !.cache = IF plugins.candidate.answers = "prepared"
                                  THEN Ranked(memory.input[f], TRUE) ELSE Nothing]
           /\ UNCHANGED timed
        \/ /\ op.what = "candidate"
           /\ memory' = [memory EXCEPT !.input = InputAfter("run", f),
                        !.indices["candidate"] = Output(f),
                        !.cache = IF plugins.candidate.answers = "first" THEN Output(f) ELSE memory.cache]
           /\ timed' = IF op.timed
                       THEN timed \cup {[fixture |-> f, read |-> memory.input[f], gave |-> Output(f)]}
                       ELSE timed
  /\ UNCHANGED <<created, plugins, program, caseStatus, version, keeps, ties>>

HostNext ==
  \/ Create \/ RunReference \/ Clone \/ Judge
  \/ Prepare \/ Run \/ Validate \/ VerifyInputs
  \/ Synchronize \/ Complete

CaseNext == HostNext \/ \E s \in Streams : Device(s)

CaseSpec == CaseInit /\ [][CaseNext]_caseVars

---------------------------------------------------------------------------
(* Properties *)

\* A case that completes has measured exact answers only, for both fixtures:
\* one that was prepared from A or remembered from an earlier run passes only
\* if it is exact for the other fixture as well, whatever the device does in
\* the background of the host's checks (lifecycle.py:240-373).
GateExact ==
  caseStatus = "complete" =>
    \A t \in timed : Exact(created[t.fixture], t.gave, Case)

\* A case that completes has measured on the inputs it was made with: no write
\* of the candidate that lasts, in prepare or in a run, with or without the
\* version counters, early or late, goes unnoticed (lifecycle.py:154-176).  A
\* write that is undone before the next look would.
MeasuredIntact ==
  caseStatus = "complete" =>
    /\ \A t \in timed : t.read = created[t.fixture]
    /\ memory.input = created
=============================================================================
