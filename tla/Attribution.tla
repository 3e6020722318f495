----------------------------- MODULE Attribution ----------------------------
(* Which CUDA activities belong to which trial and stage (kineto.py), of the *)
(* profile that benchmark.py records.  Every trial scrubs the L2 cache and   *)
(* then runs the stages inside an operator range; the events of the recorded *)
(* phase are read afterwards.  CPU operators and launches are numbered       *)
(* independently, so that an operator may have the number of a launch.       *)
EXTENDS TrialProtocol, Sequences, FiniteSets, SequencesExt

CONSTANTS
  Graph,      \* the stages a profiled graph may have: sequences of [labelled, work],
              \* work[fixture] the kinds of activities the stage launches
  OpNumbers   \* where the numbers of CPU operators may start; launches start at 1

ASSUME WorkIsListed ==
  \A graph \in Graph : graph \in Seq(Range(graph)) /\
    \A s \in DOMAIN graph, fixture \in {"A", "B"} :
      graph[s].work[fixture] \in Seq(Range(graph[s].work[fixture]))

VARIABLES
  stages,     \* the graph that is profiled
  opNumber,   \* the last number given to a CPU operator
  launch,     \* the last correlation id
  cpu,        \* recorded CPU events: number, what they are and the ranges around them
  cuda,       \* recorded CUDA activities; `by` is who really launched them
  progress,   \* the trial and the stage that come next
  verdictOn   \* recording, accepted or refused

profileVars == <<stages, opNumber, launch, cpu, cuda, progress, verdictOn>>

OperatorRange(trial) == <<"operator", trial>>
StageRange(trial, s) == <<"stage", trial, s>>

\* Activities of the phase before may still end while the first are recorded.
ProfileInit ==
  /\ stages \in Graph
  /\ opNumber \in OpNumbers
  /\ launch = 2
  /\ cpu = {}
  /\ cuda = {[id |-> i, kind |-> "kernel", empty |-> FALSE, by |-> <<"earlier">>] : i \in 1..2}
  /\ progress = [trial |-> 0, stage |-> 0]
  /\ verdictOn = "recording"

\* One CPU operator that makes the launches of `kinds` below it, in the ranges
\* around it.  The device also annotates a launch with the range it is in, and
\* may report an activity without a duration.
Record(kinds, ranges, by, empties) ==
  /\ opNumber' = opNumber + 1
  /\ launch' = launch + Len(kinds)
  /\ cpu' = cpu \cup {[id |-> opNumber + 1, what |-> <<"op">>, within |-> ranges]}
                \cup {[id |-> launch + i, what |-> <<"launch">>, within |-> ranges] : i \in DOMAIN kinds}
                \cup {[id |-> 0, what |-> r, within |-> {}] : r \in ranges}
  /\ cuda' = cuda \cup {[id |-> launch + i, kind |-> kinds[i], empty |-> i \in empties, by |-> by] : i \in DOMAIN kinds}
                  \cup {[id |-> launch + i, kind |-> "annotation", empty |-> FALSE, by |-> by] :
                         i \in IF ranges = {} THEN {} ELSE DOMAIN kinds}

\* The scrub is enqueued before the operator range is entered.
Flush ==
  /\ verdictOn = "recording" /\ progress.trial < KinetoTrials /\ progress.stage = 0
  /\ Record(<<"kernel">>, {}, <<"flush">>, {})
  /\ progress' = [progress EXCEPT !.stage = 1]
  /\ UNCHANGED <<stages, verdictOn>>

RunProfiled ==
  /\ verdictOn = "recording" /\ progress.trial < KinetoTrials /\ progress.stage \in DOMAIN stages
  /\ LET t == progress.trial
         s == progress.stage
         kinds == stages[s].work[FixtureOf(t)]
     IN \E empties \in {{}, {1}} :
          Record(kinds,
                 {OperatorRange(t)} \cup (IF stages[s].labelled THEN {StageRange(t, s)} ELSE {}),
                 <<"stage", t, s>>, empties)
  /\ progress' = IF progress.stage = Len(stages)
                 THEN [trial |-> progress.trial + 1, stage |-> 0]
                 ELSE [progress EXCEPT !.stage = @ + 1]
  /\ UNCHANGED <<stages, verdictOn>>

---------------------------------------------------------------------------
(* Reading the profile *)

\* Bug: every number below the range is taken for a correlation id.
CorrelatedIdsOfAll(range) == {e.id : e \in {c \in cpu : range \in c.within}}

\* Only launches have correlation ids.
CorrelatedIds(range) == {e.id : e \in {c \in cpu : range \in c.within /\ c.what = <<"launch">>}}

Activities(range) ==
  {a \in cuda : a.id \in CorrelatedIds(range) /\ a.kind # "annotation" /\ ~a.empty}

\* A range that is not there exactly once, launched nothing or has no activity
\* raises.
Extractable(range) ==
  /\ Cardinality({e \in cpu : e.what = range}) = 1
  /\ Activities(range) # {}

\* The kinds of a range's activities in the order they started.
Signature(range) ==
  [i \in 1..Cardinality(Activities(range)) |->
     (CHOOSE a \in Activities(range) :
        Cardinality({b \in Activities(range) : b.id < a.id}) = i - 1).kind]

Labelled == {s \in DOMAIN stages : stages[s].labelled}
Kernels(range) == {a \in Activities(range) : a.kind = "kernel"}
CountOver(t, Of(_)) ==
  FoldSet(LAMBDA s, n : n + Cardinality(Of(StageRange(t, s))), 0, Labelled)

ExtractActiveTrials ==
  \A t \in 0..(KinetoTrials - 1) :
    Extractable(OperatorRange(t)) /\ \A s \in Labelled : Extractable(StageRange(t, s))

\* Every trial launches what the first did, and the stages cover the operator.
TopologyHolds ==
  \A t \in 0..(KinetoTrials - 1) :
    /\ Signature(OperatorRange(t)) = Signature(OperatorRange(0))
    /\ \A s \in Labelled : Signature(StageRange(t, s)) = Signature(StageRange(0, s))
    /\ CountOver(t, Kernels) = Cardinality(Kernels(OperatorRange(t)))
    /\ CountOver(t, Activities) = Cardinality(Activities(OperatorRange(t)))

\* The rows are then normalized, which takes no latency that is not positive.
RowsArePositive ==
  \A t \in 0..(KinetoTrials - 1) :
    Kernels(OperatorRange(t)) # {} /\ \A s \in Labelled : Kernels(StageRange(t, s)) # {}

Extract ==
  /\ verdictOn = "recording" /\ progress.trial = KinetoTrials
  /\ verdictOn' = IF ExtractActiveTrials /\ TopologyHolds /\ RowsArePositive THEN "accepted" ELSE "refused"
  /\ UNCHANGED <<stages, opNumber, launch, cpu, cuda, progress>>

ProfileNext == Flush \/ RunProfiled \/ Extract

ProfileSpec == ProfileInit /\ [][ProfileNext]_profileVars

---------------------------------------------------------------------------
(* Properties *)

\* What the stages of a trial really launched, as far as the device reports it.
Seen(t) == {a \in cuda : a.by[1] = "stage" /\ a.by[2] = t /\ a.kind # "annotation" /\ ~a.empty}

\* An accepted profile charges every trial with what its own stages launched
\* and with nothing else, neither the scrub nor an earlier phase, although
\* operators and launches share their numbers; what an unlabelled stage
\* launched or one trial lost would show (kineto.py:73-92, 234-291).
AttributionExact ==
  verdictOn = "accepted" =>
    \A t \in 0..(KinetoTrials - 1) :
      /\ Activities(OperatorRange(t)) = Seen(t)
      /\ \A a \in Seen(t) : \E s \in Labelled : a \in Activities(StageRange(t, s))
      /\ \A s \in Labelled :
           Activities(StageRange(t, s)) = {a \in Seen(t) : a.by = <<"stage", t, s>>}
=============================================================================
