-------------------------------- MODULE MCHost ------------------------------
(* The host's components, side by side: one behaviour is one component's, the *)
(* others rest.  The graphs, cases, plugins, profiles, worlds and campaigns   *)
(* they are checked on.                                                       *)
EXTENDS StageGraph, OracleCall, CaseRun, Attribution, Evidence, Decision, RunFiles, TLC

CONSTANTS p, q

---------------------------------------------------------------------------
(* Stage graphs: every three-stage graph of dependencies, and three of them  *)
(* with every way to produce and consume two artifacts and the answer.       *)

MCStage == 1..4
MCArtifact == {"keys", "scores", "answer"}

Only(three) == [s \in MCStage |-> IF s = 4 THEN {} ELSE three[s]]
Chain == Only(<<{}, {1}, {2}>>)
Submitted(deps) ==
  [listed |-> <<2, 1, 3>>, named |-> TRUE, deps |-> deps,
   consumes |-> Only(<<{}, {"keys"}, {"scores"}>>),
   produces |-> Only(<<{"keys"}, {"scores"}, {"answer"}>>),
   ops |-> Only(<<{"indexer"}, {"topk"}, {"output"}>>),
   initial |-> {}, terminal |-> "answer"]
AtMostOne(S) == {{}} \cup {{x} : x \in S}

MCGraphs ==
  {Submitted(Only(d)) : d \in [1..3 -> SUBSET (1..3)]}
  \cup {[Submitted(Chain) EXCEPT !.named = FALSE], [Submitted(Chain) EXCEPT !.listed = <<1, 2, 1>>],
        [Submitted(Chain) EXCEPT !.deps[3] = {4}], [Submitted(Chain) EXCEPT !.ops[2] = {"softmax"}]}
  \cup {[Submitted(d) EXCEPT !.produces = Only(made), !.consumes[2] = c2, !.consumes[3] = c3,
                             !.ops[1] = first, !.ops[2] = second, !.initial = i] :
          d \in {Chain, Only(<<{}, {1}, {1}>>), Only(<<{}, {}, {1, 2}>>)},
          made \in [1..3 -> AtMostOne(MCArtifact)],
          c2 \in AtMostOne({"keys"}), c3 \in {{"scores"}, {"keys", "scores"}},
          first \in {{"indexer", "topk"}, {"indexer"}}, second \in {{"topk"}, {}},
          i \in AtMostOne({"scores"})}

---------------------------------------------------------------------------
(* Oracles: cases of up to two rows and three keys, every score and every    *)
(* tensor of ids that is one beyond the bounds at most.                      *)

Shape(queries, keys, k) == [Q |-> queries, N |-> keys, K |-> k]
Tensors(c) ==
  {[sound |-> TRUE, ids |-> t] : t \in [0..(c.Q - 1) -> [1..c.K -> -1..c.N]]}
  \cup {[sound |-> FALSE, ids |-> [r \in 0..(c.Q - 1) |-> [i \in 1..c.K |-> i - 1]]],
        [sound |-> TRUE, ids |-> [r \in 0..(c.Q - 1) |-> [i \in 1..c.K |-> -2]]]}
Asked(c, values) ==
  {[case |-> c, scores |-> scores, tensors |-> Tensors(c)] :
     scores \in [0..(c.Q - 1) -> [0..(c.N - 1) -> values]]}
MCQuestions ==
  Asked(Shape(1, 1, 2), {1}) \cup Asked(Shape(1, 3, 2), 0..2) \cup Asked(Shape(2, 2, 1), 0..2)
  \cup {x \in Asked(Shape(2, 3, 1), 0..2) : x.scores[1] \in [0..2 -> 1..2]}

---------------------------------------------------------------------------
(* Cases: one row of two keys, whose scores rise, fall or tie.               *)

MCCase == Shape(1, 2, 1)
Row(first, second) == [r \in {0} |-> [j \in 0..1 |-> IF j = 0 THEN first ELSE second]]
MCContents == {Row(1, 2), Row(2, 1), Row(1, 1)}
MCReferences == {"low", "high", "leading"}
NoWrite == [at |-> "never", by |-> "nobody"]
MCCandidates ==
  [answers : {"low", "high", "leading", "prepared", "first"}, stream : Streams,
   writes : {NoWrite} \cup [at : {"prepare", "run"}, by : {"operator", "kernel"}]]
MCCommands == {"correctness", "benchmark", "profile"}

---------------------------------------------------------------------------
(* Profiles: graphs of one or two stages, whose work may depend on the fixture. *)

Works == {<<>>, <<"kernel">>, <<"kernel", "kernel">>, <<"memset", "kernel">>, <<"memset">>}
SteadyStages == {[labelled |-> l, work |-> [A |-> w, B |-> w]] : l \in BOOLEAN, w \in Works}
ShiftingStages == {[labelled |-> TRUE, work |-> [A |-> v, B |-> w]] : v, w \in Works}
MCGraph == {<<s, t>> : s \in SteadyStages \cup ShiftingStages, t \in SteadyStages} \cup {<<s>> : s \in SteadyStages}
MCOpNumbers == {0, 1, 3, 5}

---------------------------------------------------------------------------
(* Evidence: three versions of the code, three of the configuration and three *)
(* machines; the two benchmarks are of one variant or of two.                 *)

Code == [core |-> 1, operator |-> 1]
MCSources == {Code, [Code EXCEPT !.core = 2], [Code EXCEPT !.operator = 2]}
Configuration == [semantics |-> 1, plan |-> 1, diagnostics |-> 1]
MCSettings ==
  {Configuration, [Configuration EXCEPT !.semantics = 2, !.diagnostics = 2], [Configuration EXCEPT !.plan = 2]}
Machine == [compute |-> 1, power |-> 1, python |-> 1]
MCMachines == {Machine, [Machine EXCEPT !.compute = 2], [Machine EXCEPT !.python = 2]}
MCPaths == {"base", "candidate"}
MCAssignments == {[s \in MCPaths |-> "v"], [s \in MCPaths |-> IF s = "base" THEN "v" ELSE "w"]}

---------------------------------------------------------------------------
(* Campaigns: three blocks of two cases, that drift either way; what a       *)
(* benchmark and a table writer leave.                                       *)

MCOrderPlans == {<<"ABBA", "ABBA", "ABBA">>, <<"ABBA", "BAAB", "ABBA">>}
MCCampaignCases == {"small", "large"}
Medians(baseline, candidate) == [A |-> baseline, B |-> candidate]
Block(small, large) ==
  [latency |-> [small |-> small, large |-> large], drift |-> 0,
   tail |-> [A |-> 4, B |-> 4], eventTail |-> [A |-> 8, B |-> 8], noisy |-> {}]
Faster == Medians(104, 100)
Slower == Medians(100, 104)
Equal == Medians(100, 100)
MCShifts ==
  {[Block(s, l) EXCEPT !.drift = d] :
     s \in {Faster, Slower, Equal}, l \in {Faster, Equal}, d \in {-7, 0, 7}}
  \cup {[Block(Faster, Faster) EXCEPT !.tail["B"] = 20], [Block(Faster, Faster) EXCEPT !.eventTail["B"] = 40],
        [Block(Faster, Faster) EXCEPT !.noisy = {"small"}]}

MCCaseFiles == <<"small.json", "large.json">>

---------------------------------------------------------------------------
(* One component at a time *)

VARIABLE active
mcVars == <<active, graphVars, oracleVars, caseVars, profileVars, evidenceVars, decisionVars, filesVars>>

GraphRests == graph = Submitted(Chain) /\ GraphInit
OracleRests ==
  /\ question = [case |-> Shape(1, 1, 2), scores |-> [r \in {0} |-> [j \in {0} |-> 1]], tensors |-> Tensors(Shape(1, 1, 2))]
  /\ path = "tensor" /\ base = [sound |-> TRUE, ids |-> [r \in {0} |-> <<0, -1>>]] /\ OracleInit
CaseRests ==
  /\ created = [f \in Fixtures |-> Row(1, 2)] /\ program = ProgramOf("correctness")
  /\ plugins = [reference |-> "low", candidate |-> [answers |-> "low", stream |-> "main", writes |-> NoWrite]]
  /\ CaseInit
ProfileRests == stages = <<[labelled |-> TRUE, work |-> [A |-> <<"kernel">>, B |-> <<"kernel">>]]>> /\ opNumber = 0 /\ ProfileInit
EvidenceStarts ==
  /\ world = [sources |-> Code, settings |-> Configuration, machine |-> Machine,
              changes |-> 0, edits |-> 0, failures |-> 0]
  /\ EvidenceInit
EvidenceRests == variantOf = [s \in Paths |-> "v"] /\ EvidenceStarts
DecisionRests == orders = <<"ABBA", "BAAB", "ABBA">> /\ DecisionInit
FilesRest == plan = RunTables /\ FilesInit

MCInit ==
  \/ /\ active = "graph" /\ OracleRests /\ CaseRests /\ ProfileRests
     /\ EvidenceRests /\ DecisionRests /\ FilesRest /\ GraphInit
  \/ /\ active = "oracle" /\ GraphRests /\ CaseRests /\ ProfileRests
     /\ EvidenceRests /\ DecisionRests /\ FilesRest /\ OracleInit
  \/ /\ active = "case" /\ GraphRests /\ OracleRests /\ ProfileRests
     /\ EvidenceRests /\ DecisionRests /\ FilesRest /\ CaseInit
  \/ /\ active = "profile" /\ GraphRests /\ OracleRests /\ CaseRests
     /\ EvidenceRests /\ DecisionRests /\ FilesRest /\ ProfileInit
  \/ /\ active = "evidence" /\ GraphRests /\ OracleRests /\ CaseRests /\ ProfileRests
     /\ DecisionRests /\ FilesRest /\ EvidenceStarts
  \/ /\ active = "decision" /\ GraphRests /\ OracleRests /\ CaseRests /\ ProfileRests
     /\ EvidenceRests /\ FilesRest /\ DecisionInit
  \/ /\ active = "files" /\ GraphRests /\ OracleRests /\ CaseRests /\ ProfileRests
     /\ EvidenceRests /\ DecisionRests /\ FilesInit

MCNext ==
  \/ /\ active = "graph" /\ GraphNext
     /\ UNCHANGED <<active, oracleVars, caseVars, profileVars, evidenceVars, decisionVars, filesVars>>
  \/ /\ active = "oracle" /\ OracleNext
     /\ UNCHANGED <<active, graphVars, caseVars, profileVars, evidenceVars, decisionVars, filesVars>>
  \/ /\ active = "case" /\ CaseNext
     /\ UNCHANGED <<active, graphVars, oracleVars, profileVars, evidenceVars, decisionVars, filesVars>>
  \/ /\ active = "profile" /\ ProfileNext
     /\ UNCHANGED <<active, graphVars, oracleVars, caseVars, evidenceVars, decisionVars, filesVars>>
  \/ /\ active = "evidence" /\ EvidenceNext
     /\ UNCHANGED <<active, graphVars, oracleVars, caseVars, profileVars, decisionVars, filesVars>>
  \/ /\ active = "decision" /\ DecisionNext
     /\ UNCHANGED <<active, graphVars, oracleVars, caseVars, profileVars, evidenceVars, filesVars>>
  \/ /\ active = "files" /\ FilesNext
     /\ UNCHANGED <<active, graphVars, oracleVars, caseVars, profileVars, evidenceVars, decisionVars>>

MCSpec == MCInit /\ [][MCNext]_mcVars

\* The paths of correctness artifacts are interchangeable.
PathsAlike == Permutations(Checks)
=============================================================================
