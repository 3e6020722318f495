----------------------------- MODULE StageGraph -----------------------------
(* The stage graph of a variant (graph.py): the deterministic topological    *)
(* sort, the checks on the flow of artifacts and of semantic operations, and *)
(* the execution of the sorted stages over one artifact store.  A graph is   *)
(* submitted once; the sort takes one stage per step, the execution runs one *)
(* stage per step, with or without the check of what each stage produced.    *)
EXTENDS Integers, Sequences, FiniteSets

CONSTANTS
  Stage,     \* stage ids; their order is the order of the sorted names
  Artifact,  \* keys of the artifact store
  Graphs     \* the graphs a plugin may prepare

\* Stage ids sort, and a plugin prepares finitely many stages.
ASSUME StagesSort == Stage \subseteq Nat /\ IsFiniteSet(Stage)

\* A graph: the stages as listed, whether the plugin's and the stages' names
\* are safe, what each stage depends on, consumes, produces and means, and the
\* artifacts that are there from the start and the one that is the answer.
ASSUME GraphsAreGraphs ==
  \A g \in Graphs :
    /\ g.listed \in Seq(Stage)
    /\ g.deps \in [Stage -> SUBSET Stage]
    /\ g.consumes \in [Stage -> SUBSET Artifact]
    /\ g.produces \in [Stage -> SUBSET Artifact]
    /\ g.initial \in SUBSET Artifact

VARIABLES
  graph,     \* the submitted graph
  phase,     \* how far its validation and execution are
  indegree,  \* dependencies of each stage that are not ordered yet
  ready,     \* stages whose dependencies are all ordered
  order,     \* the sorted stages
  strict,    \* this execution checks what each stage produced
  store,     \* the artifacts of this execution
  ran        \* how many stages have run

graphVars == <<graph, phase, indegree, ready, order, strict, store, ran>>

Elements(s) == {s[i] : i \in DOMAIN s}
Nodes == Elements(graph.listed)
Least(S) == CHOOSE s \in S : \A t \in S : s <= t

GraphInit ==
  /\ graph \in Graphs
  /\ phase = "submitted"
  /\ indegree = [s \in Stage |-> 0]
  /\ ready = {}
  /\ order = <<>>
  /\ strict = FALSE
  /\ store = {}
  /\ ran = 0

---------------------------------------------------------------------------
(* The sort *)

Identified ==
  /\ graph.named
  /\ \A i, j \in DOMAIN graph.listed : graph.listed[i] = graph.listed[j] => i = j
  /\ \A s \in Nodes : graph.deps[s] \subseteq Nodes

CountDependencies ==
  /\ phase = "submitted"
  /\ IF Identified
     THEN /\ phase' = "sorting"
          /\ indegree' = [s \in Stage |-> Cardinality(graph.deps[s])]
          /\ ready' = {s \in Nodes : graph.deps[s] = {}}
     ELSE phase' = "unidentified" /\ UNCHANGED <<indegree, ready>>
  /\ UNCHANGED <<graph, order, strict, store, ran>>

TakeReady ==
  /\ phase = "sorting" /\ ready # {}
  /\ LET s == Least(ready)
         children == {c \in Nodes : s \in graph.deps[c]}
     IN /\ order' = Append(order, s)
        /\ indegree' = [c \in Stage |-> IF c \in children THEN indegree[c] - 1 ELSE indegree[c]]
        /\ ready' = (ready \ {s}) \cup {c \in children : indegree[c] = 1}
  /\ UNCHANGED <<graph, phase, strict, store, ran>>

EndSort ==
  /\ phase = "sorting" /\ ready = {}
  /\ phase' = IF Len(order) = Cardinality(Nodes) THEN "sorted" ELSE "cyclic"
  /\ UNCHANGED <<graph, indegree, ready, order, strict, store, ran>>

---------------------------------------------------------------------------
(* The checks of the flow, along the sorted stages *)

Before(i) == {order[j] : j \in 1..(i - 1)}
Makers(a) == {s \in Nodes : a \in graph.produces[s]}

\* Every stage on a path of dependencies into order[i].
Ancestors[i \in DOMAIN order] ==
  graph.deps[order[i]] \cup
    UNION {Ancestors[j] : j \in {k \in 1..(i - 1) : order[k] \in graph.deps[order[i]]}}

ProducedOnce ==
  \A a \in Artifact : Cardinality(Makers(a)) <= IF a \in graph.initial THEN 0 ELSE 1

Consumable ==
  \A i \in DOMAIN order :
    /\ graph.deps[order[i]] \subseteq Before(i)
    /\ \A a \in graph.consumes[order[i]] :
         /\ a \in graph.initial \/ \E s \in Before(i) : a \in graph.produces[s]
         /\ Makers(a) \subseteq Ancestors[i]

\* The stages the answer rests on do the indexing and the selection, and no
\* stage that does either is outside of them.
AnswerCovers ==
  \E i \in DOMAIN order :
    /\ graph.terminal \in graph.produces[order[i]]
    /\ LET closure == Ancestors[i] \cup {order[i]}
       IN /\ {"indexer", "topk"} \subseteq UNION {graph.ops[s] : s \in closure}
          /\ \A s \in Nodes \ closure : graph.ops[s] \cap {"indexer", "topk"} = {}

\* Bug: an artifact only has to be there in this order, its maker need not be
\* an ancestor.
FlowIsSoundByOrder ==
  /\ ProducedOnce /\ AnswerCovers
  /\ \A i \in DOMAIN order : \A a \in graph.consumes[order[i]] :
       a \in graph.initial \/ \E s \in Before(i) : a \in graph.produces[s]
  /\ \A s \in Nodes : graph.ops[s] \subseteq {"indexer", "topk", "output"}

FlowIsSound ==
  /\ ProducedOnce /\ Consumable /\ AnswerCovers
  /\ \A s \in Nodes : graph.ops[s] \subseteq {"indexer", "topk", "output"}

CheckFlow ==
  /\ phase = "sorted"
  /\ phase' = IF FlowIsSound THEN "accepted" ELSE "unsound"
  /\ UNCHANGED <<graph, indegree, ready, order, strict, store, ran>>

---------------------------------------------------------------------------
(* Execution *)

Execute ==
  /\ phase = "accepted"
  /\ phase' = "running"
  /\ strict' \in BOOLEAN
  /\ store' = graph.initial
  /\ ran' = 0
  /\ UNCHANGED <<graph, indegree, ready, order>>

\* Bug: only the answer is looked for, when the last stage has run.
RunStageLooksForAnswer ==
  /\ phase = "running" /\ ran < Len(order)
  /\ \E made \in SUBSET graph.produces[order[ran + 1]] :
       /\ store' = store \cup made
       /\ phase' = IF strict /\ ran + 1 = Len(order) /\ graph.terminal \notin store \cup made
                   THEN "failed" ELSE "running"
  /\ ran' = ran + 1
  /\ UNCHANGED <<graph, indegree, ready, order, strict>>

\* A stage may fail to make what it declares; a strict execution then raises.
RunStage ==
  /\ phase = "running" /\ ran < Len(order)
  /\ \E made \in SUBSET graph.produces[order[ran + 1]] :
       /\ store' = store \cup made
       /\ phase' = IF strict /\ ~(graph.produces[order[ran + 1]] \subseteq store \cup made)
                   THEN "failed" ELSE "running"
  /\ ran' = ran + 1
  /\ UNCHANGED <<graph, indegree, ready, order, strict>>

EndRun ==
  /\ phase = "running" /\ ran = Len(order)
  /\ phase' = "done"
  /\ UNCHANGED <<graph, indegree, ready, order, strict, store, ran>>

GraphNext ==
  \/ CountDependencies \/ TakeReady \/ EndSort
  \/ CheckFlow
  \/ Execute \/ RunStage \/ EndRun

GraphSpec == GraphInit /\ [][GraphNext]_graphVars

---------------------------------------------------------------------------
(* Properties *)

\* A stage runs only after every stage it depends on, and an execution that
\* checks the stages' products never starts a stage without what it consumes:
\* validation (one pass over names) and execution (another pass over callables)
\* agree on one order (graph.py:32-43, 89-101, 182-204).
OrderedAndFed ==
  phase = "running" /\ ran < Len(order) =>
    LET s == order[ran + 1] IN
      /\ graph.deps[s] \subseteq {order[j] : j \in 1..ran}
      /\ strict => graph.consumes[s] \subseteq store

\* A cycle is reported only when stages really wait for each other
\* (graph.py:41-42).
CycleIsReal ==
  phase = "cyclic" =>
    \E knot \in SUBSET Nodes :
      /\ knot # {}
      /\ \A s \in knot : graph.deps[s] \cap knot # {}

\* What a stage rests on, by the graph alone: the least set that holds its
\* dependencies and theirs.
RestsOn(s) ==
  {t \in Nodes : \A C \in SUBSET Nodes :
     graph.deps[s] \subseteq C /\ (\A c \in C : graph.deps[c] \subseteq C) => t \in C}

WellFormed ==
  /\ Identified
  /\ \A s \in Nodes : s \notin RestsOn(s)
  /\ \A a \in Artifact : \A s, t \in Makers(a) : s = t /\ a \notin graph.initial
  /\ \A s \in Nodes : \A a \in graph.consumes[s] :
       a \in graph.initial \/ \E t \in RestsOn(s) : a \in graph.produces[t]
  /\ \A s \in Nodes : graph.ops[s] \subseteq {"indexer", "topk", "output"}
  /\ \E s \in Makers(graph.terminal) :
       \A op \in {"indexer", "topk"} :
         /\ \E t \in RestsOn(s) \cup {s} : op \in graph.ops[t]
         /\ \A t \in Nodes : op \in graph.ops[t] => t \in RestsOn(s) \cup {s}

\* Whether a graph is accepted depends on the graph and not on the order its
\* stages were listed or sorted in: the one-pass checks accept exactly the
\* well-formed graphs (graph.py:46-127).
VerdictIsTheGraphs ==
  /\ phase \in {"unidentified", "cyclic", "unsound"} => ~WellFormed
  /\ phase \in {"accepted", "running", "failed", "done"} => WellFormed
=============================================================================
