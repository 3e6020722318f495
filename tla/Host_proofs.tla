----------------------------- MODULE Host_proofs -----------------------------
(* Theorems about the host's components: the sort and the execution of stage *)
(* graphs, the oracle, one case, what a measurement rests on, and the files  *)
(* of a run.  The modules share no variable, so that each theorem is about   *)
(* the specification of one of them.                                         *)
EXTENDS StageGraph, OracleCall, CaseRun, Attribution, Evidence, RunFiles,
        TLAPS, FiniteSetTheorems, SequenceTheorems, WellFoundedInduction

---------------------------------------------------------------------------
(* StageGraph.  Stages run after the ones they depend on and, in a checked   *)
(* execution, with all that they consume; a graph that is refused as cyclic  *)
(* has stages that wait for each other.                                      *)

\* A nonempty set of naturals has a least element.
LEMMA HasLeast ==
  ASSUME NEW S \in SUBSET Nat, S # {}
  PROVE  \E x \in S : \A y \in S : x <= y
<1> DEFINE less == {p \in Nat \X Nat : p[1] < p[2]}
<1>1. IsWellFoundedOn(less, Nat)
  BY NatLessThanWellFounded DEF OpToRel
<1>2. \A y, x \in Nat : <<y, x>> \in less <=> y < x
  OBVIOUS
<1> HIDE DEF less
<1>3. PICK x \in S : \A y \in S : ~(<<y, x>> \in less)
  BY <1>1, WFMin
<1>4. \A y \in S : x <= y
  <2> TAKE y \in S
  <2>1. y \in Nat /\ x \in Nat /\ ~(y < x)
    BY <1>2, <1>3
  <2> QED BY <2>1
<1> QED BY <1>4

\* So has a nonempty set of stages.
LEMMA LeastExists ==
  ASSUME NEW S \in SUBSET Nat, S # {}
  PROVE  Least(S) \in S
BY HasLeast DEF Least

GraphTypeOK ==
  /\ graph \in Graphs
  /\ phase \in {"submitted", "unidentified", "sorting", "sorted", "cyclic", "unsound",
                "accepted", "running", "failed", "done"}
  /\ indegree \in [Stage -> Int]
  /\ ready \in SUBSET Nodes
  /\ order \in Seq(Nodes)
  /\ strict \in BOOLEAN
  /\ ran \in 0..Len(order)

\* The counters are those of the stages still to be ordered, and the ordered
\* ones stand after what they depend on.
Counted == phase \notin {"submitted", "unidentified"} =>
  \A s \in Nodes \ Elements(order) :
    /\ indegree[s] = Cardinality(graph.deps[s] \ Elements(order))
    /\ s \in ready <=> graph.deps[s] \subseteq Elements(order)

Sorted ==
  /\ phase \notin {"submitted", "unidentified"} => Identified
  /\ phase \in {"submitted", "unidentified"} => order = <<>>
  /\ ready \cap Elements(order) = {}
  /\ \A i, j \in DOMAIN order : order[i] = order[j] => i = j
  /\ \A i \in DOMAIN order : graph.deps[order[i]] \subseteq Before(i)

Refused == phase = "cyclic" => ready = {} /\ Len(order) # Cardinality(Nodes)

\* What a checked execution has in its store.
Stored ==
  /\ phase \in {"accepted", "running"} => Consumable
  /\ phase = "running" =>
       /\ graph.initial \subseteq store
       /\ strict => \A j \in 1..ran : graph.produces[order[j]] \subseteq store

GraphInv == GraphTypeOK /\ Counted /\ Sorted /\ Refused /\ Stored

\* A graph's stages are stages.
LEMMA NodesAreStages ==
  ASSUME graph \in Graphs
  PROVE  /\ Nodes \in SUBSET Stage
         /\ graph.deps \in [Stage -> SUBSET Stage]
         /\ \A s \in Nodes : IsFiniteSet(graph.deps[s])
         /\ IsFiniteSet(Nodes)
<1>1. Nodes \in SUBSET Stage /\ graph.deps \in [Stage -> SUBSET Stage]
  BY GraphsAreGraphs DEF Nodes, Elements
<1>2. \A T \in SUBSET Stage : IsFiniteSet(T)
  BY StagesSort, FS_Subset
<1> QED BY <1>1, <1>2

\* The initial states satisfy the invariant.
LEMMA InitGraphInv == GraphInit => GraphInv
<1> SUFFICES ASSUME GraphInit PROVE GraphInv
  OBVIOUS
<1>1. GraphTypeOK
  <2>1. order \in Seq(Nodes) /\ Len(order) = 0
    BY DEF GraphInit
  <2>2. indegree \in [Stage -> Int] /\ ready \in SUBSET Nodes /\ ran \in 0..Len(order)
    BY <2>1 DEF GraphInit
  <2> QED BY <2>1, <2>2 DEF GraphInit, GraphTypeOK
<1>2. Sorted
  BY DEF GraphInit, Sorted
<1>3. Counted /\ Refused /\ Stored
  BY DEF GraphInit, Counted, Refused, Stored
<1> QED BY <1>1, <1>2, <1>3 DEF GraphInv

\* Counting the dependencies starts the invariant of the sort.
LEMMA CountInv ==
  ASSUME GraphInv, CountDependencies
  PROVE  GraphInv'
<1> USE DEF GraphInv
<1>1. order = <<>> /\ Elements(order) = {} /\ graph' = graph /\ order' = order
  BY DEF CountDependencies, Sorted, Elements
<1>2. CASE Identified
  <2>1. GraphTypeOK'
    <3>1. \A s \in Stage : Cardinality(graph.deps[s]) \in Int
      <4>1. \A s \in Stage : IsFiniteSet(graph.deps[s])
        BY StagesSort, FS_Subset, NodesAreStages DEF GraphTypeOK
      <4> QED BY <4>1, FS_CardinalityType
    <3> QED BY <1>2, <3>1 DEF CountDependencies, GraphTypeOK, Nodes
  <2>2. Counted'
    <3>1. \A s \in Nodes : s \in Stage
      BY NodesAreStages DEF GraphTypeOK
    <3>2. \A s \in Nodes : graph.deps[s] \ Elements(order)' = graph.deps[s]
                             /\ (graph.deps[s] = {} <=> graph.deps[s] \subseteq Elements(order)')
      BY <1>1
    <3>3. Nodes' = Nodes
      BY <1>1 DEF Nodes
    <3>4. ready' = {s \in Nodes : graph.deps[s] = {}}
      BY <1>2 DEF CountDependencies
    <3>5. indegree' = [s \in Stage |-> Cardinality(graph.deps[s])]
      BY <1>2 DEF CountDependencies
    <3> SUFFICES ASSUME NEW s \in Nodes
                 PROVE  /\ indegree'[s] = Cardinality(graph.deps[s] \ Elements(order)')
                        /\ s \in ready' <=> graph.deps[s] \subseteq Elements(order)'
      BY <1>1, <3>3 DEF Counted
    <3>6. indegree'[s] = Cardinality(graph.deps[s])
      BY <3>1, <3>5
    <3> QED BY <3>2, <3>4, <3>6
  <2>3. Sorted' /\ Refused' /\ Stored'
    BY <1>1, <1>2 DEF CountDependencies, Sorted, Refused, Stored, Identified, Elements, Nodes, Before
  <2> QED BY <2>1, <2>2, <2>3
<1>3. CASE ~Identified
  BY <1>1, <1>3 DEF CountDependencies, GraphTypeOK, Counted, Sorted, Refused, Stored, Elements, Nodes, Before
<1> QED BY <1>2, <1>3

\* Taking the least ready stage keeps the counters and the order right.
LEMMA TakeInv ==
  ASSUME GraphInv, TakeReady
  PROVE  GraphInv'
<1> USE DEF GraphInv
<1> DEFINE s == Least(ready)
           children == {c \in Nodes : s \in graph.deps[c]}
<1>1. /\ Nodes \in SUBSET Stage /\ graph.deps \in [Stage -> SUBSET Stage]
      /\ \A c \in Nodes : IsFiniteSet(graph.deps[c])
  BY NodesAreStages DEF GraphTypeOK
<1>2. s \in ready /\ s \in Nodes /\ s \notin Elements(order)
  BY <1>1, LeastExists, StagesSort DEF TakeReady, GraphTypeOK, Sorted
<1>3. /\ phase = "sorting" /\ phase' = phase /\ graph' = graph /\ order' = Append(order, s)
      /\ strict' = strict /\ store' = store /\ ran' = ran
      /\ indegree' = [c \in Stage |-> IF c \in children THEN indegree[c] - 1 ELSE indegree[c]]
      /\ ready' = (ready \ {s}) \cup {c \in children : indegree[c] = 1}
      /\ Identified /\ Identified' /\ Nodes' = Nodes
  BY DEF TakeReady, Sorted, Identified, Nodes
<1>4. order \in Seq(Nodes) /\ order' \in Seq(Nodes) /\ Len(order') = Len(order) + 1
      /\ (\A i \in 1..Len(order) : order'[i] = order[i]) /\ order'[Len(order) + 1] = s
  BY <1>2, <1>3 DEF GraphTypeOK
<1>5. Elements(order)' = Elements(order) \cup {s}
  BY <1>4 DEF Elements
<1>6. graph.deps[s] \subseteq Elements(order)
  BY <1>2, <1>3 DEF Counted
<1>7. s \notin children
  BY <1>2, <1>6
<1>8. \A c \in Nodes : Cardinality(graph.deps[c] \ Elements(order)) \in Nat
                       /\ IsFiniteSet(graph.deps[c] \ Elements(order))
  BY <1>1, FS_Subset, FS_CardinalityType
<1>9. \A c \in children : Cardinality(graph.deps[c] \ Elements(order)')
                            = Cardinality(graph.deps[c] \ Elements(order)) - 1
  <2> SUFFICES ASSUME NEW c \in children
               PROVE  Cardinality(graph.deps[c] \ Elements(order)')
                        = Cardinality(graph.deps[c] \ Elements(order)) - 1
    OBVIOUS
  <2>1. graph.deps[c] \ Elements(order)' = (graph.deps[c] \ Elements(order)) \ {s}
    BY <1>5
  <2>2. s \in graph.deps[c] \ Elements(order)
    BY <1>2
  <2> DEFINE left == graph.deps[c] \ Elements(order)
  <2>3. IsFiniteSet(left) /\ s \in left
      BY <1>8, <2>2
  <2> HIDE DEF s, left
  <2>4. Cardinality(left \ {s}) = Cardinality(left) - 1
      BY <2>3, FS_RemoveElement
  <2> QED BY <2>1, <2>4 DEF left
<1>10. \A c \in Nodes \ children : graph.deps[c] \ Elements(order)' = graph.deps[c] \ Elements(order)
  BY <1>5
<1>11. children \cap Elements(order) = {}
  <2> SUFFICES ASSUME NEW i \in DOMAIN order, order[i] \in children PROVE FALSE
    BY DEF Elements
  <2>1. s \in Before(i)
    BY DEF Sorted
  <2> QED BY <1>2, <1>4, <2>1 DEF Before, Elements
<1>12. GraphTypeOK'
  BY <1>1, <1>3, <1>4 DEF GraphTypeOK
<1>13. Counted'
  <2> SUFFICES ASSUME NEW c \in Nodes, c \notin Elements(order)'
               PROVE  /\ indegree'[c] = Cardinality(graph.deps[c] \ Elements(order)')
                      /\ c \in ready' <=> graph.deps[c] \subseteq Elements(order)'
    BY <1>3 DEF Counted
  <2>1. c \notin Elements(order) /\ c # s /\ c \in Stage
    BY <1>1, <1>5
  <2>2. indegree[c] = Cardinality(graph.deps[c] \ Elements(order))
        /\ (c \in ready <=> graph.deps[c] \subseteq Elements(order))
    BY <1>3, <2>1 DEF Counted
  <2>3. CASE c \in children
    <3>1. indegree'[c] = Cardinality(graph.deps[c] \ Elements(order)')
      BY <1>3, <1>9, <2>1, <2>2, <2>3
    <3>2. c \notin ready
      BY <1>2, <2>2, <2>3
    <3>3. indegree[c] = 1 <=> Cardinality(graph.deps[c] \ Elements(order)') = 0
      BY <1>8, <1>9, <2>2, <2>3
    <3>4. IsFiniteSet(graph.deps[c] \ Elements(order)')
      BY <1>1, FS_Subset
    <3>5. Cardinality(graph.deps[c] \ Elements(order)') = 0 <=> graph.deps[c] \ Elements(order)' = {}
      BY <3>4, FS_EmptySet
    <3> QED BY <1>3, <2>3, <3>1, <3>2, <3>3, <3>5
  <2>4. CASE c \notin children
    BY <1>3, <1>5, <1>10, <2>1, <2>2, <2>4
  <2> QED BY <2>3, <2>4
<1>14. Sorted'
  <2>1. ready' \cap Elements(order)' = {}
    BY <1>3, <1>5, <1>7, <1>11 DEF Sorted
  <2>2. \A i, j \in DOMAIN order' : order'[i] = order'[j] => i = j
    BY <1>2, <1>4 DEF Sorted, Elements
  <2>3. \A i \in DOMAIN order' : graph.deps[order'[i]] \subseteq Before(i)'
    <3> SUFFICES ASSUME NEW i \in DOMAIN order' PROVE graph.deps[order'[i]] \subseteq Before(i)'
      OBVIOUS
    <3>1. CASE i \in 1..Len(order)
      <4>1. Before(i)' = Before(i)
        BY <1>4, <3>1, SMTT(30) DEF Before
      <4> QED BY <1>4, <3>1, <4>1 DEF Sorted
    <3>2. CASE i = Len(order) + 1
      <4>1. Before(i)' = Elements(order)
        BY <1>4, <3>2 DEF Before, Elements
      <4> QED BY <1>4, <1>6, <3>2, <4>1
    <3> QED BY <1>4, <3>1, <3>2
  <2> QED BY <1>3, <2>1, <2>2, <2>3 DEF Sorted
<1>15. Refused' /\ Stored'
  BY <1>3 DEF Refused, Stored
<1> QED BY <1>12, <1>13, <1>14, <1>15

\* The other steps change neither the graph nor the order.
LEMMA OtherInv ==
  ASSUME GraphInv, EndSort \/ CheckFlow \/ Execute \/ RunStage \/ EndRun
  PROVE  GraphInv'
<1> USE DEF GraphInv
<1>1. /\ graph' = graph /\ indegree' = indegree /\ ready' = ready /\ order' = order
      /\ Nodes' = Nodes /\ Elements(order)' = Elements(order) /\ (Identified' <=> Identified)
      /\ (Consumable' <=> Consumable)
      /\ phase \notin {"submitted", "unidentified"} /\ phase' \notin {"submitted", "unidentified"}
  <2>1. graph' = graph /\ indegree' = indegree /\ ready' = ready /\ order' = order
        /\ phase \notin {"submitted", "unidentified"} /\ phase' \notin {"submitted", "unidentified"}
    BY DEF EndSort, CheckFlow, Execute, RunStage, EndRun
  <2>2. Consumable' <=> Consumable
    BY <2>1 DEF Consumable, Ancestors, Before, Makers, Nodes, Elements
  <2> QED BY <2>1, <2>2 DEF Nodes, Elements, Identified
<1>2. \A i : Before(i)' = Before(i)
  BY <1>1 DEF Before
<1>3. Counted'
  BY <1>1 DEF Counted
<1>4. Sorted'
  BY <1>1, <1>2 DEF Sorted
<1>5. GraphTypeOK'
  BY <1>1 DEF GraphTypeOK, EndSort, CheckFlow, Execute, RunStage, EndRun
<1>6. Refused'
  BY <1>1 DEF EndSort, CheckFlow, Execute, RunStage, EndRun, Refused
<1>7. Stored'
  <2>1. CASE EndSort \/ EndRun
    BY <1>1, <2>1 DEF EndSort, EndRun, Stored
  <2>2. CASE CheckFlow
    BY <1>1, <2>2 DEF CheckFlow, FlowIsSound, Stored
  <2>3. CASE Execute
    BY <1>1, <2>3 DEF Execute, Stored
  <2>4. CASE RunStage
    BY <1>1, <2>4 DEF RunStage, Stored, GraphTypeOK
  <2> QED BY <2>1, <2>2, <2>3, <2>4
<1> QED BY <1>3, <1>4, <1>5, <1>6, <1>7

\* The invariant holds in every reachable state.
THEOREM GraphIsSorted == GraphSpec => []GraphInv
<1>1. GraphInv /\ UNCHANGED graphVars => GraphInv'
  <2> SUFFICES ASSUME GraphInv, UNCHANGED graphVars PROVE GraphInv'
    OBVIOUS
  <2>1. /\ Nodes' = Nodes /\ Elements(order)' = Elements(order) /\ (Identified' <=> Identified)
        /\ (Consumable' <=> Consumable) /\ \A i : Before(i)' = Before(i)
    <3>1. graph' = graph /\ order' = order
      BY DEF graphVars
    <3> QED BY <3>1 DEF Nodes, Elements, Identified, Consumable, Ancestors, Before, Makers
  <2>2. GraphTypeOK' /\ Counted' /\ Refused'
    BY <2>1 DEF GraphInv, GraphTypeOK, Counted, Refused, graphVars
  <2>3. Sorted'
    BY <2>1 DEF GraphInv, Sorted, graphVars
  <2>4. Stored'
    BY <2>1 DEF GraphInv, Stored, graphVars
  <2> QED BY <2>2, <2>3, <2>4 DEF GraphInv
<1>2. GraphInv /\ [GraphNext]_graphVars => GraphInv'
  BY <1>1, CountInv, TakeInv, OtherInv DEF GraphNext
<1> QED BY InitGraphInv, <1>2, PTL DEF GraphSpec

\* Stages run after the ones they depend on, and fed when products are checked.
THEOREM StagesAreFed == GraphSpec => []OrderedAndFed
<1>1. GraphInv => OrderedAndFed
  <2> SUFFICES ASSUME GraphInv, phase = "running", ran < Len(order)
               PROVE  LET s == order[ran + 1] IN
                        /\ graph.deps[s] \subseteq {order[j] : j \in 1..ran}
                        /\ strict => graph.consumes[s] \subseteq store
    BY DEF OrderedAndFed
  <2>1. ran + 1 \in DOMAIN order /\ Before(ran + 1) = {order[j] : j \in 1..ran}
    BY DEF GraphInv, GraphTypeOK, Before
  <2>2. graph.deps[order[ran + 1]] \subseteq {order[j] : j \in 1..ran}
    BY <2>1 DEF GraphInv, Sorted
  <2>3. ASSUME strict, NEW a \in graph.consumes[order[ran + 1]] PROVE a \in store
    <3>1. a \in graph.initial \/ \E s \in Before(ran + 1) : a \in graph.produces[s]
      BY <2>1 DEF GraphInv, Stored, Consumable
    <3> QED BY <2>1, <2>3, <3>1 DEF GraphInv, Stored
  <2> QED BY <2>2, <2>3
<1> QED BY <1>1, GraphIsSorted, PTL

\* A graph is refused as cyclic only when stages wait for each other.
THEOREM CyclesAreReal == GraphSpec => []CycleIsReal
<1>1. GraphInv => CycleIsReal
  <2> SUFFICES ASSUME GraphInv, phase = "cyclic"
               PROVE  \E knot \in SUBSET Nodes :
                        knot # {} /\ \A s \in knot : graph.deps[s] \cap knot # {}
    BY DEF CycleIsReal
  <2> DEFINE knot == Nodes \ Elements(order)
  <2>1. knot # {}
    <3> SUFFICES ASSUME Nodes \subseteq Elements(order) PROVE FALSE
      OBVIOUS
    <3>1. order \in Bijection(1..Len(order), Nodes)
      <4>1. order \in [1..Len(order) -> Nodes]
        BY DEF GraphInv, GraphTypeOK
      <4>2. \A i, j \in 1..Len(order) : order[i] = order[j] => i = j
        BY <4>1 DEF GraphInv, Sorted
      <4>3. \A t \in Nodes : \E i \in 1..Len(order) : order[i] = t
        BY <4>1 DEF Elements
      <4> QED BY <4>1, <4>2, <4>3 DEF Bijection, Injection, Surjection, IsInjective
    <3>2. Cardinality(Nodes) = Len(order)
      BY <3>1, FS_CountingElements DEF ExistsBijection, GraphInv, GraphTypeOK
    <3> QED BY <3>2 DEF GraphInv, Refused
  <2>2. ASSUME NEW s \in knot PROVE graph.deps[s] \cap knot # {}
    <3>1. ~(graph.deps[s] \subseteq Elements(order))
      BY DEF GraphInv, Counted, Refused
    <3>2. graph.deps[s] \subseteq Nodes
      BY DEF GraphInv, Sorted, Identified
    <3> QED BY <3>1, <3>2
  <2> QED BY <2>1, <2>2
<1> QED BY <1>1, GraphIsSorted, PTL

\* What a stage rests on holds its dependencies and theirs, and is the least
\* such set.
LEMMA RestsFacts ==
  ASSUME graph \in Graphs, Identified, NEW s \in Nodes
  PROVE  /\ RestsOn(s) \in SUBSET Nodes
         /\ graph.deps[s] \subseteq RestsOn(s)
         /\ \A t \in RestsOn(s) : graph.deps[t] \subseteq RestsOn(s)
         /\ \A C \in SUBSET Nodes :
              graph.deps[s] \subseteq C /\ (\A c \in C : graph.deps[c] \subseteq C) => RestsOn(s) \subseteq C
         /\ \A t \in RestsOn(s) : RestsOn(t) \subseteq RestsOn(s)
         /\ RestsOn(s) = graph.deps[s] \cup UNION {RestsOn(t) : t \in graph.deps[s]}
<1>1. \A t \in Nodes : graph.deps[t] \subseteq Nodes
  BY DEF Identified
<1>2. ASSUME NEW q \in Nodes
      PROVE  /\ RestsOn(q) \in SUBSET Nodes
             /\ graph.deps[q] \subseteq RestsOn(q)
             /\ \A t \in RestsOn(q) : graph.deps[t] \subseteq RestsOn(q)
             /\ \A C \in SUBSET Nodes :
                  graph.deps[q] \subseteq C /\ (\A c \in C : graph.deps[c] \subseteq C) => RestsOn(q) \subseteq C
  BY <1>1, <1>2 DEF RestsOn
<1>3. \A t \in RestsOn(s) : RestsOn(t) \subseteq RestsOn(s)
  <2> TAKE t \in RestsOn(s)
  <2>1. t \in Nodes /\ graph.deps[t] \subseteq RestsOn(s) /\ RestsOn(s) \in SUBSET Nodes
    BY <1>2
  <2>2. \A c \in RestsOn(s) : graph.deps[c] \subseteq RestsOn(s)
    BY <1>2
  <2>3. \A C \in SUBSET Nodes :
          graph.deps[t] \subseteq C /\ (\A c \in C : graph.deps[c] \subseteq C) => RestsOn(t) \subseteq C
    BY <1>2, <2>1
  <2> QED BY ONLY <2>1, <2>2, <2>3
<1>4. RestsOn(s) \subseteq graph.deps[s] \cup UNION {RestsOn(t) : t \in graph.deps[s]}
  <2> DEFINE C == graph.deps[s] \cup UNION {RestsOn(t) : t \in graph.deps[s]}
  <2>1. graph.deps[s] \subseteq Nodes
    BY <1>1
  <2>2. \A t \in graph.deps[s] : RestsOn(t) \in SUBSET Nodes
    BY <1>2, <2>1
  <2>3. C \in SUBSET Nodes
    BY <2>1, <2>2
  <2>4. ASSUME NEW c \in C PROVE graph.deps[c] \subseteq C
    <3>1. CASE c \in graph.deps[s]
      <4>1. graph.deps[c] \subseteq RestsOn(c)
        BY <1>2, <2>1, <3>1
      <4> QED BY <3>1, <4>1
    <3>2. CASE c \notin graph.deps[s]
      <4>1. PICK t \in graph.deps[s] : c \in RestsOn(t)
        BY <3>2
      <4>2. graph.deps[c] \subseteq RestsOn(t)
        BY <1>2, <2>1, <4>1
      <4> QED BY <4>2
    <3> QED BY <3>1, <3>2
  <2>5. graph.deps[s] \subseteq C
    OBVIOUS
  <2> HIDE DEF C
  <2>6. RestsOn(s) \subseteq C
    BY <1>2, <2>3, <2>4, <2>5
  <2> QED BY <2>6 DEF C
<1> QED BY <1>2, <1>3, <1>4

\* The stages are all ordered, each one once and after its dependencies.
LinedUp ==
  /\ graph \in Graphs /\ Identified
  /\ order \in Seq(Nodes) /\ Elements(order) = Nodes
  /\ \A i, j \in DOMAIN order : order[i] = order[j] => i = j
  /\ \A i \in DOMAIN order : graph.deps[order[i]] \subseteq Before(i)

\* Along an order the one pass over it finds what a stage rests on.
LEMMA AncestorsAreRests ==
  ASSUME LinedUp
  PROVE  \A i \in DOMAIN order : Ancestors[i] = RestsOn(order[i])
<1> DEFINE into(i) == {k \in 1..(i - 1) : order[k] \in graph.deps[order[i]]}
           unfold(g) == [i \in DOMAIN order |-> graph.deps[order[i]] \cup UNION {g[j] : j \in into(i)}]
           rests == [i \in DOMAIN order |-> RestsOn(order[i])]
<1>1. DOMAIN order = 1..Len(order) /\ Len(order) \in Nat /\ \A i \in DOMAIN order : order[i] \in Nodes
  BY DEF LinedUp
<1>2. \A i \in DOMAIN order : into(i) \subseteq DOMAIN order
  BY <1>1
<1>3. ASSUME NEW i \in DOMAIN order
      PROVE  RestsOn(order[i]) = graph.deps[order[i]] \cup UNION {rests[j] : j \in into(i)}
  <2>1. RestsOn(order[i]) = graph.deps[order[i]] \cup UNION {RestsOn(t) : t \in graph.deps[order[i]]}
    BY <1>1, RestsFacts DEF LinedUp
  <2>2. \A j \in into(i) : rests[j] = RestsOn(order[j]) /\ order[j] \in graph.deps[order[i]]
    BY <1>2
  <2>3. \A t \in graph.deps[order[i]] : \E j \in into(i) : order[j] = t
    BY DEF LinedUp, Before
  <2> HIDE DEF into, rests
  <2>4. UNION {rests[j] : j \in into(i)} = UNION {RestsOn(t) : t \in graph.deps[order[i]]}
    BY <2>2, <2>3
  <2> QED BY <2>1, <2>4
<1>4. rests = unfold(rests)
  <2> HIDE DEF into
  <2>1. \A i \in DOMAIN order :
          RestsOn(order[i]) = graph.deps[order[i]] \cup UNION {rests[j] : j \in into(i)}
    BY <1>3
  <2> QED BY <2>1
<1>5. Ancestors = unfold(Ancestors)
  <2>1. \E g : g = unfold(g)
    BY <1>4
  <2>2. Ancestors = CHOOSE g : g = unfold(g)
    BY DEF Ancestors
  <2> HIDE DEF unfold
  <2> QED BY <2>1, <2>2
<1>6. \A i \in DOMAIN order :
        Ancestors[i] = graph.deps[order[i]] \cup UNION {Ancestors[j] : j \in into(i)}
  <2> HIDE DEF into
  <2> QED BY <1>5
<1> HIDE DEF into, unfold
<1> DEFINE wrong == {i \in DOMAIN order : Ancestors[i] # RestsOn(order[i])}
<1> SUFFICES ASSUME wrong # {} PROVE FALSE
  OBVIOUS
<1>7. PICK i \in wrong : \A j \in wrong : i <= j
  <2>1. wrong \in SUBSET Nat /\ wrong # {}
    BY <1>1
  <2> HIDE DEF wrong
  <2> QED BY <2>1, HasLeast
<1>8. \A j \in into(i) : j \in DOMAIN order /\ j \notin wrong
  BY <1>1, <1>2, <1>7 DEF into
<1>9. \A j \in into(i) : Ancestors[j] = rests[j]
  BY <1>8
<1>10. UNION {Ancestors[j] : j \in into(i)} = UNION {rests[j] : j \in into(i)}
  <2> HIDE DEF rests
  <2> QED BY <1>9
<1>11. i \in DOMAIN order /\ Ancestors[i] # RestsOn(order[i])
  BY <1>7
<1>12. RestsOn(order[i]) = graph.deps[order[i]] \cup UNION {rests[j] : j \in into(i)}
  BY <1>3, <1>11
<1>13. Ancestors[i] = graph.deps[order[i]] \cup UNION {Ancestors[j] : j \in into(i)}
  BY <1>6, <1>11
<1> QED BY ONLY <1>10, <1>11, <1>12, <1>13

\* No stage of an order rests on one that is not before it.
LEMMA RestsAreBefore ==
  ASSUME LinedUp, NEW i \in DOMAIN order
  PROVE  RestsOn(order[i]) \subseteq Before(i)
<1>1. DOMAIN order = 1..Len(order) /\ Len(order) \in Nat /\ \A j \in DOMAIN order : order[j] \in Nodes
  BY DEF LinedUp
<1>2. Before(i) \in SUBSET Nodes
  BY <1>1 DEF Before
<1>3. \A c \in Before(i) : graph.deps[c] \subseteq Before(i)
  <2> TAKE c \in Before(i)
  <2>1. PICK j \in 1..(i - 1) : c = order[j]
    BY DEF Before
  <2>2. j \in DOMAIN order /\ graph.deps[c] \subseteq Before(j)
    BY <1>1, <2>1 DEF LinedUp
  <2>3. Before(j) \subseteq Before(i)
    BY <1>1, <2>1 DEF Before
  <2> QED BY <2>2, <2>3
<1>4. graph.deps[order[i]] \subseteq Before(i)
  BY DEF LinedUp
<1> QED BY <1>1, <1>2, <1>3, <1>4, RestsFacts DEF LinedUp

\* At most one maker, and none of what is there from the start.
LEMMA OneMaker ==
  ASSUME graph \in Graphs, NEW a
  PROVE  Cardinality(Makers(a)) <= (IF a \in graph.initial THEN 0 ELSE 1)
           <=> \A s, t \in Makers(a) : s = t /\ a \notin graph.initial
<1>1. IsFiniteSet(Makers(a))
  BY NodesAreStages, FS_Subset DEF Makers
<1>2. Cardinality(Makers(a)) \in Nat
  BY <1>1, FS_CardinalityType
<1>3. CASE Makers(a) = {}
  BY <1>3, FS_EmptySet
<1>4. CASE Makers(a) # {}
  <2>1. PICK s \in Makers(a) : TRUE
    BY <1>4
  <2>2. Cardinality(Makers(a)) # 0
    BY <1>1, <1>4, FS_EmptySet
  <2>3. (\A t \in Makers(a) : t = s) => Cardinality(Makers(a)) = 1
    <3>1. (\A t \in Makers(a) : t = s) => Makers(a) = {s}
      BY <2>1
    <3>2. Cardinality({s}) = 1
      BY FS_Singleton
    <3> QED BY <3>1, <3>2
  <2>4. Cardinality(Makers(a)) = 1 => \A t \in Makers(a) : t = s
    <3>1. Cardinality(Makers(a)) = 1 => \E x : Makers(a) = {x}
      BY <1>1, FS_Singleton
    <3> QED BY <2>1, <3>1
  <2>5. Cardinality(Makers(a)) <= 1 => Cardinality(Makers(a)) = 1
    BY <1>2, <2>2
  <2>6. Cardinality(Makers(a)) <= 0 => FALSE
    BY <1>2, <2>2
  <2>7. CASE a \in graph.initial
    BY <2>1, <2>6, <2>7
  <2>8. CASE a \notin graph.initial
    BY <2>1, <2>3, <2>4, <2>5, <2>8
  <2> QED BY <2>7, <2>8
<1> QED BY <1>3, <1>4

\* What the checks along an order find is what the graph says.
LEMMA SoundIsWellFormed ==
  ASSUME LinedUp
  PROVE  FlowIsSound <=> WellFormed
<1>1. /\ DOMAIN order = 1..Len(order) /\ Len(order) \in Nat
      /\ \A i \in DOMAIN order : order[i] \in Nodes
      /\ \A s \in Nodes : \E i \in DOMAIN order : s = order[i]
  BY DEF LinedUp, Elements
<1>2. \A i \in DOMAIN order : Ancestors[i] = RestsOn(order[i])
  BY AncestorsAreRests
<1>3. \A i \in DOMAIN order : RestsOn(order[i]) \subseteq Before(i)
  BY RestsAreBefore
<1>4. \A i \in DOMAIN order : order[i] \notin Before(i)
  BY <1>1 DEF LinedUp, Before
<1>5. \A s \in Nodes : s \notin RestsOn(s)
  BY <1>1, <1>3, <1>4
<1>6. Identified
  BY DEF LinedUp
<1> DEFINE once == \A a \in Artifact : \A s, t \in Makers(a) : s = t /\ a \notin graph.initial
           fed  == \A s \in Nodes : \A a \in graph.consumes[s] :
                     a \in graph.initial \/ \E t \in RestsOn(s) : a \in graph.produces[t]
           covers == \E s \in Makers(graph.terminal) :
                       \A op \in {"indexer", "topk"} :
                         /\ \E t \in RestsOn(s) \cup {s} : op \in graph.ops[t]
                         /\ \A t \in Nodes : op \in graph.ops[t] => t \in RestsOn(s) \cup {s}
           known == \A s \in Nodes : graph.ops[s] \subseteq {"indexer", "topk", "output"}
<1>7. ProducedOnce <=> once
  BY OneMaker DEF ProducedOnce, LinedUp
<1>8. ASSUME once PROVE Consumable <=> fed
  <2>1. \A s \in Nodes : graph.consumes[s] \subseteq Artifact
    BY GraphsAreGraphs, NodesAreStages DEF LinedUp
  <2>2. ASSUME NEW i \in DOMAIN order, NEW a \in graph.consumes[order[i]]
        PROVE  /\ a \in graph.initial \/ \E s \in Before(i) : a \in graph.produces[s]
               /\ Makers(a) \subseteq Ancestors[i]
               <=>
               a \in graph.initial \/ \E t \in RestsOn(order[i]) : a \in graph.produces[t]
    <3>1. a \in Artifact
      BY <1>1, <2>1
    <3>2. \A s, t \in Makers(a) : s = t /\ a \notin graph.initial
      BY <1>8, <3>1
    <3>3. Before(i) \subseteq Nodes /\ RestsOn(order[i]) \subseteq Before(i)
            /\ Ancestors[i] = RestsOn(order[i])
      BY <1>1, <1>2, <1>3 DEF Before
    <3>4. \A s : s \in Makers(a) <=> s \in Nodes /\ a \in graph.produces[s]
      BY DEF Makers
    <3> QED BY <3>2, <3>3, <3>4
  <2>3. \A i \in DOMAIN order : graph.deps[order[i]] \subseteq Before(i)
    BY DEF LinedUp
  <2>4. Consumable <=>
          \A i \in DOMAIN order : \A a \in graph.consumes[order[i]] :
            a \in graph.initial \/ \E t \in RestsOn(order[i]) : a \in graph.produces[t]
    BY <2>2, <2>3 DEF Consumable
  <2> QED BY <1>1, <2>4
<1>9. AnswerCovers <=> covers
  <2>1. ASSUME NEW i \in DOMAIN order
        PROVE  LET closure == Ancestors[i] \cup {order[i]}
               IN /\ {"indexer", "topk"} \subseteq UNION {graph.ops[s] : s \in closure}
                  /\ \A s \in Nodes \ closure : graph.ops[s] \cap {"indexer", "topk"} = {}
               <=>
               \A op \in {"indexer", "topk"} :
                 /\ \E t \in RestsOn(order[i]) \cup {order[i]} : op \in graph.ops[t]
                 /\ \A t \in Nodes : op \in graph.ops[t] => t \in RestsOn(order[i]) \cup {order[i]}
    <3> DEFINE closure == RestsOn(order[i]) \cup {order[i]}
    <3>1. Ancestors[i] \cup {order[i]} = closure
      BY <1>2
    <3> HIDE DEF closure
    <3>2. /\ {"indexer", "topk"} \subseteq UNION {graph.ops[s] : s \in closure}
          /\ \A s \in Nodes \ closure : graph.ops[s] \cap {"indexer", "topk"} = {}
          <=>
          \A op \in {"indexer", "topk"} :
            /\ \E t \in closure : op \in graph.ops[t]
            /\ \A t \in Nodes : op \in graph.ops[t] => t \in closure
      OBVIOUS
    <3> QED BY <3>1, <3>2 DEF closure
  <2> DEFINE Whole(s) == \A op \in {"indexer", "topk"} :
                           /\ \E t \in RestsOn(s) \cup {s} : op \in graph.ops[t]
                           /\ \A t \in Nodes : op \in graph.ops[t] => t \in RestsOn(s) \cup {s}
  <2>2. AnswerCovers <=> \E i \in DOMAIN order : graph.terminal \in graph.produces[order[i]] /\ Whole(order[i])
    <3> SUFFICES ASSUME NEW i \in DOMAIN order
                 PROVE  LET closure == Ancestors[i] \cup {order[i]}
                        IN /\ {"indexer", "topk"} \subseteq UNION {graph.ops[s] : s \in closure}
                           /\ \A s \in Nodes \ closure : graph.ops[s] \cap {"indexer", "topk"} = {}
                        <=> Whole(order[i])
      BY DEF AnswerCovers
    <3> QED BY <2>1
  <2>3. covers <=> \E s \in Makers(graph.terminal) : Whole(s)
    OBVIOUS
  <2>4. \A s : s \in Makers(graph.terminal) <=> s \in Nodes /\ graph.terminal \in graph.produces[s]
    BY DEF Makers
  <2> HIDE DEF Whole, covers
  <2> QED BY <1>1, <2>2, <2>3, <2>4
<1>10. FlowIsSound <=> ProducedOnce /\ Consumable /\ AnswerCovers /\ known
  BY DEF FlowIsSound
<1>11. WellFormed <=> once /\ fed /\ known /\ covers
  BY <1>5, <1>6 DEF WellFormed
<1> HIDE DEF once, fed, covers, known
<1> QED BY <1>7, <1>8, <1>9, <1>10, <1>11

\* In a knot of stages that wait for each other some stage rests on itself.
LEMMA KnotsAreCycles ==
  ASSUME graph \in Graphs, Identified, NEW knot \in SUBSET Nodes, knot # {},
         \A s \in knot : graph.deps[s] \cap knot # {}
  PROVE  \E s \in Nodes : s \in RestsOn(s)
<1> SUFFICES ASSUME \A s \in Nodes : s \notin RestsOn(s) PROVE FALSE
  OBVIOUS
<1> DEFINE size(s) == Cardinality(RestsOn(s))
           sizes == {size(s) : s \in knot}
<1>1. \A s \in Nodes : RestsOn(s) \in SUBSET Nodes /\ IsFiniteSet(RestsOn(s)) /\ size(s) \in Nat
  <2> TAKE s \in Nodes
  <2>1. RestsOn(s) \in SUBSET Nodes /\ IsFiniteSet(Nodes)
    BY RestsFacts, NodesAreStages
  <2> QED BY <2>1, FS_Subset, FS_CardinalityType
<1>2. PICK s \in knot : \A t \in knot : size(s) <= size(t)
  <2>1. sizes \in SUBSET Nat /\ sizes # {}
    BY <1>1
  <2>2. PICK n \in sizes : \A m \in sizes : n <= m
    <3> HIDE DEF sizes
    <3> QED BY <2>1, HasLeast
  <2> QED BY <2>2
<1>3. PICK t \in knot : t \in graph.deps[s]
  OBVIOUS
<1>4. t \in RestsOn(s) /\ RestsOn(t) \subseteq RestsOn(s) /\ t \notin RestsOn(t)
  BY <1>3, RestsFacts
<1>5. RestsOn(t) \in SUBSET RestsOn(s) /\ RestsOn(t) # RestsOn(s)
  BY <1>4
<1>6. size(t) <= size(s) /\ size(t) # size(s)
  <2>1. IsFiniteSet(RestsOn(s))
    BY <1>1
  <2> QED BY <1>5, <2>1, FS_Subset
<1>7. size(s) <= size(t) /\ size(s) \in Nat /\ size(t) \in Nat
  BY <1>1, <1>2
<1> HIDE DEF size
<1> QED BY <1>6, <1>7

\* What each verdict was given for.
Given ==
  /\ phase = "unidentified" => ~Identified
  /\ phase \in {"sorted", "unsound", "accepted", "running", "failed", "done"} =>
       Len(order) = Cardinality(Nodes)
  /\ phase = "unsound" => ~FlowIsSound
  /\ phase \in {"accepted", "running", "failed", "done"} => FlowIsSound

LEMMA GivenHolds == GraphSpec => []Given
<1>1. GraphInit => Given
  BY DEF GraphInit, Given
<1>2. Given /\ [GraphNext]_graphVars => Given'
  <2> SUFFICES ASSUME Given, [GraphNext]_graphVars PROVE Given'
    OBVIOUS
  <2>1. ASSUME UNCHANGED <<graph, order>>
        PROVE  Nodes' = Nodes /\ (Identified' <=> Identified) /\ (FlowIsSound' <=> FlowIsSound)
    <3>1. Nodes' = Nodes /\ (Identified' <=> Identified)
      BY <2>1 DEF Nodes, Elements, Identified
    <3>2. (ProducedOnce' <=> ProducedOnce) /\ (Consumable' <=> Consumable)
      BY <2>1 DEF ProducedOnce, Consumable, Ancestors, Before, Makers, Nodes, Elements
    <3>3. AnswerCovers' <=> AnswerCovers
      BY <2>1 DEF AnswerCovers, Ancestors, Nodes, Elements
    <3> QED BY <2>1, <3>1, <3>2, <3>3 DEF FlowIsSound
  <2>2. CASE CountDependencies
    BY <2>2 DEF CountDependencies, Given, Identified, Nodes, Elements
  <2>3. CASE TakeReady
    BY <2>3 DEF TakeReady, Given
  <2>4. CASE EndSort
    BY <2>1, <2>4 DEF EndSort, Given
  <2>5. CASE CheckFlow
    BY <2>1, <2>5 DEF CheckFlow, Given
  <2>6. CASE Execute
    BY <2>1, <2>6 DEF Execute, Given
  <2>7. CASE RunStage
    <3>1. UNCHANGED <<graph, order>> /\ phase = "running" /\ phase' \in {"running", "failed"}
      BY <2>7 DEF RunStage
    <3> QED BY <2>1, <3>1 DEF Given
  <2>8. CASE EndRun
    BY <2>1, <2>8 DEF EndRun, Given
  <2>9. CASE UNCHANGED graphVars
    BY <2>1, <2>9 DEF graphVars, Given
  <2> QED BY <2>2, <2>3, <2>4, <2>5, <2>6, <2>7, <2>8, <2>9 DEF GraphNext
<1> QED BY <1>1, <1>2, PTL DEF GraphSpec

\* Whether a graph is accepted is a property of the graph, whatever order its
\* stages were listed or sorted in.
THEOREM VerdictsAreRight == GraphSpec => []VerdictIsTheGraphs
<1>1. GraphInv /\ Given /\ CycleIsReal => VerdictIsTheGraphs
  <2> SUFFICES ASSUME GraphInv, Given, CycleIsReal PROVE VerdictIsTheGraphs
    OBVIOUS
  <2>1. phase = "unidentified" => ~WellFormed
    BY DEF Given, WellFormed
  <2>2. ASSUME phase = "cyclic" PROVE ~WellFormed
    <3>1. graph \in Graphs /\ Identified
      BY <2>2 DEF GraphInv, GraphTypeOK, Sorted
    <3>2. PICK knot \in SUBSET Nodes : knot # {} /\ \A s \in knot : graph.deps[s] \cap knot # {}
      BY <2>2 DEF CycleIsReal
    <3>3. \E s \in Nodes : s \in RestsOn(s)
      BY <3>1, <3>2, KnotsAreCycles
    <3> QED BY <3>3 DEF WellFormed
  <2>3. ASSUME phase \in {"unsound", "accepted", "running", "failed", "done"} PROVE LinedUp
    <3>1. /\ graph \in Graphs /\ Identified /\ order \in Seq(Nodes)
          /\ \A i, j \in DOMAIN order : order[i] = order[j] => i = j
          /\ \A i \in DOMAIN order : graph.deps[order[i]] \subseteq Before(i)
      BY <2>3 DEF GraphInv, GraphTypeOK, Sorted
    <3>2. Elements(order) \subseteq Nodes
      BY <3>1 DEF Elements
    <3>3. order \in Bijection(1..Len(order), Elements(order))
      <4>1. order \in [1..Len(order) -> Elements(order)]
        BY <3>1 DEF Elements
      <4>2. \A i, j \in 1..Len(order) : order[i] = order[j] => i = j
        BY <3>1
      <4>3. \A t \in Elements(order) : \E i \in 1..Len(order) : order[i] = t
        BY <3>1 DEF Elements
      <4> QED BY <4>1, <4>2, <4>3 DEF Bijection, Injection, Surjection, IsInjective
    <3>4. Cardinality(Elements(order)) = Len(order)
      BY <3>1, <3>3, FS_CountingElements DEF ExistsBijection
    <3>5. Cardinality(Elements(order)) = Cardinality(Nodes)
      BY <2>3, <3>4 DEF Given
    <3>6. IsFiniteSet(Nodes)
      BY <3>1, NodesAreStages
    <3>7. Elements(order) = Nodes
      BY <3>2, <3>5, <3>6, FS_Subset
    <3> QED BY <3>1, <3>7 DEF LinedUp
  <2>4. phase = "unsound" => ~WellFormed
    BY <2>3, SoundIsWellFormed DEF Given
  <2>5. phase \in {"accepted", "running", "failed", "done"} => WellFormed
    BY <2>3, SoundIsWellFormed DEF Given
  <2> QED BY <2>1, <2>2, <2>4, <2>5 DEF VerdictIsTheGraphs
<1> QED BY <1>1, GraphIsSorted, GivenHolds, CyclesAreReal, PTL

---------------------------------------------------------------------------
(* OracleCall.  A candidate the oracle accepts is an exact Top-K of its      *)
(* causal keys, for every case, every scores and every pair of tensors.  The *)
(* argument never needs the cutoff to be the K-th largest score, only that   *)
(* there is one: a reference row that holds every greater id and none below  *)
(* the cutoff is exact wherever that lies.                                   *)

\* What a case's sets of ids are.
LEMMA CaseFacts ==
  ASSUME NEW case, IsCase(case), NEW r \in Rows(case)
  PROVE  /\ r \in Nat /\ End(case, r) \in Nat /\ End(case, r) > 0 /\ End(case, r) <= case.N
         /\ Prefix(case, r) \subseteq Keys(case)
         /\ IsFiniteSet(Prefix(case, r)) /\ IsFiniteSet(Keys(case)) /\ IsFiniteSet(Slots(case))
         /\ Cardinality(Prefix(case, r)) = End(case, r)
         /\ Width(case, r) \in Nat
<1>1. r \in Nat /\ End(case, r) \in Nat /\ End(case, r) > 0 /\ End(case, r) <= case.N
  BY DEF IsCase, Rows, End
<1>0. 0 \in Int /\ 1 \in Int /\ End(case, r) - 1 \in Int /\ case.N - 1 \in Int /\ case.K \in Int
  BY <1>1 DEF IsCase
<1>2. IsFiniteSet(0..(End(case, r) - 1)) /\ Cardinality(0..(End(case, r) - 1)) = End(case, r)
  <2> DEFINE e == End(case, r) - 1
  <2>1. e \in Int /\ e >= 0
    BY <1>1
  <2> HIDE DEF e
  <2>2. IsFiniteSet(0..e) /\ Cardinality(0..e) = e + 1
    BY <2>1, FS_Interval
  <2> QED BY <1>1, <2>2 DEF e
<1>3. IsFiniteSet(0..(case.N - 1)) /\ IsFiniteSet(1..case.K)
  BY <1>0, FS_Interval
<1> QED BY <1>1, <1>2, <1>3 DEF Prefix, Keys, Slots, Width, IsCase

\* A row of at least k scores has a k-th largest one: of the scores with k at
\* or above them, one with the fewest.
LEMMA LargestIsScore ==
  ASSUME NEW case, IsCase(case), NEW score \in [Keys(case) -> Nat],
         NEW k \in Nat \ {0}, k <= case.N
  PROVE  /\ Largest(score, case, k) \in Nat
         /\ \E j \in Keys(case) : score[j] = Largest(score, case, k)
         /\ Cardinality({j \in Keys(case) : score[j] > Largest(score, case, k)}) < k
         /\ Cardinality({j \in Keys(case) : score[j] >= Largest(score, case, k)}) >= k
<1> DEFINE range == {score[j] : j \in Keys(case)}
           above(v) == {j \in Keys(case) : score[j] > v}
           from(v) == {j \in Keys(case) : score[j] >= v}
           held == {v \in range : Cardinality(from(v)) >= k}
<1>1. IsFiniteSet(Keys(case)) /\ Cardinality(Keys(case)) = case.N /\ case.N > 0 /\ case.N \in Nat
  <2> DEFINE e == case.N - 1
  <2>1. e \in Int /\ e >= 0 /\ 0 \in Int
    BY DEF IsCase
  <2> HIDE DEF e
  <2>2. IsFiniteSet(0..e) /\ Cardinality(0..e) = e + 1
    BY <2>1, FS_Interval
  <2> QED BY <2>1, <2>2 DEF e, Keys, IsCase
<1>2. \A v : /\ IsFiniteSet(from(v)) /\ Cardinality(from(v)) \in Nat
             /\ IsFiniteSet(above(v)) /\ Cardinality(above(v)) \in Nat
  BY <1>1, FS_Subset, FS_CardinalityType
<1>3. range \in SUBSET Nat /\ range # {}
  BY <1>1 DEF Keys
<1>4. held # {}
  <2>1. PICK v \in range : \A u \in range : v <= u
    BY <1>3, HasLeast
  <2>2. from(v) = Keys(case)
    BY <1>3, <2>1
  <2> QED BY <1>1, <2>1, <2>2
<1>5. PICK v \in held : \A u \in held : Cardinality(from(v)) <= Cardinality(from(u))
  <2> DEFINE size(u) == Cardinality(from(u))
             sizes == {size(u) : u \in held}
  <2>0. \A u : size(u) \in Nat
    BY <1>2
  <2> HIDE DEF size, held
  <2>1. sizes \in SUBSET Nat /\ sizes # {}
    BY <1>4, <2>0
  <2>2. PICK n \in sizes : \A m \in sizes : n <= m
    BY <2>1, HasLeast
  <2>3. \E v \in held : \A u \in held : size(v) <= size(u)
    BY <2>2
  <2> QED BY <2>3 DEF size
<1>6. Cardinality(above(v)) < k
  <2> SUFFICES ASSUME Cardinality(above(v)) >= k PROVE FALSE
    BY <1>2
  <2> DEFINE greater == {u \in range : u > v}
  <2>1. above(v) # {}
    BY <1>2, FS_EmptySet
  <2>2. greater # {} /\ greater \in SUBSET Nat
    BY <1>3, <2>1
  <2>3. PICK u \in greater : \A w \in greater : u <= w
    BY <2>2, HasLeast
  <2>4. from(u) = above(v)
    BY <1>3, <2>3
  <2>5. u \in held
    BY <2>3, <2>4
  <2>6. from(u) \in SUBSET from(v) /\ from(u) # from(v)
    BY <1>3, <2>4
  <2>7. Cardinality(from(u)) < Cardinality(from(v))
    <3> DEFINE small == from(u)
               big == from(v)
    <3>1. IsFiniteSet(big) /\ small \in SUBSET big /\ small # big
          /\ Cardinality(big) \in Nat /\ Cardinality(small) \in Nat
      BY <1>2, <2>6
    <3> HIDE DEF small, big
    <3>2. Cardinality(small) <= Cardinality(big) /\ Cardinality(small) # Cardinality(big)
      BY <3>1, FS_Subset
    <3>3. Cardinality(small) < Cardinality(big)
      BY <3>1, <3>2
    <3> QED BY <3>3 DEF small, big
  <2>8. Cardinality(from(v)) <= Cardinality(from(u))
    BY <1>5, <2>5
  <2>9. Cardinality(from(v)) \in Nat /\ Cardinality(from(u)) \in Nat
    BY <1>2
  <2> HIDE DEF from
  <2> QED BY <2>7, <2>8, <2>9
<1>7. \E w \in range : Cardinality(above(w)) < k /\ Cardinality(from(w)) >= k
  BY <1>5, <1>6
<1>8. /\ Largest(score, case, k) \in range
      /\ Cardinality(above(Largest(score, case, k))) < k
      /\ Cardinality(from(Largest(score, case, k))) >= k
  BY <1>7 DEF Largest
<1>9. \E j \in Keys(case) : score[j] = Largest(score, case, k)
  BY <1>8
<1> QED BY <1>3, <1>8, <1>9

\* On either path a valid row selects exactly Width ids below the row's end.
LEMMA ValidRow ==
  ASSUME NEW case, IsCase(case), NEW t, IsIds(t, case), NEW way, Valid(way, t, case),
         NEW r \in Rows(case)
  PROVE  /\ Selected(t, case, r) \subseteq Prefix(case, r)
         /\ Cardinality(Selected(t, case, r)) = Width(case, r)
<1> DEFINE id(i) == t.ids[r][i]
           valid == {i \in Slots(case) : id(i) >= 0}
<1>1. \A i \in Slots(case) : id(i) \in Int
  BY DEF IsIds
<1>2. Selected(t, case, r) = {id(i) : i \in valid}
  BY DEF Selected
<1>3. \A i \in valid : id(i) < End(case, r)
  <2>1. CASE way = "tensor"
    BY <2>1 DEF Valid, TensorValid
  <2>2. CASE way # "tensor"
    <3> SUFFICES ASSUME NEW i \in valid PROVE id(i) < End(case, r)
      OBVIOUS
    <3>1. id(i) # -1
      BY <1>1
    <3> QED BY <2>2, <3>1 DEF Valid, ListValid
  <2> QED BY <2>1, <2>2
<1>4. Selected(t, case, r) \subseteq Prefix(case, r)
  BY <1>1, <1>2, <1>3, CaseFacts DEF Prefix
<1>5. CASE way = "tensor"
  <2>1. Cardinality(valid) = Width(case, r) /\ \A i, j \in valid : id(i) = id(j) => i = j
    BY <1>5 DEF Valid, TensorValid
  <2>2. IsFiniteSet(valid)
    BY CaseFacts, FS_Subset
  <2> DEFINE f == [i \in valid |-> id(i)]
  <2>3. f \in Bijection(valid, Selected(t, case, r))
    <3> HIDE DEF valid
    <3>1. f \in [valid -> Selected(t, case, r)]
      BY <1>2
    <3>2. \A i, j \in valid : f[i] = f[j] => i = j
      BY <2>1
    <3>3. \A x \in Selected(t, case, r) : \E i \in valid : f[i] = x
      BY <1>2
    <3> QED BY <3>1, <3>2, <3>3 DEF Bijection, Injection, Surjection, IsInjective
  <2>4. Cardinality(Selected(t, case, r)) = Cardinality(valid)
    BY <2>2, <2>3, FS_Bijection DEF ExistsBijection
  <2> QED BY <1>4, <2>1, <2>4
<1>6. CASE way # "tensor"
  <2> DEFINE counted == {i \in Slots(case) : id(i) # -1}
  <2>1. /\ \A i \in counted : id(i) >= 0
        /\ Cardinality(counted) = Width(case, r)
        /\ Cardinality({id(i) : i \in counted}) = Cardinality(counted)
    BY <1>6 DEF Valid, ListValid
  <2>2. counted = valid
    BY <1>1, <2>1
  <2> QED BY <1>2, <1>4, <2>1, <2>2
<1> QED BY <1>5, <1>6

\* A selection of the right size that has every id above some score and none
\* below it is exact.
LEMMA ThresholdIsExact ==
  ASSUME NEW case, IsCase(case), NEW r \in Rows(case), NEW score \in [Keys(case) -> Int],
         NEW cut \in Int, NEW sel \in SUBSET Prefix(case, r),
         Cardinality(sel) = Width(case, r),
         \A j \in sel : score[j] >= cut,
         \A j \in Prefix(case, r) : score[j] > cut => j \in sel
  PROVE  ExactRow(score, case, r, sel)
<1>1. Prefix(case, r) \subseteq Keys(case)
  BY CaseFacts
<1>2. ASSUME NEW i \in sel, NEW j \in Prefix(case, r) \ sel PROVE score[i] >= score[j]
  <2>1. score[i] \in Int /\ score[j] \in Int /\ score[i] >= cut /\ ~(score[j] > cut)
    BY <1>1
  <2> QED BY <2>1
<1> QED BY <1>2 DEF ExactRow

\* A short row must select its whole prefix, which is exact.
LEMMA ShortRowIsExact ==
  ASSUME NEW case, IsCase(case), NEW r \in Rows(case), End(case, r) <= case.K, NEW score,
         NEW sel \in SUBSET Prefix(case, r), Cardinality(sel) = Width(case, r)
  PROVE  ExactRow(score, case, r, sel)
<1>1. /\ IsFiniteSet(Prefix(case, r)) /\ Cardinality(Prefix(case, r)) = End(case, r)
      /\ End(case, r) \in Nat
  BY CaseFacts
<1>2. Cardinality(sel) = End(case, r)
  BY <1>1 DEF Width, IsCase
<1>3. sel = Prefix(case, r)
  BY <1>1, <1>2, FS_Subset
<1> QED BY <1>3 DEF ExactRow

\* A reference row that the oracle was built from holds every id above the
\* cutoff, of the whole row, and none below it.
LEMMA ReferenceHoldsGreater ==
  ASSUME NEW case, IsCase(case), NEW r \in Rows(case), NEW score \in [Keys(case) -> Int],
         NEW ref, Selected(ref, case, r) \subseteq Prefix(case, r),
         Cutoff(score, case) \in Int, ReferenceRowOK(score, ref, case, r)
  PROVE  /\ \A j \in Selected(ref, case, r) : score[j] >= Cutoff(score, case)
         /\ \A j \in Keys(case) : score[j] > Cutoff(score, case) => j \in Selected(ref, case, r)
<1> DEFINE sel == Selected(ref, case, r)
           cut == Cutoff(score, case)
           greater == {j \in Keys(case) : score[j] > cut}
           chosen == {j \in sel : score[j] > cut}
<1> HIDE DEF cut, sel
<1>1. sel \subseteq Keys(case) /\ IsFiniteSet(greater)
  BY CaseFacts, FS_Subset DEF sel
<1>2. chosen \in SUBSET greater
  BY <1>1
<1>3. Cardinality(chosen) = Cardinality(greater) /\ \A j \in sel : score[j] >= cut
  BY DEF ReferenceRowOK, sel, cut
<1>4. chosen = greater
  BY <1>1, <1>2, <1>3, FS_Subset
<1> QED BY <1>3, <1>4 DEF sel, cut

\* Rows that do not differ select the same ids.
LEMMA SameRow ==
  ASSUME NEW case, IsCase(case), NEW r \in Rows(case), NEW ans, NEW ref, NEW way,
         IsIds(ans, case), IsIds(ref, case),
         Selected(ans, case, r) \subseteq Keys(case), Selected(ref, case, r) \subseteq Keys(case),
         ~Differs(way, ans, ref, case, r)
  PROVE  Selected(ans, case, r) = Selected(ref, case, r)
<1>1. CASE way = "tensor"
  <2> DEFINE places(t, v) == {i \in Slots(case) : t.ids[r][i] = v}
  <2>1. \A t, v : IsFiniteSet(places(t, v))
    BY CaseFacts, FS_Subset
  <2>2. \A v \in Keys(case) : places(ans, v) = {} <=> places(ref, v) = {}
    <3> TAKE v \in Keys(case)
    <3>1. Cardinality(places(ans, v)) = Cardinality(places(ref, v))
      BY <1>1 DEF Differs
    <3> HIDE DEF places
    <3> QED BY <2>1, <3>1, FS_EmptySet
  <2>3. \A v \in Keys(case) : v >= 0
    BY DEF Keys
  <2>4. \A v \in Keys(case) : v \in Selected(ans, case, r) <=> places(ans, v) # {}
    BY <2>3 DEF Selected
  <2>5. \A v \in Keys(case) : v \in Selected(ref, case, r) <=> places(ref, v) # {}
    BY <2>3 DEF Selected
  <2> QED BY <2>2, <2>4, <2>5
<1>2. CASE way # "tensor"
  BY <1>2 DEF Differs
<1> QED BY <1>1, <1>2

\* Soundness of the oracle.
THEOREM OracleSound ==
  ASSUME NEW case, IsCase(case), NEW scores \in [Rows(case) -> [Keys(case) -> Nat]],
         NEW ref, IsIds(ref, case), NEW ans, IsIds(ans, case), NEW way,
         OracleBuilds(way, scores, ref, case),
         Accepts(way, OracleOf(scores, case), ans, ref, case)
  PROVE  Exact(scores, ans, case)
<1> SUFFICES ASSUME NEW r \in Rows(case)
             PROVE  ExactRow(scores[r], case, r, Selected(ans, case, r))
  BY DEF Exact
<1> DEFINE B == Selected(ref, case, r)
           C == Selected(ans, case, r)
           cut == Cutoff(scores[r], case)
<1>1. /\ B \subseteq Prefix(case, r) /\ C \subseteq Prefix(case, r)
      /\ Cardinality(C) = Width(case, r) /\ Prefix(case, r) \subseteq Keys(case)
  BY ValidRow, CaseFacts DEF Accepts
<1>2. CASE ~(End(case, r) > case.K)
  <2>1. End(case, r) <= case.K
    BY <1>2, CaseFacts DEF IsCase
  <2> QED BY <1>1, <2>1, ShortRowIsExact
<1>3. CASE End(case, r) > case.K
  <2>1. r \in Eligible(case) /\ scores[r] \in [Keys(case) -> Int] /\ cut \in Int
    <3>1. r \in Eligible(case) /\ scores[r] \in [Keys(case) -> Nat]
      BY <1>3 DEF Eligible
    <3>2. case.K \in Nat \ {0} /\ case.K <= case.N
      BY <1>3, CaseFacts DEF IsCase
    <3>3. cut \in Nat
      BY <3>1, <3>2, LargestIsScore DEF Cutoff
    <3> QED BY <3>1, <3>3
  <2>2. /\ \A j \in B : scores[r][j] >= cut
        /\ \A j \in Keys(case) : scores[r][j] > cut => j \in B
    BY <1>1, <2>1, ReferenceHoldsGreater DEF OracleBuilds
  <2>3. CASE ~Differs(way, ans, ref, case, r)
    <3>1. C = B
      BY <1>1, <2>3, SameRow
    <3> HIDE DEF cut, B, C
    <3> QED BY <1>1, <2>1, <2>2, <3>1, ThresholdIsExact DEF C
  <2>4. CASE Differs(way, ans, ref, case, r)
    <3> DEFINE boundary == Tie(scores[r], case, r).boundary
    <3>1. /\ r \in TiedRows(scores, case)
          /\ TiedRowAccepted(Tie(scores[r], case, r), C, B)
      BY <2>4 DEF Accepts, OracleOf
    <3>2. boundary = {j \in Prefix(case, r) : scores[r][j] = cut}
      BY DEF Tie
    <3>3. B \ boundary \subseteq C /\ C \subseteq (B \ boundary) \cup boundary
      BY <3>1 DEF TiedRowAccepted
    <3> HIDE DEF cut, B, C, boundary
    <3>4. \A j \in C : scores[r][j] >= cut
      BY <1>1, <2>1, <2>2, <3>2, <3>3
    <3>5. \A j \in Prefix(case, r) : scores[r][j] > cut => j \in C
      BY <1>1, <2>1, <2>2, <3>2, <3>3
    <3> QED BY <1>1, <2>1, <3>4, <3>5, ThresholdIsExact DEF C
  <2> QED BY <2>3, <2>4
<1> QED BY <1>2, <1>3

\* What the oracle was built from, and what the verdict says.
OracleInv ==
  /\ question \in Questions /\ base \in question.tensors /\ cand \in question.tensors
  /\ verdict \in {"built", "accepted", "rejected"} =>
       /\ OracleBuilds(path, question.scores, base, question.case)
       /\ oracle = OracleOf(question.scores, question.case)
  /\ verdict = "accepted" => Accepts(path, oracle, cand, base, question.case)

\* A candidate the oracle accepts is an exact Top-K.
THEOREM AcceptedAreExact == OracleSpec => []AcceptedIsExact
<1>1. OracleInit => OracleInv
  BY DEF OracleInit, OracleInv
<1>2. OracleInv /\ [OracleNext]_oracleVars => OracleInv'
  <2> SUFFICES ASSUME OracleInv, [OracleNext]_oracleVars PROVE OracleInv'
    OBVIOUS
  <2>1. CASE BuildOracle
    BY <2>1 DEF BuildOracle, OracleInv
  <2>2. CASE Compare
    BY <2>2 DEF Compare, OracleInv
  <2>3. CASE UNCHANGED oracleVars
    BY <2>3 DEF oracleVars, OracleInv
  <2> QED BY <2>1, <2>2, <2>3 DEF OracleNext
<1>3. OracleInv => AcceptedIsExact
  <2> SUFFICES ASSUME OracleInv, verdict = "accepted"
               PROVE  Exact(question.scores, cand, question.case)
    BY DEF AcceptedIsExact
  <2>1. /\ IsCase(question.case)
        /\ question.scores \in [Rows(question.case) -> [Keys(question.case) -> Nat]]
        /\ IsIds(base, question.case) /\ IsIds(cand, question.case)
    BY QuestionsAreCases DEF OracleInv
  <2> QED BY <2>1, OracleSound DEF OracleInv
<1> QED BY <1>1, <1>2, <1>3, PTL DEF OracleSpec

\* The scores of a row that the k-th largest of two counts is the same of both.
LEMMA LargestIsOne ==
  ASSUME NEW case, IsCase(case), NEW score \in [Keys(case) -> Nat],
         NEW k \in Nat, NEW u \in Nat, NEW v \in Nat,
         Cardinality({j \in Keys(case) : score[j] > u}) < k,
         Cardinality({j \in Keys(case) : score[j] >= v}) >= k
  PROVE  v <= u
<1> SUFFICES ASSUME u < v PROVE FALSE
  OBVIOUS
<1> DEFINE above == {j \in Keys(case) : score[j] > u}
           from  == {j \in Keys(case) : score[j] >= v}
<1>1. IsFiniteSet(Keys(case))
  <2>1. 0 \in Int /\ case.N - 1 \in Int
    BY DEF IsCase
  <2> QED BY <2>1, FS_Interval DEF Keys
<1>2. IsFiniteSet(above) /\ from \in SUBSET above
  BY <1>1, FS_Subset
<1>3. Cardinality(from) <= Cardinality(above) /\ Cardinality(from) \in Nat /\ Cardinality(above) \in Nat
  <2> HIDE DEF from, above
  <2> QED BY <1>2, FS_Subset, FS_CardinalityType
<1> QED BY <1>3

\* What a row holds at its cutoff, when its scores beyond the causal end were
\* cleaned: above it fewer than K causal keys, from it at least K, and more
\* exactly when the row is tied.
CutsRow(score, case, r) ==
  LET cut == Cutoff(score, case)
      greater == {j \in Keys(case) : score[j] > cut}
      from == {j \in Keys(case) : score[j] >= cut}
  IN /\ cut \in Nat /\ cut # NegInf /\ Largest(score, case, case.K + 1) # NegInf
     /\ from \in SUBSET Prefix(case, r)
     /\ Cardinality(greater) < case.K /\ Cardinality(from) >= case.K
     /\ IsTied(score, case) <=> Cardinality(from) > case.K

LEMMA CleanRowIsCut ==
  ASSUME NEW case, IsCase(case), NEW r \in Rows(case), End(case, r) > case.K,
         NEW score \in [Keys(case) -> Nat], NegInf \in Nat,
         \A j \in Keys(case) : NegInf <= score[j],
         \A j \in Keys(case) : score[j] = NegInf <=> j \notin Prefix(case, r)
  PROVE  CutsRow(score, case, r)
<1> DEFINE greater(v) == {j \in Keys(case) : score[j] > v}
           from(v) == {j \in Keys(case) : score[j] >= v}
           cut == Largest(score, case, case.K)
           second == Largest(score, case, case.K + 1)
<1>1. /\ case.K \in Nat \ {0} /\ case.N \in Nat /\ End(case, r) \in Nat
      /\ case.K + 1 \in Nat \ {0} /\ case.K + 1 <= End(case, r) /\ End(case, r) <= case.N
  BY CaseFacts DEF IsCase
<1>2. /\ cut \in Nat /\ Cardinality(greater(cut)) < case.K /\ Cardinality(from(cut)) >= case.K
      /\ second \in Nat /\ Cardinality(greater(second)) < case.K + 1 /\ Cardinality(from(second)) >= case.K + 1
      /\ \E j \in Keys(case) : score[j] = cut
  <2>1. case.K <= case.N /\ case.K + 1 <= case.N
    BY <1>1
  <2>2. ASSUME NEW k \in Nat \ {0}, k <= case.N
        PROVE  /\ Largest(score, case, k) \in Nat
               /\ Cardinality(greater(Largest(score, case, k))) < k
               /\ Cardinality(from(Largest(score, case, k))) >= k
               /\ \E j \in Keys(case) : score[j] = Largest(score, case, k)
    BY <2>2, LargestIsScore
  <2> HIDE DEF greater, from
  <2>3. /\ cut \in Nat /\ Cardinality(greater(cut)) < case.K /\ Cardinality(from(cut)) >= case.K
        /\ \E j \in Keys(case) : score[j] = cut
    BY <1>1, <2>1, <2>2
  <2>4. second \in Nat /\ Cardinality(greater(second)) < case.K + 1 /\ Cardinality(from(second)) >= case.K + 1
    BY <1>1, <2>1, <2>2
  <2> QED BY <2>3, <2>4
<1>3. greater(NegInf) = Prefix(case, r)
  <2>1. Prefix(case, r) \subseteq Keys(case)
    BY CaseFacts
  <2>2. \A j \in Keys(case) : score[j] \in Nat
    OBVIOUS
  <2> QED BY <2>1, <2>2
<1>4. Cardinality(greater(NegInf)) = End(case, r)
  BY <1>3, CaseFacts
<1>5. cut # NegInf /\ second # NegInf
  <2> HIDE DEF greater
  <2> QED BY <1>1, <1>2, <1>4
<1>6. cut > NegInf
  <2>1. PICK j \in Keys(case) : score[j] = cut
    BY <1>2
  <2> QED BY <1>2, <1>5, <2>1
<1>7. from(cut) \in SUBSET Prefix(case, r)
  BY <1>2, <1>6
<1>8. Cardinality(from(cut)) \in Nat /\ Cardinality(greater(cut)) \in Nat
  BY CaseFacts, FS_Subset, FS_CardinalityType
<1>9. cut = second => Cardinality(from(cut)) > case.K
  <2> HIDE DEF from, greater
  <2> QED BY <1>1, <1>2, <1>8
<1>10. Cardinality(from(cut)) > case.K => cut = second
  <2> SUFFICES ASSUME Cardinality(from(cut)) > case.K PROVE cut = second
    OBVIOUS
  <2>1. Cardinality(from(cut)) >= case.K + 1 /\ Cardinality(greater(cut)) < case.K + 1
    BY <1>1, <1>2, <1>8
  <2>2. cut <= second
    BY <1>1, <1>2, <2>1, LargestIsOne, SMTT(30)
  <2>3. second <= cut
    BY <1>1, <1>2, <2>1, LargestIsOne, SMTT(30)
  <2> HIDE DEF cut, second
  <2> QED BY <1>2, <2>2, <2>3
<1>11. Cutoff(score, case) = cut
  BY DEF Cutoff
<1> HIDE DEF cut, second
<1> QED BY <1>2, <1>5, <1>7, <1>9, <1>10, <1>11 DEF CutsRow, IsTied, cut, second

\* An exact selection of such a row lies between the two sets.
LEMMA ExactIsBetween ==
  ASSUME NEW case, IsCase(case), NEW r \in Rows(case), End(case, r) > case.K,
         NEW score \in [Keys(case) -> Nat], CutsRow(score, case, r),
         NEW sel, ExactRow(score, case, r, sel)
  PROVE  LET cut == Cutoff(score, case) IN
           /\ Cardinality(sel) = case.K /\ sel \subseteq Prefix(case, r)
           /\ \A j \in sel : score[j] >= cut
           /\ \A j \in Keys(case) : score[j] > cut => j \in sel
<1> DEFINE cut == Cutoff(score, case)
           greater == {j \in Keys(case) : score[j] > cut}
           from == {j \in Keys(case) : score[j] >= cut}
<1>1. /\ cut \in Nat /\ from \in SUBSET Prefix(case, r)
      /\ Cardinality(greater) < case.K /\ Cardinality(from) >= case.K
  BY DEF CutsRow
<1>2. /\ case.K \in Nat \ {0} /\ Width(case, r) = case.K
      /\ Prefix(case, r) \subseteq Keys(case) /\ IsFiniteSet(Prefix(case, r)) /\ IsFiniteSet(Keys(case))
  BY CaseFacts DEF Width, IsCase
<1>3. /\ sel \subseteq Prefix(case, r) /\ Cardinality(sel) = case.K
      /\ \A i \in sel, j \in Prefix(case, r) \ sel : score[i] >= score[j]
  BY <1>2 DEF ExactRow
<1>4. IsFiniteSet(sel) /\ IsFiniteSet(greater) /\ IsFiniteSet(from)
  <2>1. greater \in SUBSET Keys(case) /\ from \in SUBSET Keys(case) /\ sel \in SUBSET Prefix(case, r)
    BY <1>3
  <2> HIDE DEF greater, from
  <2> QED BY <1>2, <2>1, FS_Subset
<1>5. Cardinality(greater) \in Nat /\ Cardinality(from) \in Nat /\ Cardinality(sel) \in Nat
  BY <1>4, FS_CardinalityType
<1>6. \A j \in Keys(case) : score[j] \in Nat
  OBVIOUS
<1>7. ASSUME NEW i \in Keys(case), score[i] > cut, i \notin sel PROVE FALSE
  <2>1. i \in Prefix(case, r)
    BY <1>1, <1>6, <1>7
  <2>2. sel \in SUBSET greater
    BY <1>1, <1>2, <1>3, <1>6, <1>7, <2>1
  <2> HIDE DEF greater
  <2>3. Cardinality(sel) <= Cardinality(greater)
    BY <1>4, <2>2, FS_Subset
  <2> QED BY <1>1, <1>2, <1>3, <1>5, <2>3
<1>8. ASSUME NEW j \in sel, ~(score[j] >= cut) PROVE FALSE
  <2>1. j \in Prefix(case, r) /\ j \in Keys(case)
    BY <1>2, <1>3
  <2>2. from \in SUBSET (sel \ {j})
    <3> SUFFICES ASSUME NEW i \in from PROVE i \in sel \ {j}
      OBVIOUS
    <3>1. i \in Prefix(case, r) /\ score[i] \in Nat /\ score[j] \in Nat /\ score[i] >= cut
      BY <1>1, <1>6, <2>1
    <3>2. i \notin sel => score[j] >= score[i]
      BY <1>3, <3>1
    <3> QED BY <1>1, <1>8, <3>1, <3>2
  <2> HIDE DEF from
  <2>3. IsFiniteSet(sel \ {j}) /\ Cardinality(sel \ {j}) = Cardinality(sel) - 1
    BY <1>4, <1>8, FS_RemoveElement
  <2>4. Cardinality(from) <= Cardinality(sel \ {j})
    BY <2>2, <2>3, FS_Subset
  <2> QED BY <1>1, <1>2, <1>3, <1>5, <2>3, <2>4
<1> HIDE DEF greater, from
<1> QED BY <1>3, <1>7, <1>8

\* What an exact selection of a clean row is made of: all that is above the
\* cutoff, and the rest of it from the boundary.
PartsOf(score, case, r, sel) ==
  LET tie == Tie(score, case, r)
      greater == {j \in Keys(case) : score[j] > Cutoff(score, case)}
  IN /\ greater \cap tie.boundary = {} /\ greater \subseteq sel /\ sel \subseteq greater \cup tie.boundary
     /\ sel \ tie.boundary = greater
     /\ Cardinality(greater) = case.K - tie.required
     /\ Cardinality(sel \cap tie.boundary) = tie.required
     /\ Cardinality(tie.boundary) > tie.required <=> IsTied(score, case)
     /\ ~IsTied(score, case) => sel = greater \cup tie.boundary

\* Every exact selection of such a row has these parts.
LEMMA ExactParts ==
  ASSUME NEW case, IsCase(case), NEW r \in Rows(case), End(case, r) > case.K,
         NEW score \in [Keys(case) -> Nat], CutsRow(score, case, r),
         NEW sel, ExactRow(score, case, r, sel)
  PROVE  PartsOf(score, case, r, sel)
<1> DEFINE cut == Cutoff(score, case)
           greater == {j \in Keys(case) : score[j] > cut}
           from == {j \in Keys(case) : score[j] >= cut}
           tie == Tie(score, case, r)
           boundary == {j \in Prefix(case, r) : score[j] = cut}
<1>1. /\ cut \in Nat /\ from \in SUBSET Prefix(case, r)
      /\ Cardinality(from) >= case.K
      /\ IsTied(score, case) <=> Cardinality(from) > case.K
  BY DEF CutsRow
<1>2. /\ case.K \in Nat /\ Prefix(case, r) \subseteq Keys(case)
      /\ IsFiniteSet(Prefix(case, r)) /\ IsFiniteSet(Keys(case))
  BY CaseFacts DEF IsCase
<1>3. /\ Cardinality(sel) = case.K /\ sel \subseteq Prefix(case, r)
      /\ \A j \in sel : score[j] >= cut
      /\ \A j \in Keys(case) : score[j] > cut => j \in sel
  BY ExactIsBetween
<1>4. \A j \in Keys(case) : score[j] \in Nat
  OBVIOUS
<1>5. /\ greater \cap boundary = {} /\ greater \cup boundary = from
      /\ greater \subseteq sel /\ sel \subseteq from
  BY <1>1, <1>2, <1>3, <1>4
<1>6. tie.boundary = boundary /\ tie.required = case.K - Cardinality(greater)
  <2>1. {j \in Prefix(case, r) : score[j] > cut} = greater
    BY <1>1, <1>2, <1>4
  <2> QED BY <2>1 DEF Tie
<1>7. IsFiniteSet(greater) /\ IsFiniteSet(from) /\ IsFiniteSet(sel) /\ IsFiniteSet(boundary)
  <2>1. greater \in SUBSET Keys(case) /\ from \in SUBSET Keys(case)
          /\ sel \in SUBSET Prefix(case, r) /\ boundary \in SUBSET Prefix(case, r)
    BY <1>3
  <2> HIDE DEF greater, from, boundary
  <2> QED BY <1>2, <2>1, FS_Subset
<1> HIDE DEF greater, from, boundary, tie, cut
<1>8. /\ Cardinality(greater) \in Nat /\ Cardinality(from) \in Nat /\ Cardinality(sel) \in Nat
      /\ Cardinality(boundary) \in Nat /\ Cardinality(sel \cap boundary) \in Nat
  BY <1>7, FS_CardinalityType, FS_Intersection
<1>9. Cardinality(from) = Cardinality(greater) + Cardinality(boundary)
  <2>1. Cardinality(greater \cup boundary) = Cardinality(greater) + Cardinality(boundary) - Cardinality(greater \cap boundary)
    BY <1>7, FS_Union
  <2>2. Cardinality(greater \cap boundary) = 0
    BY <1>5, FS_EmptySet
  <2>3. Cardinality(from) = Cardinality(greater) + (Cardinality(boundary) - 0)
    BY <1>5, <2>1, <2>2
  <2> QED BY ONLY <1>8, <2>3
<1>10. sel \ boundary = greater
  BY <1>5
<1>11. Cardinality(sel \cap boundary) = case.K - Cardinality(greater)
  <2>1. Cardinality(sel \ boundary) = Cardinality(sel) - Cardinality(sel \cap boundary)
    BY <1>7, FS_Difference
  <2> QED BY <1>3, <1>8, <1>10, <2>1
<1>12. ~IsTied(score, case) => sel = from
  <2> SUFFICES ASSUME ~IsTied(score, case) PROVE sel = from
    OBVIOUS
  <2>1. Cardinality(from) = Cardinality(sel)
    BY <1>1, <1>2, <1>3, <1>8
  <2> QED BY <1>5, <1>7, <2>1, FS_Subset
<1>13. Cardinality(boundary) > tie.required <=> IsTied(score, case)
  BY <1>1, <1>2, <1>6, <1>8, <1>9
<1>14. Cardinality(greater) = case.K - tie.required /\ Cardinality(sel \cap boundary) = tie.required
  BY <1>2, <1>6, <1>8, <1>11
<1> QED BY <1>5, <1>6, <1>10, <1>12, <1>13, <1>14 DEF greater, cut, tie, PartsOf

\* A tensor of an exact selection passes the check of indices on both paths.
LEMMA ExactIsValid ==
  ASSUME NEW case, IsCase(case), NEW scores, NEW t, IsIds(t, case), IsTensor(t, case),
         Exact(scores, t, case), NEW way
  PROVE  Valid(way, t, case)
<1>1. ASSUME NEW r \in Rows(case)
      PROVE  LET valid == {i \in Slots(case) : t.ids[r][i] >= 0}
                 named == {i \in Slots(case) : t.ids[r][i] # -1}
             IN /\ named = valid
                /\ Cardinality(valid) = Width(case, r)
                /\ \A i \in valid : t.ids[r][i] < End(case, r)
                /\ \A i, j \in valid : t.ids[r][i] = t.ids[r][j] => i = j
                /\ Cardinality({t.ids[r][i] : i \in valid}) = Cardinality(valid)
  <2> DEFINE id(i) == t.ids[r][i]
             valid == {i \in Slots(case) : id(i) >= 0}
             sel == {id(i) : i \in valid}
  <2>1. \A i \in Slots(case) : id(i) \in Int /\ id(i) >= -1
    BY DEF IsIds, IsTensor
  <2>2. \A i, j \in valid : id(i) = id(j) => i = j
    BY <2>1 DEF IsTensor
  <2>3. sel = Selected(t, case, r)
    BY DEF Selected
  <2>4. sel \subseteq Prefix(case, r) /\ Cardinality(sel) = Width(case, r)
    BY <2>3 DEF Exact, ExactRow
  <2>5. \A i \in valid : id(i) < End(case, r)
    <3> SUFFICES ASSUME NEW i \in valid PROVE id(i) < End(case, r)
      OBVIOUS
    <3>1. id(i) \in Prefix(case, r) /\ End(case, r) \in Nat
      BY <2>4, CaseFacts
    <3> QED BY <3>1 DEF Prefix
  <2>6. IsFiniteSet(valid)
    BY CaseFacts, FS_Subset
  <2>7. {i \in Slots(case) : id(i) # -1} = valid
    BY <2>1
  <2>8. Cardinality(sel) = Cardinality(valid)
    <3> DEFINE f == [i \in valid |-> id(i)]
    <3> HIDE DEF valid
    <3>1. f \in [valid -> sel]
      OBVIOUS
    <3>2. \A i, j \in valid : f[i] = f[j] => i = j
      BY <2>2
    <3>3. \A x \in sel : \E i \in valid : f[i] = x
      OBVIOUS
    <3>4. f \in Bijection(valid, sel)
      BY <3>1, <3>2, <3>3 DEF Bijection, Injection, Surjection, IsInjective
    <3> QED BY <2>6, <3>4, FS_Bijection DEF ExistsBijection
  <2> QED BY <2>2, <2>4, <2>5, <2>7, <2>8
<1>2. t.sound /\ \A r \in Rows(case), i \in Slots(case) : t.ids[r][i] >= -1
  BY DEF IsTensor
<1>3. TensorValid(t, case)
  BY <1>1, <1>2 DEF TensorValid
<1>4. ListValid(t, case)
  <2>1. ASSUME NEW r \in Rows(case)
        PROVE  LET valid == {i \in Slots(case) : t.ids[r][i] # -1}
               IN /\ \A i \in valid : t.ids[r][i] >= 0 /\ t.ids[r][i] < End(case, r)
                  /\ Cardinality(valid) = Width(case, r)
                  /\ Cardinality({t.ids[r][i] : i \in valid}) = Cardinality(valid)
    <3> DEFINE valid == {i \in Slots(case) : t.ids[r][i] >= 0}
               named == {i \in Slots(case) : t.ids[r][i] # -1}
    <3>1. /\ named = valid /\ Cardinality(valid) = Width(case, r)
          /\ \A i \in valid : t.ids[r][i] < End(case, r)
          /\ Cardinality({t.ids[r][i] : i \in valid}) = Cardinality(valid)
      BY <1>1
    <3>2. \A i \in named : t.ids[r][i] >= 0
      BY <3>1
    <3> HIDE DEF valid
    <3> QED BY <3>1, <3>2
  <2> QED BY <1>2, <2>1 DEF ListValid
<1> QED BY <1>3, <1>4 DEF Valid

\* Rows of the same ids do not differ, when no id stands in a row twice.
LEMMA SameIdsAreAlike ==
  ASSUME NEW case, IsCase(case), NEW r \in Rows(case), NEW ans, NEW ref, NEW way,
         IsTensor(ans, case), IsTensor(ref, case),
         Selected(ans, case, r) = Selected(ref, case, r)
  PROVE  ~Differs(way, ans, ref, case, r)
<1> DEFINE places(t, v) == {i \in Slots(case) : t.ids[r][i] = v}
<1>1. ASSUME NEW v \in Keys(case), NEW t, IsTensor(t, case)
      PROVE  Cardinality(places(t, v)) = IF v \in Selected(t, case, r) THEN 1 ELSE 0
  <2>1. v \in Int /\ v >= 0
    BY DEF Keys
  <2>2. v \in Selected(t, case, r) <=> places(t, v) # {}
    BY <2>1 DEF Selected
  <2>3. \A i, j \in places(t, v) : i = j
    BY <1>1, <2>1 DEF IsTensor
  <2>4. CASE places(t, v) = {}
    BY <2>2, <2>4, FS_EmptySet
  <2>5. CASE places(t, v) # {}
    <3>1. PICK i : places(t, v) = {i}
      BY <2>3, <2>5
    <3> HIDE DEF places
    <3> QED BY <2>2, <3>1, FS_Singleton
  <2> QED BY <2>4, <2>5
<1>2. \A v \in Keys(case) : Cardinality(places(ans, v)) = Cardinality(places(ref, v))
  <2> HIDE DEF places
  <2> QED BY <1>1
<1> QED BY <1>2 DEF Differs

\* Completeness of the oracle: of cleaned scores it is built from any exact
\* reference, and it accepts any exact selection.
THEOREM OracleComplete ==
  ASSUME NEW case, IsCase(case), NEW scores \in [Rows(case) -> [Keys(case) -> Nat]],
         NegInf \in Nat, \A r \in Rows(case), j \in Keys(case) : NegInf <= scores[r][j],
         Clean(scores, case),
         NEW ref, IsIds(ref, case), IsTensor(ref, case), Exact(scores, ref, case), NEW way
  PROVE  /\ OracleBuilds(way, scores, ref, case)
         /\ \A ans : IsIds(ans, case) /\ IsTensor(ans, case) /\ Exact(scores, ans, case) =>
              Accepts(way, OracleOf(scores, case), ans, ref, case)
<1>1. ASSUME NEW r \in Rows(case), End(case, r) > case.K
      PROVE  CutsRow(scores[r], case, r)
  BY <1>1, CleanRowIsCut DEF Clean
<1>2. ASSUME NEW r \in Eligible(case)
      PROVE  /\ r \in Rows(case) /\ End(case, r) > case.K /\ scores[r] \in [Keys(case) -> Nat]
             /\ CutsRow(scores[r], case, r)
  BY <1>1, <1>2 DEF Eligible
<1>3. ASSUME NEW r \in Eligible(case) PROVE ReferenceRowOK(scores[r], ref, case, r)
  <2> DEFINE score == scores[r]
             cut == Cutoff(score, case)
             sel == Selected(ref, case, r)
  <2>1. /\ r \in Rows(case) /\ End(case, r) > case.K /\ score \in [Keys(case) -> Nat]
        /\ CutsRow(score, case, r) /\ ExactRow(score, case, r, sel)
    BY <1>2 DEF Exact
  <2> HIDE DEF score, sel
  <2>2. /\ \A j \in sel : score[j] >= cut
        /\ \A j \in Keys(case) : score[j] > cut => j \in sel
        /\ sel \subseteq Prefix(case, r)
    BY <2>1, ExactIsBetween
  <2>3. Prefix(case, r) \subseteq Keys(case)
    BY <2>1, CaseFacts
  <2>4. {j \in sel : score[j] > cut} = {j \in Keys(case) : score[j] > cut}
    BY <2>2, <2>3
  <2>5. cut # NegInf /\ Largest(score, case, case.K + 1) # NegInf
    BY <2>1 DEF CutsRow
  <2> QED BY <2>2, <2>4, <2>5 DEF ReferenceRowOK, score, sel
<1>4. ASSUME NEW r \in TiedRows(scores, case) PROVE TiedRowOK(scores[r], ref, case, r)
  <2> DEFINE score == scores[r]
             tie == Tie(score, case, r)
             sel == Selected(ref, case, r)
             greater == {j \in Keys(case) : score[j] > Cutoff(score, case)}
  <2>1. /\ r \in Rows(case) /\ End(case, r) > case.K /\ score \in [Keys(case) -> Nat]
        /\ CutsRow(score, case, r) /\ ExactRow(score, case, r, sel) /\ IsTied(score, case)
    BY <1>2 DEF Exact, TiedRows
  <2> HIDE DEF score, sel
  <2>2. Cardinality(sel) = case.K
    BY <2>1, ExactIsBetween
  <2>p. PartsOf(score, case, r, sel)
    BY <2>1, ExactParts
  <2>3. /\ sel \ tie.boundary = greater
        /\ Cardinality(greater) = case.K - tie.required
        /\ Cardinality(sel \cap tie.boundary) = tie.required
        /\ Cardinality(tie.boundary) > tie.required
    BY <2>1, <2>p DEF PartsOf
  <2> HIDE DEF tie, greater
  <2>4. Cardinality(sel \ tie.boundary) = case.K - tie.required
    BY <2>3
  <2> QED BY <2>2, <2>3, <2>4 DEF TiedRowOK, score, sel, tie
<1>5. OracleBuilds(way, scores, ref, case)
  BY <1>3, <1>4, ExactIsValid DEF OracleBuilds
<1>6. ASSUME NEW ans, IsIds(ans, case), IsTensor(ans, case), Exact(scores, ans, case)
      PROVE  Accepts(way, OracleOf(scores, case), ans, ref, case)
  <2>1. Valid(way, ans, case) /\ Valid(way, ref, case)
    BY <1>6, ExactIsValid
  <2>2. ASSUME NEW r \in Rows(case), Differs(way, ans, ref, case, r)
        PROVE  /\ r \in TiedRows(scores, case)
               /\ TiedRowAccepted(Tie(scores[r], case, r), Selected(ans, case, r), Selected(ref, case, r))
    <3> DEFINE score == scores[r]
               tie == Tie(score, case, r)
               B == Selected(ref, case, r)
               C == Selected(ans, case, r)
               greater == {j \in Keys(case) : score[j] > Cutoff(score, case)}
    <3>1. B # C
      BY <1>6, <2>2, SameIdsAreAlike
    <3>2. ExactRow(score, case, r, B) /\ ExactRow(score, case, r, C) /\ score \in [Keys(case) -> Nat]
      BY <1>6 DEF Exact
    <3> HIDE DEF score, B, C
    <3>3. End(case, r) > case.K
      <4> SUFFICES ASSUME ~(End(case, r) > case.K) PROVE FALSE
        OBVIOUS
      <4>1. /\ IsFiniteSet(Prefix(case, r)) /\ Cardinality(Prefix(case, r)) = End(case, r)
            /\ Width(case, r) = End(case, r)
        BY CaseFacts DEF Width, IsCase
      <4>2. B \in SUBSET Prefix(case, r) /\ Cardinality(B) = End(case, r)
            /\ C \in SUBSET Prefix(case, r) /\ Cardinality(C) = End(case, r)
        BY <3>2, <4>1 DEF ExactRow
      <4>3. B = Prefix(case, r) /\ C = Prefix(case, r)
        BY <4>1, <4>2, FS_Subset
      <4> QED BY <3>1, <4>3
    <3>4. r \in Eligible(case) /\ CutsRow(score, case, r)
      BY <1>1, <3>3 DEF Eligible, score
    <3>5. PartsOf(score, case, r, B) /\ PartsOf(score, case, r, C)
      BY <3>2, <3>3, <3>4, ExactParts
    <3>6. /\ greater \cap tie.boundary = {} /\ greater \subseteq B /\ B \subseteq greater \cup tie.boundary
          /\ greater \subseteq C /\ C \subseteq greater \cup tie.boundary
          /\ Cardinality(C \cap tie.boundary) = tie.required
          /\ ~IsTied(score, case) => B = greater \cup tie.boundary /\ C = greater \cup tie.boundary
      BY <3>5 DEF PartsOf
    <3> HIDE DEF greater, tie
    <3>7. IsTied(score, case)
      BY <3>1, <3>6
    <3>8. TiedRowAccepted(tie, C, B)
      BY <3>6 DEF TiedRowAccepted
    <3> QED BY <3>4, <3>7, <3>8 DEF TiedRows, score, tie, B, C
  <2>3. \A r \in TiedRows(scores, case) : OracleOf(scores, case)[r] = Tie(scores[r], case, r)
    BY DEF OracleOf
  <2>4. DOMAIN OracleOf(scores, case) = TiedRows(scores, case)
    BY DEF OracleOf
  <2> QED BY <2>1, <2>2, <2>3, <2>4 DEF Accepts
<1> QED BY <1>5, <1>6

\* The oracle is exact both ways in every state of a comparison.
THEOREM OracleIsExact == OracleSpec => []OracleExact
<1> DEFINE Told ==
      /\ verdict = "noOracle" => ~OracleBuilds(path, question.scores, base, question.case)
      /\ verdict = "rejected" => ~Accepts(path, oracle, cand, base, question.case)
<1>1. OracleInit => OracleInv /\ Told
  BY DEF OracleInit, OracleInv
<1>2. OracleInv /\ Told /\ [OracleNext]_oracleVars => (OracleInv /\ Told)'
  <2> SUFFICES ASSUME OracleInv, Told, [OracleNext]_oracleVars PROVE OracleInv' /\ Told'
    OBVIOUS
  <2>1. CASE BuildOracle
    BY <2>1 DEF BuildOracle, OracleInv
  <2>2. CASE Compare
    BY <2>2 DEF Compare, OracleInv
  <2>3. CASE UNCHANGED oracleVars
    BY <2>3 DEF oracleVars, OracleInv
  <2> QED BY <2>1, <2>2, <2>3 DEF OracleNext
<1>3. OracleInv /\ Told /\ AcceptedIsExact => OracleExact
  <2> SUFFICES ASSUME OracleInv, Told,
                      Clean(question.scores, question.case), IsTensor(base, question.case),
                      Exact(question.scores, base, question.case)
               PROVE  /\ verdict # "noOracle"
                      /\ verdict = "rejected" =>
                           ~(IsTensor(cand, question.case) /\ Exact(question.scores, cand, question.case))
    BY DEF OracleExact
  <2>1. /\ IsCase(question.case) /\ NegInf \in Nat
        /\ question.scores \in [Rows(question.case) -> [Keys(question.case) -> Nat]]
        /\ \A r \in Rows(question.case), j \in Keys(question.case) : NegInf <= question.scores[r][j]
        /\ IsIds(base, question.case) /\ IsIds(cand, question.case)
    BY QuestionsAreCases DEF OracleInv
  <2>2. /\ OracleBuilds(path, question.scores, base, question.case)
        /\ IsTensor(cand, question.case) /\ Exact(question.scores, cand, question.case) =>
             Accepts(path, OracleOf(question.scores, question.case), cand, base, question.case)
    BY <2>1, OracleComplete
  <2>3. verdict = "rejected" => oracle = OracleOf(question.scores, question.case)
    BY DEF OracleInv
  <2> QED BY <2>2, <2>3
<1> HIDE DEF Told
<1> QED BY <1>1, <1>2, <1>3, AcceptedAreExact, PTL DEF OracleSpec

---------------------------------------------------------------------------
(* RunFiles.  A sync makes every name durable that its directory has so far. *)

\* What both lists of files have in common: the last one syncs the directory of
\* the run, and every file one of its own directory that is not before it.
Saves(k, i) == plan[k].syncs /\ plan[k].dir = plan[i].dir
PlanOK ==
  /\ Len(plan) \in Nat /\ DOMAIN plan = 1..Len(plan)
  /\ Len(plan) > 0 /\ plan[Len(plan)].syncs /\ plan[Len(plan)].dir = "run"
  /\ \A i \in DOMAIN plan : plan[i].dir \in {"run", "cases"}
  /\ \A i \in DOMAIN plan : \E k \in i..Len(plan) : Saves(k, i)

NameOf(i) == Entry(plan[i].dir, plan[i].name)

\* While the call runs what was renamed is seen; what a sync that succeeded
\* found in its directory is on disk until a power loss ends the call.
FilesInv ==
  /\ PlanOK
  /\ next.file \in 1..(Len(plan) + 1) /\ next.to \in {"rename", "sync"}
  /\ disk \subseteq entries
  /\ outcome = "running" =>
       /\ \A i \in DOMAIN plan : i < next.file \/ (i = next.file /\ next.to = "sync") =>
            /\ NameOf(i) \in entries
            /\ plan[i].dir = "cases" => Subdirectory \in entries
       /\ ~skipped => \A k \in DOMAIN plan : k < next.file /\ plan[k].syncs =>
            \A i \in 1..k :
              /\ plan[k].dir = plan[i].dir => NameOf(i) \in disk
              /\ plan[k].dir = "run" /\ plan[i].dir = "cases" => Subdirectory \in disk
  /\ TableDurable

\* The two lists of files.
LEMMA PlansAreOK == FilesInit => PlanOK
<1> SUFFICES ASSUME FilesInit PROVE PlanOK
  OBVIOUS
<1>1. CASE plan = RunTables
  <2>1. /\ Len(plan) = 4
        /\ plan[1] = File("measurements.jsonl", "run", FALSE)
        /\ plan[2] = File("measurements.csv", "run", FALSE)
        /\ plan[3] = File("summary.json", "run", TRUE)
        /\ plan[4] = File("run.json", "run", TRUE)
        /\ DOMAIN plan = 1..4
    BY <1>1 DEF RunTables
  <2>2. \A i \in 1..4 : plan[i].dir = "run" /\ 4 \in i..4
    BY <2>1 DEF File
  <2>3. plan[4].syncs
    BY <2>1 DEF File
  <2>4. \A i \in 1..4 : \E k \in i..4 : Saves(k, i)
    <3> TAKE i \in 1..4
    <3> WITNESS 4 \in i..4
    <3> QED BY <2>2, <2>3 DEF Saves
  <2>5. Len(plan) = 4 /\ DOMAIN plan = 1..4 /\ 4 \in Nat /\ 4 > 0
    BY <2>1
  <2>6. 4 \in 1..4
    OBVIOUS
  <2> QED BY <2>2, <2>3, <2>4, <2>5, <2>6 DEF PlanOK
<1>2. CASE plan = BenchmarkFiles
  <2> DEFINE n == Len(CaseFiles)
  <2>1. n \in Nat /\ DOMAIN CaseFiles = 1..n
    BY CaseFilesAssumption
  <2>2. /\ Len(plan) = n + 2 /\ DOMAIN plan = 1..(n + 2)
        /\ \A i \in 1..n : plan[i] = File(CaseFiles[i], "cases", TRUE)
        /\ plan[n + 1] = File("measurements.csv", "run", FALSE)
        /\ plan[n + 2] = File("benchmark.json", "run", TRUE)
    <3> DEFINE A == [i \in 1..n |-> File(CaseFiles[i], "cases", TRUE)]
               b == File("measurements.csv", "run", FALSE)
               c == File("benchmark.json", "run", TRUE)
               B == <<b, c>>
               T == Range(A) \cup {b, c}
    <3>1. A \in Seq(T) /\ Len(A) = n
      <4>1. \A i \in 1..n : A[i] \in T
        BY DEF Range
      <4>2. A = [i \in 1..n |-> A[i]]
        OBVIOUS
      <4> HIDE DEF A, T
      <4>3. A \in [1..n -> T]
        BY <4>1, <4>2
      <4>4. A \in Seq(T)
        BY <2>1, <4>3, SeqDef
      <4> QED BY <2>1, <4>3, <4>4
    <3>2. B \in Seq(T) /\ Len(B) = 2 /\ B[1] = b /\ B[2] = c
      <4>1. b \in T /\ c \in T
        OBVIOUS
      <4> HIDE DEF T, b, c
      <4> QED BY <4>1
    <3>3. plan = A \o B
      BY <1>2, <2>1 DEF BenchmarkFiles
    <3>4. \A i \in 1..n : A[i] = File(CaseFiles[i], "cases", TRUE)
      OBVIOUS
    <3> HIDE DEF A, B, T, b, c, n
    <3>5. plan \in Seq(T) /\ Len(plan) = n + 2
            /\ \A i \in 1..(n + 2) : plan[i] = IF i <= n THEN A[i] ELSE B[i - n]
      <4>1. A \o B \in Seq(T) /\ Len(A \o B) = Len(A) + Len(B)
            /\ \A i \in 1..(Len(A) + Len(B)) :
                 (A \o B)[i] = IF i <= Len(A) THEN A[i] ELSE B[i - Len(A)]
        BY ONLY <3>1, <3>2, ConcatProperties
      <4>2. Len(A) = n /\ Len(B) = 2
        BY <3>1, <3>2
      <4>3. Len(plan) = n + 2 /\ plan \in Seq(T)
        BY <3>3, <4>1, <4>2
      <4>4. \A i \in 1..(n + 2) : plan[i] = IF i <= n THEN A[i] ELSE B[i - n]
        BY <3>3, <4>1, <4>2
      <4> QED BY <4>3, <4>4
    <3>6. n + 1 - n = 1 /\ n + 2 - n = 2 /\ n + 1 \in 1..(n + 2) /\ n + 2 \in 1..(n + 2)
            /\ ~(n + 1 <= n) /\ ~(n + 2 <= n) /\ \A i \in 1..n : i \in 1..(n + 2) /\ i <= n
      BY <2>1
    <3>7. plan[n + 1] = B[1] /\ plan[n + 2] = B[2]
      BY ONLY <2>1, <3>5, <3>6
    <3>8. \A i \in 1..n : plan[i] = A[i]
      BY <3>5, <3>6
    <3>9. DOMAIN plan = 1..(n + 2)
      BY <3>5, LenProperties
    <3> QED BY <3>2, <3>4, <3>5, <3>7, <3>8, <3>9 DEF b, c
  <2> HIDE DEF n
  <2>3. plan[n + 2].syncs /\ plan[n + 2].dir = "run" /\ plan[n + 1].dir = "run"
    BY <2>2 DEF File
  <2>4. \A i \in 1..n : plan[i].syncs /\ plan[i].dir = "cases"
    <3> TAKE i \in 1..n
    <3>1. plan[i] = File(CaseFiles[i], "cases", TRUE)
      BY <2>2
    <3> QED BY <3>1 DEF File
  <2>5. \A i \in 1..(n + 2) : i \in 1..n \/ i = n + 1 \/ i = n + 2
    BY <2>1
  <2>6. \A i \in 1..(n + 2) : plan[i].dir \in {"run", "cases"} /\ \E k \in i..(n + 2) : Saves(k, i)
    <3> TAKE i \in 1..(n + 2)
    <3>1. CASE i \in 1..n
      <4>1. i \in i..(n + 2) /\ Saves(i, i)
        BY <2>1, <2>4, <3>1 DEF Saves
      <4> QED BY <2>4, <3>1, <4>1
    <3>2. CASE i = n + 1 \/ i = n + 2
      <4>1. n + 2 \in i..(n + 2)
        BY <2>1, <3>2
      <4>2. Saves(n + 2, i)
        BY <2>3, <3>2 DEF Saves
      <4> QED BY <2>3, <3>2, <4>1, <4>2
    <3> QED BY <2>5, <3>1, <3>2
  <2>7. Len(plan) \in Nat /\ Len(plan) > 0
    BY <2>1, <2>2
  <2>8. Len(plan) = n + 2 /\ DOMAIN plan = 1..(n + 2)
    BY <2>2
  <2> QED BY <2>3, <2>6, <2>7, <2>8 DEF PlanOK
<1> QED BY <1>1, <1>2 DEF FilesInit

\* A call that has written and synced everything has everything on disk.
LEMMA AllIsSaved ==
  ASSUME FilesInv, outcome = "running", ~skipped, next.file = Len(plan) + 1, NEW i \in DOMAIN plan
  PROVE  /\ NameOf(i) \in disk
         /\ plan[i].dir = "cases" => Subdirectory \in disk
<1>1. Len(plan) \in Nat /\ DOMAIN plan = 1..Len(plan) /\ plan[Len(plan)].syncs /\ plan[Len(plan)].dir = "run"
  BY DEF FilesInv, PlanOK
<1>2. PICK k \in i..Len(plan) : Saves(k, i)
  BY DEF FilesInv, PlanOK
<1>3. k \in DOMAIN plan /\ k < next.file /\ i \in 1..k
  BY <1>1, <1>2
<1>4. Len(plan) \in DOMAIN plan /\ Len(plan) < next.file /\ i \in 1..Len(plan)
  BY <1>1
<1> QED BY <1>1, <1>2, <1>3, <1>4 DEF FilesInv, Saves

\* Every step keeps the invariant.
LEMMA FilesStep ==
  ASSUME FilesInv, [FilesNext]_filesVars
  PROVE  FilesInv'
<1> USE DEF FilesInv
<1>0. PlanOK' /\ plan' = plan /\ DOMAIN plan = 1..Len(plan) /\ Len(plan) \in Nat
  <2>1. plan' = plan
    BY DEF FilesNext, filesVars, Rename, SyncDirectory, Return, GiveUp, WriteBackEntry, LosePower
  <2>2. PlanOK' = PlanOK
    BY <2>1 DEF PlanOK, Saves
  <2>3. PlanOK /\ DOMAIN plan = 1..Len(plan) /\ Len(plan) \in Nat
    BY DEF PlanOK
  <2> QED BY <2>1, <2>2, <2>3
<1>1. CASE Rename
  <2>1. outcome = "running" /\ outcome' = "running" /\ disk' = disk /\ skipped' = skipped
        /\ next.file \in DOMAIN plan /\ next.to = "rename" /\ entries \subseteq entries'
    BY <1>1 DEF Rename, Writing
  <2>2. NameOf(next.file) \in entries' /\ (plan[next.file].dir = "cases" => Subdirectory \in entries')
    BY <1>1 DEF Rename, NameOf, Current
  <2>3. \/ next'.file = next.file /\ next'.to = "sync" /\ Current.syncs
        \/ next'.file = next.file + 1 /\ next'.to = "rename" /\ ~Current.syncs
    BY <1>1 DEF Rename, Done
  <2>4. next'.file \in 1..(Len(plan) + 1) /\ next'.to \in {"rename", "sync"}
    BY <1>0, <2>1, <2>3
  <2>5. \A i \in DOMAIN plan : i < next'.file \/ (i = next'.file /\ next'.to = "sync") =>
          /\ NameOf(i) \in entries'
          /\ plan[i].dir = "cases" => Subdirectory \in entries'
    <3> SUFFICES ASSUME NEW i \in DOMAIN plan, i < next'.file \/ (i = next'.file /\ next'.to = "sync")
                 PROVE  NameOf(i) \in entries' /\ (plan[i].dir = "cases" => Subdirectory \in entries')
      OBVIOUS
    <3>1. i < next.file \/ i = next.file
      BY <1>0, <2>1, <2>3
    <3> QED BY <2>1, <2>2, <3>1
  <2>6. \A k \in DOMAIN plan : k < next'.file /\ plan[k].syncs => k < next.file
    BY <1>0, <2>1, <2>3 DEF Current
  <2>7. \A i : NameOf(i)' = NameOf(i)
    BY <1>0 DEF NameOf
  <2> QED BY <1>0, <2>1, <2>4, <2>5, <2>6, <2>7 DEF TableDurable, Subdirectory, Entry
<1>2. CASE SyncDirectory
  <2>1. outcome = "running" /\ outcome' = "running" /\ entries' = entries
        /\ next.file \in DOMAIN plan /\ next.to = "sync"
        /\ next'.file = next.file + 1 /\ next'.to = "rename"
    BY <1>2 DEF SyncDirectory, Writing, Done
  <2>2. \/ disk' = disk \cup In(Current.dir) /\ skipped' = skipped
        \/ disk' = disk /\ skipped' = TRUE
    BY <1>2 DEF SyncDirectory
  <2>3. disk \subseteq disk' /\ disk' \subseteq entries'
    BY <2>1, <2>2 DEF In
  <2>4. \A i \in DOMAIN plan : i < next'.file => i < next.file \/ i = next.file
    BY <1>0, <2>1
  <2>5. ~skipped' => \A k \in DOMAIN plan : k < next'.file /\ plan[k].syncs =>
          \A i \in 1..k :
            /\ plan[k].dir = plan[i].dir => NameOf(i) \in disk'
            /\ plan[k].dir = "run" /\ plan[i].dir = "cases" => Subdirectory \in disk'
    <3> SUFFICES ASSUME ~skipped', NEW k \in DOMAIN plan, k < next'.file, plan[k].syncs, NEW i \in 1..k
                 PROVE  /\ plan[k].dir = plan[i].dir => NameOf(i) \in disk'
                        /\ plan[k].dir = "run" /\ plan[i].dir = "cases" => Subdirectory \in disk'
      OBVIOUS
    <3>1. ~skipped /\ disk' = disk \cup In(Current.dir)
      BY <2>2
    <3>2. CASE k < next.file
      BY <2>1, <2>3, <3>1, <3>2
    <3>3. CASE k = next.file
      <4>1. i \in DOMAIN plan /\ (i < next.file \/ i = next.file)
        BY <1>0, <2>1, <3>3
      <4>2. NameOf(i) \in entries /\ (plan[i].dir = "cases" => Subdirectory \in entries)
        BY <2>1, <4>1
      <4> QED BY <3>1, <3>3, <4>2 DEF In, Current, NameOf, Entry, Subdirectory
    <3> QED BY <2>4, <3>2, <3>3
  <2>6. \A i : NameOf(i)' = NameOf(i)
    BY <1>0 DEF NameOf
  <2>7. next'.file \in 1..(Len(plan) + 1)
    BY <1>0, <2>1
  <2> QED BY <1>0, <2>1, <2>3, <2>4, <2>5, <2>6, <2>7 DEF TableDurable, Subdirectory, Entry
<1>3. CASE Return
  <2>1. outcome = "running" /\ outcome' = "returned" /\ next.file = Len(plan) + 1
        /\ entries' = entries /\ disk' = disk /\ skipped' = skipped /\ next' = next
    BY <1>3 DEF Return
  <2>2. TableDurable'
    BY <1>0, <2>1, AllIsSaved DEF TableDurable, NameOf, Entry, Subdirectory
  <2> QED BY <1>0, <2>1, <2>2
<1>4. CASE GiveUp
  BY <1>0, <1>4 DEF GiveUp, TableDurable
<1>5. CASE WriteBackEntry
  <2>1. outcome' = outcome /\ entries' = entries /\ disk \subseteq disk' /\ disk' \subseteq entries'
        /\ skipped' = skipped /\ next' = next
    BY <1>5 DEF WriteBackEntry
  <2> QED BY <1>0, <2>1 DEF TableDurable, NameOf, Entry, Subdirectory
<1>6. CASE LosePower
  <2>1. /\ entries' = {e \in disk : e.dir = "cases" => Subdirectory \in disk} /\ disk' = entries'
        /\ skipped' = skipped /\ next' = next /\ outcome' # "running"
        /\ outcome' = "returned" => outcome = "returned"
    BY <1>6 DEF LosePower
  <2>2. TableDurable'
    <3> SUFFICES ASSUME outcome = "returned", ~skipped, NEW i \in DOMAIN plan
                 PROVE  /\ Entry(plan[i].dir, plan[i].name) \in entries'
                        /\ plan[i].dir = "cases" => Subdirectory \in entries'
      BY <1>0, <2>1 DEF TableDurable, Subdirectory, Entry
    <3>1. Entry(plan[i].dir, plan[i].name) \in disk /\ (plan[i].dir = "cases" => Subdirectory \in disk)
      BY DEF TableDurable
    <3>2. Subdirectory.dir = "run" /\ Entry(plan[i].dir, plan[i].name).dir = plan[i].dir
      BY DEF Subdirectory, Entry
    <3> QED BY <2>1, <3>1, <3>2
  <2> QED BY <1>0, <2>1, <2>2
<1>7. CASE UNCHANGED filesVars
  BY <1>7 DEF filesVars, TableDurable, PlanOK, Saves, NameOf, Entry, Subdirectory
<1> QED BY <1>1, <1>2, <1>3, <1>4, <1>5, <1>6, <1>7 DEF FilesNext

\* What a run that has returned wrote survives a power loss, for any cases: a
\* name that was not synced for its own sake is made durable by the manifest.
THEOREM FilesSurvive == FilesSpec => []TableDurable
<1>1. FilesInit => FilesInv
  <2> SUFFICES ASSUME FilesInit PROVE FilesInv
    OBVIOUS
  <2>1. next.file = 1 /\ next.to = "rename" /\ entries = {} /\ disk = {} /\ outcome = "running"
    BY DEF FilesInit
  <2>2. \A i \in DOMAIN plan : ~(i < next.file) /\ next.to # "sync"
    BY <2>1, PlansAreOK DEF PlanOK
  <2>3. next.file \in 1..(Len(plan) + 1)
    BY <2>1, PlansAreOK DEF PlanOK
  <2> QED BY <2>1, <2>2, <2>3, PlansAreOK DEF FilesInv, TableDurable
<1>2. FilesInv /\ [FilesNext]_filesVars => FilesInv'
  BY FilesStep
<1>3. FilesInv => TableDurable
  BY DEF FilesInv
<1> QED BY <1>1, <1>2, <1>3, PTL DEF FilesSpec

---------------------------------------------------------------------------
(* Evidence.  What a correctness case is bound to names the run that made    *)
(* it; a gate finds a case, and so the run.                                  *)

\* A record with at least these fields, and a record that carries its own hash.
IsRecord(x, fields) == x = [f \in DOMAIN x |-> x[f]] /\ fields \subseteq DOMAIN x
Sealed(x) == x = Seal(x.payload)

ProcessFields == {"do", "at", "settings", "machine", "artifact"}
GatedFields == {"status", "identity", "gate", "protocol", "plan", "runtime", "signature"}
CheckFields == {"status", "identity", "protocol", "plan", "runtime", "cases"}

\* The experiment of this case is that of the run r, whatever its inputs.
BoundTo(record, r) ==
  \E inputs : record.experiment =
    Seal(<<ProtocolOf(r.settings).sha256, PlanOf(r.settings).sha256, Operator(r.identity),
           RuntimeOf(r.machine).sha256, inputs>>)

\* Code and settings that are, as far as an experiment tells, those of the run r.
Fits(identity, settings, r) ==
  /\ Operator(identity) = Operator(r.identity)
  /\ ProtocolOf(settings) = ProtocolOf(r.settings) /\ PlanOf(settings) = PlanOf(r.settings)
  /\ world.edits = 0 => identity = r.identity

\* A correctness artifact with all its cases, whatever sections of it were
\* replaced, has them from a run that passed.
CheckBacked(a) == a # NoFile =>
  /\ IsRecord(a, CheckFields)
  /\ world.edits = 0 => Sealed(a.identity)
  /\ DOMAIN a.cases = CheckCases => \E r \in passed :
       /\ \A c \in CheckCases : BoundTo(a.cases[c], r)
       /\ world.edits = 0 => a.identity = r.identity

\* The run that a correctness command is making.
ThisRun == [identity |-> process.artifact.identity, settings |-> process.settings, machine |-> process.machine]

Checking == process # Idle /\ process.do = "check" =>
  LET a == process.artifact IN
    /\ IsRecord(process, ProcessFields) /\ IsRecord(a, CheckFields) /\ Sealed(a.identity)
    /\ process.at = "runtime" => DOMAIN a.cases = {}
    /\ process.at = "cases" =>
         /\ a.protocol = ProtocolOf(process.settings) /\ a.plan = PlanOf(process.settings)
         /\ a.runtime = RuntimeOf(process.machine)
    /\ process.at \in {"runtime", "cases"}
    /\ \A c \in DOMAIN a.cases : BoundTo(a.cases[c], ThisRun)
    /\ DOMAIN a.cases = CheckCases => ThisRun \in passed

\* A command that came through its gate has the run it rests on.
Gated == process # Idle /\ process.do \in {"benchmark", "profile"} =>
  LET a == process.artifact IN
    /\ IsRecord(process, ProcessFields) /\ IsRecord(a, GatedFields)
    /\ \E r \in passed : Fits(a.identity, process.settings, r) /\ a.gate.runtime = RuntimeOf(r.machine).sha256
    /\ process.at = "cases" =>
         /\ a.protocol = ProtocolOf(process.settings) /\ a.plan = PlanOf(process.settings)
         /\ \E m : a.runtime = RuntimeOf(m) /\ a.gate.runtime = RuntimeOf(m).sha256

\* What GateFresh asks of one artifact.
RestsOnRun(a) == \E r \in passed :
  /\ Operator(a.identity) = Operator(r.identity)
  /\ a.protocol = ProtocolOf(r.settings) /\ a.plan = PlanOf(r.settings)
  /\ a.runtime = RuntimeOf(r.machine)
  /\ world.edits = 0 => a.identity = r.identity

EvidenceInv ==
  /\ IsRecord(world, {"sources", "settings", "machine", "changes", "edits", "failures"})
  /\ world.edits \in Nat
  /\ DOMAIN checks = Checks /\ checks = [p \in Checks |-> checks[p]]
  /\ \A p \in Checks : CheckBacked(checks[p])
  /\ Checking /\ Gated
  /\ \A a \in Completed : RestsOnRun(a)

\* A hash tells what was hashed.
LEMMA SealTells ==
  ASSUME NEW x, NEW y
  PROVE  /\ Seal(x).sha256 = Seal(y).sha256 => x = y
         /\ Seal(x).payload = x /\ Sealed(Seal(x))
         /\ Sealed(x) => Intact(x)
BY DEF Seal, Sealed, Hash, Intact

\* A gate that passes has found the run whose artifact it looks at.
LEMMA GateFinds ==
  ASSUME EvidenceInv, NEW p \in Checks, NEW v, NEW s,
         Gate(p, IdentityOf(v, world.sources)) # NoFile, s = world.settings
  PROVE  \E r \in passed :
           /\ Fits(IdentityOf(v, world.sources), s, r)
           /\ Gate(p, IdentityOf(v, world.sources)).runtime = RuntimeOf(r.machine).sha256
<1> DEFINE a == checks[p]
           identity == IdentityOf(v, world.sources)
<1>1. VerifyCorrectness(a, identity, s) /\ Gate(p, identity).runtime = a.runtime.sha256
  BY DEF Gate
<1>2. a # NoFile /\ DOMAIN a.cases = CheckCases /\ CheckBacked(a)
  BY <1>1 DEF VerifyCorrectness, EvidenceInv
<1>3. PICK r \in passed : /\ \A c \in CheckCases : BoundTo(a.cases[c], r)
                          /\ world.edits = 0 => a.identity = r.identity
  BY <1>2 DEF CheckBacked
<1>4. PICK c \in CheckCases : TRUE
  BY CasesAreConfigured
<1>5. a.cases[c].experiment = Experiment(a, a.cases[c].contentHash)
  BY <1>1 DEF VerifyCorrectness, CheckedCaseHolds, CaseBinds
<1>6. /\ a.protocol.sha256 = ProtocolOf(r.settings).sha256
      /\ a.plan.sha256 = PlanOf(r.settings).sha256
      /\ Operator(a.identity) = Operator(r.identity)
      /\ a.runtime.sha256 = RuntimeOf(r.machine).sha256
  <2>1. PICK inputs : a.cases[c].experiment =
          Seal(<<ProtocolOf(r.settings).sha256, PlanOf(r.settings).sha256, Operator(r.identity),
                 RuntimeOf(r.machine).sha256, inputs>>)
    BY <1>3 DEF BoundTo
  <2> DEFINE h == a.cases[c].contentHash
  <2>2. Seal(<<a.protocol.sha256, a.plan.sha256, Operator(a.identity), a.runtime.sha256, h>>)
          = Seal(<<ProtocolOf(r.settings).sha256, PlanOf(r.settings).sha256, Operator(r.identity),
                   RuntimeOf(r.machine).sha256, inputs>>)
    BY <1>5, <2>1 DEF Experiment
  <2>3. <<a.protocol.sha256, a.plan.sha256, Operator(a.identity), a.runtime.sha256, h>>
          = <<ProtocolOf(r.settings).sha256, PlanOf(r.settings).sha256, Operator(r.identity),
              RuntimeOf(r.machine).sha256, inputs>>
    BY ONLY <2>2, SealTells
  <2> QED BY ONLY <2>3
<1>7. ProtocolOf(s) = ProtocolOf(r.settings) /\ PlanOf(s) = PlanOf(r.settings)
  <2>1. a.protocol.sha256 = ProtocolOf(s).sha256 /\ a.plan.sha256 = PlanOf(s).sha256
    BY <1>1 DEF VerifyCorrectness
  <2> QED BY <1>6, <2>1, SealTells DEF ProtocolOf, PlanOf
<1>8. a.identity.payload = identity.payload
  <2>1. a.identity.sha256 = identity.sha256 /\ a.identity.sha256 = Hash(a.identity.payload)
    BY <1>1 DEF VerifyCorrectness, Intact
  <2> QED BY <2>1 DEF IdentityOf, Seal, Hash
<1>9. world.edits = 0 => identity = r.identity
  <2>1. world.edits = 0 => Sealed(a.identity)
    BY <1>2 DEF CheckBacked
  <2>2. Sealed(identity)
    BY SealTells DEF IdentityOf
  <2> QED BY <1>3, <1>8, <2>1, <2>2 DEF Sealed
<1> QED BY <1>1, <1>6, <1>7, <1>8, <1>9 DEF Fits, Operator

\* What was found out stays true while runs pass and edits do not go away.
LEMMA StillTrue ==
  ASSUME passed \subseteq passed', world'.edits = 0 => world.edits = 0
  PROVE  /\ \A a : CheckBacked(a) => CheckBacked(a)'
         /\ \A a : RestsOnRun(a) => RestsOnRun(a)'
         /\ \A identity, settings, r : Fits(identity, settings, r) => Fits(identity, settings, r)'
<1>1. ASSUME NEW a, CheckBacked(a) PROVE CheckBacked(a)'
  <2> SUFFICES ASSUME a # NoFile
               PROVE  /\ IsRecord(a, CheckFields)
                      /\ world'.edits = 0 => Sealed(a.identity)
                      /\ DOMAIN a.cases = CheckCases => \E r \in passed' :
                           /\ \A c \in CheckCases : BoundTo(a.cases[c], r)
                           /\ world'.edits = 0 => a.identity = r.identity
    BY DEF CheckBacked
  <2> QED BY <1>1 DEF CheckBacked
<1>2. ASSUME NEW a, RestsOnRun(a) PROVE RestsOnRun(a)'
  BY <1>2 DEF RestsOnRun
<1>3. ASSUME NEW identity, NEW settings, NEW r, Fits(identity, settings, r)
      PROVE  Fits(identity, settings, r)'
  BY <1>3 DEF Fits
<1> QED BY <1>1, <1>2, <1>3

\* A step that leaves the files alone and what was passed and written.
LEMMA FilesKept ==
  ASSUME EvidenceInv, world' = world, passed' = passed,
         UNCHANGED <<checks, sidecar, written>>, Checking', Gated'
  PROVE  EvidenceInv'
<1>1. Completed' = Completed
  BY DEF Completed
<1>2. (\A p \in Checks : CheckBacked(checks[p])') /\ \A a \in Completed : RestsOnRun(a)'
  BY StillTrue DEF EvidenceInv
<1> QED BY <1>1, <1>2 DEF EvidenceInv

\* The steps of a correctness command.
LEMMA CheckStep ==
  ASSUME EvidenceInv,
         (\E p \in Checks, v \in {variantOf[s] : s \in Paths} : StartCheck(p, v))
           \/ CheckRuntime \/ CheckCase \/ WriteCheck
  PROVE  EvidenceInv'
<1>1. ASSUME NEW p \in Checks, NEW v, StartCheck(p, v) PROVE EvidenceInv'
  <2>1. /\ process' = [do |-> "check", at |-> "runtime", path |-> p, settings |-> world.settings,
                       machine |-> world.machine, artifact |-> process'.artifact]
        /\ process'.artifact =
             [status |-> "running", variant |-> v, identity |-> IdentityOf(v, world.sources),
              protocol |-> NotYet, plan |-> NotYet, runtime |-> NotYet, cases |-> <<>>]
    BY <1>1 DEF StartCheck
  <2>2. DOMAIN process'.artifact.cases = {} /\ process'.do = "check" /\ process'.at = "runtime"
    BY <2>1
  <2>3. Sealed(process'.artifact.identity)
    BY <2>1, SealTells DEF IdentityOf
  <2>4. IsRecord(process', ProcessFields) /\ IsRecord(process'.artifact, CheckFields)
    BY <2>1 DEF IsRecord, ProcessFields, CheckFields
  <2>5. Checking' /\ Gated'
    BY <2>2, <2>3, <2>4, CasesAreConfigured DEF Checking, Gated
  <2> QED BY <1>1, <2>5, FilesKept DEF StartCheck
<1>2. CASE CheckRuntime
  <2>1. process # Idle /\ process.do = "check" /\ process.at = "runtime"
    BY <1>2 DEF CheckRuntime, Runs
  <2>2. /\ IsRecord(process, ProcessFields) /\ IsRecord(process.artifact, CheckFields)
        /\ Sealed(process.artifact.identity) /\ DOMAIN process.artifact.cases = {}
    BY <2>1 DEF EvidenceInv, Checking
  <2>3. process' = [process EXCEPT !.at = "cases", !.machine = world.machine,
                      !.artifact.protocol = ProtocolOf(process.settings),
                      !.artifact.plan = PlanOf(process.settings),
                      !.artifact.runtime = RuntimeOf(world.machine)]
    BY <1>2 DEF CheckRuntime
  <2>4. /\ process'.do = "check" /\ process'.at = "cases" /\ process'.settings = process.settings
        /\ process'.machine = world.machine /\ IsRecord(process', ProcessFields)
        /\ process'.artifact = [process.artifact EXCEPT !.protocol = ProtocolOf(process.settings),
                                  !.plan = PlanOf(process.settings), !.runtime = RuntimeOf(world.machine)]
    BY <2>1, <2>2, <2>3 DEF IsRecord, ProcessFields
  <2>5. /\ IsRecord(process'.artifact, CheckFields)
        /\ process'.artifact.cases = process.artifact.cases
        /\ process'.artifact.identity = process.artifact.identity
        /\ process'.artifact.protocol = ProtocolOf(process.settings)
        /\ process'.artifact.plan = PlanOf(process.settings)
        /\ process'.artifact.runtime = RuntimeOf(world.machine)
    BY <2>2, <2>4, ZenonT(30) DEF IsRecord, CheckFields
  <2>6. Checking' /\ Gated'
    BY <2>2, <2>4, <2>5, CasesAreConfigured DEF Checking, Gated
  <2> QED BY <1>2, <2>6, FilesKept DEF CheckRuntime
<1>3. CASE CheckCase
  <2> DEFINE a == process.artifact
  <2>1. process # Idle /\ process.do = "check" /\ process.at = "cases"
    BY <1>3 DEF CheckCase, Runs
  <2>2. /\ IsRecord(process, ProcessFields) /\ IsRecord(a, CheckFields) /\ Sealed(a.identity)
        /\ a.protocol = ProtocolOf(process.settings) /\ a.plan = PlanOf(process.settings)
        /\ a.runtime = RuntimeOf(process.machine)
        /\ \A c \in DOMAIN a.cases : BoundTo(a.cases[c], ThisRun)
    BY <2>1 DEF EvidenceInv, Checking
  <2>3. PICK c \in CheckCases \ DOMAIN a.cases :
          LET done == DOMAIN a.cases \cup {c}
          IN /\ Goto("cases", [a EXCEPT !.cases = [x \in done |->
                  IF x = c THEN CheckedCase(a, process.machine, process.settings, c) ELSE @[x]]])
             /\ passed' = IF done = CheckCases
                          THEN passed \cup {[identity |-> a.identity, settings |-> process.settings,
                                             machine |-> process.machine]}
                          ELSE passed
    BY <1>3 DEF CheckCase
  <2> DEFINE done == DOMAIN a.cases \cup {c}
             cases == [x \in done |->
                         IF x = c THEN CheckedCase(a, process.machine, process.settings, c) ELSE a.cases[x]]
  <2>4. process' = [process EXCEPT !.at = "cases", !.artifact = [a EXCEPT !.cases = cases]]
    BY <2>2, <2>3 DEF Goto, IsRecord, CheckFields
  <2>5. DOMAIN cases = done /\ \A x \in done : cases[x] =
          IF x = c THEN CheckedCase(a, process.machine, process.settings, c) ELSE a.cases[x]
    OBVIOUS
  <2> HIDE DEF cases
  <2>6. /\ process'.do = "check" /\ process'.at = "cases" /\ process'.settings = process.settings
        /\ process'.machine = process.machine /\ IsRecord(process', ProcessFields)
        /\ process'.artifact = [a EXCEPT !.cases = cases]
    BY <2>1, <2>2, <2>4 DEF IsRecord, ProcessFields
  <2>7. /\ IsRecord(process'.artifact, CheckFields) /\ process'.artifact.cases = cases
        /\ process'.artifact.identity = a.identity /\ process'.artifact.protocol = a.protocol
        /\ process'.artifact.plan = a.plan /\ process'.artifact.runtime = a.runtime
    BY <2>2, <2>6 DEF IsRecord, CheckFields
  <2>8. ThisRun' = ThisRun
    BY <2>6, <2>7 DEF ThisRun
  <2>9. BoundTo(CheckedCase(a, process.machine, process.settings, c), ThisRun)
    <3> DEFINE inputs == InputHash(Inputs(process.machine, process.settings, c))
    <3>1. CheckedCase(a, process.machine, process.settings, c).experiment = Experiment(a, inputs)
      BY DEF CheckedCase, CaseRecord
    <3>2. /\ ThisRun.settings = process.settings /\ ThisRun.identity = a.identity
          /\ ThisRun.machine = process.machine
      BY DEF ThisRun
    <3> HIDE DEF inputs
    <3> QED BY <2>2, <3>1, <3>2 DEF BoundTo, Experiment
  <2>10. \A x \in done : BoundTo(cases[x], ThisRun)
    BY <2>2, <2>5, <2>9
  <2>11. done = CheckCases => ThisRun \in passed'
    BY <2>3 DEF ThisRun
  <2>12. passed \subseteq passed' /\ world' = world /\ UNCHANGED <<checks, sidecar, written>>
    BY <1>3, <2>3 DEF CheckCase
  <2> HIDE DEF done, a
  <2>13. Checking'
    <3>1. \A x : BoundTo(x, ThisRun)' <=> BoundTo(x, ThisRun)
      BY <2>8 DEF BoundTo
    <3> QED BY <2>2, <2>5, <2>6, <2>7, <2>8, <2>10, <2>11 DEF Checking, a
  <2>14. Gated'
    BY <2>6 DEF Gated
  <2>15. Completed' = Completed
    BY <2>12 DEF Completed
  <2>16. (\A p \in Checks : CheckBacked(checks[p])') /\ \A w \in Completed : RestsOnRun(w)'
    BY <2>12, StillTrue DEF EvidenceInv
  <2> QED BY <2>12, <2>13, <2>14, <2>15, <2>16 DEF EvidenceInv
<1>4. CASE WriteCheck
  <2> DEFINE a == [process.artifact EXCEPT !.status = "passed"]
  <2>1. process # Idle /\ process.do = "check" /\ DOMAIN process.artifact.cases = CheckCases
    BY <1>4 DEF WriteCheck, Runs
  <2>2. /\ IsRecord(process.artifact, CheckFields) /\ Sealed(process.artifact.identity)
        /\ \A c \in CheckCases : BoundTo(process.artifact.cases[c], ThisRun)
        /\ ThisRun \in passed
    BY <2>1 DEF EvidenceInv, Checking
  <2>3. /\ IsRecord(a, CheckFields) /\ a.cases = process.artifact.cases
        /\ a.identity = process.artifact.identity
    BY <2>2 DEF IsRecord, CheckFields
  <2>4. ThisRun.identity = process.artifact.identity
    BY DEF ThisRun
  <2>5. CheckBacked(a)
    BY <2>2, <2>3, <2>4 DEF CheckBacked
  <2>6. checks' = [checks EXCEPT ![process.path] = a] /\ process' = Idle
        /\ UNCHANGED <<world, passed, sidecar, written>>
    BY <1>4 DEF WriteCheck
  <2> HIDE DEF a
  <2>7. \A p \in Checks : CheckBacked(checks'[p])
    BY <2>5, <2>6 DEF EvidenceInv
  <2>8. (\A p \in Checks : CheckBacked(checks[p])') /\ \A w \in Completed : RestsOnRun(w)'
    BY <2>6, <2>7, StillTrue DEF EvidenceInv
  <2>9. Completed' = Completed /\ Checking' /\ Gated'
    BY <2>6 DEF Completed, Checking, Gated
  <2> QED BY <2>6, <2>8, <2>9 DEF EvidenceInv
<1> QED BY <1>1, <1>2, <1>3, <1>4

\* The steps of a command that has a gate, up to where it writes.
LEMMA GatedStep ==
  ASSUME EvidenceInv,
         (\E s \in Paths, p \in Checks : StartBench(s, p) \/ StartCapture(s, p))
           \/ ReadContract \/ BenchRuntime \/ BenchCase
  PROVE  EvidenceInv'
<1>1. ASSUME NEW s \in Paths, NEW p \in Checks, StartBench(s, p) \/ StartCapture(s, p) PROVE EvidenceInv'
  <2> DEFINE identity == IdentityOf(variantOf[s], world.sources)
             gate == Gate(p, identity)
  <2>1. /\ gate # NoFile
        /\ process'.do \in {"benchmark", "profile"} /\ process'.at \in {"contract", "runtime"}
        /\ process'.settings = world.settings /\ IsRecord(process', ProcessFields)
        /\ IsRecord(process'.artifact, GatedFields)
        /\ process'.artifact.identity = identity /\ process'.artifact.gate = gate
    <3>1. CASE StartBench(s, p)
      <4>1. process' = [do |-> "benchmark", at |-> "contract", path |-> s, settings |-> world.settings,
                        machine |-> world.machine, artifact |-> process'.artifact]
        BY <3>1 DEF StartBench
      <4>2. process'.artifact =
                [schema |-> 3, status |-> "running", run |-> Cardinality(written), variant |-> variantOf[s],
                 identity |-> identity, gate |-> gate,
                 contract |-> <<>>, contractHash |-> <<>>, protocol |-> NotYet, plan |-> NotYet,
                 runtime |-> NotYet, signature |-> <<>>, caseFiles |-> {}, cases |-> <<>>,
                 rows |-> [of |-> <<>>]]
        BY <3>1 DEF StartBench
      <4>3. gate # NoFile
        BY <3>1 DEF StartBench
      <4> HIDE DEF gate, identity
      <4>4. IsRecord(process'.artifact, GatedFields)
        BY ONLY <4>2 DEF IsRecord, GatedFields
      <4>5. process'.artifact.identity = identity /\ process'.artifact.gate = gate
        BY ONLY <4>2
      <4>6. IsRecord(process', ProcessFields)
        BY ONLY <4>1 DEF IsRecord, ProcessFields
      <4> QED BY <4>1, <4>3, <4>4, <4>5, <4>6
    <3>2. CASE StartCapture(s, p)
      <4>1. process' = [do |-> "profile", at |-> "runtime", settings |-> world.settings,
                        machine |-> world.machine, artifact |-> process'.artifact]
        BY <3>2 DEF StartCapture
      <4>2. process'.artifact =
                [status |-> "running", identity |-> identity, gate |-> gate,
                 runtime |-> NotYet, protocol |-> NotYet, plan |-> NotYet, signature |-> <<>>]
        BY <3>2 DEF StartCapture
      <4>3. gate # NoFile
        BY <3>2 DEF StartCapture
      <4> HIDE DEF gate, identity
      <4> QED BY <4>1, <4>2, <4>3 DEF IsRecord, ProcessFields, GatedFields
    <3> QED BY <1>1, <3>1, <3>2
  <2>2. world' = world /\ passed' = passed /\ UNCHANGED <<checks, sidecar, written>>
    BY <1>1 DEF StartBench, StartCapture
  <2>3. \E r \in passed : Fits(identity, world.settings, r) /\ gate.runtime = RuntimeOf(r.machine).sha256
    BY <2>1, GateFinds
  <2> HIDE DEF gate, identity
  <2>5. Gated' /\ Checking'
    BY <2>1, <2>2, <2>3 DEF Gated, Checking, Fits
  <2> QED BY <2>2, <2>5, FilesKept
<1>2. CASE ReadContract
  <2>1. process # Idle /\ process.do = "benchmark"
    BY <1>2 DEF ReadContract, Runs
  <2>2. /\ IsRecord(process, ProcessFields) /\ IsRecord(process.artifact, GatedFields)
        /\ \E r \in passed : /\ Fits(process.artifact.identity, process.settings, r)
                             /\ process.artifact.gate.runtime = RuntimeOf(r.machine).sha256
    BY <2>1 DEF EvidenceInv, Gated
  <2>3. PICK contract : process' = [process EXCEPT !.at = "runtime",
          !.artifact = [process.artifact EXCEPT !.contract = contract, !.contractHash = Hash(contract)]]
    BY <1>2 DEF ReadContract, Goto
  <2>4. /\ process'.do = "benchmark" /\ process'.at = "runtime" /\ process'.settings = process.settings
        /\ IsRecord(process', ProcessFields)
        /\ process'.artifact = [process.artifact EXCEPT !.contract = contract, !.contractHash = Hash(contract)]
    BY <2>1, <2>2, <2>3 DEF IsRecord, ProcessFields
  <2>5. /\ IsRecord(process'.artifact, GatedFields) /\ process'.artifact.gate = process.artifact.gate
        /\ process'.artifact.identity = process.artifact.identity
    BY <2>2, <2>4, ZenonT(30) DEF IsRecord, GatedFields
  <2>6. world' = world /\ passed' = passed /\ UNCHANGED <<checks, sidecar, written>>
    BY <1>2 DEF ReadContract
  <2>7. Gated' /\ Checking'
    BY <2>2, <2>4, <2>5, <2>6 DEF Gated, Checking, Fits
  <2> QED BY <2>6, <2>7, FilesKept
<1>3. CASE BenchRuntime
  <2>1. /\ process # Idle /\ process.do = "benchmark"
        /\ process.artifact.gate.runtime = RuntimeOf(world.machine).sha256
    BY <1>3 DEF BenchRuntime, Runs
  <2>2. /\ IsRecord(process, ProcessFields) /\ IsRecord(process.artifact, GatedFields)
        /\ \E r \in passed : /\ Fits(process.artifact.identity, process.settings, r)
                             /\ process.artifact.gate.runtime = RuntimeOf(r.machine).sha256
    BY <2>1 DEF EvidenceInv, Gated
  <2>3. process' = [process EXCEPT !.at = "cases", !.machine = world.machine,
                      !.artifact = WithRuntime(process.artifact)]
    BY <1>3, <2>2 DEF BenchRuntime, IsRecord, ProcessFields
  <2>4. /\ process'.do = "benchmark" /\ process'.at = "cases" /\ process'.settings = process.settings
        /\ IsRecord(process', ProcessFields) /\ process'.artifact = WithRuntime(process.artifact)
    BY <2>1, <2>2, <2>3 DEF IsRecord, ProcessFields
  <2>5. /\ IsRecord(process'.artifact, GatedFields) /\ process'.artifact.gate = process.artifact.gate
        /\ process'.artifact.identity = process.artifact.identity
        /\ process'.artifact.protocol = ProtocolOf(process.settings)
        /\ process'.artifact.plan = PlanOf(process.settings)
        /\ process'.artifact.runtime = RuntimeOf(world.machine)
    BY <2>2, <2>4, ZenonT(30) DEF IsRecord, GatedFields, WithRuntime
  <2>6. world' = world /\ passed' = passed /\ UNCHANGED <<checks, sidecar, written>>
    BY <1>3 DEF BenchRuntime
  <2>7. Gated' /\ Checking'
    BY <2>1, <2>2, <2>4, <2>5, <2>6 DEF Gated, Checking, Fits
  <2> QED BY <2>6, <2>7, FilesKept
<1>4. CASE BenchCase
  <2> DEFINE a == process.artifact
  <2>1. process # Idle /\ process.do = "benchmark" /\ process.at = "cases"
    BY <1>4 DEF BenchCase, Runs
  <2>2. /\ IsRecord(process, ProcessFields) /\ IsRecord(a, GatedFields)
        /\ \E r \in passed : Fits(a.identity, process.settings, r) /\ a.gate.runtime = RuntimeOf(r.machine).sha256
        /\ a.protocol = ProtocolOf(process.settings) /\ a.plan = PlanOf(process.settings)
        /\ \E m : a.runtime = RuntimeOf(m) /\ a.gate.runtime = RuntimeOf(m).sha256
    BY <2>1 DEF EvidenceInv, Gated
  <2>3. \E cases, files, rows : process' = [process EXCEPT !.at = "cases",
          !.artifact = [a EXCEPT !.cases = cases, !.caseFiles = files, !.rows = rows]]
    BY <1>4 DEF BenchCase, Goto
  <2>4. PICK cases, files, rows : process' = [process EXCEPT !.at = "cases",
          !.artifact = [a EXCEPT !.cases = cases, !.caseFiles = files, !.rows = rows]]
    BY <2>3
  <2>5. /\ process'.do = "benchmark" /\ process'.at = "cases" /\ process'.settings = process.settings
        /\ IsRecord(process', ProcessFields)
        /\ process'.artifact = [a EXCEPT !.cases = cases, !.caseFiles = files, !.rows = rows]
    BY <2>1, <2>2, <2>4 DEF IsRecord, ProcessFields
  <2> HIDE DEF a
  <2>6. /\ IsRecord(process'.artifact, GatedFields) /\ process'.artifact.gate = a.gate
        /\ process'.artifact.identity = a.identity /\ process'.artifact.protocol = a.protocol
        /\ process'.artifact.plan = a.plan /\ process'.artifact.runtime = a.runtime
    <3>1. IsRecord(a, GatedFields)
      BY <2>2
    <3>2. process'.artifact = [a EXCEPT !.cases = cases, !.caseFiles = files, !.rows = rows]
      BY <2>5
    <3> DEFINE new == process'.artifact
    <3>3. new = [a EXCEPT !.cases = cases, !.caseFiles = files, !.rows = rows]
      BY <3>2
    <3> HIDE DEF new
    <3>4. IsRecord(new, GatedFields)
      BY ONLY <3>1, <3>3 DEF IsRecord, GatedFields
    <3>5. /\ new.gate = a.gate /\ new.identity = a.identity /\ new.protocol = a.protocol
          /\ new.plan = a.plan /\ new.runtime = a.runtime
      BY ONLY <3>1, <3>3 DEF IsRecord, GatedFields
    <3> QED BY <3>4, <3>5 DEF new
  <2>7. world' = world /\ passed' = passed /\ UNCHANGED <<checks, sidecar, written>>
    BY <1>4 DEF BenchCase
  <2>8. Gated' /\ Checking'
    BY <2>2, <2>5, <2>6, <2>7 DEF Gated, Checking, Fits, a
  <2> QED BY <2>7, <2>8, FilesKept
<1> QED BY <1>1, <1>2, <1>3, <1>4

\* A command that writes what it has, complete or not.
LEMMA WriteStep ==
  ASSUME EvidenceInv, WriteBench \/ Capture \/ FailCommand
  PROVE  EvidenceInv'
<1>1. ASSUME NEW a, RestsOnRun(a), world' = world, passed' = passed, UNCHANGED checks, process' = Idle,
             Completed' \subseteq Completed \cup {a}
      PROVE  EvidenceInv'
  <2>1. \A w \in Completed' : RestsOnRun(w)'
    BY <1>1, StillTrue DEF EvidenceInv
  <2>2. \A p \in Checks : CheckBacked(checks[p])'
    BY <1>1, StillTrue DEF EvidenceInv
  <2> QED BY <1>1, <2>1, <2>2 DEF EvidenceInv, Checking, Gated
<1>2. CASE WriteBench
  <2> DEFINE a == [process.artifact EXCEPT !.status = "complete"]
  <2>1. process # Idle /\ process.do = "benchmark" /\ process.at = "cases"
    BY <1>2 DEF WriteBench, Runs
  <2>2. PICK r \in passed : /\ Fits(process.artifact.identity, process.settings, r)
                            /\ process.artifact.gate.runtime = RuntimeOf(r.machine).sha256
    BY <2>1 DEF EvidenceInv, Gated
  <2>3. PICK m : /\ process.artifact.runtime = RuntimeOf(m)
                 /\ process.artifact.gate.runtime = RuntimeOf(m).sha256
    BY <2>1 DEF EvidenceInv, Gated
  <2>4. process.artifact.runtime = RuntimeOf(r.machine)
    BY <2>2, <2>3, SealTells DEF RuntimeOf
  <2>5. /\ IsRecord(process.artifact, GatedFields)
        /\ process.artifact.protocol = ProtocolOf(process.settings)
        /\ process.artifact.plan = PlanOf(process.settings)
    BY <2>1 DEF EvidenceInv, Gated
  <2>6. /\ a.identity = process.artifact.identity /\ a.protocol = process.artifact.protocol
        /\ a.plan = process.artifact.plan /\ a.runtime = process.artifact.runtime
    BY <2>5 DEF IsRecord, GatedFields
  <2>7. RestsOnRun(a)
    BY <2>2, <2>4, <2>5, <2>6 DEF RestsOnRun, Fits
  <2>8. written' = written \cup {a} /\ sidecar' = sidecar
    BY <1>2 DEF WriteBench, WriteArtifact
  <2>9. Completed' \subseteq Completed \cup {a}
    BY <2>8 DEF Completed
  <2> QED BY <1>1, <1>2, <2>7, <2>9 DEF WriteBench
<1>3. CASE Capture
  <2> DEFINE a == [WithRuntime(process.artifact) EXCEPT !.status = "complete"]
  <2>1. /\ process # Idle /\ process.do = "profile"
        /\ process.artifact.gate.runtime = RuntimeOf(world.machine).sha256
    BY <1>3 DEF Capture, Runs
  <2>2. PICK r \in passed : /\ Fits(process.artifact.identity, process.settings, r)
                            /\ process.artifact.gate.runtime = RuntimeOf(r.machine).sha256
    BY <2>1 DEF EvidenceInv, Gated
  <2>3. RuntimeOf(world.machine) = RuntimeOf(r.machine)
    BY <2>1, <2>2, SealTells DEF RuntimeOf
  <2>4. IsRecord(process.artifact, GatedFields)
    BY <2>1 DEF EvidenceInv, Gated
  <2>5. /\ a.identity = process.artifact.identity /\ a.protocol = ProtocolOf(process.settings)
        /\ a.plan = PlanOf(process.settings) /\ a.runtime = RuntimeOf(world.machine)
    BY <2>4 DEF IsRecord, GatedFields, WithRuntime
  <2>6. RestsOnRun(a)
    BY <2>2, <2>3, <2>5 DEF RestsOnRun, Fits
  <2>7. written' = written /\ sidecar' = a
    BY <1>3 DEF Capture
  <2>8. Completed' \subseteq Completed \cup {a}
    BY <2>7 DEF Completed
  <2> QED BY <1>1, <1>3, <2>6, <2>8 DEF Capture
<1>4. CASE FailCommand
  <2>1. /\ world' = [world EXCEPT !.failures = @ + 1] /\ process # Idle /\ process' = Idle
        /\ UNCHANGED <<sidecar, passed>>
    BY <1>4 DEF FailCommand
  <2>2. /\ world'.edits = world.edits
        /\ IsRecord(world', {"sources", "settings", "machine", "changes", "edits", "failures"})
    BY <2>1 DEF EvidenceInv, IsRecord
  <2>3. (\A p \in Checks : CheckBacked(checks'[p])) /\ DOMAIN checks' = Checks
          /\ checks' = [p \in Checks |-> checks'[p]]
    <3>1. CASE checks' = checks
      BY <3>1 DEF EvidenceInv
    <3>2. CASE process.do = "check" /\
               checks' = [checks EXCEPT ![process.path] = [process.artifact EXCEPT !.status = "failed"]]
      <4> DEFINE a == [process.artifact EXCEPT !.status = "failed"]
      <4>1. /\ IsRecord(process.artifact, CheckFields) /\ Sealed(process.artifact.identity)
            /\ \A c \in DOMAIN process.artifact.cases : BoundTo(process.artifact.cases[c], ThisRun)
            /\ DOMAIN process.artifact.cases = CheckCases => ThisRun \in passed
        BY <2>1, <3>2 DEF EvidenceInv, Checking
      <4>2. /\ IsRecord(a, CheckFields) /\ a.cases = process.artifact.cases
            /\ a.identity = process.artifact.identity
        BY <4>1 DEF IsRecord, CheckFields
      <4>3. ThisRun.identity = process.artifact.identity
        BY DEF ThisRun
      <4>4. CheckBacked(a)
        BY <4>1, <4>2, <4>3 DEF CheckBacked
      <4> HIDE DEF a
      <4>5. checks' = [checks EXCEPT ![process.path] = a]
        BY <3>2 DEF a
      <4> QED BY <4>4, <4>5 DEF EvidenceInv
    <3> QED BY <1>4, <3>1, <3>2 DEF FailCommand
  <2>4. Completed' \subseteq Completed
    <3>1. CASE written' = written
      BY <2>1, <3>1 DEF Completed
    <3>2. CASE process.do = "benchmark" /\ WriteArtifact("failed")
      <4> DEFINE a == [process.artifact EXCEPT !.status = "failed"]
      <4>1. a.status = "failed"
        BY <2>1, <3>2 DEF EvidenceInv, Gated, IsRecord, GatedFields
      <4>2. written' = written \cup {a}
        BY <3>2 DEF WriteArtifact
      <4> HIDE DEF a
      <4> QED BY <2>1, <4>1, <4>2 DEF Completed
    <3> QED BY <1>4, <3>1, <3>2 DEF FailCommand
  <2>5. /\ \A p \in Checks : CheckBacked(checks[p])'
        /\ \A w \in Completed' : RestsOnRun(w)'
    BY <2>1, <2>2, <2>3, <2>4, StillTrue DEF EvidenceInv
  <2>6. Checking' /\ Gated'
    BY <2>1 DEF Checking, Gated
  <2> QED BY <2>2, <2>3, <2>5, <2>6 DEF EvidenceInv
<1> QED BY <1>2, <1>3, <1>4

\* What happens around the commands, and the comparison.
LEMMA AroundStep ==
  ASSUME EvidenceInv,
         \/ \E s, t \in Paths : CompareBenchmarks(s, t)
         \/ ChangeWorld
         \/ \E s \in Paths : EditBench(s)
         \/ \E p \in Checks : EditCheck(p)
  PROVE  EvidenceInv'
<1>1. ASSUME NEW s \in Paths, NEW t \in Paths, CompareBenchmarks(s, t) PROVE EvidenceInv'
  <2>1. world' = world /\ passed' = passed /\ UNCHANGED <<checks, sidecar, written, process>>
    BY <1>1 DEF CompareBenchmarks
  <2>2. Checking' /\ Gated'
    BY <2>1 DEF EvidenceInv, Checking, Gated, Fits, ThisRun, BoundTo
  <2> QED BY <2>1, <2>2, FilesKept
<1>2. ASSUME world'.edits \in Nat, world'.edits = 0 => world.edits = 0,
             IsRecord(world', {"sources", "settings", "machine", "changes", "edits", "failures"}),
             UNCHANGED <<passed, sidecar, written, process>>,
             DOMAIN checks' = Checks, checks' = [p \in Checks |-> checks'[p]],
             \A p \in Checks : CheckBacked(checks[p])'
      PROVE  EvidenceInv'
  <2>1. Completed' = Completed /\ \A a \in Completed : RestsOnRun(a)'
    BY <1>2, StillTrue DEF Completed, EvidenceInv
  <2>2. Checking'
    BY <1>2 DEF EvidenceInv, Checking, ThisRun, BoundTo
  <2>3. Gated'
    BY <1>2 DEF EvidenceInv, Gated, Fits
  <2> QED BY <1>2, <2>1, <2>2, <2>3 DEF EvidenceInv
<1>3. CASE ChangeWorld
  <2>1. /\ \E x : \/ world' = [world EXCEPT !.sources = x, !.changes = @ + 1]
                  \/ world' = [world EXCEPT !.settings = x, !.changes = @ + 1]
                  \/ world' = [world EXCEPT !.machine = x, !.changes = @ + 1]
        /\ UNCHANGED <<checks, passed, sidecar, written, process>>
    BY <1>3 DEF ChangeWorld
  <2>2. world'.edits = world.edits
        /\ IsRecord(world', {"sources", "settings", "machine", "changes", "edits", "failures"})
    BY <2>1 DEF EvidenceInv, IsRecord
  <2>3. \A p \in Checks : CheckBacked(checks[p])'
    BY <2>1, <2>2, StillTrue DEF EvidenceInv
  <2> QED BY <1>2, <2>1, <2>2, <2>3 DEF EvidenceInv
<1>4. ASSUME world' = [world EXCEPT !.edits = @ + 1]
      PROVE  /\ world'.edits \in Nat /\ world'.edits # 0
             /\ IsRecord(world', {"sources", "settings", "machine", "changes", "edits", "failures"})
  BY <1>4 DEF EvidenceInv, IsRecord
<1>5. ASSUME NEW s \in Paths, EditBench(s) PROVE EvidenceInv'
  <2>1. world' = [world EXCEPT !.edits = @ + 1] /\ UNCHANGED <<checks, passed, sidecar, written, process>>
    BY <1>5 DEF EditBench
  <2>2. \A p \in Checks : CheckBacked(checks[p])'
    BY <2>1, <1>4, StillTrue DEF EvidenceInv
  <2> QED BY <1>2, <1>4, <2>1, <2>2 DEF EvidenceInv
<1>6. ASSUME NEW p \in Checks, EditCheck(p) PROVE EvidenceInv'
  <2>1. world' = [world EXCEPT !.edits = @ + 1] /\ UNCHANGED <<passed, sidecar, written, process>>
    BY <1>6 DEF EditCheck
  <2>2. PICK section \in CheckSections, q \in Checks :
          /\ checks[q] # NoFile
          /\ checks' = [checks EXCEPT ![p] =
               [@ EXCEPT ![section] = IF section = "status" THEN "passed" ELSE checks[q][section]]]
    BY <1>6 DEF EditCheck
  <2> DEFINE value == IF section = "status" THEN "passed" ELSE checks[q][section]
  <2>0. PICK a : a = [checks[p] EXCEPT ![section] = value]
    OBVIOUS
  <2>3. checks[p] # NoFile
    BY <1>6 DEF EditCheck
  <2>4. checks' = [checks EXCEPT ![p] = a]
    BY <2>0, <2>2 DEF EvidenceInv
  <2>5. IsRecord(checks[p], CheckFields) /\ IsRecord(checks[q], CheckFields)
    BY <2>2, <2>3 DEF EvidenceInv, CheckBacked
  <2>6. section = "cases" => value = checks[q].cases
    OBVIOUS
  <2> HIDE DEF value
  <2>7. IsRecord(a, CheckFields)
    BY <2>0, <2>5 DEF IsRecord
  <2>8. a.cases = checks[p].cases \/ a.cases = checks[q].cases
    BY <2>0, <2>5, <2>6 DEF IsRecord, CheckFields
  <2>9. DOMAIN a.cases = CheckCases => \E r \in passed : \A c \in CheckCases : BoundTo(a.cases[c], r)
    BY <2>2, <2>3, <2>8 DEF EvidenceInv, CheckBacked
  <2>10. world'.edits # 0
    BY <1>4, <2>1
  <2>11. CheckBacked(a)'
    BY <2>1, <2>7, <2>9, <2>10 DEF CheckBacked, BoundTo
  <2>12. \A d \in Checks : CheckBacked(checks[d])'
    <3> SUFFICES ASSUME NEW d \in Checks PROVE CheckBacked(checks[d])'
      OBVIOUS
    <3>1. CASE d = p
      BY <2>4, <2>11, <3>1 DEF EvidenceInv
    <3>2. CASE d # p
      <4>1. CheckBacked(checks[d]) /\ checks'[d] = checks[d]
        BY <2>4, <3>2 DEF EvidenceInv
      <4>2. passed \subseteq passed' /\ (world'.edits = 0 => world.edits = 0)
        BY <2>1, <2>10
      <4> QED BY <4>1, <4>2, StillTrue
    <3> QED BY <3>1, <3>2
  <2>13. DOMAIN checks' = Checks /\ checks' = [d \in Checks |-> checks'[d]]
    BY <2>4 DEF EvidenceInv
  <2> QED BY <1>2, <1>4, <2>1, <2>10, <2>12, <2>13
<1> QED BY <1>1, <1>3, <1>5, <1>6

\* A gate that looks at a file made earlier lets nothing pass that no run found
\* exact, for any number of runs, files, changes of the world and edits.
THEOREM GatesAreFresh == EvidenceSpec => []GateFresh
<1>1. EvidenceInit => EvidenceInv
  <2> SUFFICES ASSUME EvidenceInit PROVE EvidenceInv
    OBVIOUS
  <2>1. /\ world \in [sources : Sources, settings : Settings, machine : Machines,
                      changes : {0}, edits : {0}, failures : {0}]
        /\ checks = [p \in Checks |-> NoFile] /\ sidecar = NoFile /\ process = Idle /\ written = {}
    BY DEF EvidenceInit
  <2>2. /\ world.edits = 0
        /\ IsRecord(world, {"sources", "settings", "machine", "changes", "edits", "failures"})
    BY <2>1 DEF IsRecord
  <2>3. Completed = {}
    BY <2>1 DEF Completed
  <2>4. \A p \in Checks : CheckBacked(checks[p])
    BY <2>1 DEF CheckBacked
  <2>5. Checking /\ Gated
    BY <2>1 DEF Checking, Gated
  <2> QED BY <2>1, <2>2, <2>3, <2>4, <2>5 DEF EvidenceInv
<1>2. EvidenceInv /\ [EvidenceNext]_evidenceVars => EvidenceInv'
  <2> SUFFICES ASSUME EvidenceInv, [EvidenceNext]_evidenceVars PROVE EvidenceInv'
    OBVIOUS
  <2>1. CASE \E p \in Checks, s \in Paths : StartCheck(p, variantOf[s])
    BY <2>1, CheckStep
  <2>2. CASE \E p \in Checks, s \in Paths : StartBench(s, p) \/ StartCapture(s, p)
    BY <2>2, GatedStep
  <2>3. CASE CheckRuntime \/ CheckCase \/ WriteCheck
    BY <2>3, CheckStep
  <2>4. CASE ReadContract \/ BenchRuntime \/ BenchCase
    BY <2>4, GatedStep
  <2>5. CASE WriteBench \/ Capture \/ FailCommand
    BY <2>5, WriteStep
  <2>6. CASE \/ \E s, t \in Paths : CompareBenchmarks(s, t)
             \/ ChangeWorld
             \/ \E s \in Paths : EditBench(s)
             \/ \E p \in Checks : EditCheck(p)
    BY <2>6, AroundStep
  <2>7. CASE UNCHANGED evidenceVars
    <3>1. world' = world /\ passed' = passed /\ UNCHANGED <<checks, sidecar, written, process>>
      BY <2>7 DEF evidenceVars
    <3>2. Checking' /\ Gated'
      BY <3>1 DEF EvidenceInv, Checking, Gated, Fits, ThisRun, BoundTo
    <3> QED BY <3>1, <3>2, FilesKept
  <2> QED BY <2>1, <2>2, <2>3, <2>4, <2>5, <2>6, <2>7 DEF EvidenceNext
<1>3. EvidenceInv => GateFresh
  BY DEF EvidenceInv, GateFresh, RestsOnRun
<1> QED BY <1>1, <1>2, <1>3, PTL DEF EvidenceSpec

---------------------------------------------------------------------------
(* CaseRun.  First the programs: what their order guarantees is said of any  *)
(* sequence of steps, such that it holds of what is left of a program too.   *)

Dos == {"create", "reference", "clone", "judge", "prepare", "run", "timedRun",
        "deviceSync", "streamSync", "validate", "verify"}
Steps == {s \in [do : Dos, fixture : Fixtures \cup {""}] :
            s.do \in {"reference", "clone", "judge", "prepare", "run", "timedRun", "validate"}
              => s.fixture \in Fixtures}

Early == {"create", "reference", "clone", "judge", "prepare"}
RunDos == {"run", "timedRun"}

\* Everything that can write an input is followed by a synchronisation of the
\* whole device, and the last step looks at the inputs.
EndsChecked(s) ==
  /\ Len(s) > 0 => s[Len(s)] = Verify
  /\ \A i \in 1..Len(s) : s[i].do \in {"prepare"} \cup RunDos => \E j \in i..Len(s) : s[j] = Sync

\* The fixtures are answered, copied and judged before the candidate is prepared,
\* which is done before it runs.
InOrder(s) ==
  /\ \A i, j \in 1..Len(s) :
       i < j /\ s[i].do \in {"prepare", "validate"} \cup RunDos => s[j].do \notin Early
  /\ \A i \in 1..Len(s) : s[i].do = "clone" => i + 1 <= Len(s) /\ s[i + 1] = Step("judge", s[i].fixture)
  /\ \A i \in 1..Len(s) : s[i].do = "prepare" => i + 2 <= Len(s) /\ s[i + 1] = Sync /\ s[i + 2] = Verify

\* What is judged is a copy of the latest answer of the reference.
JudgesLatest(s) ==
  \A i \in 1..Len(s) : s[i].do = "judge" =>
    /\ i > 1 => s[i - 1].do = "clone"
    /\ i > 2 => s[i - 2] = Sync
    /\ i > 3 => s[i - 3] = Step("reference", s[i].fixture)

\* What is validated is the latest answer of the candidate, and it is complete.
ValidatesLatest(s) ==
  \A i \in 1..Len(s) : s[i].do = "validate" =>
    /\ i > 1 => s[i - 1] = Sync
    /\ i > 2 => s[i - 2].do \in RunDos /\ s[i - 2].fixture = s[i].fixture

Has(s, what, f) == \E i \in 1..Len(s) : s[i] = Step(what, f)

Shape(s) == s \in Seq(Steps) /\ EndsChecked(s) /\ InOrder(s) /\ JudgesLatest(s) /\ ValidatesLatest(s)

\* What is left of a program is one.
LEMMA RestOfProgram ==
  ASSUME NEW s, Shape(s), s # <<>>
  PROVE  /\ Head(s) = s[1] /\ s[1] \in Steps /\ Len(s) \in Nat \ {0}
         /\ Tail(s) \in Seq(Steps) /\ Len(Tail(s)) = Len(s) - 1
         /\ \A i \in 1..Len(Tail(s)) : Tail(s)[i] = s[i + 1]
         /\ Shape(Tail(s))
<1> DEFINE t == Tail(s)
<1>1. s \in Seq(Steps) /\ Len(s) \in Nat \ {0} /\ Head(s) = s[1] /\ s[1] \in Steps
        /\ t \in Seq(Steps) /\ Len(t) = Len(s) - 1 /\ \A i \in 1..Len(t) : t[i] = s[i + 1]
  BY HeadTailProperties, EmptySeq DEF Shape
<1> HIDE DEF t
<1>2. EndsChecked(t)
  <2>1. Len(t) > 0 => t[Len(t)] = s[Len(s)]
    BY <1>1
  <2>2. ASSUME NEW i \in 1..Len(t), t[i].do \in {"prepare"} \cup RunDos
        PROVE  \E j \in i..Len(t) : t[j] = Sync
    <3>1. i + 1 \in 1..Len(s) /\ s[i + 1].do \in {"prepare"} \cup RunDos
      BY <1>1, <2>2
    <3>2. PICK j \in (i + 1)..Len(s) : s[j] = Sync
      BY <3>1 DEF Shape, EndsChecked
    <3>3. j - 1 \in i..Len(t) /\ (j - 1) + 1 = j /\ j - 1 \in 1..Len(t)
      BY <1>1, <3>2
    <3> QED BY <1>1, <3>2, <3>3
  <2> QED BY <1>1, <2>1, <2>2 DEF Shape, EndsChecked
<1>3. InOrder(t)
  <2>1. ASSUME NEW i \in 1..Len(t), NEW j \in 1..Len(t), i < j,
               t[i].do \in {"prepare", "validate"} \cup RunDos
        PROVE  t[j].do \notin Early
    <3>1. i + 1 \in 1..Len(s) /\ j + 1 \in 1..Len(s) /\ i + 1 < j + 1
      BY <1>1, <2>1
    <3> QED BY <1>1, <2>1, <3>1 DEF Shape, InOrder
  <2>2. ASSUME NEW i \in 1..Len(t), t[i].do = "clone"
        PROVE  i + 1 <= Len(t) /\ t[i + 1] = Step("judge", t[i].fixture)
    <3>1. i + 1 \in 1..Len(s) /\ s[i + 1] = t[i]
      BY <1>1
    <3>2. i + 1 + 1 <= Len(s) /\ s[i + 1 + 1] = Step("judge", t[i].fixture)
      BY <2>2, <3>1 DEF Shape, InOrder
    <3>3. i + 1 \in 1..Len(t)
      BY <1>1, <3>2
    <3> QED BY <1>1, <3>2, <3>3
  <2>3. ASSUME NEW i \in 1..Len(t), t[i].do = "prepare"
        PROVE  i + 2 <= Len(t) /\ t[i + 1] = Sync /\ t[i + 2] = Verify
    <3>1. i + 1 \in 1..Len(s) /\ s[i + 1] = t[i]
      BY <1>1
    <3>2. i + 1 + 2 <= Len(s) /\ s[i + 1 + 1] = Sync /\ s[i + 1 + 2] = Verify
      BY <2>3, <3>1 DEF Shape, InOrder
    <3>3. i + 1 \in 1..Len(t) /\ i + 2 \in 1..Len(t) /\ i + 2 + 1 = i + 1 + 2 /\ i + 2 <= Len(t)
      BY <1>1, <3>2
    <3> QED BY <1>1, <3>2, <3>3
  <2> QED BY <2>1, <2>2, <2>3 DEF InOrder
<1>4. JudgesLatest(t)
  <2> SUFFICES ASSUME NEW i \in 1..Len(t), t[i].do = "judge"
               PROVE  /\ i > 1 => t[i - 1].do = "clone"
                      /\ i > 2 => t[i - 2] = Sync
                      /\ i > 3 => t[i - 3] = Step("reference", t[i].fixture)
    BY DEF JudgesLatest
  <2>1. i + 1 \in 1..Len(s) /\ s[i + 1] = t[i] /\ i + 1 - 1 = i /\ i + 1 - 2 = i - 1 /\ i + 1 - 3 = i - 2
    BY <1>1
  <2>2. /\ i + 1 > 1 => s[i].do = "clone"
        /\ i + 1 > 2 => s[i - 1] = Sync
        /\ i + 1 > 3 => s[i - 2] = Step("reference", t[i].fixture)
    BY <2>1 DEF Shape, JudgesLatest
  <2>3. ASSUME i > 1 PROVE t[i - 1].do = "clone"
    <3>1. i - 1 \in 1..Len(t) /\ i - 1 + 1 = i /\ i + 1 > 1
      BY <2>3
    <3> QED BY <1>1, <2>2, <3>1
  <2>4. ASSUME i > 2 PROVE t[i - 2] = Sync
    <3>1. i - 2 \in 1..Len(t) /\ i - 2 + 1 = i - 1 /\ i + 1 > 2
      BY <2>4
    <3> QED BY <1>1, <2>2, <3>1
  <2>5. ASSUME i > 3 PROVE t[i - 3] = Step("reference", t[i].fixture)
    <3>1. i - 3 \in 1..Len(t) /\ i - 3 + 1 = i - 2 /\ i + 1 > 3
      BY <2>5
    <3> QED BY <1>1, <2>2, <3>1
  <2> QED BY <2>3, <2>4, <2>5
<1>5. ValidatesLatest(t)
  <2> SUFFICES ASSUME NEW i \in 1..Len(t), t[i].do = "validate"
               PROVE  /\ i > 1 => t[i - 1] = Sync
                      /\ i > 2 => t[i - 2].do \in RunDos /\ t[i - 2].fixture = t[i].fixture
    BY DEF ValidatesLatest
  <2>1. i + 1 \in 1..Len(s) /\ s[i + 1] = t[i] /\ i + 1 - 1 = i /\ i + 1 - 2 = i - 1
    BY <1>1
  <2>2. /\ i + 1 > 1 => s[i] = Sync
        /\ i + 1 > 2 => s[i - 1].do \in RunDos /\ s[i - 1].fixture = t[i].fixture
    BY <2>1 DEF Shape, ValidatesLatest
  <2>3. ASSUME i > 1 PROVE t[i - 1] = Sync
    <3>1. i - 1 \in 1..Len(t) /\ i - 1 + 1 = i /\ i + 1 > 1
      BY <2>3
    <3> QED BY <1>1, <2>2, <3>1
  <2>4. ASSUME i > 2 PROVE t[i - 2].do \in RunDos /\ t[i - 2].fixture = t[i].fixture
    <3>1. i - 2 \in 1..Len(t) /\ i - 2 + 1 = i - 1 /\ i + 1 > 2
      BY <2>4
    <3> QED BY <1>1, <2>2, <3>1
  <2> QED BY <2>3, <2>4
<1> QED BY <1>1, <1>2, <1>3, <1>4, <1>5 DEF Shape, t

\* Induction over the naturals, for a set of them.
LEMMA NatSetInduction ==
  ASSUME NEW S, 0 \in S, \A n \in Nat : n \in S => n + 1 \in S
  PROVE  \A n \in Nat : n \in S
<1> SUFFICES ASSUME NEW n \in Nat, n \notin S PROVE FALSE
  OBVIOUS
<1>1. PICK x \in Nat \ S : \A y \in Nat \ S : x <= y
  BY HasLeast
<1>2. x # 0 /\ x - 1 \in Nat /\ x - 1 \notin S
  OBVIOUS
<1> QED BY <1>1, <1>2

\* Concatenating several sequences is concatenating one after another.
LEMMA FlattenUnfolds ==
  ASSUME NEW T, NEW n \in Nat, n > 0, NEW seqs \in [1..n -> T]
  PROVE  \E g : /\ g[1] = seqs[1] /\ \A i \in 2..n : g[i] = g[i - 1] \o seqs[i]
                /\ FlattenSeq(seqs) = g[n]
<1> DEFINE Unfolds(g, m) == g = [i \in 1..m |-> IF i = 1 THEN seqs[i] ELSE g[i - 1] \o seqs[i]]
           S == {m \in Nat : \E g : Unfolds(g, m)}
<1>1. 0 \in S
  <2>1. Unfolds([i \in 1..0 |-> seqs[1]], 0)
    OBVIOUS
  <2> HIDE DEF Unfolds
  <2> QED BY <2>1
<1>2. ASSUME NEW m \in Nat, m \in S PROVE m + 1 \in S
  <2>1. PICK g : Unfolds(g, m)
    <3> HIDE DEF Unfolds
    <3> QED BY <1>2
  <2>2. PICK h : h = [i \in 1..(m + 1) |-> IF i = 1 THEN seqs[i] ELSE g[i - 1] \o seqs[i]]
    OBVIOUS
  <2>3. ASSUME NEW i \in 1..m PROVE h[i] = g[i]
    <3>1. h[i] = IF i = 1 THEN seqs[i] ELSE g[i - 1] \o seqs[i]
      BY <2>2
    <3>2. g[i] = IF i = 1 THEN seqs[i] ELSE g[i - 1] \o seqs[i]
      BY <2>1
    <3> QED BY <3>1, <3>2
  <2>4. ASSUME NEW i \in 1..(m + 1), i # 1 PROVE h[i - 1] = g[i - 1]
    <3>1. i - 1 \in 1..m
      BY <2>4
    <3> QED BY <2>3, <3>1
  <2>5. h = [i \in 1..(m + 1) |-> IF i = 1 THEN seqs[i] ELSE h[i - 1] \o seqs[i]]
    BY <2>2, <2>4
  <2>6. Unfolds(h, m + 1)
    BY <2>5
  <2> HIDE DEF Unfolds
  <2> QED BY <2>6
<1>3. \E g : Unfolds(g, n)
  <2> HIDE DEF S
  <2>1. \A m \in Nat : m \in S
    BY <1>1, <1>2, NatSetInduction
  <2>2. n \in S
    BY <2>1
  <2> HIDE DEF Unfolds
  <2> QED BY <2>2 DEF S
<1>4. Len(seqs) = n
  <2>1. seqs \in Seq(T)
    BY SeqDef
  <2> QED BY <2>1, LenProperties
<1> DEFINE f == CHOOSE g : g = [i \in 1..Len(seqs) |-> IF i = 1 THEN seqs[i] ELSE g[i - 1] \o seqs[i]]
<1>5. f = [i \in 1..Len(seqs) |-> IF i = 1 THEN seqs[i] ELSE f[i - 1] \o seqs[i]]
  BY <1>3, <1>4
<1>6. FlattenSeq(seqs) = f[Len(seqs)]
  <2>1. Len(seqs) # 0
    BY <1>4
  <2> QED BY <2>1, Zenon DEF FlattenSeq
<1> HIDE DEF f
<1>7. \A i \in 1..n : f[i] = IF i = 1 THEN seqs[i] ELSE f[i - 1] \o seqs[i]
  BY <1>4, <1>5
<1>8. f[1] = seqs[1]
  BY <1>7
<1>9. \A i \in 2..n : i \in 1..n /\ i # 1
  OBVIOUS
<1>10. \A i \in 2..n : f[i] = f[i - 1] \o seqs[i]
  BY <1>7, <1>9
<1> QED BY <1>4, <1>6, <1>8, <1>10

\* The steps after the preparation: only what runs, waits, validates and looks.
Late == RunDos \cup {"deviceSync", "streamSync", "validate", "verify"}
Body(s) ==
  /\ s \in Seq(Steps)
  /\ \A i \in 1..Len(s) : s[i].do \in Late
  /\ \A i \in 1..Len(s) : s[i].do = "validate" =>
       i >= 3 /\ s[i - 1] = Sync /\ s[i - 2].do \in RunDos /\ s[i - 2].fixture = s[i].fixture

\* Every launch is waited for.
WaitsFor(s) == \A i \in 1..Len(s) : s[i].do \in RunDos => \E j \in i..Len(s) : s[j] = Sync

LEMMA ConcatSteps ==
  ASSUME NEW s \in Seq(Steps), NEW t \in Seq(Steps)
  PROVE  /\ s \o t \in Seq(Steps) /\ Len(s) \in Nat /\ Len(t) \in Nat
         /\ Len(s \o t) = Len(s) + Len(t)
         /\ \A i \in 1..Len(s) : i \in 1..Len(s \o t) /\ (s \o t)[i] = s[i]
         /\ \A i \in 1..Len(t) : Len(s) + i \in 1..Len(s \o t) /\ (s \o t)[Len(s) + i] = t[i]
         /\ \A i \in 1..Len(s \o t) : i \in 1..Len(s) \/ i - Len(s) \in 1..Len(t)
<1>1. s \o t \in Seq(Steps) /\ Len(s) \in Nat /\ Len(t) \in Nat /\ Len(s \o t) = Len(s) + Len(t)
  BY ConcatProperties, LenProperties
<1>2. \A i \in 1..(Len(s) + Len(t)) : (s \o t)[i] = IF i <= Len(s) THEN s[i] ELSE t[i - Len(s)]
  BY ConcatProperties
<1>3. ASSUME NEW i \in 1..Len(s) PROVE i \in 1..Len(s \o t) /\ (s \o t)[i] = s[i]
  <2>1. i \in 1..(Len(s) + Len(t)) /\ i <= Len(s)
    BY <1>1
  <2> QED BY <1>1, <1>2, <2>1
<1>4. ASSUME NEW i \in 1..Len(t) PROVE Len(s) + i \in 1..Len(s \o t) /\ (s \o t)[Len(s) + i] = t[i]
  <2>1. Len(s) + i \in 1..(Len(s) + Len(t)) /\ ~(Len(s) + i <= Len(s)) /\ (Len(s) + i) - Len(s) = i
    BY <1>1
  <2> QED BY <1>1, <1>2, <2>1
<1>5. ASSUME NEW i \in 1..Len(s \o t) PROVE i \in 1..Len(s) \/ i - Len(s) \in 1..Len(t)
  BY <1>1
<1> QED BY <1>1, <1>3, <1>4, <1>5

LEMMA ConcatBody ==
  ASSUME NEW s, Body(s), NEW t, Body(t)
  PROVE  Body(s \o t)
<1> DEFINE n == Len(s)
           u == s \o t
<1>1. /\ u \in Seq(Steps) /\ n \in Nat /\ Len(t) \in Nat /\ Len(u) = n + Len(t)
      /\ \A i \in 1..n : i \in 1..Len(u) /\ u[i] = s[i]
      /\ \A i \in 1..Len(t) : n + i \in 1..Len(u) /\ u[n + i] = t[i]
      /\ \A i \in 1..Len(u) : i \in 1..n \/ i - n \in 1..Len(t)
  BY ConcatSteps DEF Body
<1> HIDE DEF n, u
<1>2. ASSUME NEW i \in 1..Len(u)
      PROVE  /\ u[i].do \in Late
             /\ u[i].do = "validate" =>
                  i >= 3 /\ u[i - 1] = Sync /\ u[i - 2].do \in RunDos /\ u[i - 2].fixture = u[i].fixture
  <2>1. CASE i \in 1..n
    <3>1. s[i].do \in Late /\ u[i] = s[i]
      BY <1>1, <2>1 DEF Body, n
    <3>2. ASSUME s[i].do = "validate"
          PROVE  i >= 3 /\ u[i - 1] = Sync /\ u[i - 2].do \in RunDos /\ u[i - 2].fixture = u[i].fixture
      <4>1. i >= 3 /\ s[i - 1] = Sync /\ s[i - 2].do \in RunDos /\ s[i - 2].fixture = s[i].fixture
        BY <2>1, <3>2 DEF Body, n
      <4>2. i - 1 \in 1..n /\ i - 2 \in 1..n
        BY <1>1, <2>1, <4>1
      <4> QED BY <1>1, <3>1, <4>1, <4>2
    <3> QED BY <3>1, <3>2
  <2>2. CASE i - n \in 1..Len(t)
    <3> DEFINE k == i - n
    <3>1. k \in 1..Len(t) /\ n + k = i
      BY <1>1, <2>2
    <3> HIDE DEF k
    <3>2. t[k].do \in Late /\ u[i] = t[k]
      BY <1>1, <3>1 DEF Body
    <3>3. ASSUME t[k].do = "validate"
          PROVE  i >= 3 /\ u[i - 1] = Sync /\ u[i - 2].do \in RunDos /\ u[i - 2].fixture = u[i].fixture
      <4>1. k >= 3 /\ t[k - 1] = Sync /\ t[k - 2].do \in RunDos /\ t[k - 2].fixture = t[k].fixture
        BY <3>1, <3>3 DEF Body
      <4>2. k - 1 \in 1..Len(t) /\ k - 2 \in 1..Len(t) /\ n + (k - 1) = i - 1 /\ n + (k - 2) = i - 2 /\ i >= 3
        BY <1>1, <3>1, <4>1
      <4>3. u[i - 1] = t[k - 1] /\ u[i - 2] = t[k - 2]
        BY <1>1, <4>2
      <4> QED BY <3>2, <4>1, <4>2, <4>3
    <3> QED BY <3>2, <3>3
  <2> QED BY <1>1, <2>1, <2>2
<1> QED BY <1>1, <1>2 DEF Body, u

LEMMA ConcatWaits ==
  ASSUME NEW s \in Seq(Steps), NEW t \in Seq(Steps), WaitsFor(t),
         WaitsFor(s) \/ \E i \in 1..Len(t) : t[i] = Sync
  PROVE  WaitsFor(s \o t)
<1> DEFINE n == Len(s)
           u == s \o t
<1>1. /\ n \in Nat /\ Len(t) \in Nat /\ Len(u) = n + Len(t)
      /\ \A i \in 1..n : i \in 1..Len(u) /\ u[i] = s[i]
      /\ \A i \in 1..Len(t) : n + i \in 1..Len(u) /\ u[n + i] = t[i]
      /\ \A i \in 1..Len(u) : i \in 1..n \/ i - n \in 1..Len(t)
  BY ConcatSteps
<1> HIDE DEF n, u
<1> SUFFICES ASSUME NEW i \in 1..Len(u), u[i].do \in RunDos
             PROVE  \E j \in i..Len(u) : u[j] = Sync
  BY DEF WaitsFor, u
<1>2. CASE i \in 1..n
  <2>1. CASE WaitsFor(s)
    <3>1. PICK j \in i..n : s[j] = Sync
      BY <1>1, <1>2, <2>1 DEF WaitsFor, n
    <3>2. j \in 1..n /\ j \in i..Len(u)
      BY <1>1, <3>1
    <3> QED BY <1>1, <3>1, <3>2
  <2>2. CASE \E k \in 1..Len(t) : t[k] = Sync
    <3>1. PICK k \in 1..Len(t) : t[k] = Sync
      BY <2>2
    <3>2. n + k \in i..Len(u) /\ u[n + k] = Sync
      BY <1>1, <1>2, <3>1
    <3> QED BY <3>2
  <2> QED BY <2>1, <2>2
<1>3. CASE i - n \in 1..Len(t)
  <2> DEFINE k == i - n
  <2>1. k \in 1..Len(t) /\ n + k = i
    BY <1>1, <1>3
  <2> HIDE DEF k
  <2>2. PICK j \in k..Len(t) : t[j] = Sync
    BY <1>1, <2>1 DEF WaitsFor
  <2>3. n + j \in i..Len(u) /\ j \in 1..Len(t)
    BY <1>1, <2>1, <2>2
  <2>4. u[n + j] = Sync
    BY <1>1, <2>2, <2>3
  <2> QED BY <2>3, <2>4
<1> QED BY <1>1, <1>2, <1>3

LEMMA FlattenBody ==
  ASSUME NEW T, NEW n \in Nat, NEW seqs \in [1..n -> T], \A i \in 1..n : Body(seqs[i])
  PROVE  Body(FlattenSeq(seqs))
<1>1. CASE n = 0
  <2>1. seqs = <<>> /\ Len(<<>>) = 0
    BY <1>1
  <2>2. FlattenSeq(seqs) = <<>>
    BY <2>1 DEF FlattenSeq
  <2>3. <<>> \in Seq(Steps)
    OBVIOUS
  <2>4. \A i \in 1..Len(<<>>) : FALSE
    BY <2>1
  <2>5. Body(<<>>)
    BY <2>3, <2>4 DEF Body
  <2> QED BY <2>2, <2>5
<1>2. CASE n > 0
  <2>1. PICK g : /\ g[1] = seqs[1] /\ \A i \in 2..n : g[i] = g[i - 1] \o seqs[i]
                 /\ FlattenSeq(seqs) = g[n]
    BY <1>2, FlattenUnfolds
  <2> DEFINE S == {k \in Nat : k + 1 \in 1..n => Body(g[k + 1])}
  <2>2. 0 \in S
    <3>1. Body(g[1])
      BY <1>2, <2>1
    <3>2. 0 + 1 = 1
      OBVIOUS
    <3> HIDE DEF Body
    <3> QED BY <3>1, <3>2
  <2>3. ASSUME NEW k \in Nat, k \in S PROVE k + 1 \in S
    <3> SUFFICES ASSUME k + 1 + 1 \in 1..n PROVE Body(g[k + 1 + 1])
      OBVIOUS
    <3>1. k + 1 \in 1..n /\ k + 1 + 1 \in 2..n /\ (k + 1 + 1) - 1 = k + 1
      OBVIOUS
    <3>2. Body(g[k + 1])
      BY <2>3, <3>1
    <3>3. g[k + 1 + 1] = g[k + 1] \o seqs[k + 1 + 1]
      BY <2>1, <3>1
    <3>4. Body(seqs[k + 1 + 1])
      BY <3>1
    <3> QED BY <3>2, <3>3, <3>4, ConcatBody
  <2> HIDE DEF S
  <2>4. \A k \in Nat : k \in S
    BY <2>2, <2>3, NatSetInduction
  <2>5. n - 1 \in S /\ n - 1 + 1 = n /\ n \in 1..n
    BY <1>2, <2>4
  <2>6. Body(g[n])
    BY <2>5 DEF S
  <2> QED BY <2>1, <2>6
<1> QED BY <1>1, <1>2

\* Steps on their own.
LEMMA SingleSteps ==
  /\ Body(<<Sync>>) /\ Body(<<StreamSync>>) /\ Body(<<Verify>>)
  /\ \A f \in Fixtures : Body(RunOn(f)) /\ Body(TimedOn(f))
<1>1. ASSUME NEW s \in Steps, s.do \in Late \ {"validate"} PROVE Body(<<s>>)
  <2>1. <<s>> \in Seq(Steps) /\ Len(<<s>>) = 1 /\ <<s>>[1] = s
    OBVIOUS
  <2> QED BY <1>1, <2>1 DEF Body
<1>2. ASSUME NEW d \in {"deviceSync", "streamSync", "verify"}
      PROVE  Step(d, "") \in Steps /\ Step(d, "").do \in Late \ {"validate"}
  BY <1>2 DEF Step, Steps, Dos, Late, RunDos
<1>3. ASSUME NEW f \in Fixtures, NEW d \in RunDos
      PROVE  Step(d, f) \in Steps /\ Step(d, f).do \in Late \ {"validate"}
  BY <1>3 DEF Step, Steps, Dos, Late, RunDos
<1>4. Body(<<Sync>>) /\ Body(<<StreamSync>>) /\ Body(<<Verify>>)
  BY <1>1, <1>2 DEF Sync, StreamSync, Verify
<1>5. ASSUME NEW f \in Fixtures PROVE Body(RunOn(f)) /\ Body(TimedOn(f))
  <2>1. "run" \in RunDos /\ "timedRun" \in RunDos
    BY DEF RunDos
  <2> QED BY <1>1, <1>3, <2>1 DEF RunOn, TimedOn
<1> QED BY <1>4, <1>5

\* One fixture run, waited for and validated.
Chunk(do, f) == <<Step(do, f), Sync, Step("validate", f)>>

LEMMA ChunkBody ==
  ASSUME NEW f \in Fixtures, NEW d \in RunDos
  PROVE  Body(Chunk(d, f)) /\ WaitsFor(Chunk(d, f)) /\ Has(Chunk(d, f), "validate", f)
<1> DEFINE s == Chunk(d, f)
<1>1. Step(d, f) \in Steps /\ Sync \in Steps /\ Step("validate", f) \in Steps
  BY DEF Step, Sync, Steps, Dos, RunDos
<1>2. s \in Seq(Steps) /\ Len(s) = 3 /\ s[1] = Step(d, f) /\ s[2] = Sync /\ s[3] = Step("validate", f)
  BY <1>1 DEF Chunk
<1> HIDE DEF s
<1>3. /\ s[1].do = d /\ s[1].fixture = f /\ s[2].do = "deviceSync" /\ s[3].do = "validate" /\ s[3].fixture = f
  <2>1. \A e, g : Step(e, g).do = e /\ Step(e, g).fixture = g
    BY DEF Step
  <2>2. Sync.do = "deviceSync"
    BY DEF Sync, Step
  <2>3. s[2].do = "deviceSync"
    BY <1>2, <2>2
  <2>4. s[1].do = d /\ s[1].fixture = f
    BY <1>2, <2>1
  <2>5. s[3].do = "validate" /\ s[3].fixture = f
    BY <1>2, <2>1
  <2> QED BY <2>3, <2>4, <2>5
<1>4. \A i \in 1..3 : i = 1 \/ i = 2 \/ i = 3
  OBVIOUS
<1>5. Body(s)
  <2>1. \A i \in 1..3 : s[i].do \in Late
    BY <1>3, <1>4 DEF Late, RunDos
  <2>2. \A i \in 1..3 : s[i].do = "validate" => i = 3
    BY <1>3, <1>4 DEF RunDos
  <2> QED BY <1>2, <1>3, <2>1, <2>2 DEF Body
<1>6. WaitsFor(s)
  <2>1. \A i \in 1..3 : s[i].do \in RunDos => i = 1
    BY <1>3, <1>4 DEF RunDos
  <2>2. 2 \in 1..3
    OBVIOUS
  <2> QED BY <1>2, <2>1, <2>2 DEF WaitsFor
<1> QED BY <1>2, <1>5, <1>6 DEF Has, s

LEMMA OneThenTwo == \A a, b, c : <<a>> \o <<b, c>> = <<a, b, c>>
<1> SUFFICES ASSUME NEW a, NEW b, NEW c PROVE <<a>> \o <<b, c>> = <<a, b, c>>
  OBVIOUS
<1> DEFINE U == {a, b, c}
           s == <<a>>
           t == <<b, c>>
           u == <<a, b, c>>
<1>1. /\ s \in Seq(U) /\ t \in Seq(U) /\ u \in Seq(U)
      /\ Len(s) = 1 /\ Len(t) = 2 /\ Len(u) = 3
      /\ s[1] = a /\ t[1] = b /\ t[2] = c /\ u[1] = a /\ u[2] = b /\ u[3] = c
  OBVIOUS
<1> HIDE DEF s, t, u, U
<1>2. /\ s \o t \in Seq(U) /\ Len(s \o t) = 3
      /\ \A i \in 1..3 : (s \o t)[i] = IF i <= 1 THEN s[i] ELSE t[i - 1]
  <2>1. /\ s \o t \in Seq(U) /\ Len(s \o t) = Len(s) + Len(t)
        /\ \A i \in 1..(Len(s) + Len(t)) : (s \o t)[i] = IF i <= Len(s) THEN s[i] ELSE t[i - Len(s)]
    BY <1>1, ConcatProperties
  <2>2. 1 + 2 = 3
    OBVIOUS
  <2> QED BY ONLY <1>1, <2>1, <2>2
<1>3. (s \o t)[1] = a
  BY <1>1, <1>2
<1>4. (s \o t)[2] = b
  BY <1>1, <1>2
<1>5. (s \o t)[3] = c
  BY <1>1, <1>2
<1>6. \A i \in 1..3 : i = 1 \/ i = 2 \/ i = 3
  OBVIOUS
<1>7. \A i \in 1..Len(s \o t) : (s \o t)[i] = u[i]
  BY <1>1, <1>2, <1>3, <1>4, <1>5, <1>6
<1>8. s \o t = u
  BY <1>1, <1>2, <1>7, SeqEqual
<1> QED BY <1>8 DEF s, t, u

LEMMA HasConcat ==
  ASSUME NEW s \in Seq(Steps), NEW t \in Seq(Steps), NEW what, NEW f,
         Has(s, what, f) \/ Has(t, what, f)
  PROVE  Has(s \o t, what, f)
<1>1. /\ \A i \in 1..Len(s) : i \in 1..Len(s \o t) /\ (s \o t)[i] = s[i]
      /\ \A i \in 1..Len(t) : Len(s) + i \in 1..Len(s \o t) /\ (s \o t)[Len(s) + i] = t[i]
  BY ConcatSteps
<1>2. CASE Has(s, what, f)
  <2>1. PICK i \in 1..Len(s) : s[i] = Step(what, f)
    BY <1>2 DEF Has
  <2>2. i \in 1..Len(s \o t) /\ (s \o t)[i] = Step(what, f)
    BY <1>1, <2>1
  <2> QED BY <2>2 DEF Has
<1>3. CASE Has(t, what, f)
  <2>1. PICK i \in 1..Len(t) : t[i] = Step(what, f)
    BY <1>3 DEF Has
  <2>2. Len(s) + i \in 1..Len(s \o t) /\ (s \o t)[Len(s) + i] = Step(what, f)
    BY <1>1, <2>1
  <2> QED BY <2>2 DEF Has
<1> QED BY <1>2, <1>3

\* A check of the candidate runs, waits for and validates each fixture it names.
LEMMA CheckIsBody ==
  ASSUME NEW n \in Nat, n > 0, NEW fixtures \in [1..n -> Fixtures]
  PROVE  LET s == CheckCandidate(fixtures)
         IN /\ Body(s) /\ WaitsFor(s) /\ Len(s) > 0 /\ s[Len(s)] = Verify
            /\ \E i \in 1..Len(s) : s[i] = Sync
            /\ \A k \in 1..n : Has(s, "validate", fixtures[k])
<1> DEFINE seqs == [i \in DOMAIN fixtures |-> RunOn(fixtures[i]) \o <<Sync, Step("validate", fixtures[i])>>]
           T == {Chunk("run", f) : f \in Fixtures}
<1>1. \A i \in 1..n : seqs[i] = Chunk("run", fixtures[i])
  <2> SUFFICES ASSUME NEW i \in 1..n PROVE seqs[i] = Chunk("run", fixtures[i])
    OBVIOUS
  <2>1. seqs[i] = RunOn(fixtures[i]) \o <<Sync, Step("validate", fixtures[i])>>
    OBVIOUS
  <2>2. \A a, b, c : <<a>> \o <<b, c>> = <<a, b, c>>
    BY OneThenTwo
  <2> QED BY <2>1, <2>2 DEF Chunk, RunOn
<1>2. seqs \in [1..n -> T]
  BY <1>1
<1> HIDE DEF seqs, T
<1>3. PICK g : /\ g[1] = seqs[1] /\ \A i \in 2..n : g[i] = g[i - 1] \o seqs[i]
               /\ FlattenSeq(seqs) = g[n]
  BY <1>2, FlattenUnfolds
<1> DEFINE Good(s, k) == Body(s) /\ WaitsFor(s) /\ \A j \in 1..k : Has(s, "validate", fixtures[j])
           S == {k \in Nat : k + 1 \in 1..n => Good(g[k + 1], k + 1)}
<1>4. \A i \in 1..n : /\ Body(seqs[i]) /\ WaitsFor(seqs[i])
                      /\ Has(seqs[i], "validate", fixtures[i])
  BY <1>1, ChunkBody DEF RunDos
<1>5. 0 \in S
  <2>1. Good(g[1], 1)
    <3>1. 1 \in 1..n /\ \A j \in 1..1 : j = 1
      OBVIOUS
    <3> QED BY <1>3, <1>4, <3>1
  <2>2. 0 + 1 = 1
    OBVIOUS
  <2> HIDE DEF Good
  <2> QED BY <2>1, <2>2
<1>6. ASSUME NEW k \in Nat, k \in S PROVE k + 1 \in S
  <2> SUFFICES ASSUME k + 1 + 1 \in 1..n PROVE Good(g[k + 1 + 1], k + 1 + 1)
    OBVIOUS
  <2>1. k + 1 \in 1..n /\ k + 1 + 1 \in 2..n /\ (k + 1 + 1) - 1 = k + 1
    OBVIOUS
  <2>2. Good(g[k + 1], k + 1)
    BY <1>6, <2>1
  <2> DEFINE s == g[k + 1]
             t == seqs[k + 1 + 1]
  <2>3. g[k + 1 + 1] = s \o t
    BY <1>3, <2>1
  <2>4. Body(t) /\ WaitsFor(t) /\ Has(t, "validate", fixtures[k + 1 + 1])
    BY <1>4
  <2>5. Body(s) /\ WaitsFor(s) /\ \A j \in 1..(k + 1) : Has(s, "validate", fixtures[j])
    BY <2>2
  <2> HIDE DEF s, t
  <2>6. s \in Seq(Steps) /\ t \in Seq(Steps)
    BY <2>4, <2>5 DEF Body
  <2>7. Body(s \o t) /\ WaitsFor(s \o t)
    BY <2>4, <2>5, <2>6, ConcatBody, ConcatWaits
  <2>8. \A f \in Fixtures : Has(s, "validate", f) \/ Has(t, "validate", f) => Has(s \o t, "validate", f)
    BY <2>6, HasConcat
  <2>9. \A j \in 1..(k + 1 + 1) : j \in 1..(k + 1) \/ j = k + 1 + 1
    OBVIOUS
  <2>10. \A j \in 1..(k + 1 + 1) : fixtures[j] \in Fixtures
    BY <2>1
  <2>11. \A j \in 1..(k + 1 + 1) : Has(s \o t, "validate", fixtures[j])
    BY <2>4, <2>5, <2>8, <2>9, <2>10
  <2> QED BY <2>3, <2>7, <2>11
<1>7. Good(g[n], n)
  <2> HIDE DEF S, Good
  <2>1. \A k \in Nat : k \in S
    BY <1>5, <1>6, NatSetInduction
  <2>2. n - 1 \in S /\ n - 1 + 1 = n /\ n \in 1..n
    BY <2>1
  <2> QED BY <2>2 DEF S
<1> DEFINE s == g[n]
<1>8. CheckCandidate(fixtures) = s \o <<Verify>>
  BY <1>3 DEF CheckCandidate, seqs
<1>9. Body(s) /\ WaitsFor(s) /\ \A j \in 1..n : Has(s, "validate", fixtures[j])
  BY <1>7
<1> HIDE DEF s, S, Good
<1> DEFINE u == s \o <<Verify>>
<1>10. /\ s \in Seq(Steps) /\ <<Verify>> \in Seq(Steps) /\ Len(<<Verify>>) = 1 /\ <<Verify>>[1] = Verify
  BY <1>9, SingleSteps DEF Body
<1>11. /\ Len(u) = Len(s) + 1 /\ Len(s) \in Nat
       /\ \A i \in 1..Len(s) : i \in 1..Len(u) /\ u[i] = s[i]
       /\ u[Len(s) + 1] = Verify
       /\ \A i \in 1..Len(u) : i \in 1..Len(s) \/ i - Len(s) \in 1..1
  <2>1. 1 \in 1..Len(<<Verify>>)
    BY <1>10
  <2> QED BY <1>10, <2>1, ConcatSteps
<1> HIDE DEF u
<1>12. Body(u)
  BY <1>9, SingleSteps, ConcatBody DEF u
<1>13. WaitsFor(u)
  <2> SUFFICES ASSUME NEW i \in 1..Len(u), u[i].do \in RunDos PROVE \E j \in i..Len(u) : u[j] = Sync
    BY DEF WaitsFor
  <2>1. CASE i \in 1..Len(s)
    <3>1. PICK j \in i..Len(s) : s[j] = Sync
      BY <1>9, <1>11, <2>1 DEF WaitsFor
    <3>2. j \in i..Len(u) /\ j \in 1..Len(s)
      BY <1>11, <3>1, <2>1
    <3> QED BY <1>11, <3>1, <3>2
  <2>2. CASE i - Len(s) \in 1..1
    <3>1. i = Len(s) + 1
      BY <1>11, <2>2
    <3>2. u[i] = Verify /\ Verify.do = "verify"
      BY <1>11, <3>1 DEF Verify, Step
    <3> QED BY <3>2 DEF RunDos
  <2> QED BY <1>11, <2>1, <2>2
<1>14. \A j \in 1..n : Has(u, "validate", fixtures[j])
  BY <1>9, <1>11 DEF Has
<1>15. \E i \in 1..Len(u) : u[i] = Sync
  <2>1. PICK i \in 1..Len(u) : u[i] = Step("validate", fixtures[1])
    BY <1>14 DEF Has
  <2>2. i >= 3 /\ u[i - 1] = Sync
    BY <1>12, <2>1 DEF Body, Step
  <2>3. i - 1 \in 1..Len(u)
    BY <1>11, <2>2
  <2> QED BY <2>2, <2>3
<1>16. Len(u) > 0 /\ u[Len(u)] = Verify
  BY <1>11
<1> QED BY <1>8, <1>12, <1>13, <1>14, <1>15, <1>16 DEF u

\* A program is the thirteen steps up to the prepared candidate and a body that
\* ends with a check of both fixtures.
EndsWell(s) ==
  /\ Body(s) /\ WaitsFor(s) /\ Len(s) > 0 /\ s[Len(s)] = Verify
  /\ \A f \in Fixtures : Has(s, "validate", f)

LEMMA BodyThenCheck ==
  ASSUME NEW s, Body(s), NEW n \in Nat, n > 0, NEW fixtures \in [1..n -> Fixtures],
         \A f \in Fixtures : \E k \in 1..n : fixtures[k] = f
  PROVE  EndsWell(CheckCandidate(fixtures)) /\ EndsWell(s \o CheckCandidate(fixtures))
<1> DEFINE t == CheckCandidate(fixtures)
           u == s \o t
<1>1. /\ Body(t) /\ WaitsFor(t) /\ Len(t) > 0 /\ t[Len(t)] = Verify
      /\ \E i \in 1..Len(t) : t[i] = Sync
      /\ \A k \in 1..n : Has(t, "validate", fixtures[k])
  BY CheckIsBody
<1> HIDE DEF t, u
<1>2. \A f \in Fixtures : Has(t, "validate", f)
  BY <1>1
<1>3. s \in Seq(Steps) /\ t \in Seq(Steps)
  BY <1>1 DEF Body
<1>4. Body(u)
  BY <1>1, ConcatBody DEF u
<1>5. WaitsFor(u)
  BY <1>1, <1>3, ConcatWaits DEF u
<1>6. \A f \in Fixtures : Has(u, "validate", f)
  BY <1>2, <1>3, HasConcat DEF u
<1>7. Len(u) > 0 /\ u[Len(u)] = Verify
  <2>1. Len(u) = Len(s) + Len(t) /\ Len(s) \in Nat /\ Len(t) \in Nat
        /\ \A i \in 1..Len(t) : u[Len(s) + i] = t[i]
    BY <1>3, ConcatSteps DEF u
  <2>2. Len(t) \in 1..Len(t)
    BY <1>1, <2>1
  <2>3. u[Len(u)] = t[Len(t)]
    BY <2>1, <2>2
  <2>4. Len(u) > 0
    BY ONLY <1>1, <2>1
  <2> QED BY <1>1, <2>3, <2>4
<1> QED BY <1>1, <1>2, <1>4, <1>5, <1>6, <1>7 DEF EndsWell, t, u

LEMMA TwoFixtures ==
  /\ \A f \in Fixtures : f = "A" \/ f = "B"
  /\ "A" \in Fixtures /\ "B" \in Fixtures
  /\ <<"A", "B">> \in [1..2 -> Fixtures] /\ <<"B", "A">> \in [1..2 -> Fixtures]
  /\ <<"A", "B", "A">> \in [1..3 -> Fixtures]
  /\ \A k \in Int : FixtureOf(k) \in Fixtures
<1>1. \A f \in Fixtures : f = "A" \/ f = "B"
  BY DEF Fixtures
<1>2. "A" \in Fixtures /\ "B" \in Fixtures
  BY DEF Fixtures
<1>3. \A a, b \in Fixtures : <<a, b>> \in [1..2 -> Fixtures]
  OBVIOUS
<1>4. \A a, b, c \in Fixtures : <<a, b, c>> \in [1..3 -> Fixtures]
  OBVIOUS
<1>5. \A k \in Int : FixtureOf(k) \in Fixtures
  BY <1>2 DEF FixtureOf
<1> QED BY <1>1, <1>2, <1>3, <1>4, <1>5

\* The parts the programs are put together from.
LEMMA PartsAreBodies ==
  /\ \A n \in Nat : Body(WarmUp(n))
  /\ Body(MemoryPass) /\ Body(EventPass) /\ Body(KinetoPass)
<1> USE TwoFixtures
<1>0. "A" \in Fixtures /\ "B" \in Fixtures /\ EventTrials \in Nat /\ KinetoTrials \in Nat
  BY CaseAssumption
<1>1. ASSUME NEW n \in Nat
      PROVE  Body(FlattenSeq([i \in 1..n |-> RunOn(FixtureOf(i - 1))]))
  <2> DEFINE seqs == [i \in 1..n |-> RunOn(FixtureOf(i - 1))]
  <2>1. \A i \in 1..n : Body(seqs[i])
    <3>1. \A i \in 1..n : FixtureOf(i - 1) \in Fixtures
      OBVIOUS
    <3> QED BY <3>1, SingleSteps
  <2>2. seqs \in [1..n -> {seqs[i] : i \in 1..n}]
    OBVIOUS
  <2> HIDE DEF seqs
  <2>3. Body(FlattenSeq(seqs))
    BY <2>1, <2>2, FlattenBody
  <2> QED BY <2>3 DEF seqs
<1>2. ASSUME NEW n \in Nat
      PROVE  Body(FlattenSeq([i \in 1..n |-> TimedOn(FixtureOf(i - 1))]))
  <2> DEFINE seqs == [i \in 1..n |-> TimedOn(FixtureOf(i - 1))]
  <2>1. \A i \in 1..n : Body(seqs[i])
    <3>1. \A i \in 1..n : FixtureOf(i - 1) \in Fixtures
      OBVIOUS
    <3> QED BY <3>1, SingleSteps
  <2>2. seqs \in [1..n -> {seqs[i] : i \in 1..n}]
    OBVIOUS
  <2> HIDE DEF seqs
  <2>3. Body(FlattenSeq(seqs))
    BY <2>1, <2>2, FlattenBody
  <2> QED BY <2>3 DEF seqs
<1>3. ASSUME NEW n \in Nat
      PROVE  Body(FlattenSeq([i \in 1..n |-> TimedOn(FixtureOf(i - 1)) \o <<StreamSync>>]))
  <2> DEFINE seqs == [i \in 1..n |-> TimedOn(FixtureOf(i - 1)) \o <<StreamSync>>]
  <2>1. \A i \in 1..n : Body(seqs[i])
    <3>1. \A i \in 1..n : FixtureOf(i - 1) \in Fixtures
      OBVIOUS
    <3>2. \A i \in 1..n : Body(TimedOn(FixtureOf(i - 1)) \o <<StreamSync>>)
      BY <3>1, SingleSteps, ConcatBody
    <3> QED BY <3>2
  <2>2. seqs \in [1..n -> {seqs[i] : i \in 1..n}]
    OBVIOUS
  <2> HIDE DEF seqs
  <2>3. Body(FlattenSeq(seqs))
    BY <2>1, <2>2, FlattenBody
  <2> QED BY <2>3 DEF seqs
<1>4. \A n \in Nat : Body(WarmUp(n))
  BY <1>1, SingleSteps, ConcatBody DEF WarmUp
<1>5. Body(MemoryPass)
  BY SingleSteps, ConcatBody DEF MemoryPass
<1>6. Body(EventPass)
  BY <1>0, <1>3, SingleSteps, ConcatBody DEF EventPass
<1>7. Body(KinetoPass)
  <2>1. Body(RunOn("A") \o <<StreamSync>>)
    BY SingleSteps, ConcatBody
  <2>2. Body(RunOn("A") \o <<StreamSync>> \o FlattenSeq([i \in 1..KinetoTrials |-> RunOn(FixtureOf(i - 1))]))
    BY <1>0, <1>1, <2>1, ConcatBody
  <2>3. Body(RunOn("A") \o <<StreamSync>> \o FlattenSeq([i \in 1..KinetoTrials |-> RunOn(FixtureOf(i - 1))])
               \o FlattenSeq([i \in 1..KinetoTrials |-> TimedOn(FixtureOf(i - 1))]))
    BY <1>0, <1>2, <2>2, ConcatBody
  <2> QED BY <2>3, SingleSteps, ConcatBody DEF KinetoPass
<1> QED BY <1>4, <1>5, <1>6, <1>7

LEMMA ProgramEndsWell ==
  ASSUME NEW command \in Commands
  PROVE  \E s : EndsWell(s) /\ ProgramOf(command) = Prelude \o s
<1> DEFINE ab == CheckCandidate(<<"A", "B">>)
           ba == CheckCandidate(<<"B", "A">>)
<1>1. command \in {"correctness", "benchmark", "profile"} /\ WarmUps \in Nat
  BY CaseAssumption
<1> DEFINE abs == <<"A", "B">>
           bas == <<"B", "A">>
           abas == <<"A", "B", "A">>
<1>2. /\ abs \in [1..2 -> Fixtures] /\ bas \in [1..2 -> Fixtures] /\ abas \in [1..3 -> Fixtures]
      /\ abs[1] = "A" /\ abs[2] = "B" /\ bas[1] = "B" /\ bas[2] = "A" /\ abas[1] = "A" /\ abas[2] = "B"
  BY TwoFixtures
<1> HIDE DEF abs, bas, abas
<1>3. Body(ab) /\ \A s : Body(s) => EndsWell(s \o ba)
  <2>0. PICK n : n = 2
    OBVIOUS
  <2>1. n \in Nat /\ n > 0 /\ abs \in [1..n -> Fixtures] /\ bas \in [1..n -> Fixtures] /\ 1 \in 1..n /\ 2 \in 1..n
    BY <1>2, <2>0
  <2>2. \A f \in Fixtures : (\E k \in 1..n : abs[k] = f) /\ (\E k \in 1..n : bas[k] = f)
    BY <1>2, <2>1, TwoFixtures
  <2>3. EndsWell(CheckCandidate(abs))
    <3>1. Body(<<Sync>>)
      BY SingleSteps
    <3> QED BY ONLY <2>1, <2>2, <3>1, BodyThenCheck
  <2>4. \A s : Body(s) => EndsWell(s \o CheckCandidate(bas))
    BY ONLY <2>1, <2>2, BodyThenCheck
  <2> QED BY <2>3, <2>4 DEF EndsWell, abs, bas
<1>5. EndsWell(CheckCandidate(<<"A", "B", "A">>))
  <2>0. PICK n : n = 3
    OBVIOUS
  <2>1. n \in Nat /\ n > 0 /\ abas \in [1..n -> Fixtures] /\ 1 \in 1..n /\ 2 \in 1..n
    BY <1>2, <2>0
  <2>2. \A f \in Fixtures : \E k \in 1..n : abas[k] = f
    BY <1>2, <2>1, TwoFixtures
  <2>3. Body(<<Sync>>)
    BY SingleSteps
  <2>4. EndsWell(CheckCandidate(abas))
    BY ONLY <2>1, <2>2, <2>3, BodyThenCheck
  <2> QED BY <2>4 DEF abas
<1> HIDE DEF ab, ba
<1>6. CASE command = "correctness"
  <2>1. ProgramOf(command) = Prelude \o CheckCandidate(<<"A", "B", "A">>)
    BY <1>6 DEF ProgramOf
  <2> QED BY <1>5, <2>1
<1>7. CASE command = "benchmark"
  <2> DEFINE s == <<StreamSync>> \o WarmUp(WarmUps) \o ab \o MemoryPass \o EventPass \o KinetoPass
  <2>1. Body(<<StreamSync>> \o WarmUp(WarmUps) \o ab)
    BY <1>1, <1>3, SingleSteps, PartsAreBodies, ConcatBody
  <2>2. Body(<<StreamSync>> \o WarmUp(WarmUps) \o ab \o MemoryPass \o EventPass)
    BY <2>1, PartsAreBodies, ConcatBody
  <2>3. Body(s)
    BY <2>2, PartsAreBodies, ConcatBody
  <2>4. ProgramOf(command) = Prelude \o (s \o ba)
    BY <1>7 DEF ProgramOf, ab, ba
  <2> QED BY <1>3, <2>3, <2>4
<1>8. CASE command = "profile"
  <2> DEFINE w == WarmUp(WarmUps) \o ab \o <<Sync>>
             s == w \o TimedOn("A") \o <<Sync, Step("validate", "A")>>
  <2>1. Body(w)
    BY <1>1, <1>3, SingleSteps, PartsAreBodies, ConcatBody
  <2>2. Body(Chunk("timedRun", "A"))
    BY TwoFixtures, ChunkBody DEF RunDos
  <2>3. s = w \o Chunk("timedRun", "A")
    <3>1. TimedOn("A") \o <<Sync, Step("validate", "A")>> = Chunk("timedRun", "A")
      BY OneThenTwo DEF TimedOn, Chunk
    <3>2. w \in Seq(Steps) /\ TimedOn("A") \in Seq(Steps)
      BY <2>1, TwoFixtures, SingleSteps DEF Body
    <3>3. <<Sync, Step("validate", "A")>> \in Seq(Steps)
      <4>1. Sync \in Steps /\ Step("validate", "A") \in Steps
        BY TwoFixtures DEF Step, Sync, Steps, Dos
      <4> QED BY <4>1
    <3> DEFINE x == TimedOn("A")
               y == <<Sync, Step("validate", "A")>>
    <3>4. w \in Seq(Steps) /\ x \in Seq(Steps) /\ y \in Seq(Steps) /\ x \o y = Chunk("timedRun", "A")
      BY <3>1, <3>2, <3>3
    <3>5. s = (w \o x) \o y
      OBVIOUS
    <3> HIDE DEF w, x, y, s
    <3>6. (w \o x) \o y = w \o (x \o y)
      <4>1. \A a, b, c \in Seq(Steps) : (a \o b) \o c = a \o (b \o c)
        <5> SUFFICES ASSUME NEW a \in Seq(Steps), NEW b \in Seq(Steps), NEW c \in Seq(Steps)
                     PROVE  (a \o b) \o c = a \o (b \o c)
          OBVIOUS
        <5> HIDE DEF Steps
        <5> QED BY ConcatAssociative
      <4> QED BY ONLY <3>4, <4>1, Zenon
    <3> QED BY ONLY <3>4, <3>5, <3>6
  <2>4. Body(s)
    BY <2>1, <2>2, <2>3, ConcatBody
  <2>5. ProgramOf(command) = Prelude \o (s \o ba)
    BY <1>8 DEF ProgramOf, ab, ba
  <2> QED BY <1>3, <2>4, <2>5
<1> QED BY <1>1, <1>6, <1>7, <1>8

LEMMA ConcatAt ==
  ASSUME NEW s \in Seq(Steps), NEW t \in Seq(Steps), NEW u, u = s \o t
  PROVE  /\ u \in Seq(Steps) /\ Len(u) = Len(s) + Len(t)
         /\ \A i \in 1..Len(s) : u[i] = s[i]
         /\ \A i \in Int, k \in 1..Len(t) : i = Len(s) + k => u[i] = t[k]
BY ConcatSteps

LEMMA ShortSequences ==
  /\ \A a \in Steps : <<a>> \in Seq(Steps) /\ Len(<<a>>) = 1 /\ <<a>>[1] = a
  /\ \A a, b, c \in Steps : LET s == <<a, b, c>> IN
       s \in Seq(Steps) /\ Len(s) = 3 /\ s[1] = a /\ s[2] = b /\ s[3] = c
  /\ \A a, b, c, d \in Steps : LET s == <<a, b, c, d>> IN
       s \in Seq(Steps) /\ Len(s) = 4 /\ s[1] = a /\ s[2] = b /\ s[3] = c /\ s[4] = d
<1>1. \A a \in Steps : <<a>> \in Seq(Steps) /\ Len(<<a>>) = 1 /\ <<a>>[1] = a
  OBVIOUS
<1>2. ASSUME NEW a \in Steps, NEW b \in Steps, NEW c \in Steps
      PROVE  LET s == <<a, b, c>> IN
               s \in Seq(Steps) /\ Len(s) = 3 /\ s[1] = a /\ s[2] = b /\ s[3] = c
  OBVIOUS
<1>3. ASSUME NEW a \in Steps, NEW b \in Steps, NEW c \in Steps, NEW d \in Steps
      PROVE  LET s == <<a, b, c, d>> IN
               s \in Seq(Steps) /\ Len(s) = 4 /\ s[1] = a /\ s[2] = b /\ s[3] = c /\ s[4] = d
  OBVIOUS
<1> QED BY <1>1, <1>2, <1>3

\* The first step.
Creation == Step("create", "")

LEMMA PreludeSteps ==
  /\ Prelude \in Seq(Steps) /\ Len(Prelude) = 13
  /\ Prelude[1] = Creation
  /\ Prelude[2] = Step("reference", "A") /\ Prelude[3] = Sync
  /\ Prelude[4] = Step("clone", "A") /\ Prelude[5] = Step("judge", "A")
  /\ Prelude[6] = Step("reference", "B") /\ Prelude[7] = Sync
  /\ Prelude[8] = Step("clone", "B") /\ Prelude[9] = Step("judge", "B")
  /\ Prelude[10] = Verify
  /\ Prelude[11] = Step("prepare", "A") /\ Prelude[12] = Sync /\ Prelude[13] = Verify
<1> DEFINE four(f) == <<Step("reference", f), Sync, Step("clone", f), Step("judge", f)>>
           seqs == [i \in 1..2 |-> LET f == FixtureOf(i - 1) IN four(f)]
<1>1. /\ Sync \in Steps /\ Verify \in Steps /\ Creation \in Steps
      /\ \A f \in Fixtures : /\ Step("reference", f) \in Steps /\ Step("clone", f) \in Steps
                             /\ Step("judge", f) \in Steps /\ Step("prepare", f) \in Steps
  BY DEF Creation, Step, Sync, Verify, Steps, Dos
<1>2. \A f \in Fixtures : /\ four(f) \in Seq(Steps) /\ Len(four(f)) = 4
                          /\ four(f)[1] = Step("reference", f) /\ four(f)[2] = Sync
                          /\ four(f)[3] = Step("clone", f) /\ four(f)[4] = Step("judge", f)
  BY <1>1, ShortSequences
<1>3. "A" \in Fixtures /\ "B" \in Fixtures
  BY TwoFixtures
<1> HIDE DEF four
<1>4. seqs[1] = four("A") /\ seqs[2] = four("B") /\ seqs \in [1..2 -> {four("A"), four("B")}]
  <2>1. FixtureOf(1 - 1) = "A" /\ FixtureOf(2 - 1) = "B"
    BY DEF FixtureOf
  <2>2. \A i \in 1..2 : i = 1 \/ i = 2
    OBVIOUS
  <2> QED BY <2>1, <2>2
<1>5. FlattenSeq(seqs) = four("A") \o four("B")
  <2> HIDE DEF seqs
  <2>0. PICK n : n = 2
    OBVIOUS
  <2>1. n \in Nat /\ n > 0 /\ seqs \in [1..n -> {four("A"), four("B")}]
    BY <1>4, <2>0
  <2>2. PICK g : /\ g[1] = seqs[1] /\ \A i \in 2..n : g[i] = g[i - 1] \o seqs[i]
                 /\ FlattenSeq(seqs) = g[n]
    BY ONLY <2>1, FlattenUnfolds
  <2>3. n \in 2..n /\ n - 1 = 1
    BY <2>0
  <2>4. g[n] = g[n - 1] \o seqs[n]
    BY <2>2, <2>3
  <2> QED BY <1>4, <2>0, <2>2, <2>3, <2>4
<1> DEFINE both == four("A") \o four("B")
           oracles == both \o <<Verify>>
           head == <<Creation>>
           first == head \o oracles
           last == <<Step("prepare", "A"), Sync, Verify>>
<1>6. BuildOracles = oracles
  <2>1. BuildOracles = FlattenSeq(seqs) \o <<Verify>>
    BY DEF BuildOracles, four
  <2> HIDE DEF seqs
  <2> QED BY <1>5, <2>1
<1>7. Prelude = first \o last
  BY <1>6 DEF Creation, Prelude, CreateFixtures, PrepareCandidate
<1>8. /\ both \in Seq(Steps) /\ Len(both) = 8
      /\ both[1] = Step("reference", "A") /\ both[2] = Sync
      /\ both[3] = Step("clone", "A") /\ both[4] = Step("judge", "A")
      /\ both[5] = Step("reference", "B") /\ both[6] = Sync
      /\ both[7] = Step("clone", "B") /\ both[8] = Step("judge", "B")
  <2> DEFINE a == four("A")
             b == four("B")
  <2>1. /\ a \in Seq(Steps) /\ b \in Seq(Steps) /\ Len(a) = 4 /\ Len(b) = 4
    BY <1>2, <1>3
  <2>2. both = a \o b /\ a = four("A") /\ b = four("B")
    OBVIOUS
  <2> HIDE DEF a, b, both
  <2>3. /\ both \in Seq(Steps) /\ Len(both) = Len(a) + Len(b)
        /\ \A i \in 1..Len(a) : both[i] = a[i]
        /\ \A i \in Int, k \in 1..Len(b) : i = Len(a) + k => both[i] = b[k]
    <3>1. a \in Seq(Steps) /\ b \in Seq(Steps) /\ both = a \o b
      BY ONLY <2>1, <2>2
    <3> QED BY ONLY <3>1, ConcatAt
  <2>4. /\ Len(both) = 4 + 4
        /\ \A i \in 1..4 : both[i] = a[i]
        /\ \A i \in Int, k \in 1..4 : i = 4 + k => both[i] = b[k]
    <3>1. Len(a) = 4 /\ Len(b) = 4
      BY ONLY <2>1, <2>2
    <3> QED BY ONLY <2>3, <3>1
  <2>5. /\ both[5] = b[1] /\ both[6] = b[2] /\ both[7] = b[3] /\ both[8] = b[4]
        /\ both[1] = a[1] /\ both[2] = a[2] /\ both[3] = a[3] /\ both[4] = a[4] /\ Len(both) = 8
    BY ONLY <2>4
  <2> QED BY <1>2, <1>3, <2>2, <2>3, <2>5
<1> HIDE DEF both
<1>9. /\ oracles \in Seq(Steps) /\ Len(oracles) = 9 /\ oracles[9] = Verify
      /\ \A i \in 1..8 : oracles[i] = both[i]
  <2> DEFINE v == <<Verify>>
  <2>1. v \in Seq(Steps) /\ Len(v) = 1 /\ v[1] = Verify
    BY <1>1, ShortSequences
  <2>2. oracles = both \o v
    OBVIOUS
  <2> HIDE DEF v, oracles
  <2>3. /\ oracles \in Seq(Steps) /\ Len(oracles) = Len(both) + Len(v)
        /\ \A i \in 1..Len(both) : oracles[i] = both[i]
        /\ \A i \in Int, k \in 1..Len(v) : i = Len(both) + k => oracles[i] = v[k]
    <3>1. both \in Seq(Steps) /\ v \in Seq(Steps) /\ oracles = both \o v
      BY ONLY <1>8, <2>1, <2>2
    <3> QED BY ONLY <3>1, ConcatAt
  <2>4. /\ Len(oracles) = 8 + 1
        /\ \A i \in 1..8 : oracles[i] = both[i]
        /\ \A i \in Int, k \in 1..1 : i = 8 + k => oracles[i] = v[k]
    <3>1. Len(both) = 8 /\ Len(v) = 1
      BY ONLY <1>8, <2>1, <2>2
    <3> QED BY ONLY <2>3, <3>1
  <2>5. oracles[9] = v[1] /\ Len(oracles) = 9
    BY ONLY <2>4
  <2> QED BY <2>1, <2>3, <2>4, <2>5
<1> HIDE DEF oracles
<1>10. /\ first \in Seq(Steps) /\ Len(first) = 10 /\ first[1] = Creation
       /\ \A i \in Int, k \in 1..9 : i = 1 + k => first[i] = oracles[k]
  <2>1. head \in Seq(Steps) /\ Len(head) = 1 /\ head[1] = Creation
    BY <1>1, ShortSequences
  <2>2. first = head \o oracles
    OBVIOUS
  <2> HIDE DEF head, first
  <2>3. /\ first \in Seq(Steps) /\ Len(first) = Len(head) + Len(oracles)
        /\ \A i \in 1..Len(head) : first[i] = head[i]
        /\ \A i \in Int, k \in 1..Len(oracles) : i = Len(head) + k => first[i] = oracles[k]
    <3>1. head \in Seq(Steps) /\ oracles \in Seq(Steps) /\ first = head \o oracles
      BY ONLY <1>9, <2>1, <2>2
    <3> QED BY ONLY <3>1, ConcatAt
  <2>4. /\ Len(first) = 1 + 9
        /\ \A i \in 1..1 : first[i] = head[i]
        /\ \A i \in Int, k \in 1..9 : i = 1 + k => first[i] = oracles[k]
    <3>1. Len(head) = 1 /\ Len(oracles) = 9
      BY ONLY <1>9, <2>1, <2>2
    <3> QED BY ONLY <2>3, <3>1
  <2>5. first[1] = head[1] /\ Len(first) = 10
    BY ONLY <2>4
  <2> QED BY <2>1, <2>3, <2>4, <2>5
<1> HIDE DEF first
<1> DEFINE whole == first \o last
<1>11. /\ whole \in Seq(Steps) /\ Len(whole) = 13
       /\ \A i \in 1..10 : whole[i] = first[i]
       /\ whole[11] = Step("prepare", "A") /\ whole[12] = Sync /\ whole[13] = Verify
  <2>1. last \in Seq(Steps) /\ Len(last) = 3 /\ last[1] = Step("prepare", "A") /\ last[2] = Sync /\ last[3] = Verify
    BY <1>1, <1>3, ShortSequences
  <2>2. whole = first \o last
    OBVIOUS
  <2> HIDE DEF last, whole
  <2>3. /\ whole \in Seq(Steps) /\ Len(whole) = Len(first) + Len(last)
        /\ \A i \in 1..Len(first) : whole[i] = first[i]
        /\ \A i \in Int, k \in 1..Len(last) : i = Len(first) + k => whole[i] = last[k]
    <3>1. first \in Seq(Steps) /\ last \in Seq(Steps) /\ whole = first \o last
      BY ONLY <1>10, <2>1, <2>2
    <3> QED BY ONLY <3>1, ConcatAt
  <2>4. /\ Len(whole) = 10 + 3
        /\ \A i \in 1..10 : whole[i] = first[i]
        /\ \A i \in Int, k \in 1..3 : i = 10 + k => whole[i] = last[k]
    <3>1. Len(first) = 10 /\ Len(last) = 3
      BY ONLY <1>10, <2>1, <2>2
    <3> QED BY ONLY <2>3, <3>1
  <2>5. whole[11] = last[1] /\ whole[12] = last[2] /\ whole[13] = last[3] /\ Len(whole) = 13
    BY ONLY <2>4
  <2> QED BY <2>1, <2>3, <2>4, <2>5
<1> HIDE DEF last, whole
<1>12. /\ first[2] = oracles[1] /\ first[3] = oracles[2] /\ first[4] = oracles[3] /\ first[5] = oracles[4]
       /\ first[6] = oracles[5] /\ first[7] = oracles[6] /\ first[8] = oracles[7] /\ first[9] = oracles[8]
       /\ first[10] = oracles[9]
  BY ONLY <1>10
<1>13. /\ oracles[1] = both[1] /\ oracles[2] = both[2] /\ oracles[3] = both[3] /\ oracles[4] = both[4]
       /\ oracles[5] = both[5] /\ oracles[6] = both[6] /\ oracles[7] = both[7] /\ oracles[8] = both[8]
  BY ONLY <1>9
<1>14. Prelude = whole
  BY <1>7 DEF whole
<1>15. /\ whole[1] = first[1] /\ whole[2] = first[2] /\ whole[3] = first[3] /\ whole[4] = first[4] /\ whole[5] = first[5]
       /\ whole[6] = first[6] /\ whole[7] = first[7] /\ whole[8] = first[8] /\ whole[9] = first[9] /\ whole[10] = first[10]
  BY ONLY <1>11
<1>16. /\ Prelude[1] = Creation /\ Prelude[10] = Verify
       /\ Prelude[2] = both[1] /\ Prelude[3] = both[2] /\ Prelude[4] = both[3] /\ Prelude[5] = both[4]
       /\ Prelude[6] = both[5] /\ Prelude[7] = both[6] /\ Prelude[8] = both[7] /\ Prelude[9] = both[8]
  BY <1>9, <1>10, <1>12, <1>13, <1>14, <1>15
<1> QED BY <1>8, <1>11, <1>14, <1>16

\* What a program starts with, and that it is of the shape its rest keeps.
LEMMA ProgramShape ==
  ASSUME NEW command \in Commands
  PROVE  LET p == ProgramOf(command)
         IN /\ Shape(p) /\ Len(p) > 13
            /\ p[1] = Creation /\ p[2] = Step("reference", "A") /\ p[3] = Sync
            /\ \A f \in Fixtures : Has(p, "judge", f) /\ Has(p, "validate", f)
<1>1. PICK s : EndsWell(s) /\ ProgramOf(command) = Prelude \o s
  BY ProgramEndsWell
<1> DEFINE u == Prelude \o s
<1>0. PICK n : n = 13
  OBVIOUS
<1>2. s \in Seq(Steps) /\ Len(s) > 0
  BY <1>1 DEF EndsWell, Body
<1>3. /\ u \in Seq(Steps) /\ n \in Nat /\ Len(s) \in Nat /\ Len(u) = n + Len(s)
      /\ \A i \in 1..n : i \in 1..Len(u) /\ u[i] = Prelude[i]
      /\ \A i \in 1..Len(s) : n + i \in 1..Len(u) /\ u[n + i] = s[i]
      /\ \A i \in 1..Len(u) : i \in 1..n \/ i - n \in 1..Len(s)
  <2> HIDE DEF u
  <2>1. Prelude \in Seq(Steps) /\ Len(Prelude) = n /\ u = Prelude \o s
    BY <1>0, PreludeSteps DEF u
  <2>2. /\ u \in Seq(Steps) /\ Len(Prelude) \in Nat /\ Len(s) \in Nat /\ Len(u) = Len(Prelude) + Len(s)
        /\ \A i \in 1..Len(Prelude) : i \in 1..Len(u) /\ u[i] = Prelude[i]
        /\ \A i \in 1..Len(s) : Len(Prelude) + i \in 1..Len(u) /\ u[Len(Prelude) + i] = s[i]
        /\ \A i \in 1..Len(u) : i \in 1..Len(Prelude) \/ i - Len(Prelude) \in 1..Len(s)
    <3> HIDE DEF u
    <3>1. Prelude \in Seq(Steps) /\ s \in Seq(Steps) /\ u = Prelude \o s
      BY <1>2, <2>1
    <3> QED BY ONLY <3>1, ConcatSteps
  <2> HIDE DEF u
  <2> QED BY ONLY <2>1, <2>2
<1> HIDE DEF u
<1>4. /\ u[1] = Creation
      /\ u[2] = Step("reference", "A") /\ u[3] = Sync
      /\ u[4] = Step("clone", "A") /\ u[5] = Step("judge", "A")
      /\ u[6] = Step("reference", "B") /\ u[7] = Sync
      /\ u[8] = Step("clone", "B") /\ u[9] = Step("judge", "B")
      /\ u[10] = Verify
      /\ u[11] = Step("prepare", "A") /\ u[12] = Sync /\ u[13] = Verify
  <2>1. \A i \in {1, 2, 3, 4, 5, 6, 7, 8, 9, 10, 11, 12, 13} : i \in 1..n
    BY <1>0
  <2>2. \A i \in {1, 2, 3, 4, 5, 6, 7, 8, 9, 10, 11, 12, 13} : u[i] = Prelude[i]
    BY <1>3, <2>1
  <2> QED BY <2>2, PreludeSteps
<1>5. \A d, f : Step(d, f).do = d /\ Step(d, f).fixture = f
  BY DEF Step
<1>6. Sync.do = "deviceSync" /\ Verify.do = "verify" /\ Creation.do = "create"
  BY DEF Creation, Sync, Verify, Step
<1>7. /\ u[1].do = "create" /\ u[2].do = "reference" /\ u[3].do = "deviceSync" /\ u[4].do = "clone"
      /\ u[5].do = "judge" /\ u[6].do = "reference" /\ u[7].do = "deviceSync" /\ u[8].do = "clone"
      /\ u[9].do = "judge" /\ u[10].do = "verify" /\ u[11].do = "prepare" /\ u[12].do = "deviceSync"
      /\ u[13].do = "verify"
      /\ u[4].fixture = "A" /\ u[5].fixture = "A" /\ u[8].fixture = "B" /\ u[9].fixture = "B"
  BY <1>4, <1>5, <1>6
<1>8. \A i \in 1..n : /\ i \in Int
                      /\ \/ i = 1 \/ i = 2 \/ i = 3 \/ i = 4 \/ i = 5 \/ i = 6 \/ i = 7
                         \/ i = 8 \/ i = 9 \/ i = 10 \/ i = 11 \/ i = 12 \/ i = 13
  BY <1>0
<1>9. ASSUME NEW i \in 1..Len(u), i \notin 1..n
      PROVE  \E k \in 1..Len(s) : i = n + k /\ u[i] = s[k] /\ s[k].do \in Late
  <2>1. i - n \in 1..Len(s) /\ i = n + (i - n)
    BY <1>3, <1>9
  <2> QED BY <1>1, <1>3, <2>1 DEF EndsWell, Body
<1>10. EndsChecked(u)
  <2>1. u[Len(u)] = Verify
    <3>1. Len(s) \in 1..Len(s)
      BY <1>2, <1>3
    <3> QED BY <1>1, <1>3, <3>1 DEF EndsWell
  <2>2. ASSUME NEW i \in 1..Len(u), u[i].do \in {"prepare"} \cup RunDos
        PROVE  \E j \in i..Len(u) : u[j] = Sync
    <3>1. CASE i \in 1..n
      <4>1. i = 11
        BY <1>7, <1>8, <2>2, <3>1 DEF RunDos
      <4>2. 12 \in i..Len(u)
        BY <1>0, <1>3, <4>1
      <4> QED BY <1>4, <4>2
    <3>2. CASE i \notin 1..n
      <4>1. PICK k \in 1..Len(s) : i = n + k /\ u[i] = s[k] /\ s[k].do \in Late
        BY <1>9, <3>2
      <4>2. s[k].do \in RunDos
        BY <2>2, <4>1 DEF Late, RunDos
      <4>3. PICK j \in k..Len(s) : s[j] = Sync
        BY <1>1, <4>2 DEF EndsWell, WaitsFor
      <4>4. j \in 1..Len(s) /\ n + j \in i..Len(u)
        BY <1>3, <4>1, <4>3
      <4> QED BY <1>3, <4>3, <4>4
    <3> QED BY <3>1, <3>2
  <2> QED BY <2>1, <2>2 DEF EndsChecked
<1>11. InOrder(u)
  <2>1. ASSUME NEW i \in 1..Len(u), NEW j \in 1..Len(u), i < j,
               u[i].do \in {"prepare", "validate"} \cup RunDos
        PROVE  u[j].do \notin Early
    <3>1. i >= 11
      <4>1. CASE i \in 1..n
        <5>1. \A k \in {1, 2, 3, 4, 5, 6, 7, 8, 9, 10} :
                u[k].do \in {"create", "reference", "deviceSync", "clone", "judge", "verify"}
          BY <1>7
        <5>2. u[i].do \notin {"create", "reference", "deviceSync", "clone", "judge", "verify"}
          BY <2>1 DEF RunDos
        <5>3. i \in {1, 2, 3, 4, 5, 6, 7, 8, 9, 10, 11, 12, 13}
          BY <1>8, <4>1
        <5>4. i \in {11, 12, 13}
          BY <5>1, <5>2, <5>3
        <5> QED BY <5>4
      <4>2. CASE i \notin 1..n
        <5>1. Len(u) \in Int /\ n = 13
          BY <1>0, <1>3
        <5> QED BY <4>2, <5>1
      <4> QED BY <4>1, <4>2
    <3>2. CASE j \in 1..n
      <4>1. j = 12 \/ j = 13
        BY <1>8, <2>1, <3>1, <3>2
      <4> QED BY <1>7, <4>1 DEF Early
    <3>3. CASE j \notin 1..n
      BY <1>9, <3>3 DEF Early, Late, RunDos
    <3> QED BY <3>2, <3>3
  <2>2. ASSUME NEW i \in 1..Len(u), u[i].do = "clone"
        PROVE  i + 1 <= Len(u) /\ u[i + 1] = Step("judge", u[i].fixture)
    <3>1. i \in 1..n
      BY <1>9, <2>2 DEF Late, RunDos
    <3>2. i = 4 \/ i = 8
      BY <1>7, <1>8, <2>2, <3>1
    <3> QED BY <1>0, <1>3, <1>4, <1>7, <3>2
  <2>3. ASSUME NEW i \in 1..Len(u), u[i].do = "prepare"
        PROVE  i + 2 <= Len(u) /\ u[i + 1] = Sync /\ u[i + 2] = Verify
    <3>1. i \in 1..n
      BY <1>9, <2>3 DEF Late, RunDos
    <3>2. i = 11
      BY <1>7, <1>8, <2>3, <3>1
    <3> QED BY <1>0, <1>3, <1>4, <3>2
  <2> QED BY <2>1, <2>2, <2>3 DEF InOrder
<1>12. JudgesLatest(u)
  <2> SUFFICES ASSUME NEW i \in 1..Len(u), u[i].do = "judge"
               PROVE  /\ i > 1 => u[i - 1].do = "clone"
                      /\ i > 2 => u[i - 2] = Sync
                      /\ i > 3 => u[i - 3] = Step("reference", u[i].fixture)
    BY DEF JudgesLatest
  <2>1. i \in 1..n
    BY <1>9 DEF Late, RunDos
  <2>2. i = 5 \/ i = 9
    BY <1>7, <1>8, <2>1
  <2> QED BY <1>4, <1>7, <2>2
<1>13. ValidatesLatest(u)
  <2> SUFFICES ASSUME NEW i \in 1..Len(u), u[i].do = "validate"
               PROVE  u[i - 1] = Sync /\ u[i - 2].do \in RunDos /\ u[i - 2].fixture = u[i].fixture
    BY DEF ValidatesLatest
  <2>1. i \notin 1..n
    BY <1>7, <1>8
  <2>2. PICK k \in 1..Len(s) : i = n + k /\ u[i] = s[k]
    BY <1>9, <2>1
  <2>3. k >= 3 /\ s[k - 1] = Sync /\ s[k - 2].do \in RunDos /\ s[k - 2].fixture = s[k].fixture
    BY <1>1, <2>2 DEF EndsWell, Body
  <2>4. k - 1 \in 1..Len(s) /\ k - 2 \in 1..Len(s) /\ n + (k - 1) = i - 1 /\ n + (k - 2) = i - 2
    <3>1. PICK m : m = Len(s)
      OBVIOUS
    <3>2. m \in Nat /\ k \in 1..m /\ n \in Nat /\ k >= 3 /\ i = n + k
      BY <1>3, <2>2, <2>3, <3>1
    <3>3. k - 1 \in 1..m /\ k - 2 \in 1..m
      BY ONLY <3>2
    <3>4. n + (k - 1) = i - 1 /\ n + (k - 2) = i - 2
      BY ONLY <3>2
    <3> QED BY ONLY <3>1, <3>3, <3>4
  <2>5. u[i - 1] = s[k - 1] /\ u[i - 2] = s[k - 2]
    BY <1>3, <2>4
  <2> QED BY <2>2, <2>3, <2>5
<1>14. Shape(u)
  BY <1>3, <1>10, <1>11, <1>12, <1>13 DEF Shape
<1>15. \A f \in Fixtures : Has(u, "judge", f) /\ Has(u, "validate", f)
  <2>1. Has(u, "judge", "A") /\ Has(u, "judge", "B")
    <3>1. 5 \in 1..Len(u) /\ 9 \in 1..Len(u)
      BY <1>0, <1>3
    <3> QED BY <1>4, <3>1 DEF Has
  <2>2. ASSUME NEW f \in Fixtures PROVE Has(u, "validate", f)
    <3>1. Has(s, "validate", f)
      BY <1>1 DEF EndsWell
    <3> QED BY <1>2, <3>1, PreludeSteps, HasConcat DEF u
  <2> QED BY <2>1, <2>2, TwoFixtures
<1>16. Len(u) > 13
  BY <1>0, <1>2, <1>3
<1> QED BY <1>1, <1>4, <1>14, <1>15, <1>16 DEF u

---------------------------------------------------------------------------
(* The state.  A completed case's verdict rests on what each stream still    *)
(* holds at every step of the host, which the following say one by one.      *)

ScoreRows == [Rows(Case) -> [Keys(Case) -> Nat]]
Buffers == Fixtures \cup {"reference", "candidate"}
Operations == [what : {"reference", "clone", "prepare", "candidate"}, fixture : Fixtures, timed : BOOLEAN]
Writers == {"prepare", "candidate"}
CandidateStream == plugins.candidate.stream

\* What the device holds, and which operations which stream does.
CaseTyped ==
  /\ created \in [Fixtures -> Contents] /\ plugins.candidate \in Candidates
  /\ IsRecord(memory, {"input", "logits", "cache", "indices"})
  /\ DOMAIN memory.input = Fixtures /\ DOMAIN memory.indices = Buffers
  /\ \A f \in Fixtures : memory.input[f] \in {created[f], Spoilt}
  /\ IsIds(memory.cache, Case) /\ \A b \in Buffers : IsIds(memory.indices[b], Case)
  /\ queue \in [Streams -> Seq(Operations)]
  /\ \A s \in Streams : \A i \in 1..Len(queue[s]) :
       /\ queue[s][i].what \in Writers => s = CandidateStream
       /\ queue[s][i].what \notin Writers => s = "main"
  /\ keeps = [f \in Fixtures |-> f]
  /\ DOMAIN ties = Fixtures
  /\ Shape(program)

NoneQueued(whats) == \A s \in Streams : \A i \in 1..Len(queue[s]) : queue[s][i].what \notin whats
LastIs(s, what, f) ==
  queue[s] # <<>> /\ queue[s][Len(queue[s])].what = what /\ queue[s][Len(queue[s])].fixture = f
NextIs(i, what, f) == i \in 1..Len(program) /\ program[i] = Step(what, f)

\* Until the candidate is prepared nothing writes the inputs.
Fresh ==
  (\E i \in 1..Len(program) : program[i].do \in Early) =>
    /\ memory.input = created /\ NoneQueued(Writers) /\ timed = {}
    /\ \A f \in Fixtures : Has(program, "validate", f)

\* The scores are those of the fixture that is judged next.
Scored(f) == NoneQueued({"reference"}) /\ memory.logits = created[f]
JudgesRight ==
  \A f \in Fixtures :
    /\ NextIs(1, "judge", f) \/ NextIs(2, "judge", f) => Scored(f)
    /\ NextIs(3, "judge", f) => LastIs("main", "reference", f) \/ Scored(f)
    /\ (\E i \in 1..Len(queue["main"]) :
          queue["main"][i].what = "clone" /\ queue["main"][i].fixture = f) => Has(program, "judge", f)

\* What was judged stays what it was.
Judged ==
  \A f \in Fixtures : ~Has(program, "judge", f) =>
    /\ ties[f] = OracleOf(created[f], Case)
    /\ OracleBuilds("tensor", created[f], memory.indices[f], Case)

\* The preparation is waited for before anything runs.
PreparesFirst ==
  ~NoneQueued({"prepare"}) =>
    /\ Len(program) >= 2 /\ program[1] = Sync /\ program[2] = Verify
    /\ timed = {} /\ NoneQueued({"candidate"})
    /\ \A f \in Fixtures : Has(program, "validate", f)

\* What the candidate answers is what it answered, if it was given the input.
Settled == plugins.candidate.answers = "first" => memory.cache.sound
MeasuredSame ==
  \A t \in timed :
    /\ t.fixture \in Fixtures /\ Settled
    /\ memory.input[t.fixture] = created[t.fixture] =>
         t.read = created[t.fixture] /\ t.gave = Output(t.fixture)

\* What is validated is what the candidate answers.
Answered(f) ==
  /\ queue[CandidateStream] = <<>> /\ Settled
  /\ memory.input[f] = created[f] => memory.indices["candidate"] = Output(f)
ValidatesRight ==
  \A f \in Fixtures :
    /\ NextIs(1, "validate", f) => Answered(f)
    /\ NextIs(2, "validate", f) => LastIs(CandidateStream, "candidate", f) \/ Answered(f)

\* What was validated is exact as long as the input is what it was.
Validated ==
  \A f \in Fixtures : ~Has(program, "validate", f) =>
    Settled /\ (memory.input[f] = created[f] => Exact(created[f], Output(f), Case))

\* After the last synchronisation nothing writes the inputs; then they are read.
Quiet == (\A i \in 1..Len(program) : program[i] # Sync) => NoneQueued(Writers)
Verified == program = <<>> => memory.input = created
Ended == caseStatus = "complete" => program = <<>>

CaseInv ==
  /\ CaseTyped /\ Fresh /\ JudgesRight /\ Judged /\ PreparesFirst /\ MeasuredSame
  /\ ValidatesRight /\ Validated /\ Quiet /\ Verified /\ Ended

---------------------------------------------------------------------------
(* The answers are indices: ranking is a choice that exists.                 *)

\* Every rank below their number is some key's: ranks are distinct.
LEMMA RankExists ==
  ASSUME NEW S \in SUBSET Nat, IsFiniteSet(S), NEW score, \A j \in S : score[j] \in Nat,
         NEW up \in BOOLEAN, NEW m \in Nat, m < Cardinality(S)
  PROVE  \E j \in S : Cardinality({k \in S : Beats(score, up, k, j)}) = m
<1> DEFINE n == Cardinality(S)
           above(j) == {k \in S : Beats(score, up, k, j)}
           rank == [j \in S |-> Cardinality(above(j))]
<1>1. n \in Nat
  BY FS_CardinalityType
<1>2. \A j, l \in S : j # l => Beats(score, up, j, l) \/ Beats(score, up, l, j)
  BY DEF Beats
<1>3. \A j \in S : ~Beats(score, up, j, j)
  BY DEF Beats
<1>4. \A j, k, l \in S : Beats(score, up, k, j) /\ Beats(score, up, j, l) => Beats(score, up, k, l)
  BY DEF Beats
<1>5. \A j \in S : IsFiniteSet(above(j)) /\ Cardinality(above(j)) \in Nat
  BY FS_Subset, FS_CardinalityType
<1>6. \A j \in S : Cardinality(above(j)) < n
  <2> TAKE j \in S
  <2>1. above(j) \in SUBSET (S \ {j})
    BY <1>3
  <2>2. IsFiniteSet(S \ {j}) /\ Cardinality(S \ {j}) = n - 1
    BY FS_RemoveElement
  <2>3. Cardinality(above(j)) <= n - 1
    BY <2>1, <2>2, FS_Subset
  <2> QED BY <1>1, <1>5, <2>3
<1>7. ASSUME NEW j \in S, NEW l \in S, Beats(score, up, j, l)
      PROVE  Cardinality(above(j)) < Cardinality(above(l))
  <2>1. above(j) \in SUBSET above(l) /\ j \in above(l) /\ j \notin above(j)
    BY <1>3, <1>4, <1>7
  <2>2. Cardinality(above(j)) <= Cardinality(above(l)) /\ Cardinality(above(j)) # Cardinality(above(l))
    <3> DEFINE a == above(j)
               b == above(l)
    <3>1. IsFiniteSet(b) /\ a \in SUBSET b /\ a # b
      BY <1>5, <2>1
    <3> HIDE DEF a, b
    <3>2. Cardinality(a) <= Cardinality(b) /\ (Cardinality(b) = Cardinality(a) => b = a)
      BY <3>1, FS_Subset
    <3>3. Cardinality(a) <= Cardinality(b) /\ Cardinality(a) # Cardinality(b)
      BY <3>1, <3>2
    <3> QED BY <3>3 DEF a, b
  <2>3. Cardinality(above(j)) \in Nat /\ Cardinality(above(l)) \in Nat
    BY <1>5
  <2> HIDE DEF above
  <2> QED BY <2>2, <2>3
<1>8. \A j, l \in S : Cardinality(above(j)) = Cardinality(above(l)) => j = l
  <2> SUFFICES ASSUME NEW j \in S, NEW l \in S, Cardinality(above(j)) = Cardinality(above(l)), j # l
               PROVE  FALSE
    OBVIOUS
  <2>1. Cardinality(above(j)) < Cardinality(above(l)) \/ Cardinality(above(l)) < Cardinality(above(j))
    BY <1>2, <1>7
  <2>2. Cardinality(above(j)) \in Nat /\ Cardinality(above(l)) \in Nat
    BY <1>5
  <2> HIDE DEF above
  <2> QED BY <2>1, <2>2
<1> HIDE DEF above, n
<1>9. rank \in [S -> 0..(n - 1)]
  BY <1>1, <1>5, <1>6
<1>10. rank \in Injection(S, 0..(n - 1))
  BY <1>8, <1>9 DEF Injection, IsInjective
<1>11. IsFiniteSet(0..(n - 1)) /\ Cardinality(0..(n - 1)) = n
  <2> DEFINE e == n - 1
  <2>1. e \in Int /\ e >= 0 /\ e + 1 = n
    BY <1>1 DEF n
  <2> HIDE DEF e
  <2>2. IsFiniteSet(0..e) /\ Cardinality(0..e) = e + 1
    BY <2>1, FS_Interval
  <2> QED BY <2>1, <2>2 DEF e
<1>12. rank \in Surjection(S, 0..(n - 1))
  <2> HIDE DEF rank
  <2> QED BY <1>10, <1>11, FS_Injection DEF n
<1>13. PICK j \in S : rank[j] = m
  <2>1. m \in 0..(n - 1)
    BY <1>1 DEF n
  <2> HIDE DEF rank
  <2> QED BY <1>12, <2>1 DEF Surjection
<1> QED BY <1>13 DEF above

LEMMA RankedIsIds ==
  ASSUME NEW scores \in ScoreRows, NEW up \in BOOLEAN
  PROVE  IsIds(Ranked(scores, up), Case) /\ Ranked(scores, up).sound
<1> DEFINE id(r, i) == CHOOSE j \in Prefix(Case, r) :
                         Cardinality({k \in Prefix(Case, r) : Beats(scores[r], up, k, j)}) = i - 1
<1>1. ASSUME NEW r \in Rows(Case), NEW i \in Slots(Case), ~(i > Width(Case, r))
      PROVE  id(r, i) \in Int
  <2>1. /\ Prefix(Case, r) \subseteq Keys(Case) /\ IsFiniteSet(Prefix(Case, r))
        /\ Cardinality(Prefix(Case, r)) = End(Case, r) /\ End(Case, r) \in Nat
        /\ Width(Case, r) \in Nat
    BY CaseAssumption, CaseFacts
  <2>2. Prefix(Case, r) \in SUBSET Nat /\ \A j \in Prefix(Case, r) : scores[r][j] \in Nat
    BY <2>1 DEF Prefix, ScoreRows
  <2>3. i - 1 \in Nat /\ i - 1 < Cardinality(Prefix(Case, r))
    <3>1. Width(Case, r) <= End(Case, r) /\ i \in Nat /\ i >= 1
      BY <2>1, CaseAssumption DEF Width, Slots, IsCase
    <3> QED BY <1>1, <2>1, <3>1
  <2>4. \E j \in Prefix(Case, r) : Cardinality({k \in Prefix(Case, r) : Beats(scores[r], up, k, j)}) = i - 1
    <3>1. PICK keys, score, m : keys = Prefix(Case, r) /\ score = scores[r] /\ m = i - 1
      OBVIOUS
    <3>2. /\ keys \in SUBSET Nat /\ IsFiniteSet(keys) /\ \A j \in keys : score[j] \in Nat
          /\ m \in Nat /\ m < Cardinality(keys) /\ up \in BOOLEAN
      BY <2>1, <2>2, <2>3, <3>1
    <3>3. \E j \in keys : Cardinality({k \in keys : Beats(score, up, k, j)}) = m
      BY ONLY <3>2, RankExists, SMTT(30)
    <3> QED BY ONLY <3>1, <3>3
  <2>5. id(r, i) \in Prefix(Case, r)
    BY <2>4
  <2> QED BY <2>2, <2>5
<1>2. Ranked(scores, up) = [sound |-> TRUE,
                            ids |-> [r \in Rows(Case) |-> [i \in Slots(Case) |->
                                       IF i > Width(Case, r) THEN -1 ELSE id(r, i)]]]
  BY DEF Ranked
<1> HIDE DEF id
<1>3. \A r \in Rows(Case) : [i \in Slots(Case) |-> IF i > Width(Case, r) THEN -1 ELSE id(r, i)] \in [Slots(Case) -> Int]
  BY <1>1
<1> QED BY <1>2, <1>3 DEF IsIds

LEMMA AnswersAreIds ==
  ASSUME NEW scores \in ScoreRows, NEW way
  PROVE  IsIds(AnswerTo(way, scores), Case) /\ AnswerTo(way, scores).sound
<1>1. IsIds(LeadingIds, Case) /\ LeadingIds.sound
  <2>1. \A i \in Slots(Case) : i - 1 \in Int
    BY CaseAssumption DEF Slots, IsCase
  <2>2. \A r \in Rows(Case) : [i \in Slots(Case) |-> IF i > Width(Case, r) THEN -1 ELSE i - 1] \in [Slots(Case) -> Int]
    BY <2>1
  <2> QED BY <2>2 DEF LeadingIds, IsIds
<1>2. CASE way = "low"
  BY <1>2, RankedIsIds DEF AnswerTo
<1>3. CASE way = "high"
  BY <1>3, RankedIsIds DEF AnswerTo
<1>4. CASE way # "low" /\ way # "high"
  BY <1>1, <1>4 DEF AnswerTo
<1> QED BY <1>2, <1>3, <1>4

LEMMA NothingIsIds == IsIds(Nothing, Case)
<1>1. \A r \in Rows(Case) : [i \in Slots(Case) |-> -1] \in [Slots(Case) -> Int]
  OBVIOUS
<1> QED BY <1>1 DEF Nothing, IsIds

---------------------------------------------------------------------------
(* What the steps do.                                                        *)

LEMMA StepIs ==
  /\ \A s \in Steps : s = Step(s.do, s.fixture)
  /\ \A d, f : Step(d, f).do = d /\ Step(d, f).fixture = f
  /\ Sync.do = "deviceSync" /\ Verify.do = "verify" /\ Creation.do = "create"
<1>1. \A s \in Steps : s = Step(s.do, s.fixture)
  <2>1. PICK names : names = Fixtures \cup {""}
    OBVIOUS
  <2>2. \A s \in Steps : s \in [do : Dos, fixture : names]
    BY <2>1, Zenon DEF Steps
  <2>3. \A s \in [do : Dos, fixture : names] : s = [do |-> s.do, fixture |-> s.fixture]
    OBVIOUS
  <2> QED BY ONLY <2>2, <2>3 DEF Step
<1>2. \A d, f : Step(d, f).do = d /\ Step(d, f).fixture = f
  BY DEF Step
<1>3. Sync.do = "deviceSync" /\ Verify.do = "verify" /\ Creation.do = "create"
  BY DEF Sync, Verify, Creation, Step
<1> QED BY <1>1, <1>2, <1>3

LEMMA InputsTyped ==
  ASSUME CaseTyped
  PROVE  /\ \A f \in Fixtures : memory.input[f] \in ScoreRows /\ created[f] \in ScoreRows
         /\ CandidateStream \in Streams /\ "main" \in Streams
<1>1. \A scores \in Contents : scores \in ScoreRows
  BY CaseAssumption DEF ScoreRows
<1>2. Spoilt \in ScoreRows
  BY DEF Spoilt, ScoreRows
<1>3. \A f \in Fixtures : created[f] \in ScoreRows
  BY <1>1 DEF CaseTyped
<1>4. CandidateStream \in Streams
  BY CaseAssumption DEF CaseTyped, CandidateStream, Streams
<1> QED BY <1>2, <1>3, <1>4 DEF CaseTyped, Streams

LEMMA OutputIsIds ==
  ASSUME CaseTyped, NEW f \in Fixtures
  PROVE  IsIds(Output(f), Case) /\ (plugins.candidate.answers = "first" => Output(f).sound)
<1>1. IsIds(memory.cache, Case)
  BY DEF CaseTyped
<1>2. \A way : IsIds(AnswerTo(way, memory.input[f]), Case) /\ AnswerTo(way, memory.input[f]).sound
  BY InputsTyped, AnswersAreIds
<1> QED BY <1>1, <1>2 DEF Output

LEMMA LaunchAdds ==
  ASSUME NEW q \in [Streams -> Seq(Operations)], NEW s \in Streams, NEW op \in Operations,
         NEW q1, q1 = [q EXCEPT ![s] = Append(@, op)]
  PROVE  /\ q1 \in [Streams -> Seq(Operations)]
         /\ q1[s] # <<>> /\ q1[s][Len(q1[s])] = op
         /\ \A r \in Streams : r # s => q1[r] = q[r]
         /\ \A r \in Streams : \A i \in 1..Len(q1[r]) :
              (r = s /\ q1[r][i] = op) \/ (i \in 1..Len(q[r]) /\ q1[r][i] = q[r][i])
<1>1. q1[s] = Append(q[s], op) /\ \A r \in Streams : r # s => q1[r] = q[r]
  OBVIOUS
<1> DEFINE old == q[s]
           new == q1[s]
<1>2. old \in Seq(Operations) /\ new = Append(old, op)
  BY <1>1
<1> HIDE DEF old, new
<1>3. /\ new \in Seq(Operations) /\ Len(old) \in Nat /\ Len(new) = Len(old) + 1 /\ new[Len(old) + 1] = op
      /\ \A i \in 1..Len(old) : new[i] = old[i]
  BY <1>2, AppendProperties, LenProperties
<1>4. \A i \in 1..Len(new) : new[i] = op \/ (i \in 1..Len(old) /\ new[i] = old[i])
  BY <1>3
<1>5. new # <<>>
  BY <1>3, EmptySeq
<1>6. q1 \in [Streams -> Seq(Operations)]
  BY <1>3 DEF new
<1> QED BY <1>1, <1>3, <1>4, <1>5, <1>6 DEF old, new

\* The head of a stream is taken off.
Popped(q, q1, s) ==
  /\ q1 \in [Streams -> Seq(Operations)]
  /\ Head(q[s]) = q[s][1] /\ Head(q[s]) \in Operations /\ 1 \in 1..Len(q[s])
  /\ q1[s] # <<>> => q1[s][Len(q1[s])] = q[s][Len(q[s])]
  /\ q1[s] = <<>> => Head(q[s]) = q[s][Len(q[s])]
  /\ \A r \in Streams : r # s => q1[r] = q[r]
  /\ \A r \in Streams : \A i \in 1..Len(q1[r]) :
       \E j \in 1..Len(q[r]) : q1[r][i] = q[r][j]

LEMMA DevicePops ==
  ASSUME NEW q \in [Streams -> Seq(Operations)], NEW s \in Streams, q[s] # <<>>,
         NEW q1, q1 = [q EXCEPT ![s] = Tail(@)]
  PROVE  Popped(q, q1, s)
<1>1. q1[s] = Tail(q[s]) /\ \A r \in Streams : r # s => q1[r] = q[r]
  OBVIOUS
<1> DEFINE old == q[s]
           new == q1[s]
<1>2. old \in Seq(Operations) /\ old # <<>> /\ new = Tail(old)
  BY <1>1
<1> HIDE DEF old, new
<1>3. /\ new \in Seq(Operations) /\ Len(old) \in Nat \ {0} /\ Len(new) = Len(old) - 1
      /\ Head(old) = old[1] /\ Head(old) \in Operations
      /\ \A i \in 1..Len(new) : new[i] = old[i + 1]
  BY <1>2, HeadTailProperties, EmptySeq, LenProperties
<1>4. \A i \in 1..Len(new) : i + 1 \in 1..Len(old)
  BY <1>3
<1>5. new # <<>> => Len(new) \in 1..Len(new) /\ Len(new) + 1 = Len(old)
  BY <1>3, EmptySeq, LenProperties
<1>6. new = <<>> => Len(old) = 1
  BY <1>3, EmptySeq
<1>7. 1 \in 1..Len(old)
  BY <1>3
<1>8. new # <<>> => new[Len(new)] = old[Len(old)]
  BY <1>3, <1>5
<1>9. q1 \in [Streams -> Seq(Operations)]
  BY <1>3 DEF new
<1>10. \A i \in 1..Len(new) : \E j \in 1..Len(old) : new[i] = old[j]
  BY <1>3, <1>4
<1> QED BY <1>1, <1>3, <1>6, <1>7, <1>8, <1>9, <1>10 DEF old, new, Popped

\* A step of the host passes a step of the program, passes it launching an
\* operation, or stays where it is.
Same == UNCHANGED <<created, plugins, memory, keeps, timed>>
Passed ==
  /\ program # <<>> /\ program' = Tail(program) /\ queue' = queue /\ caseStatus' = caseStatus
  /\ caseStatus = "running"
  /\ program[1].do \in Dos \ ({"reference", "clone", "prepare"} \cup RunDos)
  /\ ties' = IF program[1].do = "judge"
             THEN [ties EXCEPT ![program[1].fixture] = OracleOf(memory.logits, Case)] ELSE ties
  /\ program[1].do = "judge" =>
       queue["main"] = <<>> /\ OracleBuilds("tensor", memory.logits, memory.indices[program[1].fixture], Case)
  /\ program[1].do = "validate" =>
       Accepts("tensor", ties[program[1].fixture], memory.indices["candidate"],
               memory.indices[program[1].fixture], Case)
  /\ program[1].do = "verify" => memory.input = created
  /\ program[1].do = "deviceSync" => \A s \in Streams : queue[s] = <<>>
LaunchedOn(s, op) ==
  /\ program # <<>> /\ program' = Tail(program) /\ ties' = ties /\ caseStatus' = caseStatus
  /\ caseStatus = "running"
  /\ queue' = [queue EXCEPT ![s] = Append(@, op)] /\ op.fixture = program[1].fixture
  /\ \/ program[1].do \in {"reference", "clone"} /\ op.what = program[1].do /\ s = "main"
     \/ program[1].do = "prepare" /\ op.what = "prepare" /\ s = CandidateStream
     \/ program[1].do \in RunDos /\ op.what = "candidate" /\ s = CandidateStream
Stayed ==
  /\ program' = program /\ queue' = queue /\ (caseStatus' = "complete" => program = <<>>)
  /\ DOMAIN ties' = Fixtures
  /\ \A f \in Fixtures : ties'[f] = ties[f] \/ (program # <<>> /\ program[1] = Step("judge", f))

LEMMA HostForms ==
  ASSUME CaseTyped, HostNext
  PROVE  Same /\ (Passed \/ Stayed \/ \E s \in Streams, op \in Operations : LaunchedOn(s, op))
<1>1. Shape(program) /\ keeps = [f \in Fixtures |-> f] /\ DOMAIN ties = Fixtures
  BY DEF CaseTyped
<1>2. program # <<>> => Head(program) = program[1] /\ program[1] \in Steps /\ program[1].do \in Dos
  BY <1>1, RestOfProgram DEF Steps
<1>3. /\ program # <<>> /\ program[1].do \in {"reference", "clone", "judge", "prepare", "run", "timedRun", "validate"}
           => program[1].fixture \in Fixtures
  BY <1>2 DEF Steps
<1>4. CandidateStream \in Streams /\ "main" \in Streams
  BY InputsTyped
<1>5. CASE Create
  <2>1. program # <<>> /\ program[1].do = "create" /\ caseStatus = "running"
    BY <1>2, <1>5 DEF Create, Now
  <2>2. Same /\ queue' = queue /\ ties' = ties
    BY <1>5 DEF Create, Same
  <2>3. Pass \/ Fail
    BY <1>5 DEF Create, PassIf
  <2> QED BY <1>1, <2>1, <2>2, <2>3 DEF Pass, Fail, Passed, Stayed, Dos, RunDos
<1>6. CASE RunReference
  <2>1. program # <<>> /\ program[1].do = "reference" /\ caseStatus = "running" /\ Head(program) = program[1]
    BY <1>2, <1>6 DEF RunReference, Now
  <2>2. Same /\ ties' = ties
    BY <1>6 DEF RunReference, Same
  <2>3. CASE Launch("main", Operation("reference", Fixture)) /\ Pass
    <3>1. Operation("reference", Fixture) \in Operations /\ Operation("reference", Fixture).fixture = program[1].fixture
          /\ Operation("reference", Fixture).what = "reference"
      BY <1>3, <2>1 DEF Operation, Operations, Fixture
    <3>2. LaunchedOn("main", Operation("reference", Fixture))
      BY <2>1, <2>2, <2>3, <3>1 DEF LaunchedOn, Launch, Pass
    <3> QED BY <1>4, <2>2, <3>1, <3>2
  <2>4. CASE Fail /\ UNCHANGED queue
    BY <1>1, <2>2, <2>4 DEF Fail, Stayed
  <2> QED BY <1>6, <2>3, <2>4 DEF RunReference
<1>7. CASE Clone
  <2>1. program # <<>> /\ program[1].do = "clone" /\ caseStatus = "running" /\ Head(program) = program[1]
    BY <1>2, <1>7 DEF Clone, Now
  <2>2. keeps' = keeps
    <3>1. Fixture \in Fixtures
      BY <1>3, <2>1 DEF Fixture
    <3>2. keeps' = [keeps EXCEPT ![Fixture] = Fixture]
      BY <1>7 DEF Clone
    <3> QED BY <1>1, <3>1, <3>2
  <2>3. Same /\ ties' = ties
    BY <1>7, <2>2 DEF Clone, Same
  <2>4. Operation("clone", Fixture) \in Operations /\ Operation("clone", Fixture).fixture = program[1].fixture
        /\ Operation("clone", Fixture).what = "clone"
    BY <1>3, <2>1 DEF Operation, Operations, Fixture
  <2>5. LaunchedOn("main", Operation("clone", Fixture))
    BY <1>7, <2>1, <2>3, <2>4 DEF Clone, LaunchedOn, Launch, Pass
  <2> QED BY <1>4, <2>3, <2>4, <2>5
<1>8. CASE Judge
  <2>1. program # <<>> /\ program[1].do = "judge" /\ caseStatus = "running" /\ Head(program) = program[1]
    BY <1>2, <1>8 DEF Judge, Now
  <2>2. program[1].fixture \in Fixtures /\ Fixture = program[1].fixture /\ Oracle(Fixture) = memory.indices[program[1].fixture]
    BY <1>1, <1>3, <2>1 DEF Fixture, Oracle
  <2>3. Same /\ queue' = queue /\ queue["main"] = <<>>
        /\ ties' = [ties EXCEPT ![program[1].fixture] = OracleOf(memory.logits, Case)]
    BY <1>8, <2>2 DEF Judge, Same, Drained
  <2>4. CASE OracleBuilds("tensor", memory.logits, Oracle(Fixture), Case)
    <3>1. Pass
      BY <1>8, <2>4 DEF Judge, PassIf
    <3>2. Passed
      BY <2>1, <2>2, <2>3, <2>4, <3>1 DEF Passed, Pass, Dos, RunDos
    <3> QED BY <2>3, <3>2
  <2>5. CASE ~OracleBuilds("tensor", memory.logits, Oracle(Fixture), Case)
    <3>1. Fail
      BY <1>8, <2>5 DEF Judge, PassIf
    <3>2. \A f \in Fixtures : f # program[1].fixture => ties'[f] = ties[f]
      BY <1>1, <2>3
    <3>3. program[1] = Step("judge", program[1].fixture)
      BY <1>2, <2>1, StepIs
    <3>4. DOMAIN ties' = Fixtures
      BY <1>1, <2>3
    <3>5. Stayed
      BY <2>1, <2>3, <3>1, <3>2, <3>3, <3>4 DEF Stayed, Fail
    <3> QED BY <2>3, <3>5
  <2> QED BY <2>4, <2>5
<1>9. CASE Prepare
  <2>1. program # <<>> /\ program[1].do = "prepare" /\ caseStatus = "running" /\ Head(program) = program[1]
    BY <1>2, <1>9 DEF Prepare, Now
  <2>2. Same /\ ties' = ties
    BY <1>9 DEF Prepare, Same
  <2>3. CASE Launch(plugins.candidate.stream, Operation("prepare", Fixture)) /\ Pass
    <3>1. Operation("prepare", Fixture) \in Operations /\ Operation("prepare", Fixture).fixture = program[1].fixture
          /\ Operation("prepare", Fixture).what = "prepare"
      BY <1>3, <2>1 DEF Operation, Operations, Fixture
    <3>2. LaunchedOn(CandidateStream, Operation("prepare", Fixture))
      BY <2>1, <2>2, <2>3, <3>1 DEF LaunchedOn, Launch, Pass, CandidateStream
    <3> QED BY <1>4, <2>2, <3>1, <3>2
  <2>4. CASE Fail /\ UNCHANGED queue
    BY <1>1, <2>2, <2>4 DEF Fail, Stayed
  <2> QED BY <1>9, <2>3, <2>4 DEF Prepare
<1>10. CASE Run
  <2>1. program # <<>> /\ program[1].do \in RunDos /\ caseStatus = "running" /\ Head(program) = program[1]
    BY <1>2, <1>10 DEF Run, Now, RunDos
  <2>2. Same /\ ties' = ties
    BY <1>10 DEF Run, Same
  <2> DEFINE op == [what |-> "candidate", fixture |-> Fixture, timed |-> Head(program).do = "timedRun"]
  <2>3. op \in Operations /\ op.fixture = program[1].fixture /\ op.what = "candidate"
    <3>1. Fixture \in Fixtures /\ Fixture = program[1].fixture
      BY <1>3, <2>1 DEF Fixture, RunDos
    <3>2. (Head(program).do = "timedRun") \in BOOLEAN
      OBVIOUS
    <3> QED BY <3>1, <3>2 DEF Operations
  <2>4. LaunchedOn(CandidateStream, op)
    <3>1. queue' = [queue EXCEPT ![CandidateStream] = Append(@, op)] /\ Pass
      BY <1>10 DEF Run, Launch, CandidateStream
    <3> HIDE DEF op
    <3> QED BY <2>1, <2>2, <2>3, <3>1 DEF LaunchedOn, Pass
  <2> HIDE DEF op
  <2> QED BY <1>4, <2>2, <2>3, <2>4
<1>11. CASE Validate
  <2>1. program # <<>> /\ program[1].do = "validate" /\ caseStatus = "running" /\ Head(program) = program[1]
    BY <1>2, <1>11 DEF Validate, Now
  <2>2. program[1].fixture \in Fixtures /\ Fixture = program[1].fixture /\ Oracle(Fixture) = memory.indices[program[1].fixture]
    BY <1>1, <1>3, <2>1 DEF Fixture, Oracle
  <2>3. Same /\ queue' = queue /\ ties' = ties
    BY <1>11 DEF Validate, Same
  <2>4. CASE Accepts("tensor", ties[Fixture], memory.indices["candidate"], Oracle(Fixture), Case)
    <3>1. Pass
      BY <1>11, <2>4 DEF Validate, PassIf
    <3>2. Passed
      BY <2>1, <2>2, <2>3, <2>4, <3>1 DEF Passed, Pass, Dos, RunDos
    <3> QED BY <2>3, <3>2
  <2>5. CASE ~Accepts("tensor", ties[Fixture], memory.indices["candidate"], Oracle(Fixture), Case)
    <3>1. Fail
      BY <1>11, <2>5 DEF Validate, PassIf
    <3> QED BY <1>1, <2>1, <2>3, <3>1 DEF Stayed, Fail
  <2> QED BY <2>4, <2>5
<1>12. CASE VerifyInputs
  <2>1. program # <<>> /\ program[1].do = "verify" /\ caseStatus = "running"
    BY <1>2, <1>12 DEF VerifyInputs, Now
  <2>2. Same /\ queue' = queue /\ ties' = ties
    BY <1>12 DEF VerifyInputs, Same
  <2>3. (Pass /\ memory.input = created) \/ Fail
    BY <1>12 DEF VerifyInputs, PassIf
  <2> QED BY <1>1, <2>1, <2>2, <2>3 DEF Passed, Stayed, Pass, Fail, Dos, RunDos
<1>13. CASE Synchronize
  <2>1. program # <<>> /\ program[1].do \in {"deviceSync", "streamSync"} /\ caseStatus = "running"
    BY <1>2, <1>13 DEF Synchronize, Now
  <2>2. Same /\ queue' = queue /\ ties' = ties /\ Pass
    BY <1>13 DEF Synchronize, Same
  <2>3. program[1].do = "deviceSync" => \A s \in Streams : queue[s] = <<>>
    BY <1>2, <1>13, <2>1 DEF Synchronize, Now, Drained
  <2> QED BY <1>1, <2>1, <2>2, <2>3 DEF Passed, Pass, Dos, RunDos
<1>14. CASE Complete
  BY <1>1, <1>14 DEF Complete, Same, Stayed
<1> QED BY <1>5, <1>6, <1>7, <1>8, <1>9, <1>10, <1>11, <1>12, <1>13, <1>14 DEF HostNext

\* What an operation leaves on the device.
Kept == UNCHANGED <<created, plugins, program, caseStatus, keeps, ties>>
Executed(op) ==
  /\ DOMAIN memory'.input = Fixtures /\ DOMAIN memory'.indices = Buffers
  /\ IsRecord(memory', {"input", "logits", "cache", "indices"})
  /\ op.what \notin Writers => memory'.input = memory.input /\ memory'.cache = memory.cache
  /\ op.what # "reference" => memory'.logits = memory.logits
  /\ op.what = "reference" =>
       /\ memory'.logits = memory.input[op.fixture] /\ IsIds(memory'.indices["reference"], Case)
       /\ \A b \in Buffers : b # "reference" => memory'.indices[b] = memory.indices[b]
  /\ op.what = "clone" =>
       /\ memory'.indices[op.fixture] = memory.indices["reference"]
       /\ \A b \in Buffers : b # op.fixture => memory'.indices[b] = memory.indices[b]
  /\ op.what = "prepare" => memory'.indices = memory.indices /\ IsIds(memory'.cache, Case)
  /\ op.what = "candidate" =>
       /\ memory'.indices["candidate"] = Output(op.fixture)
       /\ \A b \in Buffers : b # "candidate" => memory'.indices[b] = memory.indices[b]
       /\ memory'.cache = IF plugins.candidate.answers = "first" THEN Output(op.fixture) ELSE memory.cache
       /\ \/ timed' = timed
          \/ timed' = timed \cup {[fixture |-> op.fixture, read |-> memory.input[op.fixture],
                                   gave |-> Output(op.fixture)]}
  /\ op.what # "candidate" => timed' = timed
  /\ \A f \in Fixtures : memory'.input[f] \in {memory.input[f], Spoilt}

LEMMA InputAfterIs ==
  ASSUME CaseTyped, NEW when, NEW f \in Fixtures
  PROVE  /\ DOMAIN InputAfter(when, f) = Fixtures
         /\ \A g \in Fixtures : InputAfter(when, f)[g] \in {memory.input[g], Spoilt}
<1>1. DOMAIN memory.input = Fixtures
  BY DEF CaseTyped
<1>2. DOMAIN [memory.input EXCEPT ![f] = Spoilt] = Fixtures
      /\ \A g \in Fixtures : [memory.input EXCEPT ![f] = Spoilt][g] \in {memory.input[g], Spoilt}
  BY <1>1
<1>3. InputAfter(when, f) \in {memory.input, [memory.input EXCEPT ![f] = Spoilt]}
  BY DEF InputAfter
<1> QED BY <1>1, <1>2, <1>3

LEMMA DeviceForms ==
  ASSUME CaseTyped, NEW s \in Streams, Device(s)
  PROVE  /\ Kept /\ queue[s] # <<>> /\ queue' = [queue EXCEPT ![s] = Tail(@)]
         /\ queue[s][1] \in Operations /\ 1 \in 1..Len(queue[s])
         /\ Executed(queue[s][1])
<1>1. Kept /\ queue[s] # <<>> /\ queue' = [queue EXCEPT ![s] = Tail(@)]
  BY DEF Device, Kept
<1>2. /\ queue[s][1] \in Operations /\ 1 \in 1..Len(queue[s]) /\ Head(queue[s]) = queue[s][1]
  BY <1>1, DevicePops DEF CaseTyped, Popped
<1>3. PICK op : op = queue[s][1]
  OBVIOUS
<1>4. op.what \in {"reference", "clone", "prepare", "candidate"} /\ op.fixture \in Fixtures /\ op = Head(queue[s])
  BY <1>2, <1>3 DEF Operations
<1>5. PICK f : f = op.fixture
  OBVIOUS
<1>6. /\ f \in Fixtures /\ f \in Buffers /\ f # "reference" /\ f # "candidate"
      /\ "reference" \in Buffers /\ "candidate" \in Buffers
  BY <1>4, <1>5 DEF Buffers, Fixtures
<1>7. /\ IsRecord(memory, {"input", "logits", "cache", "indices"})
      /\ DOMAIN memory.input = Fixtures /\ DOMAIN memory.indices = Buffers
  BY DEF CaseTyped
<1>8. CASE op.what = "reference"
  <2>1. /\ memory' = [memory EXCEPT !.logits = memory.input[f],
                       !.indices["reference"] = AnswerTo(plugins.reference, memory.input[f])]
        /\ timed' = timed
    BY <1>4, <1>5, <1>8 DEF Device
  <2>2. IsIds(AnswerTo(plugins.reference, memory.input[f]), Case)
    BY <1>6, InputsTyped, AnswersAreIds
  <2>3. PICK a : a = AnswerTo(plugins.reference, memory.input[f])
    OBVIOUS
  <2>4. /\ IsRecord(memory', {"input", "logits", "cache", "indices"})
        /\ memory'.input = memory.input /\ memory'.cache = memory.cache /\ memory'.logits = memory.input[f]
        /\ memory'.indices = [memory.indices EXCEPT !["reference"] = a]
    BY <1>7, <2>1, <2>3 DEF IsRecord
  <2>5. /\ DOMAIN memory'.indices = Buffers /\ memory'.indices["reference"] = a
        /\ \A b \in Buffers : b # "reference" => memory'.indices[b] = memory.indices[b]
    BY <1>6, <1>7, <2>4
  <2>6. Executed(op)
    BY <1>5, <1>7, <1>8, <2>1, <2>2, <2>3, <2>4, <2>5 DEF Executed, Writers
  <2> QED BY <1>1, <1>2, <1>3, <2>6
<1>9. CASE op.what = "clone"
  <2>1. memory' = [memory EXCEPT !.indices[f] = memory.indices["reference"]] /\ timed' = timed
    BY <1>4, <1>5, <1>9 DEF Device
  <2>2. PICK a : a = memory.indices["reference"]
    OBVIOUS
  <2>3. /\ IsRecord(memory', {"input", "logits", "cache", "indices"})
        /\ memory'.input = memory.input /\ memory'.cache = memory.cache /\ memory'.logits = memory.logits
        /\ memory'.indices = [memory.indices EXCEPT ![f] = a]
    BY <1>7, <2>1, <2>2 DEF IsRecord
  <2>4. /\ DOMAIN memory'.indices = Buffers /\ memory'.indices[f] = a
        /\ \A b \in Buffers : b # f => memory'.indices[b] = memory.indices[b]
    BY <1>6, <1>7, <2>3
  <2>5. Executed(op)
    BY <1>5, <1>7, <1>9, <2>1, <2>2, <2>3, <2>4 DEF Executed, Writers
  <2> QED BY <1>1, <1>2, <1>3, <2>5
<1>10. CASE op.what = "prepare"
  <2>1. PICK i, c : /\ i = InputAfter("prepare", f)
                    /\ c = IF plugins.candidate.answers = "prepared"
                           THEN Ranked(memory.input[f], TRUE) ELSE Nothing
    OBVIOUS
  <2>2. memory' = [memory EXCEPT !.input = i, !.cache = c] /\ timed' = timed
    BY <1>4, <1>5, <1>10, <2>1 DEF Device
  <2>3. /\ IsRecord(memory', {"input", "logits", "cache", "indices"})
        /\ memory'.input = i /\ memory'.cache = c /\ memory'.logits = memory.logits
        /\ memory'.indices = memory.indices
    BY <1>7, <2>2 DEF IsRecord
  <2>4. IsIds(c, Case)
    BY <1>6, <2>1, InputsTyped, RankedIsIds, NothingIsIds
  <2>5. DOMAIN i = Fixtures /\ \A g \in Fixtures : i[g] \in {memory.input[g], Spoilt}
    BY <1>6, <2>1, InputAfterIs
  <2>6. Executed(op)
    BY <1>7, <1>10, <2>2, <2>3, <2>4, <2>5 DEF Executed, Writers
  <2> QED BY <1>1, <1>2, <1>3, <2>6
<1>11. CASE op.what = "candidate"
  <2>1. PICK i, a, c : /\ i = InputAfter("run", f) /\ a = Output(f)
                       /\ c = IF plugins.candidate.answers = "first" THEN Output(f) ELSE memory.cache
    OBVIOUS
  <2>2. /\ memory' = [memory EXCEPT !.input = i, !.indices["candidate"] = a, !.cache = c]
        /\ timed' = IF op.timed
                    THEN timed \cup {[fixture |-> f, read |-> memory.input[f], gave |-> Output(f)]}
                    ELSE timed
    BY <1>4, <1>5, <1>11, <2>1 DEF Device
  <2>3. /\ IsRecord(memory', {"input", "logits", "cache", "indices"})
        /\ memory'.input = i /\ memory'.cache = c /\ memory'.logits = memory.logits
        /\ memory'.indices = [memory.indices EXCEPT !["candidate"] = a]
    BY <1>7, <2>2 DEF IsRecord
  <2>4. /\ DOMAIN memory'.indices = Buffers /\ memory'.indices["candidate"] = a
        /\ \A b \in Buffers : b # "candidate" => memory'.indices[b] = memory.indices[b]
    BY <1>6, <1>7, <2>3
  <2>5. DOMAIN i = Fixtures /\ \A g \in Fixtures : i[g] \in {memory.input[g], Spoilt}
    BY <1>6, <2>1, InputAfterIs
  <2>6. Executed(op)
    BY <1>5, <1>11, <2>1, <2>2, <2>3, <2>4, <2>5 DEF Executed, Writers
  <2> QED BY <1>1, <1>2, <1>3, <2>6
<1> QED BY <1>4, <1>8, <1>9, <1>10, <1>11

---------------------------------------------------------------------------
(* The steps of the host                                                     *)

LEMMA Advances ==
  ASSUME CaseTyped, program # <<>>, program' = Tail(program)
  PROVE  /\ Shape(program') /\ Len(program) \in Nat \ {0} /\ Len(program') = Len(program) - 1
         /\ program[1] \in Steps /\ program[1] = Step(program[1].do, program[1].fixture)
         /\ 1 \in 1..Len(program)
         /\ \A i \in 1..Len(program') : i + 1 \in 1..Len(program) /\ program'[i] = program[i + 1]
         /\ \A what, f : Has(program, what, f) => program[1] = Step(what, f) \/ Has(program', what, f)
         /\ \A what, f : Has(program', what, f) => Has(program, what, f)
         /\ \A what, f : /\ NextIs(1, what, f)' => NextIs(2, what, f)
                         /\ NextIs(2, what, f)' => NextIs(3, what, f)
                         /\ NextIs(3, what, f)' => NextIs(4, what, f)
<1>1. /\ Shape(program') /\ Len(program) \in Nat \ {0} /\ Len(program') = Len(program) - 1
      /\ program[1] \in Steps
      /\ \A i \in 1..Len(program') : program'[i] = program[i + 1]
  BY RestOfProgram DEF CaseTyped
<1>2. \A i \in 1..Len(program') : i + 1 \in 1..Len(program)
  BY <1>1
<1>3. 1 \in 1..Len(program)
  BY <1>1
<1>4. ASSUME NEW what, NEW f, Has(program, what, f)
      PROVE  program[1] = Step(what, f) \/ Has(program', what, f)
  <2>1. PICK i \in 1..Len(program) : program[i] = Step(what, f)
    BY <1>4 DEF Has
  <2>2. CASE i # 1
    <3>1. i - 1 \in 1..Len(program') /\ (i - 1) + 1 = i
      BY <1>1, <2>2
    <3>2. program'[i - 1] = Step(what, f)
      BY <1>1, <2>1, <3>1
    <3> QED BY <3>1, <3>2 DEF Has
  <2> QED BY <2>1, <2>2
<1>5. \A what, f : Has(program', what, f) => Has(program, what, f)
  BY <1>1, <1>2 DEF Has
<1>6. ASSUME NEW what, NEW f
      PROVE  /\ NextIs(1, what, f)' => NextIs(2, what, f)
             /\ NextIs(2, what, f)' => NextIs(3, what, f)
             /\ NextIs(3, what, f)' => NextIs(4, what, f)
  <2>1. \A i \in Int : i \in 1..Len(program') /\ program'[i] = Step(what, f) => NextIs(i + 1, what, f)
    BY <1>1, <1>2 DEF NextIs
  <2>2. 1 + 1 = 2 /\ 2 + 1 = 3 /\ 3 + 1 = 4
    OBVIOUS
  <2> QED BY <2>1, <2>2 DEF NextIs
<1>7. program[1] = Step(program[1].do, program[1].fixture)
  BY <1>1, StepIs
<1> QED BY <1>1, <1>2, <1>3, <1>4, <1>5, <1>6, <1>7

\* Which steps stand before a judgement, before a validation and after a writer.
LEMMA Around ==
  ASSUME CaseTyped
  PROVE  /\ \A f : NextIs(2, "judge", f) => program[1].do = "clone"
         /\ \A f : NextIs(3, "judge", f) => program[1] = Sync
         /\ \A f : NextIs(4, "judge", f) => program[1] = Step("reference", f)
         /\ \A f : NextIs(2, "validate", f) => program[1] = Sync
         /\ \A f : NextIs(3, "validate", f) => program[1].do \in RunDos /\ program[1].fixture = f
         /\ program # <<>> /\ program[1].do \in {"prepare", "validate"} \cup RunDos =>
              \A i \in 1..Len(program) : i > 1 => program[i].do \notin Early
<1> DEFINE s == program
<1>1. JudgesLatest(s) /\ ValidatesLatest(s) /\ InOrder(s) /\ s \in Seq(Steps)
  BY DEF CaseTyped, Shape
<1>2. \A d, f : Step(d, f).do = d /\ Step(d, f).fixture = f
  BY StepIs
<1> HIDE DEF s
<1>3. \A i \in Int : \A f : NextIs(i, "judge", f) => i \in 1..Len(s) /\ s[i].do = "judge" /\ s[i].fixture = f
  BY <1>2 DEF NextIs, s
<1>4. \A i \in Int : \A f : NextIs(i, "validate", f) => i \in 1..Len(s) /\ s[i].do = "validate" /\ s[i].fixture = f
  BY <1>2 DEF NextIs, s
<1>5. 2 - 1 = 1 /\ 3 - 2 = 1 /\ 4 - 3 = 1
  OBVIOUS
<1>6. \A f : NextIs(2, "judge", f) => s[1].do = "clone"
  BY <1>1, <1>3, <1>5 DEF JudgesLatest
<1>7. \A f : NextIs(3, "judge", f) => s[1] = Sync
  BY <1>1, <1>3, <1>5 DEF JudgesLatest
<1>8. \A f : NextIs(4, "judge", f) => s[1] = Step("reference", f)
  BY <1>1, <1>3, <1>5 DEF JudgesLatest
<1>9. \A f : NextIs(2, "validate", f) => s[1] = Sync
  BY <1>1, <1>4, <1>5 DEF ValidatesLatest
<1>10. \A f : NextIs(3, "validate", f) => s[1].do \in RunDos /\ s[1].fixture = f
  BY <1>1, <1>4, <1>5 DEF ValidatesLatest
<1>11. s # <<>> => 1 \in 1..Len(s)
  <2>1. s # <<>> => Len(s) \in Nat \ {0}
    BY <1>1, EmptySeq, LenProperties
  <2> QED BY <2>1
<1>12. s # <<>> /\ s[1].do \in {"prepare", "validate"} \cup RunDos =>
         \A i \in 1..Len(s) : i > 1 => s[i].do \notin Early
  BY <1>1, <1>11 DEF InOrder
<1> QED BY <1>6, <1>7, <1>8, <1>9, <1>10, <1>12 DEF s

LEMMA StayInv == CaseInv /\ Same /\ Stayed => CaseInv'
<1> SUFFICES ASSUME CaseInv, Same, Stayed PROVE CaseInv'
  OBVIOUS
<1> USE DEF CaseInv
<1>1. program' = program /\ queue' = queue /\ created' = created /\ plugins' = plugins
      /\ memory' = memory /\ keeps' = keeps /\ timed' = timed
  BY DEF Same, Stayed
<1>2. \A f \in Fixtures : Output(f)' = Output(f)
  BY <1>1 DEF Output
<1>3. CandidateStream' = CandidateStream
  BY <1>1 DEF CandidateStream
<1>4. CaseTyped'
  BY <1>1, <1>3 DEF CaseTyped, Stayed
<1>5. Fresh'
  BY <1>1 DEF Fresh, NoneQueued
<1>6. JudgesRight'
  BY <1>1 DEF JudgesRight, NoneQueued, NextIs, LastIs, Scored
<1>7. Judged'
  <2> SUFFICES ASSUME NEW f \in Fixtures, ~Has(program, "judge", f)
               PROVE  /\ ties'[f] = OracleOf(created[f], Case)
                      /\ OracleBuilds("tensor", created[f], memory.indices[f], Case)
    BY <1>1 DEF Judged
  <2>1. program # <<>> => 1 \in 1..Len(program)
    BY RestOfProgram DEF CaseTyped
  <2>2. ~(program # <<>> /\ program[1] = Step("judge", f))
    BY <2>1 DEF Has
  <2> QED BY <2>2 DEF Judged, Stayed
<1>8. PreparesFirst'
  BY <1>1 DEF PreparesFirst, NoneQueued
<1>9. MeasuredSame'
  BY <1>1, <1>2 DEF MeasuredSame, Settled
<1>10. ValidatesRight'
  BY <1>1, <1>2, <1>3 DEF ValidatesRight, Answered, NextIs, LastIs, Settled
<1>11. Validated'
  BY <1>1, <1>2 DEF Validated, Settled
<1>12. Quiet' /\ Verified' /\ Ended'
  BY <1>1 DEF Quiet, Verified, Ended, Stayed, NoneQueued
<1> QED BY <1>4, <1>5, <1>6, <1>7, <1>8, <1>9, <1>10, <1>11, <1>12

\* Passing a judgement fixes the oracle; passing a validation, the answer.
LEMMA PassInv == CaseInv /\ Same /\ Passed => CaseInv'
<1> SUFFICES ASSUME CaseInv, Same, Passed PROVE CaseInv'
  OBVIOUS
<1>0. /\ CaseTyped /\ Fresh /\ JudgesRight /\ Judged /\ PreparesFirst /\ MeasuredSame
      /\ ValidatesRight /\ Validated /\ Quiet /\ Verified /\ Ended
  BY DEF CaseInv
<1>1. /\ program # <<>> /\ program' = Tail(program) /\ queue' = queue /\ created' = created /\ plugins' = plugins
      /\ memory' = memory /\ keeps' = keeps /\ timed' = timed /\ caseStatus' = caseStatus /\ caseStatus = "running"
  BY DEF Same, Passed
<1>2. (\A f \in Fixtures : Output(f)' = Output(f)) /\ CandidateStream' = CandidateStream
      /\ (Settled' <=> Settled) /\ \A whats : NoneQueued(whats)' <=> NoneQueued(whats)
  BY <1>1 DEF Output, CandidateStream, Settled, NoneQueued
<1>3. /\ Shape(program') /\ Len(program) \in Nat \ {0} /\ Len(program') = Len(program) - 1
      /\ program[1] \in Steps /\ program[1] = Step(program[1].do, program[1].fixture)
      /\ 1 \in 1..Len(program)
      /\ \A i \in 1..Len(program') : i + 1 \in 1..Len(program) /\ program'[i] = program[i + 1]
      /\ \A what, f : Has(program, what, f) => program[1] = Step(what, f) \/ Has(program', what, f)
      /\ \A what, f : Has(program', what, f) => Has(program, what, f)
      /\ \A what, f : /\ NextIs(1, what, f)' => NextIs(2, what, f)
                      /\ NextIs(2, what, f)' => NextIs(3, what, f)
                      /\ NextIs(3, what, f)' => NextIs(4, what, f)
  BY <1>0, <1>1, Advances
<1>4. /\ \A d, f : Step(d, f).do = d /\ Step(d, f).fixture = f
      /\ Sync.do = "deviceSync" /\ Verify.do = "verify"
  BY StepIs
<1>5. program[1].do = "deviceSync" => \A s \in Streams : queue[s] = <<>>
  BY DEF Passed
<1>6. "main" \in Streams /\ CandidateStream \in Streams
  BY <1>0, InputsTyped
<1>7. program[1].do \notin {"reference", "clone", "prepare"} \cup RunDos
  BY DEF Passed
<1>8. CaseTyped'
  <2>1. DOMAIN ties' = Fixtures
    <3>1. ties' \in {ties, [ties EXCEPT ![program[1].fixture] = OracleOf(memory.logits, Case)]}
      BY DEF Passed
    <3>2. DOMAIN [ties EXCEPT ![program[1].fixture] = OracleOf(memory.logits, Case)] = DOMAIN ties
      OBVIOUS
    <3> QED BY <1>0, <3>1, <3>2 DEF CaseTyped
  <2> QED BY <1>0, <1>1, <1>2, <1>3, <2>1 DEF CaseTyped
<1>9. Fresh'
  <2> SUFFICES ASSUME NEW i \in 1..Len(program'), program'[i].do \in Early
               PROVE  /\ memory.input = created /\ NoneQueued(Writers) /\ timed = {}
                      /\ \A f \in Fixtures : Has(program', "validate", f)
    BY <1>1, <1>2 DEF Fresh
  <2>1. i + 1 \in 1..Len(program) /\ program[i + 1].do \in Early /\ i + 1 > 1
    BY <1>3
  <2>2. /\ memory.input = created /\ NoneQueued(Writers) /\ timed = {}
        /\ \A f \in Fixtures : Has(program, "validate", f)
    BY <1>0, <2>1 DEF Fresh
  <2>3. program[1].do # "validate"
    BY <1>0, <1>1, <2>1, Around
  <2> QED BY <1>3, <1>4, <2>2, <2>3
<1>10. JudgesRight'
  <2> SUFFICES ASSUME NEW f \in Fixtures
               PROVE  /\ NextIs(1, "judge", f)' \/ NextIs(2, "judge", f)' => Scored(f)'
                      /\ NextIs(3, "judge", f)' => LastIs("main", "reference", f)' \/ Scored(f)'
                      /\ (\E i \in 1..Len(queue["main"]) :
                            queue["main"][i].what = "clone" /\ queue["main"][i].fixture = f)
                              => Has(program', "judge", f)
    BY <1>1 DEF JudgesRight
  <2>1. Scored(f) => Scored(f)'
    BY <1>1, <1>2 DEF Scored
  <2>2. NextIs(1, "judge", f)' => Scored(f)
    BY <1>0, <1>3 DEF JudgesRight
  <2>3. ASSUME NextIs(2, "judge", f)' PROVE Scored(f)
    <3>1. NextIs(3, "judge", f) /\ program[1] = Sync
      BY <1>0, <1>3, <2>3, Around
    <3>2. queue["main"] = <<>>
      BY <1>4, <1>5, <1>6, <3>1
    <3> QED BY <1>0, <3>1, <3>2 DEF JudgesRight, LastIs
  <2>4. ~NextIs(3, "judge", f)'
    BY <1>0, <1>3, <1>4, <1>7, Around
  <2>5. ASSUME NEW i \in 1..Len(queue["main"]), queue["main"][i].what = "clone", queue["main"][i].fixture = f
        PROVE  Has(program', "judge", f)
    <3>1. Has(program, "judge", f)
      BY <1>0, <2>5 DEF JudgesRight
    <3>2. program[1] # Step("judge", f)
      <4>1. program[1].do = "judge" => queue["main"] = <<>>
        BY DEF Passed
      <4>2. queue["main"] # <<>>
        BY <2>5
      <4> QED BY <1>4, <4>1, <4>2
    <3> QED BY <1>3, <3>1, <3>2
  <2> QED BY <2>1, <2>2, <2>3, <2>4, <2>5
<1>11. Judged'
  <2> SUFFICES ASSUME NEW f \in Fixtures, ~Has(program', "judge", f)
               PROVE  /\ ties'[f] = OracleOf(created[f], Case)
                      /\ OracleBuilds("tensor", created[f], memory.indices[f], Case)
    BY <1>1 DEF Judged
  <2>1. CASE Has(program, "judge", f)
    <3>1. program[1] = Step("judge", f)
      BY <1>3, <2>1
    <3>2. program[1].do = "judge" /\ program[1].fixture = f /\ NextIs(1, "judge", f)
      BY <1>3, <1>4, <3>1 DEF NextIs
    <3>3. memory.logits = created[f]
      BY <1>0, <3>2 DEF JudgesRight, Scored
    <3>4. /\ ties' = [ties EXCEPT ![f] = OracleOf(created[f], Case)]
          /\ OracleBuilds("tensor", created[f], memory.indices[f], Case)
      BY <3>2, <3>3 DEF Passed
    <3>5. DOMAIN ties = Fixtures
      BY <1>0 DEF CaseTyped
    <3> QED BY <3>4, <3>5
  <2>2. CASE ~Has(program, "judge", f)
    <3>1. program[1] # Step("judge", f)
      BY <1>3, <2>2 DEF Has
    <3>2. ties'[f] = ties[f]
      <4>1. CASE program[1].do = "judge"
        <5>1. program[1].fixture # f
          BY <1>3, <3>1, <4>1
        <5>2. ties' = [ties EXCEPT ![program[1].fixture] = OracleOf(memory.logits, Case)]
          BY <4>1 DEF Passed
        <5>3. DOMAIN ties = Fixtures
          BY <1>0 DEF CaseTyped
        <5> QED BY <5>1, <5>2, <5>3
      <4>2. CASE program[1].do # "judge"
        BY <4>2 DEF Passed
      <4> QED BY <4>1, <4>2
    <3> QED BY <1>0, <2>2, <3>2 DEF Judged
  <2> QED BY <2>1, <2>2
<1>12. PreparesFirst'
  <2>1. ~NoneQueued({"prepare"}) => program[1] = Sync
    BY <1>0 DEF PreparesFirst
  <2>2. program[1] = Sync => NoneQueued({"prepare"})
    BY <1>4, <1>5 DEF NoneQueued
  <2> QED BY <1>2, <2>1, <2>2 DEF PreparesFirst
<1>13. MeasuredSame'
  BY <1>0, <1>1, <1>2 DEF MeasuredSame
<1>14. ValidatesRight'
  <2> SUFFICES ASSUME NEW f \in Fixtures
               PROVE  /\ NextIs(1, "validate", f)' => Answered(f)'
                      /\ NextIs(2, "validate", f)' => LastIs(CandidateStream, "candidate", f)' \/ Answered(f)'
    BY <1>2 DEF ValidatesRight
  <2>1. Answered(f) => Answered(f)'
    BY <1>1, <1>2 DEF Answered
  <2>2. ASSUME NextIs(1, "validate", f)' PROVE Answered(f)
    <3>1. NextIs(2, "validate", f) /\ program[1] = Sync
      BY <1>0, <1>3, <2>2, Around
    <3>2. queue[CandidateStream] = <<>>
      BY <1>4, <1>5, <1>6, <3>1
    <3> QED BY <1>0, <3>1, <3>2 DEF ValidatesRight, LastIs
  <2>3. ~NextIs(2, "validate", f)'
    BY <1>0, <1>3, <1>7, Around
  <2> QED BY <2>1, <2>2, <2>3
<1>15. Validated'
  <2> SUFFICES ASSUME NEW f \in Fixtures, ~Has(program', "validate", f)
               PROVE  Settled /\ (memory.input[f] = created[f] => Exact(created[f], Output(f), Case))
    BY <1>1, <1>2 DEF Validated
  <2>1. CASE ~Has(program, "validate", f)
    BY <1>0, <2>1 DEF Validated
  <2>2. CASE Has(program, "validate", f)
    <3>1. program[1] = Step("validate", f)
      BY <1>3, <2>2
    <3>2. program[1].do = "validate" /\ program[1].fixture = f /\ NextIs(1, "validate", f)
      BY <1>3, <1>4, <3>1 DEF NextIs
    <3>3. Settled /\ (memory.input[f] = created[f] => memory.indices["candidate"] = Output(f))
      BY <1>0, <3>2 DEF ValidatesRight, Answered
    <3>4. ~Has(program, "judge", f)
      <4> SUFFICES ASSUME NEW i \in 1..Len(program), program[i] = Step("judge", f) PROVE FALSE
        BY DEF Has
      <4>1. i # 1 /\ program[i].do = "judge"
        BY <1>4, <3>2
      <4>2. i > 1
        BY <1>3, <4>1
      <4> QED BY <1>0, <1>1, <3>2, <4>1, <4>2, Around DEF Early
    <3>5. /\ ties[f] = OracleOf(created[f], Case)
          /\ OracleBuilds("tensor", created[f], memory.indices[f], Case)
      BY <1>0, <3>4 DEF Judged
    <3>6. Accepts("tensor", OracleOf(created[f], Case), memory.indices["candidate"], memory.indices[f], Case)
      BY <3>2, <3>5 DEF Passed
    <3>7. /\ IsIds(memory.indices["candidate"], Case) /\ IsIds(memory.indices[f], Case)
      BY <1>0 DEF CaseTyped, Buffers
    <3>8. created[f] \in [Rows(Case) -> [Keys(Case) -> Nat]] /\ IsCase(Case)
      BY <1>0, CaseAssumption, InputsTyped DEF ScoreRows
    <3>9. Exact(created[f], memory.indices["candidate"], Case)
      BY <3>5, <3>6, <3>7, <3>8, OracleSound
    <3> QED BY <3>3, <3>9
  <2> QED BY <2>1, <2>2
<1>16. Quiet'
  <2> SUFFICES ASSUME \A i \in 1..Len(program') : program'[i] # Sync PROVE NoneQueued(Writers)
    BY <1>2 DEF Quiet
  <2>1. CASE program[1] = Sync
    BY <1>4, <1>5, <2>1 DEF NoneQueued
  <2>2. CASE program[1] # Sync
    <3>1. ASSUME NEW i \in 1..Len(program) PROVE program[i] # Sync
      <4>1. i # 1 => i - 1 \in 1..Len(program') /\ (i - 1) + 1 = i
        BY <1>3
      <4> QED BY <1>3, <2>2, <4>1
    <3> QED BY <1>0, <3>1 DEF Quiet
  <2> QED BY <2>1, <2>2
<1>17. Verified'
  <2> SUFFICES ASSUME program' = <<>> PROVE memory.input = created
    BY <1>1 DEF Verified
  <2>1. Len(program) = 1
    BY <1>3
  <2>2. program[1] = Verify
    BY <1>0, <1>3, <2>1 DEF CaseTyped, Shape, EndsChecked
  <2> QED BY <1>4, <2>2 DEF Passed
<1>18. Ended'
  BY <1>1 DEF Ended
<1> QED BY <1>8, <1>9, <1>10, <1>11, <1>12, <1>13, <1>14, <1>15, <1>16, <1>17, <1>18 DEF CaseInv

\* What is launched is waited for, and nothing that is early is left behind it.
LEMMA LaunchInv ==
  ASSUME CaseInv, Same, NEW s \in Streams, NEW op \in Operations, LaunchedOn(s, op)
  PROVE  CaseInv'
<1>0. /\ CaseTyped /\ Fresh /\ JudgesRight /\ Judged /\ PreparesFirst /\ MeasuredSame
      /\ ValidatesRight /\ Validated /\ Quiet /\ Verified /\ Ended
  BY DEF CaseInv
<1>1. /\ program # <<>> /\ program' = Tail(program) /\ ties' = ties /\ created' = created /\ plugins' = plugins
      /\ memory' = memory /\ keeps' = keeps /\ timed' = timed /\ caseStatus' = caseStatus /\ caseStatus = "running"
  BY DEF Same, LaunchedOn
<1>2. (\A f \in Fixtures : Output(f)' = Output(f)) /\ CandidateStream' = CandidateStream
      /\ (Settled' <=> Settled)
  BY <1>1 DEF Output, CandidateStream, Settled
<1>3. /\ Shape(program') /\ Len(program) \in Nat \ {0} /\ Len(program') = Len(program) - 1
      /\ program[1] \in Steps /\ program[1] = Step(program[1].do, program[1].fixture)
      /\ 1 \in 1..Len(program)
      /\ \A i \in 1..Len(program') : i + 1 \in 1..Len(program) /\ program'[i] = program[i + 1]
      /\ \A what, f : Has(program, what, f) => program[1] = Step(what, f) \/ Has(program', what, f)
      /\ \A what, f : Has(program', what, f) => Has(program, what, f)
      /\ \A what, f : /\ NextIs(1, what, f)' => NextIs(2, what, f)
                      /\ NextIs(2, what, f)' => NextIs(3, what, f)
                      /\ NextIs(3, what, f)' => NextIs(4, what, f)
  BY <1>0, <1>1, Advances
<1>4. /\ \A d, f : Step(d, f).do = d /\ Step(d, f).fixture = f
      /\ Sync.do = "deviceSync" /\ Verify.do = "verify"
  BY StepIs
<1>5. /\ queue' \in [Streams -> Seq(Operations)]
      /\ queue'[s] # <<>> /\ queue'[s][Len(queue'[s])] = op
      /\ \A r \in Streams : r # s => queue'[r] = queue[r]
      /\ \A r \in Streams : \A i \in 1..Len(queue'[r]) :
           (r = s /\ queue'[r][i] = op) \/ (i \in 1..Len(queue[r]) /\ queue'[r][i] = queue[r][i])
  <2>1. queue \in [Streams -> Seq(Operations)] /\ queue' = [queue EXCEPT ![s] = Append(@, op)]
    BY <1>0 DEF CaseTyped, LaunchedOn
  <2> QED BY <2>1, LaunchAdds
<1>6. /\ op.fixture = program[1].fixture
      /\ \/ program[1].do \in {"reference", "clone"} /\ op.what = program[1].do /\ s = "main"
         \/ program[1].do = "prepare" /\ op.what = "prepare" /\ s = CandidateStream
         \/ program[1].do \in RunDos /\ op.what = "candidate" /\ s = CandidateStream
  BY DEF LaunchedOn
<1>7. program[1].do \in {"reference", "clone", "prepare"} \cup RunDos
      /\ program[1].do \notin {"deviceSync", "verify", "judge", "validate"}
  BY <1>6 DEF RunDos
<1>8. op.what \in Writers <=> program[1].do \in {"prepare"} \cup RunDos
  BY <1>6 DEF Writers, RunDos
<1>9. ASSUME NEW whats, op.what \notin whats, NoneQueued(whats) PROVE NoneQueued(whats)'
  BY <1>5, <1>9 DEF NoneQueued
<1>10. \A what, f : Has(program, what, f) /\ what # program[1].do => Has(program', what, f)
  BY <1>3, <1>4
<1>11. CaseTyped'
  <2>1. \A r \in Streams : \A i \in 1..Len(queue'[r]) :
          /\ queue'[r][i].what \in Writers => r = CandidateStream
          /\ queue'[r][i].what \notin Writers => r = "main"
    <3> SUFFICES ASSUME NEW r \in Streams, NEW i \in 1..Len(queue'[r])
                 PROVE  /\ queue'[r][i].what \in Writers => r = CandidateStream
                        /\ queue'[r][i].what \notin Writers => r = "main"
      OBVIOUS
    <3>1. CASE r = s /\ queue'[r][i] = op
      BY <1>6, <1>8, <3>1 DEF RunDos
    <3>2. CASE i \in 1..Len(queue[r]) /\ queue'[r][i] = queue[r][i]
      BY <1>0, <3>2 DEF CaseTyped
    <3> QED BY <1>5, <3>1, <3>2
  <2> QED BY <1>0, <1>1, <1>2, <1>3, <1>5, <2>1 DEF CaseTyped
<1>12. Fresh'
  <2> SUFFICES ASSUME NEW i \in 1..Len(program'), program'[i].do \in Early
               PROVE  /\ memory.input = created /\ NoneQueued(Writers)' /\ timed = {}
                      /\ \A f \in Fixtures : Has(program', "validate", f)
    BY <1>1 DEF Fresh
  <2>1. i + 1 \in 1..Len(program) /\ program[i + 1].do \in Early /\ i + 1 > 1
    BY <1>3
  <2>2. /\ memory.input = created /\ NoneQueued(Writers) /\ timed = {}
        /\ \A f \in Fixtures : Has(program, "validate", f)
    BY <1>0, <2>1 DEF Fresh
  <2>3. program[1].do \notin {"prepare"} \cup RunDos
    BY <1>0, <1>1, <2>1, Around
  <2> QED BY <1>7, <1>8, <1>9, <1>10, <2>2, <2>3
<1>13. JudgesRight'
  <2> SUFFICES ASSUME NEW f \in Fixtures
               PROVE  /\ NextIs(1, "judge", f)' \/ NextIs(2, "judge", f)' => Scored(f)'
                      /\ NextIs(3, "judge", f)' => LastIs("main", "reference", f)' \/ Scored(f)'
                      /\ (\E i \in 1..Len(queue'["main"]) :
                            queue'["main"][i].what = "clone" /\ queue'["main"][i].fixture = f)
                              => Has(program', "judge", f)
    BY DEF JudgesRight
  <2>1. ASSUME NextIs(1, "judge", f)' PROVE Scored(f)'
    <3>1. NextIs(2, "judge", f) /\ program[1].do = "clone"
      BY <1>0, <1>3, <2>1, Around
    <3>2. Scored(f) /\ op.what # "reference"
      BY <1>0, <1>6, <3>1 DEF JudgesRight, RunDos
    <3> QED BY <1>1, <1>9, <3>2 DEF Scored
  <2>2. ~NextIs(2, "judge", f)'
    BY <1>0, <1>3, <1>4, <1>7, Around
  <2>3. ASSUME NextIs(3, "judge", f)' PROVE LastIs("main", "reference", f)'
    <3>1. program[1] = Step("reference", f)
      BY <1>0, <1>3, <2>3, Around
    <3>2. op.what = "reference" /\ op.fixture = f /\ s = "main"
      BY <1>4, <1>6, <3>1 DEF RunDos
    <3> QED BY <1>5, <3>2 DEF LastIs
  <2>4. ASSUME NEW i \in 1..Len(queue'["main"]),
               queue'["main"][i].what = "clone", queue'["main"][i].fixture = f
        PROVE  Has(program', "judge", f)
    <3>0. "main" \in Streams
      BY DEF Streams
    <3>1. CASE i \in 1..Len(queue["main"]) /\ queue'["main"][i] = queue["main"][i]
      <4>1. Has(program, "judge", f)
        BY <1>0, <2>4, <3>1 DEF JudgesRight
      <4> QED BY <1>7, <1>10, <4>1
    <3>2. CASE queue'["main"][i] = op
      <4>1. program[1].do = "clone" /\ program[1].fixture = f
        BY <1>6, <2>4, <3>2
      <4>2. 1 + 1 <= Len(program) /\ program[1 + 1] = Step("judge", f)
        BY <1>0, <1>3, <4>1 DEF CaseTyped, Shape, InOrder
      <4>3. Has(program, "judge", f)
        BY <1>3, <4>2 DEF Has
      <4> QED BY <1>7, <1>10, <4>3
    <3> QED BY <1>5, <3>0, <3>1, <3>2
  <2> QED BY <2>1, <2>2, <2>3, <2>4
<1>14. Judged'
  <2>1. \A f : Has(program, "judge", f) => Has(program', "judge", f)
    BY <1>7, <1>10
  <2> QED BY <1>0, <1>1, <2>1 DEF Judged
<1>15. PreparesFirst'
  <2>1. NoneQueued({"prepare"})
    BY <1>0, <1>4, <1>7 DEF PreparesFirst
  <2>2. CASE op.what # "prepare"
    BY <1>9, <2>1, <2>2 DEF PreparesFirst
  <2>3. CASE op.what = "prepare"
    <3>1. program[1].do = "prepare"
      BY <1>6, <2>3 DEF RunDos
    <3>2. 1 + 2 <= Len(program) /\ program[1 + 1] = Sync /\ program[1 + 2] = Verify
      BY <1>0, <1>3, <3>1 DEF CaseTyped, Shape, InOrder
    <3>3. /\ NoneQueued(Writers) /\ timed = {} /\ \A f \in Fixtures : Has(program, "validate", f)
      BY <1>0, <1>3, <3>1 DEF Fresh, Early
    <3>4. NoneQueued({"candidate"})'
      <4>1. NoneQueued({"candidate"})
        BY <3>3 DEF NoneQueued, Writers
      <4> QED BY <1>9, <2>3, <4>1
    <3>5. Len(program') >= 2 /\ program'[1] = Sync /\ program'[2] = Verify
      <4>1. 1 \in 1..Len(program') /\ 2 \in 1..Len(program') /\ 2 + 1 = 1 + 2
        BY <1>3, <3>2
      <4> QED BY <1>3, <3>2, <4>1
    <3> QED BY <1>1, <1>7, <1>10, <3>3, <3>4, <3>5 DEF PreparesFirst
  <2> QED BY <2>2, <2>3
<1>16. MeasuredSame'
  BY <1>0, <1>1, <1>2 DEF MeasuredSame
<1>17. ValidatesRight'
  <2> SUFFICES ASSUME NEW f \in Fixtures
               PROVE  /\ ~NextIs(1, "validate", f)'
                      /\ NextIs(2, "validate", f)' => LastIs(CandidateStream, "candidate", f)'
    BY <1>2 DEF ValidatesRight
  <2>1. ~NextIs(1, "validate", f)'
    BY <1>0, <1>3, <1>4, <1>7, Around
  <2>2. ASSUME NextIs(2, "validate", f)' PROVE LastIs(CandidateStream, "candidate", f)'
    <3>1. program[1].do \in RunDos /\ program[1].fixture = f
      BY <1>0, <1>3, <2>2, Around
    <3>2. op.what = "candidate" /\ op.fixture = f /\ s = CandidateStream
      BY <1>6, <3>1 DEF RunDos
    <3> QED BY <1>2, <1>5, <3>2 DEF LastIs
  <2> QED BY <2>1, <2>2
<1>18. Validated'
  <2>1. \A f : Has(program, "validate", f) => Has(program', "validate", f)
    BY <1>7, <1>10
  <2> QED BY <1>0, <1>1, <1>2, <2>1 DEF Validated
<1>19. Quiet'
  <2> SUFFICES ASSUME \A i \in 1..Len(program') : program'[i] # Sync PROVE NoneQueued(Writers)'
    BY DEF Quiet
  <2>1. ASSUME NEW i \in 1..Len(program) PROVE program[i] # Sync
    <3>1. CASE i = 1
      BY <1>4, <1>7, <3>1
    <3>2. CASE i # 1
      <4>1. i - 1 \in 1..Len(program') /\ (i - 1) + 1 = i
        BY <1>3, <3>2
      <4>2. program'[i - 1] = program[i]
        BY <1>3, <4>1
      <4> QED BY <4>1, <4>2
    <3> QED BY <3>1, <3>2
  <2>2. NoneQueued(Writers)
    BY <1>0, <2>1 DEF Quiet
  <2>3. op.what \notin Writers
    <3> SUFFICES ASSUME op.what \in Writers PROVE FALSE
      OBVIOUS
    <3>1. PICK j \in 1..Len(program) : program[j] = Sync
      BY <1>0, <1>3, <1>8 DEF CaseTyped, Shape, EndsChecked
    <3> QED BY <2>1, <3>1
  <2> QED BY <1>9, <2>2, <2>3
<1>20. Verified'
  <2> SUFFICES ASSUME program' = <<>> PROVE FALSE
    BY DEF Verified
  <2>1. Len(program) = 1
    BY <1>3
  <2>2. program[1] = Verify
    BY <1>0, <1>3, <2>1 DEF CaseTyped, Shape, EndsChecked
  <2> QED BY <1>4, <1>7, <2>2
<1>21. Ended'
  BY <1>1 DEF Ended
<1> QED BY <1>11, <1>12, <1>13, <1>14, <1>15, <1>16, <1>17, <1>18, <1>19, <1>20, <1>21 DEF CaseInv

---------------------------------------------------------------------------
(* The steps of the device                                                   *)

\* What the execution of any operation leaves of the queues and the inputs.
LEMMA Executes ==
  ASSUME CaseTyped, NEW s \in Streams, Device(s)
  PROVE  LET op == queue[s][1] IN
         /\ Kept /\ Executed(op) /\ op \in Operations /\ queue[s] # <<>> /\ 1 \in 1..Len(queue[s])
         /\ IF op.what \in Writers THEN s = CandidateStream ELSE s = "main"
         /\ \A whats : NoneQueued(whats) => NoneQueued(whats)' /\ op.what \notin whats
         /\ \A r \in Streams : queue[r] = <<>> => r # s /\ queue'[r] = <<>>
         /\ \A r \in Streams : \A what, f : LastIs(r, what, f) =>
              LastIs(r, what, f)' \/ (r = s /\ queue'[s] = <<>> /\ op.what = what /\ op.fixture = f)
         /\ \A r \in Streams : \A i \in 1..Len(queue'[r]) :
              \E j \in 1..Len(queue[r]) : queue'[r][i] = queue[r][j]
         /\ \A f \in Fixtures : memory'.input[f] = created[f] => memory.input[f] = created[f]
         /\ CaseTyped'
<1>1. PICK op : op = queue[s][1]
  OBVIOUS
<1>2. /\ Kept /\ queue[s] # <<>> /\ queue' = [queue EXCEPT ![s] = Tail(@)]
      /\ op \in Operations /\ 1 \in 1..Len(queue[s]) /\ Executed(op)
  BY <1>1, DeviceForms
<1>3. /\ queue' \in [Streams -> Seq(Operations)]
      /\ queue'[s] # <<>> => queue'[s][Len(queue'[s])] = queue[s][Len(queue[s])]
      /\ queue'[s] = <<>> => op = queue[s][Len(queue[s])]
      /\ \A r \in Streams : r # s => queue'[r] = queue[r]
      /\ \A r \in Streams : \A i \in 1..Len(queue'[r]) :
           \E j \in 1..Len(queue[r]) : queue'[r][i] = queue[r][j]
  <2>1. queue \in [Streams -> Seq(Operations)]
    BY DEF CaseTyped
  <2>2. Popped(queue, queue', s)
    BY <1>2, <2>1, DevicePops
  <2> QED BY <1>1, <2>2 DEF Popped
<1>4. IF op.what \in Writers THEN s = CandidateStream ELSE s = "main"
  BY <1>1, <1>2 DEF CaseTyped
<1>5. ASSUME NEW whats, NoneQueued(whats) PROVE NoneQueued(whats)' /\ op.what \notin whats
  BY <1>1, <1>2, <1>3, <1>5 DEF NoneQueued
<1>6. \A r \in Streams : queue[r] = <<>> => r # s /\ queue'[r] = <<>>
  BY <1>2, <1>3
<1>7. ASSUME NEW r \in Streams, NEW what, NEW f, LastIs(r, what, f)
      PROVE  LastIs(r, what, f)' \/ (r = s /\ queue'[s] = <<>> /\ op.what = what /\ op.fixture = f)
  BY <1>3, <1>7 DEF LastIs
<1>8. \A f \in Fixtures : memory'.input[f] \in {created[f], Spoilt}
                         /\ (memory'.input[f] = created[f] => memory.input[f] = created[f])
  BY <1>2 DEF CaseTyped, Executed
<1>9. CaseTyped'
  <2>1. /\ created' = created /\ plugins' = plugins /\ program' = program /\ keeps' = keeps /\ ties' = ties
        /\ CandidateStream' = CandidateStream
    BY <1>2 DEF Kept, CandidateStream
  <2>2. IsIds(memory'.cache, Case) /\ \A b \in Buffers : IsIds(memory'.indices[b], Case)
    <3>1. op.fixture \in Fixtures /\ op.what \in {"reference", "clone", "prepare", "candidate"}
      BY <1>2 DEF Operations
    <3>2. IsIds(memory.cache, Case) /\ \A b \in Buffers : IsIds(memory.indices[b], Case)
      BY DEF CaseTyped
    <3>3. IsIds(Output(op.fixture), Case)
      BY <3>1, OutputIsIds
    <3>4. "reference" \in Buffers /\ "candidate" \in Buffers
      BY DEF Buffers
    <3>5. CASE op.what = "reference"
      BY <1>2, <3>2, <3>5 DEF Executed, Writers
    <3>6. CASE op.what = "clone"
      BY <1>2, <3>2, <3>4, <3>6 DEF Executed, Writers
    <3>7. CASE op.what = "prepare"
      BY <1>2, <3>2, <3>7 DEF Executed
    <3>8. CASE op.what = "candidate"
      BY <1>2, <3>2, <3>3, <3>8 DEF Executed
    <3> QED BY <3>1, <3>5, <3>6, <3>7, <3>8
  <2>3. \A r \in Streams : \A i \in 1..Len(queue'[r]) :
          /\ queue'[r][i].what \in Writers => r = CandidateStream
          /\ queue'[r][i].what \notin Writers => r = "main"
    <3>1. \A r \in Streams : \A j \in 1..Len(queue[r]) :
            /\ queue[r][j].what \in Writers => r = CandidateStream
            /\ queue[r][j].what \notin Writers => r = "main"
      BY DEF CaseTyped
    <3>2. \A r \in Streams : \A i \in 1..Len(queue'[r]) :
            \E j \in 1..Len(queue[r]) : queue'[r][i] = queue[r][j]
      BY <1>3
    <3> QED BY ONLY <3>1, <3>2
  <2>4. /\ DOMAIN memory'.input = Fixtures /\ DOMAIN memory'.indices = Buffers
        /\ IsRecord(memory', {"input", "logits", "cache", "indices"})
    BY <1>2 DEF Executed
  <2> QED BY <1>3, <1>8, <2>1, <2>2, <2>3, <2>4 DEF CaseTyped
<1> QED BY <1>1, <1>2, <1>3, <1>4, <1>5, <1>6, <1>7, <1>8, <1>9

\* Executing the reference or a copy leaves the candidate's answers alone.
LEMMA AnswersStay ==
  ASSUME Kept, memory'.input = memory.input, memory'.cache = memory.cache
  PROVE  (Settled' <=> Settled) /\ \A f \in Fixtures : Output(f)' = Output(f)
<1>1. plugins' = plugins
  BY DEF Kept
<1> QED BY <1>1 DEF Settled, Output

\* A candidate that has answered answers the same again, to the same input.
LEMMA AnswersAgain ==
  ASSUME CaseTyped, NEW op \in Operations, Kept, Executed(op), op.what = "candidate"
  PROVE  /\ Settled'
         /\ \A f \in Fixtures :
              (f = op.fixture \/ Settled) /\ memory'.input[f] = created[f] => Output(f)' = Output(f)
<1>1. plugins' = plugins /\ op.fixture \in Fixtures
  BY DEF Kept, Operations
<1>2. memory'.cache = IF plugins.candidate.answers = "first" THEN Output(op.fixture) ELSE memory.cache
  BY DEF Executed
<1>3. plugins.candidate.answers = "first" => Output(op.fixture).sound
  BY <1>1, OutputIsIds
<1>4. Settled'
  BY <1>1, <1>2, <1>3 DEF Settled
<1>5. ASSUME NEW f \in Fixtures, f = op.fixture \/ Settled, memory'.input[f] = created[f]
      PROVE  Output(f)' = Output(f)
  <2>1. CASE plugins.candidate.answers = "first"
    <3>1. Output(f)' = memory'.cache
      BY <1>1, <1>2, <1>3, <2>1 DEF Output
    <3>2. Settled => Output(f) = memory.cache /\ Output(op.fixture) = memory.cache
      BY <2>1 DEF Output, Settled
    <3> QED BY <1>2, <1>5, <2>1, <3>1, <3>2
  <2>2. CASE plugins.candidate.answers # "first"
    <3>1. memory'.cache = memory.cache
      BY <1>2, <2>2
    <3>2. memory'.input[f] = memory.input[f]
      <4>1. memory.input[f] \in {created[f], Spoilt} /\ memory'.input[f] \in {memory.input[f], Spoilt}
        BY DEF CaseTyped, Executed
      <4> QED BY <1>5, <4>1
    <3> QED BY <1>1, <3>1, <3>2 DEF Output
  <2> QED BY <2>1, <2>2
<1> QED BY <1>4, <1>5

LEMMA DeviceInv ==
  ASSUME CaseInv, NEW s \in Streams, Device(s)
  PROVE  CaseInv'
<1>0. /\ CaseTyped /\ Fresh /\ JudgesRight /\ Judged /\ PreparesFirst /\ MeasuredSame
      /\ ValidatesRight /\ Validated /\ Quiet /\ Verified /\ Ended
  BY DEF CaseInv
<1>1. PICK op : op = queue[s][1]
  OBVIOUS
<1>2. /\ Kept /\ Executed(op) /\ op \in Operations /\ queue[s] # <<>> /\ 1 \in 1..Len(queue[s])
      /\ IF op.what \in Writers THEN s = CandidateStream ELSE s = "main"
      /\ \A whats : NoneQueued(whats) => NoneQueued(whats)' /\ op.what \notin whats
      /\ \A r \in Streams : queue[r] = <<>> => r # s /\ queue'[r] = <<>>
      /\ \A r \in Streams : \A what, f : LastIs(r, what, f) =>
           LastIs(r, what, f)' \/ (r = s /\ queue'[s] = <<>> /\ op.what = what /\ op.fixture = f)
      /\ \A r \in Streams : \A i \in 1..Len(queue'[r]) :
           \E j \in 1..Len(queue[r]) : queue'[r][i] = queue[r][j]
      /\ \A f \in Fixtures : memory'.input[f] = created[f] => memory.input[f] = created[f]
      /\ CaseTyped'
  BY <1>0, <1>1, Executes
<1>3. /\ program' = program /\ created' = created /\ plugins' = plugins /\ caseStatus' = caseStatus
      /\ keeps' = keeps /\ ties' = ties /\ CandidateStream' = CandidateStream
  BY <1>2 DEF Kept, CandidateStream
<1>4. op.fixture \in Fixtures /\ op.what \in {"reference", "clone", "prepare", "candidate"}
  BY <1>2 DEF Operations
<1>5. "main" \in Streams /\ CandidateStream \in Streams
  BY <1>0, InputsTyped
<1>6. op.what \notin Writers => /\ memory'.input = memory.input /\ memory'.cache = memory.cache /\ timed' = timed
                                /\ (Settled' <=> Settled) /\ \A f \in Fixtures : Output(f)' = Output(f)
  BY <1>2, AnswersStay DEF Executed, Writers
<1>7. op.what = "candidate" =>
        /\ Settled'
        /\ \A f \in Fixtures :
             (f = op.fixture \/ Settled) /\ memory'.input[f] = created[f] => Output(f)' = Output(f)
  BY <1>0, <1>2, AnswersAgain
<1>8. op.what \in Writers <=> op.what \in {"prepare", "candidate"}
  BY DEF Writers
<1>9. op.what = "prepare" => /\ timed = {} /\ timed' = timed
                             /\ \A f \in Fixtures : Has(program, "validate", f)
                             /\ Len(program) >= 2 /\ program[1] = Sync /\ program[2] = Verify
  <2>1. op.what = "prepare" => ~NoneQueued({"prepare"})
    BY <1>2
  <2> QED BY <1>0, <1>2, <2>1 DEF PreparesFirst, Executed
<1>10. Fresh'
  BY <1>0, <1>2, <1>3, <1>6 DEF Fresh
<1>11. ASSUME NEW f \in Fixtures, Scored(f) PROVE Scored(f)'
  <2>1. op.what # "reference" /\ NoneQueued({"reference"})'
    BY <1>2, <1>11 DEF Scored
  <2> QED BY <1>2, <1>3, <1>11, <2>1 DEF Scored, Executed
<1>12. JudgesRight'
  <2> SUFFICES ASSUME NEW f \in Fixtures
               PROVE  /\ NextIs(1, "judge", f) \/ NextIs(2, "judge", f) => Scored(f)'
                      /\ NextIs(3, "judge", f) => LastIs("main", "reference", f)' \/ Scored(f)'
                      /\ (\E i \in 1..Len(queue'["main"]) :
                            queue'["main"][i].what = "clone" /\ queue'["main"][i].fixture = f)
                              => Has(program, "judge", f)
    BY <1>3 DEF JudgesRight, NextIs
  <2>1. NextIs(1, "judge", f) \/ NextIs(2, "judge", f) => Scored(f)'
    BY <1>0, <1>11 DEF JudgesRight
  <2>2. ASSUME NextIs(3, "judge", f), LastIs("main", "reference", f), ~LastIs("main", "reference", f)'
        PROVE  Scored(f)'
    <3>1. s = "main" /\ queue'["main"] = <<>> /\ op.what = "reference" /\ op.fixture = f
      BY <1>2, <1>5, <2>2
    <3>2. NoneQueued({"reference"})'
      <4> SUFFICES ASSUME NEW r \in Streams, NEW i \in 1..Len(queue'[r]), queue'[r][i].what = "reference"
                   PROVE  FALSE
        BY DEF NoneQueued
      <4>1. r = "main"
        BY <1>2 DEF CaseTyped, Writers
      <4> QED BY <3>1, <4>1
    <3>3. memory.input = created
      <4>1. 3 \in 1..Len(program) /\ program[3].do \in Early
        BY <2>2, StepIs DEF NextIs, Early
      <4> QED BY <1>0, <4>1 DEF Fresh
    <3> QED BY <1>2, <1>3, <3>1, <3>2, <3>3 DEF Scored, Executed
  <2>3. NextIs(3, "judge", f) => LastIs("main", "reference", f)' \/ Scored(f)'
    BY <1>0, <1>11, <2>2 DEF JudgesRight
  <2>4. ASSUME NEW i \in 1..Len(queue'["main"]), queue'["main"][i].what = "clone", queue'["main"][i].fixture = f
        PROVE  Has(program, "judge", f)
    <3>1. PICK j \in 1..Len(queue["main"]) : queue'["main"][i] = queue["main"][j]
      BY <1>2, <1>5
    <3> QED BY <1>0, <2>4, <3>1 DEF JudgesRight
  <2> QED BY <2>1, <2>3, <2>4
<1>13. Judged'
  <2> SUFFICES ASSUME NEW f \in Fixtures, ~Has(program, "judge", f)
               PROVE  memory'.indices[f] = memory.indices[f]
    BY <1>0, <1>3 DEF Judged
  <2>1. f \in Buffers /\ f # "reference" /\ f # "candidate"
    BY DEF Buffers, Fixtures
  <2>2. ~(op.what = "clone" /\ op.fixture = f)
    <3>1. op.what = "clone" => s = "main"
      BY <1>2, <1>8
    <3> QED BY <1>0, <1>1, <1>2, <3>1 DEF JudgesRight
  <2> QED BY <1>2, <1>4, <2>1, <2>2 DEF Executed
<1>14. PreparesFirst'
  <2> SUFFICES ASSUME ~NoneQueued({"prepare"})'
               PROVE  /\ Len(program) >= 2 /\ program[1] = Sync /\ program[2] = Verify
                      /\ timed' = {} /\ NoneQueued({"candidate"})'
                      /\ \A f \in Fixtures : Has(program, "validate", f)
    BY <1>3 DEF PreparesFirst
  <2>1. ~NoneQueued({"prepare"})
    BY <1>2
  <2>2. /\ Len(program) >= 2 /\ program[1] = Sync /\ program[2] = Verify
        /\ timed = {} /\ NoneQueued({"candidate"})
        /\ \A f \in Fixtures : Has(program, "validate", f)
    BY <1>0, <2>1 DEF PreparesFirst
  <2>3. op.what # "candidate" /\ NoneQueued({"candidate"})'
    BY <1>2, <2>2
  <2> QED BY <1>2, <2>2, <2>3 DEF Executed
<1>15. MeasuredSame'
  <2> SUFFICES ASSUME NEW t \in timed'
               PROVE  /\ t.fixture \in Fixtures /\ Settled'
                      /\ memory'.input[t.fixture] = created[t.fixture] =>
                           t.read = created[t.fixture] /\ t.gave = Output(t.fixture)'
    BY <1>3 DEF MeasuredSame
  <2>1. CASE op.what \notin Writers
    BY <1>0, <1>6, <2>1 DEF MeasuredSame
  <2>2. CASE op.what = "prepare"
    BY <1>9, <2>2
  <2>3. CASE op.what = "candidate"
    <3>1. CASE t \in timed
      BY <1>0, <1>2, <1>7, <2>3, <3>1 DEF MeasuredSame
    <3>2. CASE t \notin timed
      <4>1. PICK g, read, gave : g = op.fixture /\ read = memory.input[op.fixture] /\ gave = Output(op.fixture)
        OBVIOUS
      <4>2. t = [fixture |-> g, read |-> read, gave |-> gave]
        BY <1>2, <2>3, <3>2, <4>1 DEF Executed
      <4> QED BY <1>2, <1>4, <1>7, <2>3, <4>1, <4>2
    <3> QED BY <3>1, <3>2
  <2> QED BY <1>4, <1>8, <2>1, <2>2, <2>3
<1>16. ValidatesRight'
  <2> SUFFICES ASSUME NEW f \in Fixtures
               PROVE  /\ NextIs(1, "validate", f) => Answered(f)'
                      /\ NextIs(2, "validate", f) => LastIs(CandidateStream, "candidate", f)' \/ Answered(f)'
    BY <1>3 DEF ValidatesRight, NextIs
  <2>1. ASSUME Answered(f) PROVE Answered(f)'
    <3>1. queue'[CandidateStream] = <<>> /\ s # CandidateStream
      BY <1>2, <1>5, <2>1 DEF Answered
    <3>2. op.what \notin Writers
      BY <1>2, <3>1
    <3>3. memory'.indices["candidate"] = memory.indices["candidate"]
      <4>1. "candidate" \in Buffers /\ op.fixture # "candidate"
        BY <1>4 DEF Buffers, Fixtures
      <4> QED BY <1>2, <1>4, <1>8, <3>2, <4>1 DEF Executed
    <3> QED BY <1>3, <1>6, <2>1, <3>1, <3>2, <3>3 DEF Answered
  <2>2. ASSUME LastIs(CandidateStream, "candidate", f), ~LastIs(CandidateStream, "candidate", f)'
        PROVE  Answered(f)'
    <3>1. queue'[CandidateStream] = <<>> /\ op.what = "candidate" /\ op.fixture = f
      <4>1. PICK r \in Streams : r = CandidateStream
        BY <1>5
      <4>2. LastIs(r, "candidate", f) /\ ~LastIs(r, "candidate", f)'
        BY <1>3, <2>2, <4>1 DEF LastIs
      <4> QED BY <1>2, <4>1, <4>2
    <3>2. Settled' /\ (memory'.input[f] = created[f] => Output(f)' = Output(f))
      BY <1>7, <3>1
    <3>3. memory'.indices["candidate"] = Output(f)
      BY <1>2, <3>1 DEF Executed
    <3> QED BY <1>3, <3>1, <3>2, <3>3 DEF Answered
  <2> QED BY <1>0, <2>1, <2>2 DEF ValidatesRight
<1>17. Validated'
  <2> SUFFICES ASSUME NEW f \in Fixtures, ~Has(program, "validate", f)
               PROVE  Settled' /\ (memory'.input[f] = created[f] => Exact(created[f], Output(f)', Case))
    BY <1>3 DEF Validated
  <2>1. Settled /\ (memory.input[f] = created[f] => Exact(created[f], Output(f), Case))
    BY <1>0 DEF Validated
  <2>2. CASE op.what \notin Writers
    BY <1>6, <2>1, <2>2
  <2>3. CASE op.what = "prepare"
    BY <1>9, <2>3
  <2>4. CASE op.what = "candidate"
    BY <1>2, <1>7, <2>1, <2>4
  <2> QED BY <1>4, <1>8, <2>2, <2>3, <2>4
<1>18. Quiet'
  BY <1>0, <1>2, <1>3 DEF Quiet
<1>19. Verified'
  <2> SUFFICES ASSUME program = <<>> PROVE memory'.input = created
    BY <1>3 DEF Verified
  <2>1. \A i \in 1..Len(program) : program[i] # Sync
    BY EmptySeq DEF Verified
  <2>2. op.what \notin Writers
    BY <1>0, <1>2, <2>1 DEF Quiet
  <2> QED BY <1>0, <1>6, <2>2 DEF Verified
<1>20. Ended'
  BY <1>0, <1>3 DEF Ended
<1> QED BY <1>2, <1>10, <1>12, <1>13, <1>14, <1>15, <1>16, <1>17, <1>18, <1>19, <1>20 DEF CaseInv

---------------------------------------------------------------------------
(* The runs                                                                  *)

LEMMA InitInv == CaseInit => CaseInv
<1> SUFFICES ASSUME CaseInit PROVE CaseInv
  OBVIOUS
<1>1. PICK command \in Commands : program = ProgramOf(command)
  BY DEF CaseInit
<1>2. /\ Shape(program) /\ Len(program) > 13
      /\ program[1] = Creation /\ program[2] = Step("reference", "A") /\ program[3] = Sync
      /\ \A f \in Fixtures : Has(program, "judge", f) /\ Has(program, "validate", f)
  BY <1>1, ProgramShape
<1>3. /\ created \in [Fixtures -> Contents] /\ caseStatus = "running" /\ timed = {}
      /\ plugins \in [reference : References, candidate : Candidates]
      /\ keeps = [f \in Fixtures |-> f] /\ ties = [f \in Fixtures |-> <<>>]
      /\ queue = [s \in Streams |-> <<>>]
      /\ memory = [input |-> created, logits |-> Spoilt, cache |-> Nothing,
                   indices |-> [b \in Fixtures \cup {"reference", "candidate"} |-> Nothing]]
  BY DEF CaseInit
<1>4. /\ memory.input = created /\ memory.cache = Nothing
      /\ memory.indices = [b \in Buffers |-> Nothing]
      /\ IsRecord(memory, {"input", "logits", "cache", "indices"})
  BY <1>3 DEF Buffers, IsRecord
<1>5. \A s \in Streams : queue[s] = <<>> /\ Len(queue[s]) = 0
  BY <1>3, EmptySeq
<1>6. \A whats : NoneQueued(whats)
  BY <1>5 DEF NoneQueued
<1>7. "main" \in Streams
  BY DEF Streams
<1>8. CaseTyped
  <2>1. queue \in [Streams -> Seq(Operations)]
    BY <1>3, EmptySeq
  <2>2. IsIds(memory.cache, Case) /\ \A b \in Buffers : IsIds(memory.indices[b], Case)
    BY <1>4, NothingIsIds
  <2> QED BY <1>2, <1>3, <1>4, <1>5, <2>1, <2>2 DEF CaseTyped
<1>9. /\ \A d, f : Step(d, f).do = d
      /\ program[1].do = "create" /\ program[2].do = "reference" /\ program[3].do = "deviceSync"
  BY <1>2, StepIs
<1>10. Len(program) \in Nat /\ 3 \in 1..Len(program) /\ program # <<>>
  BY <1>2, LenProperties, EmptySeq DEF Shape
<1>11. \A f : \A i \in 1..3 : ~NextIs(i, "judge", f) /\ ~NextIs(i, "validate", f)
  BY <1>9 DEF NextIs
<1>12. Fresh
  BY <1>2, <1>3, <1>4, <1>6 DEF Fresh
<1>13. JudgesRight
  BY <1>5, <1>7, <1>11 DEF JudgesRight
<1>14. Judged /\ Validated /\ PreparesFirst /\ MeasuredSame
  BY <1>2, <1>3, <1>6 DEF Judged, Validated, PreparesFirst, MeasuredSame
<1>15. ValidatesRight
  BY <1>11 DEF ValidatesRight
<1>16. Quiet /\ Verified /\ Ended
  BY <1>3, <1>6, <1>10 DEF Quiet, Verified, Ended
<1> QED BY <1>8, <1>12, <1>13, <1>14, <1>15, <1>16 DEF CaseInv

LEMMA CaseInvariant == CaseSpec => []CaseInv
<1>1. CaseInv /\ HostNext => CaseInv'
  <2> SUFFICES ASSUME CaseInv, HostNext PROVE CaseInv'
    OBVIOUS
  <2>1. Same /\ (Passed \/ Stayed \/ \E s \in Streams, op \in Operations : LaunchedOn(s, op))
    BY HostForms DEF CaseInv
  <2> QED BY <2>1, PassInv, StayInv, LaunchInv
<1>2. CaseInv /\ (\E s \in Streams : Device(s)) => CaseInv'
  BY DeviceInv
<1>3. CaseInv /\ UNCHANGED caseVars => CaseInv'
  <2> SUFFICES ASSUME CaseInv, UNCHANGED caseVars PROVE CaseInv'
    OBVIOUS
  <2>1. Same /\ program' = program /\ queue' = queue /\ caseStatus' = caseStatus /\ ties' = ties
    BY DEF caseVars, Same
  <2>2. Stayed
    BY <2>1 DEF Stayed, CaseInv, CaseTyped, Ended
  <2> QED BY <2>1, <2>2, StayInv
<1>4. CaseInv /\ [CaseNext]_caseVars => CaseInv'
  BY <1>1, <1>2, <1>3 DEF CaseNext
<1> QED BY InitInv, <1>4, PTL DEF CaseSpec

\* When nothing is left to do everything has been validated and the inputs
\* have been read after the last write to them.
LEMMA NothingLeft ==
  ASSUME CaseInv, caseStatus = "complete"
  PROVE  /\ memory.input = created
         /\ \A t \in timed : /\ t.fixture \in Fixtures /\ t.read = created[t.fixture]
                            /\ t.gave = Output(t.fixture)
         /\ \A f \in Fixtures : Exact(created[f], Output(f), Case)
<1>1. program = <<>> /\ memory.input = created
  BY DEF CaseInv, Ended, Verified
<1>2. \A f : ~Has(program, "validate", f)
  BY <1>1, EmptySeq DEF Has
<1> QED BY <1>1, <1>2 DEF CaseInv, MeasuredSame, Validated

\* A case that completes has measured exact answers only, whatever the
\* candidate prepares, remembers or writes and whatever the device still does
\* when the host goes on: the checks before and after the measurements are of
\* what was measured (lifecycle.py:240-373).
THEOREM CaseIsGated == CaseSpec => []GateExact
<1>1. CaseInv => GateExact
  BY NothingLeft DEF GateExact
<1> QED BY <1>1, CaseInvariant, PTL

\* A case that completes has measured on the inputs it was made with, and they
\* are still what they were: a write of the candidate to them, with or without
\* the version counters, early or late, fails the case (lifecycle.py:154-176).
THEOREM MeasuresIntact == CaseSpec => []MeasuredIntact
<1>1. CaseInv => MeasuredIntact
  BY NothingLeft DEF MeasuredIntact
<1> QED BY <1>1, CaseInvariant, PTL

---------------------------------------------------------------------------
(* Attribution.  Launches have numbers of their own; what a range is charged *)
(* with is what was launched in it, and stages that launched as much as the  *)
(* operator did launched all of it.                                          *)

\* The ranges around what a stage launches, and a launch that was made in them.
RangesOf(t, s) == {OperatorRange(t)} \cup (IF stages[s].labelled THEN {StageRange(t, s)} ELSE {})
LaunchedIn(e, id, ranges) == e.what = <<"launch">> /\ e.id = id /\ e.within = ranges

\* Whose work is in which ranges: the scrub is in none.
MadeIn(by, ranges) ==
  \/ by = <<"flush">> /\ ranges = {}
  \/ \E t \in Nat, s \in DOMAIN stages : by = <<"stage", t, s>> /\ ranges = RangesOf(t, s)

Explained(a) ==
  \/ a.by = <<"earlier">> /\ a.id <= 2
  \/ \E e \in cpu : \E ranges : LaunchedIn(e, a.id, ranges) /\ MadeIn(a.by, ranges)

\* A launch has a number of its own, and an activity that of the launch it was
\* made by, which is in the ranges of whose work it is; those of the phase
\* before have numbers below all launches.
ProfileInv ==
  /\ stages \in Graph /\ progress.trial \in Nat
  /\ launch \in Nat /\ launch >= 2
  /\ IsFiniteSet(cuda)
  /\ \A e \in cpu : e.what = <<"launch">> => e.id \in 3 .. launch
  /\ \A e, f \in cpu : e.what = <<"launch">> /\ f.what = <<"launch">> /\ e.id = f.id => e.within = f.within
  /\ \A a \in cuda : a.id \in 1 .. launch
  /\ \A a \in cuda : Explained(a)

\* Names of ranges differ.
LEMMA NamesDiffer ==
  ASSUME NEW t, NEW u, NEW s, NEW v
  PROVE  /\ OperatorRange(t) # <<"launch">> /\ StageRange(t, s) # <<"launch">>
         /\ OperatorRange(t) = OperatorRange(u) => t = u
         /\ StageRange(t, s) = StageRange(u, v) => t = u /\ s = v
         /\ OperatorRange(t) # StageRange(u, s)
         /\ <<"stage", t, s>> = <<"stage", u, v>> => t = u /\ s = v
         /\ <<"stage", t, s>>[1] = "stage" /\ <<"stage", t, s>>[2] = t
         /\ <<"earlier">>[1] # "stage" /\ <<"flush">>[1] # "stage" /\ <<"op">> # <<"launch">>
BY DEF OperatorRange, StageRange

LEMMA ImageIsFinite ==
  ASSUME NEW f, f = [x \in DOMAIN f |-> f[x]], IsFiniteSet(DOMAIN f)
  PROVE  IsFiniteSet(Range(f))
<1>1. f \in Surjection(DOMAIN f, Range(f))
  BY DEF Surjection, Range
<1> QED BY <1>1, FS_Surjection

\* The numbers from 1 to n are finitely many.
LEMMA NumbersAreFinite ==
  ASSUME NEW n \in Nat
  PROVE  IsFiniteSet(1 .. n)
BY FS_Interval

\* What a recording adds keeps this.
LEMMA RecordKeeps ==
  ASSUME ProfileInv, NEW kinds, kinds \in Seq(Range(kinds)), NEW ranges, NEW by, NEW empties,
         IsFiniteSet(ranges), <<"launch">> \notin ranges, MadeIn(by, ranges),
         Record(kinds, ranges, by, empties), stages' = stages, progress'.trial \in Nat
  PROVE  ProfileInv'
<1> DEFINE n == Len(kinds)
           oper == [id |-> opNumber + 1, what |-> <<"op">>, within |-> ranges]
           made(i) == [id |-> launch + i, what |-> <<"launch">>, within |-> ranges]
           named(r) == [id |-> 0, what |-> r, within |-> {}]
           act(i) == [id |-> launch + i, kind |-> kinds[i], empty |-> i \in empties, by |-> by]
           noted(i) == [id |-> launch + i, kind |-> "annotation", empty |-> FALSE, by |-> by]
           notes == IF ranges = {} THEN {} ELSE 1 .. n
<1>1. n \in Nat /\ DOMAIN kinds = 1 .. n
  OBVIOUS
<1>2. /\ cpu' = cpu \cup {oper} \cup {made(i) : i \in 1 .. n} \cup {named(r) : r \in ranges}
      /\ cuda' = cuda \cup {act(i) : i \in 1 .. n} \cup {noted(i) : i \in notes}
      /\ launch' = launch + n
  BY <1>1 DEF Record
<1>3. launch \in Nat /\ launch' \in Nat /\ launch' >= launch /\ launch >= 2
  BY <1>1, <1>2 DEF ProfileInv
<1>4. \A e \in cpu' : e.what = <<"launch">> => e \in cpu \/ \E i \in 1 .. n : e = made(i)
  BY <1>2, NamesDiffer
<1>5. \A a \in cuda' : a \in cuda \/ \E i \in 1 .. n : a.id = launch + i /\ a.by = by
  <2>1. \A a \in cuda' : a \in cuda \/ (\E i \in 1 .. n : a = act(i)) \/ (\E i \in notes : a = noted(i))
    <3> HIDE DEF act, noted, notes
    <3> QED BY <1>2
  <2>2. \A i : /\ act(i).id = launch + i /\ act(i).by = by
                /\ noted(i).id = launch + i /\ noted(i).by = by
    OBVIOUS
  <2>3. notes \subseteq 1 .. n
    OBVIOUS
  <2> HIDE DEF act, noted, notes
  <2> QED BY <2>1, <2>2, <2>3
<1>6. \A i \in 1 .. n : made(i) \in cpu' /\ LaunchedIn(made(i), launch + i, ranges)
  <2> TAKE i \in 1 .. n
  <2>1. made(i) \in {made(j) : j \in 1 .. n}
    OBVIOUS
  <2>2. made(i) \in cpu'
    <3> HIDE DEF made
    <3> QED BY <1>2, <2>1
  <2>3. LaunchedIn(made(i), launch + i, ranges)
    BY DEF LaunchedIn
  <2> QED BY <2>2, <2>3
<1>7. IsFiniteSet(cuda')
  <2>1. IsFiniteSet(1 .. n)
    BY ONLY <1>1, NumbersAreFinite
  <2>2. IsFiniteSet({act(i) : i \in 1 .. n})
    <3> DEFINE f == [i \in 1 .. n |-> act(i)]
    <3>1. f = [i \in DOMAIN f |-> f[i]] /\ DOMAIN f = 1 .. n
      OBVIOUS
    <3>2. {act(i) : i \in 1 .. n} = Range(f)
      BY DEF Range
    <3> HIDE DEF f, act
    <3> QED BY <2>1, <3>1, <3>2, ImageIsFinite
  <2>3. IsFiniteSet({noted(i) : i \in 1 .. n})
    <3> DEFINE f == [i \in 1 .. n |-> noted(i)]
    <3>1. f = [i \in DOMAIN f |-> f[i]] /\ DOMAIN f = 1 .. n
      OBVIOUS
    <3>2. {noted(i) : i \in 1 .. n} = Range(f)
      BY DEF Range
    <3> HIDE DEF f, noted
    <3> QED BY <2>1, <3>1, <3>2, ImageIsFinite
  <2>4. {noted(i) : i \in notes} \subseteq {noted(i) : i \in 1 .. n}
    OBVIOUS
  <2>5. IsFiniteSet({noted(i) : i \in notes})
    <3> HIDE DEF noted, notes
    <3> QED BY <2>3, <2>4, FS_Subset
  <2> HIDE DEF act, noted, notes
  <2> QED BY <1>2, <2>2, <2>5, FS_Union DEF ProfileInv
<1>8. \A e \in cpu' : e.what = <<"launch">> => e.id \in 3 .. launch'
  BY <1>1, <1>2, <1>3, <1>4 DEF ProfileInv
<1>9. ASSUME NEW e \in cpu', NEW f \in cpu', e.what = <<"launch">>, f.what = <<"launch">>, e.id = f.id
      PROVE  e.within = f.within
  <2>1. \A i \in 1 .. n : made(i).id = launch + i /\ launch + i > launch /\ made(i).within = ranges
    BY <1>3
  <2>2. \A x \in cpu : x.what = <<"launch">> => x.id <= launch /\ x.id \in Nat
    BY <1>3 DEF ProfileInv
  <2>3. CASE e \in cpu /\ f \in cpu
    BY <2>3, <1>9 DEF ProfileInv
  <2>4. CASE e \notin cpu /\ f \notin cpu
    BY <2>4, <2>1, <1>4, <1>9
  <2>5. CASE e \in cpu /\ f \notin cpu
    <3>1. PICK i \in 1 .. n : f = made(i)
      BY <2>5, <1>4, <1>9
    <3> HIDE DEF made
    <3> QED BY <3>1, <2>1, <2>2, <2>5, <1>3, <1>9
  <2>6. CASE e \notin cpu /\ f \in cpu
    <3>1. PICK i \in 1 .. n : e = made(i)
      BY <2>6, <1>4, <1>9
    <3> HIDE DEF made
    <3> QED BY <3>1, <2>1, <2>2, <2>6, <1>3, <1>9
  <2> QED BY <2>3, <2>4, <2>5, <2>6
<1>10. \A a \in cuda' : a.id \in 1 .. launch'
  BY <1>1, <1>2, <1>3, <1>5 DEF ProfileInv
<1>11. ASSUME NEW a \in cuda'
       PROVE  \/ a.by = <<"earlier">> /\ a.id <= 2
              \/ \E e \in cpu' : \E x : LaunchedIn(e, a.id, x) /\ MadeIn(a.by, x)
  <2>1. CASE a \in cuda
    BY <2>1, <1>2 DEF ProfileInv, Explained
  <2>2. CASE a \notin cuda
    BY <2>2, <1>5, <1>6
  <2> QED BY <2>1, <2>2
<1>12. ASSUME NEW a \in cuda' PROVE Explained(a)'
  <2>1. \A x : MadeIn(a.by, x) => MadeIn(a.by, x)'
    BY DEF MadeIn, RangesOf
  <2>2. \A e, x : LaunchedIn(e, a.id, x)' <=> LaunchedIn(e, a.id, x)
    BY DEF LaunchedIn
  <2> QED BY <2>1, <2>2, <1>11 DEF Explained
<1>13. stages' \in Graph /\ progress'.trial \in Nat
  BY DEF ProfileInv
<1> QED BY <1>3, <1>7, <1>8, <1>9, <1>10, <1>12, <1>13 DEF ProfileInv

-----------------------------------------------------------------------------
\* What the code reads from such a recording is what was launched.
LEMMA ReadsTheLaunched ==
  ASSUME ProfileInv, NEW t \in Nat
  PROVE  /\ Activities(OperatorRange(t)) = Seen(t)
         /\ \A s \in Labelled : Activities(StageRange(t, s)) = {a \in Seen(t) : a.by = <<"stage", t, s>>}
<1>2. ASSUME NEW by, NEW x, MadeIn(by, x)
      PROVE  /\ OperatorRange(t) \in x <=> by[1] = "stage" /\ by[2] = t
             /\ \A s \in Labelled : StageRange(t, s) \in x <=> by = <<"stage", t, s>>
  <2>1. CASE by = <<"flush">> /\ x = {}
    BY <2>1, NamesDiffer
  <2>2. ASSUME NEW u \in Nat, NEW v \in DOMAIN stages, by = <<"stage", u, v>>, x = RangesOf(u, v)
        PROVE  /\ OperatorRange(t) \in x <=> by[1] = "stage" /\ by[2] = t
               /\ \A s \in Labelled : StageRange(t, s) \in x <=> by = <<"stage", t, s>>
    BY <2>2, NamesDiffer DEF RangesOf, Labelled
  <2> QED BY <1>2, <2>1, <2>2 DEF MadeIn
<1>3. ASSUME NEW a \in cuda
      PROVE  \/ a.by = <<"earlier">> /\ \A range : a.id \notin CorrelatedIds(range)
             \/ \E e \in cpu : \E x : LaunchedIn(e, a.id, x) /\ MadeIn(a.by, x)
  <2>1. CASE a.by = <<"earlier">> /\ a.id <= 2
    <3>1. \A e \in cpu : e.what = <<"launch">> => e.id # a.id
      BY <2>1 DEF ProfileInv
    <3> QED BY <2>1, <3>1 DEF CorrelatedIds
  <2> QED BY <2>1 DEF ProfileInv, Explained
<1>4. ASSUME NEW a \in cuda
      PROVE  /\ a.id \in CorrelatedIds(OperatorRange(t)) <=> a.by[1] = "stage" /\ a.by[2] = t
             /\ \A s \in Labelled : a.id \in CorrelatedIds(StageRange(t, s)) <=> a.by = <<"stage", t, s>>
  <2>1. CASE a.by = <<"earlier">> /\ \A range : a.id \notin CorrelatedIds(range)
    BY <2>1, NamesDiffer
  <2>2. CASE \E e \in cpu : \E x : LaunchedIn(e, a.id, x) /\ MadeIn(a.by, x)
    <3>1. PICK e \in cpu : \E x : LaunchedIn(e, a.id, x) /\ MadeIn(a.by, x)
      BY <2>2
    <3>2. PICK x : LaunchedIn(e, a.id, x) /\ MadeIn(a.by, x)
      BY <3>1
    <3>3. ASSUME NEW range PROVE a.id \in CorrelatedIds(range) <=> range \in x
      <4>1. ASSUME a.id \in CorrelatedIds(range) PROVE range \in x
        <5>1. PICK f \in cpu : range \in f.within /\ f.what = <<"launch">> /\ f.id = a.id
          BY <4>1 DEF CorrelatedIds
        <5> QED BY <5>1, <3>2 DEF ProfileInv, LaunchedIn
      <4>2. ASSUME range \in x PROVE a.id \in CorrelatedIds(range)
        BY <4>2, <3>2 DEF CorrelatedIds, LaunchedIn
      <4> QED BY <4>1, <4>2
    <3> QED BY <3>2, <3>3, <1>2
  <2> QED BY <1>3, <2>1, <2>2
<1>5. \A s \in Labelled : <<"stage", t, s>>[1] = "stage" /\ <<"stage", t, s>>[2] = t
  BY NamesDiffer
<1> QED BY <1>4, <1>5 DEF Activities, Seen

\* Adding up the sizes of disjoint sets, one after another, is the size of their union.
Adds(it, L, A) ==
  it = [s \in SUBSET L |-> IF s = {} THEN 0
         ELSE LET x == CHOOSE x \in s : TRUE IN it[s \ {x}] + Cardinality(A[x])]
UnionOver(s, A) == UNION {A[x] : x \in s}

LEMMA DisjointSum ==
  ASSUME NEW L, IsFiniteSet(L), NEW A, \A x \in L : IsFiniteSet(A[x]),
         \A x, y \in L : x # y => A[x] \cap A[y] = {}
  PROVE  /\ \E it : Adds(it, L, A)
         /\ \A it : Adds(it, L, A) => it[L] = Cardinality(UnionOver(L, A))
<1> DEFINE one(s) == CHOOSE x \in s : TRUE
           U(s) == UnionOver(s, A)
           w == [s \in SUBSET L |-> Cardinality(U(s))]
<1>1. \A s \in SUBSET L : s # {} => one(s) \in s
  OBVIOUS
<1>2. ASSUME NEW s \in SUBSET L PROVE IsFiniteSet(s) /\ IsFiniteSet(U(s)) /\ Cardinality(U(s)) \in Nat
  <2>1. IsFiniteSet(s)
    BY FS_Subset
  <2>2. IsFiniteSet({A[x] : x \in s})
    <3> DEFINE f == [x \in s |-> A[x]]
    <3>1. f = [x \in DOMAIN f |-> f[x]] /\ DOMAIN f = s
      OBVIOUS
    <3>2. {A[x] : x \in s} = Range(f)
      BY DEF Range
    <3> HIDE DEF f
    <3> QED BY <2>1, <3>1, <3>2, ImageIsFinite
  <2>3. IsFiniteSet(U(s))
    <3> DEFINE parts == {A[x] : x \in s}
    <3>1. \A T \in parts : IsFiniteSet(T)
      OBVIOUS
    <3>2. U(s) = UNION parts
      BY DEF UnionOver
    <3> HIDE DEF parts, U
    <3> QED BY <2>2, <3>1, <3>2, FS_UNION DEF parts
  <2> QED BY <2>1, <2>3, FS_CardinalityType
<1>3. ASSUME NEW s \in SUBSET L, NEW x \in s
      PROVE  Cardinality(U(s)) = Cardinality(U(s \ {x})) + Cardinality(A[x])
  <2>1. U(s) = U(s \ {x}) \cup A[x] /\ U(s \ {x}) \cap A[x] = {}
    BY DEF UnionOver
  <2>2. /\ IsFiniteSet(U(s \ {x})) /\ IsFiniteSet(A[x]) /\ Cardinality(A[x]) \in Nat
        /\ Cardinality(U(s \ {x})) \in Nat
    BY <1>2, FS_CardinalityType
  <2> HIDE DEF U
  <2>3. Cardinality(U(s \ {x}) \cap A[x]) = 0
    BY <2>1, FS_EmptySet
  <2>4. Cardinality(U(s \ {x}) \cup A[x])
          = Cardinality(U(s \ {x})) + Cardinality(A[x]) - Cardinality(U(s \ {x}) \cap A[x])
    BY <2>2, FS_Union
  <2> QED BY <2>1, <2>2, <2>3, <2>4
<1>4. U({}) = {} /\ Cardinality({}) = 0
  BY FS_EmptySet DEF UnionOver
<1>5. Adds(w, L, A)
  <2>1. \A s \in SUBSET L : w[s] = Cardinality(U(s))
    OBVIOUS
  <2>2. w = [s \in SUBSET L |-> w[s]]
    OBVIOUS
  <2> HIDE DEF w, U
  <2>3. \A s \in SUBSET L : w[s] = IF s = {} THEN 0 ELSE w[s \ {one(s)}] + Cardinality(A[one(s)])
    <3> TAKE s \in SUBSET L
    <3>1. CASE s = {}
      BY <3>1, <2>1, <1>4
    <3>2. CASE s # {}
      <4> HIDE DEF one
      <4>1. one(s) \in s /\ s \ {one(s)} \in SUBSET L
        BY <1>1, <3>2
      <4> QED BY <4>1, <3>2, <2>1, <1>3
    <3> QED BY <3>1, <3>2
  <2> QED BY <2>2, <2>3 DEF Adds
<1>6. ASSUME NEW it, Adds(it, L, A) PROVE it[L] = Cardinality(U(L))
  <2> DEFINE Bad == {n \in Nat : \E s \in SUBSET L : Cardinality(s) = n /\ it[s] # Cardinality(U(s))}
  <2>1. \A s \in SUBSET L : it[s] = IF s = {} THEN 0 ELSE it[s \ {one(s)}] + Cardinality(A[one(s)])
    BY <1>6 DEF Adds
  <2> HIDE DEF U
  <2>2. ASSUME Bad # {} PROVE FALSE
    <3>1. PICK n \in Bad : \A k \in Bad : n <= k
      <4>1. Bad \in SUBSET Nat
        OBVIOUS
      <4> HIDE DEF Bad
      <4> QED BY <4>1, <2>2, HasLeast
    <3>2. PICK s \in SUBSET L : Cardinality(s) = n /\ it[s] # Cardinality(U(s))
      BY <3>1
    <3>3. s # {}
      BY <3>2, <2>1, <1>4
    <3> HIDE DEF one
    <3>4. one(s) \in s /\ s \ {one(s)} \in SUBSET L
      BY <1>1, <3>3
    <3>5. it[s \ {one(s)}] # Cardinality(U(s \ {one(s)}))
      BY <3>2, <3>3, <3>4, <2>1, <1>3
    <3>6. Cardinality(s \ {one(s)}) = n - 1 /\ n \in Nat /\ n - 1 \in Nat
      <4>1. IsFiniteSet(s) /\ IsFiniteSet(s \ {one(s)})
        BY <1>2, <3>4
      <4> QED BY <4>1, <3>2, <3>4, FS_RemoveElement, FS_CardinalityType
    <3>7. n - 1 \in Bad
      BY <3>4, <3>5, <3>6
    <3> QED BY <3>1, <3>6, <3>7
  <2>3. Cardinality(L) \in Nat
    BY FS_CardinalityType
  <2> QED BY <2>2, <2>3
<1> QED BY <1>5, <1>6

StageActivities(t) == CountOver(t, Activities)

\* What the code compares with the operator's count is the size of what the
\* stages launched together.
LEMMA CountsTogether ==
  ASSUME ProfileInv, NEW t \in Nat
  PROVE  StageActivities(t) = Cardinality(UNION {Activities(StageRange(t, s)) : s \in Labelled})
<1> DEFINE A == [s \in Labelled |-> Activities(StageRange(t, s))]
           Eq(it) == [s \in SUBSET Labelled |-> IF s = {} THEN 0
                       ELSE LET x == CHOOSE x \in s : TRUE
                            IN  it[s \ {x}] + Cardinality(Activities(StageRange(t, x)))]
           iter == CHOOSE it : it = Eq(it)
<1>1. StageActivities(t) = iter[Labelled]
  BY DEF StageActivities, CountOver, FoldSet, MapThenFoldSet
<1>2. IsFiniteSet(Labelled)
  <2>1. stages \in Seq(Range(stages))
    BY WorkIsListed DEF ProfileInv
  <2>2. Labelled \subseteq 1 .. Len(stages) /\ Len(stages) \in Nat
    BY <2>1 DEF Labelled
  <2>3. IsFiniteSet(1 .. Len(stages))
    BY <2>2, FS_Interval
  <2> QED BY <2>2, <2>3, FS_Subset
<1>3. \A s \in Labelled : A[s] = Activities(StageRange(t, s)) /\ IsFiniteSet(A[s])
  <2> TAKE s \in Labelled
  <2>1. Activities(StageRange(t, s)) \subseteq cuda
    BY DEF Activities
  <2> QED BY <2>1, FS_Subset DEF ProfileInv
<1>4. \A x, y \in Labelled : x # y => A[x] \cap A[y] = {}
  BY <1>3, ReadsTheLaunched, NamesDiffer
<1>5. ASSUME NEW it PROVE it = Eq(it) <=> Adds(it, Labelled, A)
  <2> HIDE DEF A
  <2>1. \A s \in SUBSET Labelled : s # {} => (CHOOSE x \in s : TRUE) \in Labelled
    OBVIOUS
  <2>2. \A s \in SUBSET Labelled : s # {} =>
          A[CHOOSE x \in s : TRUE] = Activities(StageRange(t, CHOOSE x \in s : TRUE))
    BY <1>3, <2>1
  <2>3. Eq(it) = [s \in SUBSET Labelled |-> IF s = {} THEN 0
                    ELSE LET x == CHOOSE x \in s : TRUE IN it[s \ {x}] + Cardinality(A[x])]
    BY <2>2
  <2> QED BY <2>3 DEF Adds
<1>6. UnionOver(Labelled, A) = UNION {Activities(StageRange(t, s)) : s \in Labelled}
  BY DEF UnionOver
<1> HIDE DEF A, Eq
<1>7. /\ \E it : Adds(it, Labelled, A)
      /\ \A it : Adds(it, Labelled, A) => it[Labelled] = Cardinality(UnionOver(Labelled, A))
  BY <1>2, <1>3, <1>4, DisjointSum
<1>8. iter = Eq(iter)
  BY <1>5, <1>7
<1>9. Adds(iter, Labelled, A)
  BY <1>5, <1>8
<1> HIDE DEF iter
<1> QED BY <1>1, <1>6, <1>7, <1>9

\* A profile the code accepts covers every operator with its stages.
LEMMA CoverIsExact ==
  ASSUME ProfileInv, TopologyHolds
  PROVE  \A t \in 0 .. (KinetoTrials - 1) :
           /\ Activities(OperatorRange(t)) = Seen(t)
           /\ \A a \in Seen(t) : \E s \in Labelled : a \in Activities(StageRange(t, s))
           /\ \A s \in Labelled : Activities(StageRange(t, s)) = {a \in Seen(t) : a.by = <<"stage", t, s>>}
<1> TAKE t \in 0 .. (KinetoTrials - 1)
<1> DEFINE together == UNION {Activities(StageRange(t, s)) : s \in Labelled}
<1>1. t \in Nat
  OBVIOUS
<1>2. /\ Activities(OperatorRange(t)) = Seen(t)
      /\ \A s \in Labelled : Activities(StageRange(t, s)) = {a \in Seen(t) : a.by = <<"stage", t, s>>}
  BY <1>1, ReadsTheLaunched
<1>3. StageActivities(t) = Cardinality(Seen(t))
  BY <1>2 DEF TopologyHolds, StageActivities
<1>4. StageActivities(t) = Cardinality(together)
  BY <1>1, CountsTogether
<1>5. IsFiniteSet(Seen(t)) /\ together \subseteq Seen(t)
  <2>1. Seen(t) \subseteq cuda
    BY DEF Seen
  <2> QED BY <1>2, <2>1, FS_Subset DEF ProfileInv
<1>6. together = Seen(t)
  <2> HIDE DEF together
  <2> QED BY <1>3, <1>4, <1>5, FS_Subset
<1> QED BY <1>2, <1>6

\* Where nothing was recorded all reads as before.
LEMMA SameRecording ==
  ASSUME ProfileInv, UNCHANGED <<stages, opNumber, launch, cpu, cuda, progress>>
  PROVE  /\ ProfileInv'
         /\ \A range : Activities(range)' = Activities(range)
         /\ \A t : Seen(t)' = Seen(t)
         /\ Labelled' = Labelled
         /\ \A t, s : OperatorRange(t)' = OperatorRange(t) /\ StageRange(t, s)' = StageRange(t, s)
<1>1. ProfileInv'
  BY DEF ProfileInv, Explained, LaunchedIn, MadeIn, RangesOf
<1>2. \A range : Activities(range)' = Activities(range)
  BY DEF Activities, CorrelatedIds
<1>3. (\A t : Seen(t)' = Seen(t)) /\ Labelled' = Labelled
  BY DEF Seen, Labelled
<1> QED BY <1>1, <1>2, <1>3 DEF OperatorRange, StageRange

\* A profile that is accepted charges every trial with what its own stages
\* launched and with nothing else, for any graph of stages, labelled or not,
\* any number of trials and wherever operators are numbered.
THEOREM ChargesAreExact == ProfileSpec => []AttributionExact
<1> DEFINE Inv == ProfileInv /\ AttributionExact
<1>1. ProfileInit => Inv
  <2> SUFFICES ASSUME ProfileInit PROVE Inv
    OBVIOUS
  <2>1. cuda = {[id |-> i, kind |-> "kernel", empty |-> FALSE, by |-> <<"earlier">>] : i \in {1, 2}}
    BY DEF ProfileInit
  <2>2. cuda = {[id |-> 1, kind |-> "kernel", empty |-> FALSE, by |-> <<"earlier">>],
                [id |-> 2, kind |-> "kernel", empty |-> FALSE, by |-> <<"earlier">>]}
    BY <2>1
  <2>3. IsFiniteSet(cuda)
    <3> DEFINE a(i) == [id |-> i, kind |-> "kernel", empty |-> FALSE, by |-> <<"earlier">>]
    <3>1. cuda = {a(1)} \cup {a(2)}
      BY <2>2
    <3> HIDE DEF a
    <3> QED BY <3>1, FS_Singleton, FS_Union
  <2> QED BY <2>2, <2>3 DEF ProfileInit, ProfileInv, Explained, AttributionExact
<1>2. Inv /\ [ProfileNext]_profileVars => Inv'
  <2> SUFFICES ASSUME Inv, [ProfileNext]_profileVars PROVE Inv'
    OBVIOUS
  <2>1. CASE Flush
    <3> DEFINE scrub == <<"kernel">>
    <3>1. /\ Record(scrub, {}, <<"flush">>, {}) /\ stages' = stages
          /\ progress'.trial \in Nat /\ verdictOn' # "accepted"
      BY <2>1 DEF Flush, ProfileInv
    <3>2. scrub \in Seq(Range(scrub)) /\ MadeIn(<<"flush">>, {})
      BY DEF MadeIn, Range
    <3>3. IsFiniteSet({}) /\ <<"launch">> \notin {}
      BY FS_EmptySet
    <3> HIDE DEF scrub
    <3> QED BY <3>1, <3>2, <3>3, RecordKeeps DEF AttributionExact
  <2>2. CASE RunProfiled
    <3> DEFINE t == progress.trial
               s == progress.stage
               kinds == stages[s].work[FixtureOf(t)]
    <3>1. PICK empties \in {{}, {1}} :
            Record(kinds, RangesOf(t, s), <<"stage", t, s>>, empties)
      BY <2>2 DEF RunProfiled, RangesOf
    <3>2. /\ stages' = stages /\ verdictOn' # "accepted" /\ t \in Nat /\ s \in DOMAIN stages
          /\ progress'.trial \in Nat
      BY <2>2 DEF RunProfiled, ProfileInv
    <3>3. kinds \in Seq(Range(kinds))
      BY <3>2, WorkIsListed DEF ProfileInv, FixtureOf
    <3>4. IsFiniteSet(RangesOf(t, s)) /\ <<"launch">> \notin RangesOf(t, s)
      <4>1. IsFiniteSet({OperatorRange(t)}) /\ IsFiniteSet({StageRange(t, s)}) /\ IsFiniteSet({})
        BY FS_Singleton, FS_EmptySet
      <4> QED BY <4>1, FS_Union, NamesDiffer DEF RangesOf
    <3>5. MadeIn(<<"stage", t, s>>, RangesOf(t, s))
      BY <3>2 DEF MadeIn
    <3> HIDE DEF kinds, t, s
    <3> QED BY <3>1, <3>2, <3>3, <3>4, <3>5, RecordKeeps DEF AttributionExact
  <2>3. CASE Extract
    <3>1. /\ UNCHANGED <<stages, opNumber, launch, cpu, cuda, progress>>
          /\ (verdictOn' = "accepted" => TopologyHolds)
      BY <2>3 DEF Extract
    <3> QED BY <3>1, CoverIsExact, SameRecording DEF AttributionExact
  <2>4. CASE UNCHANGED profileVars
    <3>1. UNCHANGED <<stages, opNumber, launch, cpu, cuda, progress, verdictOn>>
      BY <2>4 DEF profileVars
    <3> QED BY <3>1, SameRecording DEF AttributionExact
  <2> QED BY <2>1, <2>2, <2>3, <2>4 DEF ProfileNext
<1>3. Inv => AttributionExact
  OBVIOUS
<1> QED BY <1>1, <1>2, <1>3, PTL DEF ProfileSpec
=============================================================================
