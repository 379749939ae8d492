---------------------------- MODULE SourceGraph ----------------------------
(***************************************************************************)
(* How the validation of a source decides about the graph of a region      *)
(* (analyzeRegionGraph): the nodes that lie on a cycle are found by two    *)
(* searches, one along the routes that notes the nodes in the order they   *)
(* are finished, and one against the routes that takes them in the reverse *)
(* order and collects one component after the other.                       *)
(*                                                                         *)
(* Every strategy of an agent counts here: which one is selected is known  *)
(* to the compiler only.                                                   *)
(***************************************************************************)
EXTENDS Integers, Sequences, FiniteSets, SequencesExt

CONSTANTS
  Ids,          \* the nodes of a region
  Nowhere,      \* an id no node has
  Sources       \* the regions to analyse: [entry, targets]

ASSUME SourcesAssumption ==
  /\ Nowhere \notin Ids
  /\ \A r \in Sources : /\ r.entry \in Ids \cup {Nowhere}
                        /\ DOMAIN r.targets = Ids

VARIABLES
  region,       \* targets: node -> the targets of its routes, in order; none of an end
  phase,        \* "finish", "collect", "done"
  pending,      \* tasks of the first search: a node to enter or one to finish
  visited, finished,
  assigned,     \* nodes of the components collected so far
  cyclic        \* those of them that lie on a cycle

vars == <<region, phase, pending, visited, finished, assigned, cyclic>>

-----------------------------------------------------------------------------
nodeTargets(n) == region.targets[n]
\* Routes to ids the region does not have lead nowhere, and are reported.
edges(n) == SelectSeq(nodeTargets(n), LAMBDA t : t \in Ids)
invalidTargets == {n \in Ids : edges(n) # nodeTargets(n)}
entryMissing == region.entry \notin Ids

\* What a search from starts finds when n leads to next[n].
Closure(starts, next) ==
  LET found[steps \in 0..Cardinality(Ids)] ==
        IF steps = 0 THEN starts
        ELSE LET earlier == found[steps - 1] IN earlier \cup UNION {next[n] : n \in earlier}
  IN  found[Cardinality(Ids)]

successors == [n \in Ids |-> ToSet(edges(n))]
predecessors == [n \in Ids |-> {m \in Ids : n \in ToSet(edges(m))}]

reachableNodes == IF entryMissing THEN {} ELSE Closure({region.entry}, successors)
nodesThatCanExit == Closure({n \in Ids : nodeTargets(n) = <<>>}, predecessors)

\* A mutant: along the routes once more.
reverseEdgesForward == [n \in Ids |-> successors[n] \cap reachableNodes]

reverseEdges == [n \in Ids |-> predecessors[n] \cap reachableNodes]

-----------------------------------------------------------------------------
Enter(n) == [key |-> n, expanded |-> FALSE]
Finish(n) == [key |-> n, expanded |-> TRUE]

Init ==
  /\ region \in Sources
  /\ phase = IF region.entry \notin Ids THEN "done" ELSE "finish"
  /\ pending = IF region.entry \notin Ids THEN <<>> ELSE <<Enter(region.entry)>>
  /\ visited = {} /\ finished = <<>> /\ assigned = {} /\ cyclic = {}

\* A node that is met again meanwhile is entered once only.
scheduleFinishVisit ==
  LET task == Last(pending)
      met == SelectSeq(edges(task.key),
                       LAMBDA t : t \in reachableNodes /\ t \notin visited \cup {task.key})
  IN  /\ phase = "finish" /\ pending # <<>> /\ ~task.expanded
      /\ IF task.key \in visited
         THEN pending' = Front(pending) /\ UNCHANGED visited
         ELSE /\ visited' = visited \cup {task.key}
              /\ pending' = Front(pending) \o <<Finish(task.key)>>
                              \o [i \in DOMAIN met |-> Enter(met[i])]
      /\ UNCHANGED <<region, phase, finished, assigned, cyclic>>

appendFinishOrder ==
  /\ phase = "finish" /\ pending # <<>> /\ Last(pending).expanded
  /\ finished' = Append(finished, Last(pending).key)
  /\ pending' = Front(pending)
  /\ UNCHANGED <<region, phase, visited, assigned, cyclic>>

\* The search is repeated from the other reachable nodes; the one from the entry, which
\* comes first, has visited them.
finishOrder ==
  /\ phase = "finish" /\ pending = <<>>
  /\ phase' = "collect"
  /\ UNCHANGED <<region, pending, visited, finished, assigned, cyclic>>

collectComponent(start) ==
  Closure({start}, [n \in Ids |-> reverseEdges[n] \ assigned])

isCyclicComponent(component) ==
  Cardinality(component) > 1 \/ \E n \in component : n \in ToSet(edges(n))

\* The component of the node that was finished last of those not in any yet.
cyclicNodes ==
  LET left == SelectSeq(finished, LAMBDA n : n \notin assigned)
      component == collectComponent(Last(left))
  IN  /\ phase = "collect" /\ left # <<>>
      /\ assigned' = assigned \cup component
      /\ cyclic' = cyclic \cup IF isCyclicComponent(component) THEN component ELSE {}
      /\ UNCHANGED <<region, phase, pending, visited, finished>>

Collected ==
  /\ phase = "collect" /\ \A i \in DOMAIN finished : finished[i] \in assigned
  /\ phase' = "done"
  /\ UNCHANGED <<region, pending, visited, finished, assigned, cyclic>>

\* A mutant: a loop nobody gets out of is what counts as a cycle.
analyzeRegionGraphExits ==
  ~entryMissing /\ invalidTargets = {} /\ reachableNodes = Ids /\ reachableNodes \subseteq nodesThatCanExit

\* No diagnostic for the region.
analyzeRegionGraph ==
  /\ ~entryMissing
  /\ invalidTargets = {}
  /\ reachableNodes = Ids
  /\ cyclic = {}
  /\ reachableNodes \subseteq nodesThatCanExit

Next == scheduleFinishVisit \/ appendFinishOrder \/ finishOrder \/ cyclicNodes \/ Collected
Spec == Init /\ [][Next]_vars
=============================================================================
