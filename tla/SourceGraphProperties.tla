------------------------ MODULE SourceGraphProperties ------------------------
(***************************************************************************)
(* The analysis of a source region over every graph of a few nodes.        *)
(***************************************************************************)
EXTENDS SourceGraph

CONSTANT MaxRoutes      \* routes of a node

\* Any targets, in increasing order; a node may lead to itself or nowhere.
Targets == {SetToSortSeq(T, <) : T \in {S \in SUBSET (Ids \cup {Nowhere}) :
                                          Cardinality(S) <= MaxRoutes}}
\* A route to nowhere or a missing entry ends the analysis early: a few suffice.
AnySource ==
  [entry : {1}, targets : [Ids -> {t \in Targets : Nowhere \notin ToSet(t)}]]
  \cup [entry : {1, Nowhere}, targets : [Ids -> {<<>>, <<2>>, <<Nowhere, 1>>}]]

\* The nodes a nonempty way from n leads to.
Beyond(n) == Closure(successors[n], successors)

\* When the searches are over, the nodes they report are those that lie on a cycle and
\* can be reached, whatever order the routes are in.
CyclesAreFound ==
  phase = "done" /\ ~entryMissing => cyclic = {n \in reachableNodes : n \in Beyond(n)}

\* The source is accepted exactly when the same graph passes the checks the program is
\* admitted by: no route that leads nowhere, all nodes reachable and able to exit, and
\* an order in which every route leads forward.
VerdictOfAdmission ==
  phase = "done" =>
    (analyzeRegionGraph <=>
       /\ region.entry \in Ids
       /\ \A n \in Ids : ToSet(nodeTargets(n)) \subseteq Ids
       /\ reachableNodes = Ids /\ nodesThatCanExit = Ids
       /\ \A S \in SUBSET Ids \ {{}} : \E n \in S : predecessors[n] \cap S = {})
=============================================================================
