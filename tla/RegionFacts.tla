----------------------------- MODULE RegionFacts -----------------------------
(***************************************************************************)
(* What admission and the compiler find out about a region: whether its    *)
(* graph is sound (hasValidRegionGraph), and which results a node may read *)
(* because every way to it passes the producer with the same status        *)
(* (statusDominates).  Then a token walks the region the way the machine   *)
(* does, one route at a time, and what was promised has to be there.       *)
(*                                                                         *)
(* phase: "sort", then "admit", then the facts ("dominators", "reachable") *)
(* and then "walk"; "refused" if the graph has a cycle.                    *)
(***************************************************************************)
EXTENDS TopologicalOrder

VARIABLES
  phase,
  admitted,     \* the verdict of hasValidRegionGraph
  dominators,   \* node -> nodes on every way from the entry to it
  reachable,    \* node -> nodes that can be reached from it
  position,     \* how many nodes of the order have been visited in this phase
  at, taken     \* the node of the token, and the status each node was left with

facts == <<dominators, reachable>>
walk == <<at, taken>>
vars == <<region, sorting, phase, admitted, facts, position, walk>>

-----------------------------------------------------------------------------
(***************************************************************************)
(* The graph of the region.                                                *)
(***************************************************************************)
Successors(n) == {e.to : e \in {d \in Edges : d.from = n}}
Predecessors(n) == {e.from : e \in Into(n)}
Ends == {n \in Nodes : \A e \in region.routes : e.from # n}

\* What visitFrom collects from `starts` along the arcs: the least set of nodes
\* that contains them and is closed under the arcs.
visitFrom(starts, arcs) ==
  {n \in Nodes : \A S \in SUBSET Nodes :
     starts \subseteq S /\ (\A a \in arcs : a[1] \in S => a[2] \in S) => n \in S}

Arcs == {<<e.from, e.to>> : e \in Edges}
reverseGraph == {<<e.to, e.from>> : e \in Edges}
Reached == visitFrom({region.entry} \cap Nodes, Arcs)
canExit == visitFrom(Ends, reverseGraph)

hasValidRegionGraph ==
  /\ region.entry \in Nodes
  /\ Edges = region.routes
  /\ Reached = Nodes
  /\ canExit = Nodes
  /\ complete

-----------------------------------------------------------------------------
Init ==
  /\ InitSorting
  /\ phase = "sort"
  /\ admitted = FALSE
  /\ dominators = [n \in Nodes |-> {}]
  /\ reachable = [n \in Nodes |-> {}]
  /\ position = 0
  /\ at = region.entry
  /\ taken = <<>>

Sort ==
  /\ phase = "sort"
  /\ \E n \in ready : Take(n)
  /\ UNCHANGED <<phase, admitted, facts, position, walk>>

\* The facts of a region are asked for only if it has an order and an entry.
Admit ==
  /\ phase = "sort"
  /\ ready = {}
  /\ admitted' = hasValidRegionGraph
  /\ phase' = IF complete /\ region.entry \in Nodes THEN "dominators" ELSE "refused"
  /\ UNCHANGED <<region, sorting, facts, position, walk>>

\* Predecessors that the entry does not reach do not count: in an admitted region
\* there are none, in a source region those are the routes of a strategy that was
\* not selected.
Counting(n) == Predecessors(n) \cap Reached

\* A mutant: all predecessors count.
dominatorsOfAll(n) ==
  {n} \cup IF Predecessors(n) = {} THEN {}
           ELSE {d \in Nodes : \A p \in Predecessors(n) : d \in dominators[p]}

dominatorsOf(n) ==
  {n} \cup IF Counting(n) = {} THEN {}
           ELSE {d \in Nodes : \A p \in Counting(n) : d \in dominators[p]}

Dominate ==
  /\ phase = "dominators"
  /\ position < Len(ordered)
  /\ LET n == ordered[position + 1]
     IN  dominators' = [dominators EXCEPT ![n] = IF n \in Reached THEN dominatorsOf(n) ELSE {}]
  /\ position' = position + 1
  /\ UNCHANGED <<region, sorting, phase, admitted, reachable, walk>>

Turn ==
  /\ phase = "dominators"
  /\ position = Len(ordered)
  /\ phase' = "reachable"
  /\ UNCHANGED <<region, sorting, admitted, facts, position, walk>>

\* The order backwards.
Reach ==
  /\ phase = "reachable"
  /\ position > 0
  /\ LET n == ordered[position]
     IN  reachable' = [reachable EXCEPT
           ![n] = {n} \cup UNION {reachable[m] : m \in Successors(n)}]
  /\ position' = position - 1
  /\ UNCHANGED <<region, sorting, phase, admitted, dominators, walk>>

Start ==
  /\ phase = "reachable"
  /\ position = 0
  /\ phase' = "walk"
  /\ UNCHANGED <<region, sorting, admitted, facts, position, walk>>

\* A mutant: one route of that status is enough.
statusDominatesOnce(producer, consumer, status) ==
  LET leading == {e \in Edges : e.from = producer /\ consumer \in reachable[e.to]}
  IN  /\ producer \in dominators[consumer]
      /\ \E e \in leading : e.status = status

statusDominates(producer, consumer, status) ==
  LET leading == {e \in Edges : e.from = producer /\ consumer \in reachable[e.to]}
  IN  /\ producer \in dominators[consumer]
      /\ leading # {}
      /\ \A e \in leading : e.status = status

\* The machine routes a result of the node: it records the status and moves on.
Step ==
  /\ phase = "walk"
  /\ \E e \in Edges :
       /\ e.from = at
       /\ at' = e.to
       /\ taken' = [n \in DOMAIN taken \cup {at} |-> IF n = at THEN e.status ELSE taken[n]]
  /\ UNCHANGED <<region, sorting, phase, admitted, facts, position>>

Next == Sort \/ Admit \/ Dominate \/ Turn \/ Reach \/ Start \/ Step
Spec == Init /\ [][Next]_vars
FairSpec == Spec /\ WF_vars(Next)
=============================================================================
