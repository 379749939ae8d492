-------------------------- MODULE TopologicalOrder --------------------------
(***************************************************************************)
(* Kahn's algorithm, as admission, the analyses and the compiler run it    *)
(* over the nodes of a region and the routes between them.                 *)
(*                                                                         *)
(* A route is [from, to, status]: two routes may lead from one node to the *)
(* same other one with different statuses, and each counts.  Where the code*)
(* keeps the nodes without open routes in a list and takes the first or the*)
(* last one (fifo, lifo), here any of them may be next.                    *)
(***************************************************************************)
EXTENDS Integers, Sequences, FiniteSets

CONSTANTS
  Ids,          \* names a node may have
  Regions       \* the regions to order: [nodes, routes, entry]

Statuses == {"succeeded", "failed", "cancelled", "neutral"}
Route == [from : Ids, to : Ids, status : Statuses]

ASSUME RegionsAssumption ==
  \A r \in Regions : /\ r.nodes \subseteq Ids /\ IsFiniteSet(r.nodes)
                     /\ r.routes \subseteq Route /\ IsFiniteSet(r.routes)
                     /\ \A e \in r.routes : e.from \in r.nodes
                     /\ r.entry \in Ids

VARIABLES
  region,       \* the region being ordered; it does not change
  indegrees,    \* node -> its routes from nodes that are not ordered yet
  ready,        \* nodes without such routes, still to be ordered
  ordered       \* the order so far

sorting == <<indegrees, ready, ordered>>

Nodes == region.nodes
\* Routes to ids the region does not have are no edges of the graph.
Edges == {e \in region.routes : e.to \in Nodes}
Into(n) == {e \in Edges : e.to = n}
Ordered == {ordered[i] : i \in DOMAIN ordered}

computeIndegrees == [n \in Nodes |-> Cardinality(Into(n))]

InitSorting ==
  /\ region \in Regions
  /\ indegrees = computeIndegrees
  /\ ready = {n \in Nodes : indegrees[n] = 0}
  /\ ordered = <<>>

\* Mutants: the routes out of a node are taken off once per target, and a node
\* is ready as soon as one of its routes is.
freedOnce(n) ==
  [m \in Nodes |-> indegrees[m] - IF \E e \in Edges : e.from = n /\ e.to = m THEN 1 ELSE 0]
becameReadyEarly(n) == {m \in Nodes : \E e \in Edges : e.from = n /\ e.to = m}

\* The indegrees once n is ordered.
freed(n) == [m \in Nodes |-> indegrees[m] - Cardinality({e \in Into(m) : e.from = n})]

becameReady(n) ==
  {m \in Nodes : freed(n)[m] = 0 /\ \E e \in Edges : e.from = n /\ e.to = m}

Take(n) ==
  /\ n \in ready
  /\ ordered' = Append(ordered, n)
  /\ indegrees' = freed(n)
  /\ ready' = (ready \ {n}) \cup becameReady(n)
  /\ UNCHANGED region

\* A mutant: done as soon as nothing is ready.
completeOnceEmpty == ready = {}

complete == Len(ordered) = Cardinality(Nodes)
=============================================================================
