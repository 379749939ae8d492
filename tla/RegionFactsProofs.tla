-------------------------- MODULE RegionFactsProofs --------------------------
(***************************************************************************)
(* For every region: its order is topological, and the results its nodes   *)
(* are promised are there when a token arrives.                            *)
(***************************************************************************)
EXTENDS RegionFactsProperties, FiniteSetTheorems, TLAPS

\* The routes into n that still keep it from being ordered.
Open(n) == {e \in Into(n) : e.from \notin Ordered}

SortInv ==
  /\ region \in Regions
  /\ indegrees \in [Nodes -> Nat]
  /\ \A n \in Nodes : indegrees[n] = Cardinality(Open(n))
  /\ ordered \in Seq(Nodes)
  /\ ready \subseteq Nodes
  /\ \A n \in ready : n \notin Ordered /\ Open(n) = {}
  /\ OrderIsTopological

\* The routes of a region are finitely many and lead between its nodes.
LEMMA EdgesFinite ==
  ASSUME region \in Regions
  PROVE  /\ IsFiniteSet(Nodes)
         /\ IsFiniteSet(Edges)
         /\ \A e \in Edges : e.from \in Nodes /\ e.to \in Nodes
         /\ \A n : IsFiniteSet(Into(n)) /\ IsFiniteSet(Open(n))
<1>1. IsFiniteSet(Nodes) /\ IsFiniteSet(region.routes)
  BY RegionsAssumption DEF Nodes
<1>2. IsFiniteSet(Edges)
  BY <1>1, FS_Subset DEF Edges
<1>3. \A e \in Edges : e.from \in Nodes /\ e.to \in Nodes
  BY RegionsAssumption DEF Edges, Nodes
<1>4. \A n : Into(n) \in SUBSET Edges /\ Open(n) \in SUBSET Edges
  BY DEF Into, Open
<1>5. \A n : IsFiniteSet(Into(n)) /\ IsFiniteSet(Open(n))
  BY <1>2, <1>4, FS_Subset
<1> QED
  BY <1>1, <1>2, <1>3, <1>5

\* Nothing is ordered at first, so every route is open.
LEMMA InitSorts ==
  ASSUME Init
  PROVE  SortInv
<1> USE DEF Init, InitSorting, computeIndegrees
<1>1. region \in Regions /\ ordered = <<>>
  OBVIOUS
<1>2. Ordered = {}
  BY <1>1 DEF Ordered
<1>3. \A n : Open(n) = Into(n) /\ IsFiniteSet(Into(n))
  BY <1>1, <1>2, EdgesFinite DEF Open
<1>4. \A n \in Nodes : indegrees[n] = Cardinality(Open(n)) /\ indegrees[n] \in Nat
  BY <1>3, FS_CardinalityType
<1>5. \A n \in ready : Open(n) = {} /\ n \notin Ordered
  BY <1>2, <1>3, <1>4, FS_EmptySet
<1>6. OrderIsTopological
  BY <1>1 DEF OrderIsTopological
<1> QED
  BY <1>1, <1>4, <1>5, <1>6 DEF SortInv

\* Appending a node without open routes to it keeps the order topological.
LEMMA TakeSorts ==
  ASSUME SortInv, NEW n \in ready, Take(n)
  PROVE  SortInv'
<1> DEFINE Leaving(m) == {e \in Into(m) : e.from = n}
<1>1. /\ region' = region /\ Nodes' = Nodes /\ Edges' = Edges
      /\ \A m : Into(m)' = Into(m)
  BY DEF Take, Nodes, Edges, Into
<1>2. /\ n \in Nodes /\ n \notin Ordered /\ Open(n) = {}
      /\ ordered \in Seq(Nodes) /\ ordered' = Append(ordered, n)
  BY DEF SortInv, Take
<1>3. /\ Len(ordered') = Len(ordered) + 1
      /\ \A i \in DOMAIN ordered : i \in DOMAIN ordered' /\ ordered'[i] = ordered[i]
      /\ ordered'[Len(ordered) + 1] = n
      /\ DOMAIN ordered' = DOMAIN ordered \cup {Len(ordered) + 1}
      /\ DOMAIN ordered = 1..Len(ordered) /\ Len(ordered) \in Nat
  BY <1>2
<1>4. Ordered' = Ordered \cup {n}
  BY <1>3 DEF Ordered
<1>5. \A m : Open(m)' = Open(m) \ Leaving(m) /\ Leaving(m) \subseteq Open(m)
  BY <1>1, <1>2, <1>4 DEF Open
<1>6. \A m \in Nodes : indegrees'[m] = Cardinality(Open(m)')
                       /\ indegrees'[m] \in Nat
  <2> SUFFICES ASSUME NEW m \in Nodes
               PROVE  indegrees'[m] = Cardinality(Open(m)') /\ indegrees'[m] \in Nat
    OBVIOUS
  <2>1. IsFiniteSet(Open(m))
    BY EdgesFinite DEF SortInv
  <2>2. Cardinality(Open(m) \ Leaving(m)) = Cardinality(Open(m)) - Cardinality(Leaving(m))
        /\ IsFiniteSet(Open(m) \ Leaving(m))
    <3>1. Open(m) \cap Leaving(m) = Leaving(m)
      BY <1>5
    <3> HIDE DEF Leaving
    <3> QED
      BY <2>1, <3>1, FS_Difference
  <2>3. indegrees'[m] = indegrees[m] - Cardinality(Leaving(m))
    BY DEF Take, freed
  <2>4. indegrees[m] = Cardinality(Open(m))
    BY DEF SortInv
  <2>5. Cardinality(Open(m) \ Leaving(m)) \in Nat
    BY <2>2, FS_CardinalityType
  <2> QED
    BY <1>5, <2>2, <2>3, <2>4, <2>5
<1>7. ordered' \in Seq(Nodes')
  BY <1>1, <1>2
<1>8. indegrees' \in [Nodes' -> Nat]
  <2>1. indegrees' = [m \in Nodes |-> indegrees'[m]]
    BY DEF Take, freed
  <2> QED
    BY <1>1, <1>6, <2>1
<1>9. ready' \subseteq Nodes'
  BY <1>1 DEF Take, becameReady, SortInv
<1>10. \A m \in ready' : m \notin Ordered' /\ Open(m)' = {}
  <2> SUFFICES ASSUME NEW m \in ready'
               PROVE  m \notin Ordered' /\ Open(m)' = {}
    OBVIOUS
  <2>1. CASE m \in ready \ {n}
    BY <1>4, <1>5, <2>1 DEF SortInv
  <2>2. CASE m \in becameReady(n)
    <3>1. m \in Nodes /\ freed(n)[m] = 0
      BY <2>2 DEF becameReady
    <3>e. PICK e \in Edges : e.from = n /\ e.to = m
      BY <2>2 DEF becameReady
    <3>2. indegrees'[m] = 0
      BY <3>1 DEF Take
    <3>3. IsFiniteSet(Open(m)')
      <4>1. IsFiniteSet(Open(m))
        BY EdgesFinite DEF SortInv
      <4> QED
        BY <1>5, <4>1, FS_Subset
    <3>4. Open(m)' = {}
      BY <1>6, <3>1, <3>2, <3>3, FS_EmptySet
    <3>5. m # n
      BY <1>2, <3>e DEF Open, Into
    <3>6. m \notin Ordered
      <4> SUFFICES ASSUME NEW j \in DOMAIN ordered, ordered[j] = m
                   PROVE  FALSE
        BY DEF Ordered
      <4>1. PICK i \in 1..(j - 1) : ordered[i] = n
        BY <3>e DEF SortInv, OrderIsTopological
      <4>2. i \in DOMAIN ordered
        BY <1>3, <4>1
      <4> QED
        BY <1>2, <4>1, <4>2 DEF Ordered
    <3> QED
      BY <1>4, <3>4, <3>5, <3>6
  <2> QED
    BY <2>1, <2>2 DEF Take
<1>11. OrderIsTopological'
  <2>1. \A i, j \in DOMAIN ordered' : ordered'[i] = ordered'[j] => i = j
    BY <1>2, <1>3 DEF Ordered, SortInv, OrderIsTopological
  <2>2. ASSUME NEW e \in Edges, NEW j \in DOMAIN ordered', ordered'[j] = e.to
        PROVE  \E i \in 1..(j - 1) : ordered'[i] = e.from
    <3>1. CASE j \in DOMAIN ordered
      <4>1. PICK i \in 1..(j - 1) : ordered[i] = e.from
        BY <1>3, <2>2, <3>1 DEF SortInv, OrderIsTopological
      <4> QED
        BY <1>3, <3>1, <4>1
    <3>2. CASE j = Len(ordered) + 1
      <4>1. e.from \in Ordered
        BY <1>2, <1>3, <2>2, <3>2 DEF Open, Into
      <4>2. PICK i \in DOMAIN ordered : ordered[i] = e.from
        BY <4>1 DEF Ordered
      <4> QED
        BY <1>3, <3>2, <4>2
    <3> QED
      BY <1>3, <3>1, <3>2
  <2> QED
    BY <1>1, <2>1, <2>2 DEF OrderIsTopological
<1> QED
  BY <1>1, <1>6, <1>7, <1>8, <1>9, <1>10, <1>11 DEF SortInv

\* No other step touches the order.
LEMMA NextSorts ==
  ASSUME SortInv, [Next]_vars
  PROVE  SortInv'
<1>1. CASE Sort
  BY <1>1, TakeSorts DEF Sort
<1>2. CASE UNCHANGED <<region, sorting>>
  BY <1>2 DEF SortInv, sorting, Nodes, Edges, Into, Open, Ordered, OrderIsTopological
<1> QED
  BY <1>1, <1>2 DEF Next, Admit, Dominate, Turn, Reach, Start, Step, vars

\* A node is ordered once and after everything with a route to it, whatever the
\* region and whichever ready node is taken next.
THEOREM OrderingIsTopological == Spec => []OrderIsTopological
<1>1. Init => SortInv
  BY InitSorts
<1>2. SortInv /\ [Next]_vars => SortInv'
  BY NextSorts
<1>3. SortInv => OrderIsTopological
  BY DEF SortInv
<1> QED
  BY <1>1, <1>2, <1>3, PTL DEF Spec

-----------------------------------------------------------------------------
(***************************************************************************)
(* The promises.  The facts are collected along the order, forwards and    *)
(* then backwards; the invariant says what they mean for the part of the   *)
(* order that has been visited.  That the order is complete is not needed: *)
(* a node that is not in it has no facts, and is promised nothing.         *)
(***************************************************************************)
Before(k) == {ordered[i] : i \in {j \in DOMAIN ordered : j <= k}}
After(k) == {ordered[i] : i \in {j \in DOMAIN ordered : j > k}}

\* The nodes in front of the position have their dominators: along a route only the
\* target itself is added to those of the source, and the entry has itself alone.
DominatedUpTo(k) ==
  /\ dominators \in [Nodes -> SUBSET Nodes]
  /\ \A n \in Nodes : dominators[n] # {} => n \in Before(k)
  /\ \A e \in Edges : e.from \in Reached =>
       dominators[e.to] \subseteq {e.to} \cup dominators[e.from]
  /\ dominators[region.entry] \subseteq {region.entry}

\* The nodes behind the position know what they reach: themselves, all that their
\* targets reach, and nothing in front of them.
ReachedFrom(k) ==
  /\ reachable \in [Nodes -> SUBSET Nodes]
  /\ \A n \in Nodes : n \notin After(k) => reachable[n] = {}
  /\ \A n \in After(k) : n \in reachable[n]
  /\ \A n \in Nodes : \A m \in reachable[n] : reachable[m] \subseteq reachable[n]
  /\ \A e \in Edges : e.from \in After(k) => reachable[e.to] \subseteq reachable[e.from]
  /\ \A i \in DOMAIN ordered : \A m \in reachable[ordered[i]] :
       \E j \in DOMAIN ordered : i <= j /\ ordered[j] = m

\* The token was at every other node that dominates its place, and left it by a route
\* from which its place can be reached.
Passed ==
  /\ at \in Reached
  /\ \A d \in dominators[at] \ {at} :
       /\ d \in DOMAIN taken
       /\ \E e \in Edges : e.from = d /\ at \in reachable[e.to] /\ taken[d] = e.status

FactsInv ==
  /\ SortInv
  /\ phase \in {"sort", "refused", "dominators", "reachable", "walk"}
  /\ position \in 0..Len(ordered)
  /\ phase \in {"sort", "dominators"} => reachable = [n \in Nodes |-> {}]
  /\ phase = "sort" => position = 0 /\ dominators = [n \in Nodes |-> {}]
  /\ phase \in {"sort", "dominators", "reachable"} => at = region.entry
  /\ phase \in {"dominators", "reachable", "walk"} => region.entry \in Nodes
  /\ phase = "dominators" => DominatedUpTo(position)
  /\ phase \in {"reachable", "walk"} => DominatedUpTo(Len(ordered))
  /\ phase = "reachable" => ReachedFrom(position)
  /\ phase = "walk" => ReachedFrom(0) /\ Passed

\* What is reached from the entry is closed under the routes, and the least such set.
LEMMA ReachedIsLeast ==
  ASSUME region \in Regions
  PROVE  /\ Reached \subseteq Nodes
         /\ region.entry \in Nodes => region.entry \in Reached
         /\ \A e \in Edges : e.from \in Reached => e.to \in Reached
         /\ \A S \in SUBSET Nodes :
              region.entry \in S /\ (\A e \in Edges : e.from \in S => e.to \in S)
                => Reached \subseteq S
<1>1. \A e \in Edges : e.from \in Nodes /\ e.to \in Nodes /\ <<e.from, e.to>> \in Arcs
  BY EdgesFinite DEF Arcs
<1>2. \A a \in Arcs : \E e \in Edges : a = <<e.from, e.to>>
  BY DEF Arcs
<1>3. \A e \in Edges : e.from \in Reached => e.to \in Reached
  <2> SUFFICES ASSUME NEW e \in Edges, e.from \in Reached,
                      NEW S \in SUBSET Nodes, {region.entry} \cap Nodes \subseteq S,
                      \A a \in Arcs : a[1] \in S => a[2] \in S
               PROVE  e.to \in S
    BY <1>1 DEF Reached, visitFrom
  <2>1. e.from \in S
    BY DEF Reached, visitFrom
  <2> QED
    BY <1>1, <2>1
<1>4. ASSUME NEW S \in SUBSET Nodes, region.entry \in S,
             \A e \in Edges : e.from \in S => e.to \in S
      PROVE  Reached \subseteq S
  <2>1. \A a \in Arcs : a[1] \in S => a[2] \in S
    BY <1>2, <1>4
  <2> QED
    BY <1>4, <2>1 DEF Reached, visitFrom
<1> QED
  BY <1>3, <1>4 DEF Reached, visitFrom

\* A route leads forward in the order, from an ordered node if its target is one.
LEMMA RoutesLeadForward ==
  ASSUME SortInv, NEW e \in Edges, NEW j \in DOMAIN ordered, ordered[j] = e.to
  PROVE  \E i \in DOMAIN ordered : i < j /\ ordered[i] = e.from
<1>1. PICK i \in 1..(j - 1) : ordered[i] = e.from
  BY DEF SortInv, OrderIsTopological
<1>2. i \in DOMAIN ordered /\ i < j
  BY <1>1 DEF SortInv
<1> QED
  BY <1>1, <1>2

\* No way leads back to an entry that is ordered.
LEMMA NothingReachesEntry ==
  ASSUME SortInv, region.entry \in Nodes, region.entry \in Ordered,
         NEW e \in Edges, e.to = region.entry
  PROVE  e.from \notin Reached
<1>1. PICK first \in DOMAIN ordered : ordered[first] = region.entry
  BY DEF Ordered
<1> DEFINE S == {n \in Nodes : \A j \in DOMAIN ordered : ordered[j] = n => first <= j}
<1>2. first \in Nat /\ DOMAIN ordered \subseteq Nat
  BY DEF SortInv
<1>3. region.entry \in S
  BY <1>1, <1>2 DEF SortInv, OrderIsTopological
<1>4. ASSUME NEW d \in Edges, d.from \in S
      PROVE  d.to \in S
  <2>1. d.to \in Nodes
    BY EdgesFinite DEF SortInv
  <2> SUFFICES ASSUME NEW j \in DOMAIN ordered, ordered[j] = d.to
               PROVE  first <= j
    BY <2>1
  <2>2. PICK i \in DOMAIN ordered : i < j /\ ordered[i] = d.from
    BY RoutesLeadForward
  <2>3. first <= i
    BY <1>4, <2>2
  <2> QED
    BY <1>2, <2>2, <2>3
<1>5. Reached \subseteq S
  BY <1>3, <1>4, ReachedIsLeast DEF SortInv
<1>6. PICK i \in DOMAIN ordered : i < first /\ ordered[i] = e.from
  BY <1>1, RoutesLeadForward
<1> QED
  BY <1>2, <1>5, <1>6

\* One node further in the order its dominators are known: its predecessors come
\* before it, and so what leads on from it is still without any.
LEMMA DominateKeeps ==
  ASSUME FactsInv, Dominate
  PROVE  DominatedUpTo(position)'
<1> DEFINE n == ordered[position + 1]
           new == IF n \in Reached THEN dominatorsOf(n) ELSE {}
<1>1. /\ SortInv /\ DominatedUpTo(position) /\ region.entry \in Nodes
      /\ position \in Nat /\ position < Len(ordered) /\ position' = position + 1
  BY DEF FactsInv, Dominate, SortInv
<1>2. position + 1 \in DOMAIN ordered /\ n \in Nodes
  BY <1>1 DEF SortInv
<1>3. /\ region' = region /\ ordered' = ordered /\ Nodes' = Nodes /\ Edges' = Edges
      /\ Reached' = Reached
  BY DEF Dominate, sorting, Nodes, Edges, Reached, visitFrom, Arcs
<1>4. dominators' = [dominators EXCEPT ![n] = new]
  BY DEF Dominate
<1>5. new \in SUBSET Nodes
  BY <1>2 DEF dominatorsOf
<1>6. \A m \in Nodes : dominators'[m] = IF m = n THEN new ELSE dominators[m]
  BY <1>1, <1>4 DEF DominatedUpTo
<1>7. dominators' \in [Nodes -> SUBSET Nodes]
  BY <1>1, <1>4, <1>5 DEF DominatedUpTo
<1>8. \A m \in Nodes : dominators'[m] # {} => m \in Before(position + 1)
  <2>1. n \in Before(position + 1)
    BY <1>1, <1>2 DEF Before
  <2>2. Before(position) \subseteq Before(position + 1)
    BY <1>1 DEF Before, SortInv
  <2> QED
    BY <1>1, <1>6, <2>1, <2>2 DEF DominatedUpTo
<1>9. ASSUME NEW e \in Edges, e.from \in Reached
      PROVE  dominators'[e.to] \subseteq {e.to} \cup dominators'[e.from]
  <2>0. e.from \in Nodes /\ e.to \in Nodes
    BY <1>1, EdgesFinite DEF SortInv
  <2>1. CASE e.from = n
    <3>1. ASSUME e.to # n
          PROVE  dominators[e.to] = {}
      <4> SUFFICES ASSUME dominators[e.to] # {}
                   PROVE  FALSE
        OBVIOUS
      <4>1. PICK j \in DOMAIN ordered : j <= position /\ ordered[j] = e.to
        BY <1>1, <2>0 DEF DominatedUpTo, Before
      <4>2. PICK i \in DOMAIN ordered : i < j /\ ordered[i] = n
        BY <1>1, <2>1, <4>1, RoutesLeadForward
      <4>3. i = position + 1
        BY <1>1, <1>2, <4>2 DEF SortInv, OrderIsTopological
      <4> QED
        BY <1>1, <4>1, <4>2, <4>3 DEF SortInv
    <3> QED
      BY <1>6, <2>0, <2>1, <3>1
  <2>2. CASE e.from # n /\ e.to = n
    <3>1. n \in Reached
      BY <1>1, <1>9, <2>2, ReachedIsLeast DEF SortInv
    <3>2. e.from \in Counting(n)
      BY <1>9, <2>2 DEF Counting, Predecessors, Into
    <3>3. new \subseteq {n} \cup dominators[e.from]
      BY <3>1, <3>2 DEF dominatorsOf
    <3> QED
      BY <1>6, <2>0, <2>2, <3>3
  <2>3. CASE e.from # n /\ e.to # n
    BY <1>1, <1>6, <1>9, <2>0, <2>3 DEF DominatedUpTo
  <2> QED
    BY <2>1, <2>2, <2>3
<1>10. dominators'[region.entry] \subseteq {region.entry}
  <2>1. CASE n = region.entry
    <3>1. n \in Ordered
      BY <1>2 DEF Ordered
    <3>2. Counting(n) = {}
      BY <1>1, <2>1, <3>1, NothingReachesEntry DEF Counting, Predecessors, Into
    <3> QED
      BY <1>1, <1>6, <2>1, <3>2 DEF dominatorsOf
  <2>2. CASE n # region.entry
    BY <1>1, <1>6, <2>2 DEF DominatedUpTo
  <2> QED
    BY <2>1, <2>2
<1>11. Before(position)' = Before(position + 1)
  BY <1>1, <1>3 DEF Before
<1> QED
  BY <1>1, <1>3, <1>7, <1>8, <1>9, <1>10, <1>11 DEF DominatedUpTo, Before

\* One node further back what it reaches is known: its targets come behind it, and
\* know theirs already.
LEMMA ReachKeeps ==
  ASSUME FactsInv, Reach
  PROVE  ReachedFrom(position)'
<1> DEFINE n == ordered[position]
           new == {n} \cup UNION {reachable[m] : m \in Successors(n)}
<1>1. /\ SortInv /\ ReachedFrom(position)
      /\ position \in DOMAIN ordered /\ position' = position - 1
      /\ DOMAIN ordered = 1..Len(ordered) /\ Len(ordered) \in Nat
  BY DEF FactsInv, Reach, SortInv
<1>2. n \in Nodes /\ \A j \in DOMAIN ordered : ordered[j] = n => j = position
  BY <1>1 DEF SortInv, OrderIsTopological
<1>3. /\ region' = region /\ ordered' = ordered /\ Nodes' = Nodes /\ Edges' = Edges
  BY DEF Reach, sorting, Nodes, Edges
<1>4. Successors(n) \subseteq Nodes
  BY <1>1, EdgesFinite DEF Successors, SortInv
<1>5. reachable' = [reachable EXCEPT ![n] = new]
  BY DEF Reach
<1>6. new \in SUBSET Nodes
  BY <1>1, <1>2, <1>4 DEF ReachedFrom
<1>7. \A m \in Nodes : reachable'[m] = IF m = n THEN new ELSE reachable[m]
  BY <1>1, <1>5 DEF ReachedFrom
<1>8. reachable' \in [Nodes -> SUBSET Nodes]
  BY <1>1, <1>5, <1>6 DEF ReachedFrom
<1>9. After(position - 1) = {n} \cup After(position)
  BY <1>1 DEF After
<1>10. n \notin After(position) /\ After(position) \subseteq Nodes
  BY <1>1, <1>2 DEF After, SortInv
<1>11. \A m \in Nodes : n \notin reachable[m]
  <2> SUFFICES ASSUME NEW m \in Nodes, n \in reachable[m]
               PROVE  FALSE
    OBVIOUS
  <2>1. PICK i \in DOMAIN ordered : i > position /\ ordered[i] = m
    BY <1>1 DEF ReachedFrom, After
  <2>2. PICK j \in DOMAIN ordered : i <= j /\ ordered[j] = n
    BY <1>1, <2>1 DEF ReachedFrom
  <2> QED
    BY <1>1, <1>2, <2>1, <2>2
<1>12. \A m \in Nodes \ After(position - 1) : reachable'[m] = {}
  BY <1>1, <1>7, <1>9 DEF ReachedFrom
<1>13. ASSUME NEW m \in After(position - 1)
       PROVE  m \in reachable'[m]
  <2>1. CASE m = n
    BY <1>2, <1>7, <2>1
  <2>2. CASE m # n
    <3>1. m \in After(position) /\ m \in Nodes
      BY <1>9, <1>10, <2>2
    <3>2. m \in reachable[m]
      BY <1>1, <3>1 DEF ReachedFrom
    <3> QED
      BY <1>7, <2>2, <3>1, <3>2
  <2> QED
    BY <2>1, <2>2
<1>14. ASSUME NEW m \in Nodes, NEW k \in reachable'[m]
       PROVE  reachable'[k] \subseteq reachable'[m]
  <2>1. k \in Nodes
    BY <1>8
  <2>2. CASE k = m
    BY <2>2
  <2>3. CASE m = n /\ k # n
    <3>0. k \in new
      BY <1>2, <1>7, <1>14, <2>3
    <3>1. PICK t \in Successors(n) : k \in reachable[t]
      BY <2>3, <3>0
    <3>2. reachable[k] \subseteq reachable[t]
      BY <1>1, <1>4, <3>1 DEF ReachedFrom
    <3>3. reachable[t] \subseteq reachable'[m]
      BY <1>2, <1>7, <2>3, <3>1
    <3>4. reachable'[k] = reachable[k]
      BY <1>7, <2>1, <2>3
    <3> QED
      BY <3>2, <3>3, <3>4
  <2>4. CASE m # n
    <3>1. reachable'[m] = reachable[m] /\ k \in reachable[m]
      BY <1>7, <1>14, <2>4
    <3>2. k # n
      BY <1>11, <3>1
    <3>3. reachable[k] \subseteq reachable[m]
      BY <1>1, <3>1 DEF ReachedFrom
    <3> QED
      BY <1>7, <2>1, <3>1, <3>2, <3>3
  <2> QED
    BY <2>2, <2>3, <2>4
<1>15. ASSUME NEW e \in Edges, e.from \in After(position - 1)
       PROVE  reachable'[e.to] \subseteq reachable'[e.from]
  <2>1. e.from \in Nodes /\ e.to \in Nodes
    BY <1>1, EdgesFinite DEF SortInv
  <2>2. CASE e.to = e.from
    BY <2>2
  <2>3. CASE e.from = n /\ e.to # n
    <3>1. e.to \in Successors(n)
      BY <2>3 DEF Successors
    <3> QED
      BY <1>7, <2>1, <2>3, <3>1
  <2>4. CASE e.from # n /\ e.to = n
    <3>1. PICK i \in DOMAIN ordered : i > position /\ ordered[i] = e.from
      BY <1>9, <1>15, <2>4 DEF After
    <3>2. PICK h \in DOMAIN ordered : h < position /\ ordered[h] = e.from
      BY <1>1, <2>4, RoutesLeadForward
    <3> QED
      BY <1>1, <3>1, <3>2 DEF SortInv, OrderIsTopological
  <2>5. CASE e.from # n /\ e.to # n
    BY <1>1, <1>7, <1>9, <1>15, <2>1, <2>5 DEF ReachedFrom
  <2> QED
    BY <2>2, <2>3, <2>4, <2>5
<1>16. ASSUME NEW i \in DOMAIN ordered, NEW m \in reachable'[ordered[i]]
       PROVE  \E j \in DOMAIN ordered : i <= j /\ ordered[j] = m
  <2>1. ordered[i] \in Nodes
    BY DEF SortInv, FactsInv
  <2>2. CASE ordered[i] # n
    BY <1>1, <1>7, <1>16, <2>1, <2>2 DEF ReachedFrom
  <2>3. CASE ordered[i] = n /\ m = n
    BY <1>1, <2>3
  <2>4. CASE ordered[i] = n /\ m # n
    <3>0. m \in new
      BY <1>2, <1>7, <1>16, <2>4
    <3>6. PICK t \in Successors(n) : m \in reachable[t]
      BY <2>4, <3>0
    <3>1. PICK e \in Edges : e.from = n /\ m \in reachable[e.to]
      BY <3>6 DEF Successors
    <3>2. e.to \in After(position)
      BY <1>1, <1>4, <3>1, EdgesFinite DEF ReachedFrom, SortInv
    <3>3. PICK k \in DOMAIN ordered : k > position /\ ordered[k] = e.to
      BY <3>2 DEF After
    <3>4. PICK j \in DOMAIN ordered : k <= j /\ ordered[j] = m
      BY <1>1, <3>1, <3>3 DEF ReachedFrom
    <3>5. i = position
      BY <1>2, <2>4
    <3> QED
      BY <1>1, <3>3, <3>4, <3>5
  <2> QED
    BY <2>2, <2>3, <2>4
<1>17. After(position)' = After(position - 1)
  BY <1>1, <1>3 DEF After
<1> QED
  BY <1>1, <1>3, <1>8, <1>12, <1>13, <1>14, <1>15, <1>16, <1>17 DEF ReachedFrom

\* The token moves on: what dominates its new place dominated the one before or is
\* it, and what could be reached from there can be reached still.
LEMMA StepKeeps ==
  ASSUME FactsInv, Step
  PROVE  Passed'
<1>1. /\ SortInv /\ DominatedUpTo(Len(ordered)) /\ ReachedFrom(0) /\ Passed
      /\ DOMAIN ordered = 1..Len(ordered) /\ Len(ordered) \in Nat
  BY DEF FactsInv, Step, SortInv
<1>2. PICK e \in Edges : /\ e.from = at /\ at' = e.to
                        /\ taken' = [m \in DOMAIN taken \cup {at} |->
                                        IF m = at THEN e.status ELSE taken[m]]
  BY DEF Step
<1>3. /\ Edges' = Edges /\ Reached' = Reached
      /\ dominators' = dominators /\ reachable' = reachable
  BY DEF Step, facts, Nodes, Edges, Reached, visitFrom, Arcs
<1>4. at \in Nodes /\ e.to \in Nodes
  BY <1>1, <1>2, EdgesFinite DEF SortInv
<1>5. e.to \in Reached
  BY <1>1, <1>2, ReachedIsLeast DEF SortInv, Passed
<1>6. ASSUME NEW d \in dominators[e.to] \ {e.to}
      PROVE  /\ d \in DOMAIN taken'
             /\ \E r \in Edges : r.from = d /\ e.to \in reachable[r.to] /\ taken'[d] = r.status
  <2>1. d \in dominators[at]
    BY <1>1, <1>2, <1>6 DEF DominatedUpTo, Passed
  <2>2. e.to \in Before(Len(ordered))
    BY <1>1, <1>4, <1>6 DEF DominatedUpTo
  <2>3. e.to \in After(0)
    BY <1>1, <2>2 DEF Before, After
  <2>4. e.to \in reachable[e.to]
    BY <1>1, <2>3 DEF ReachedFrom
  <2>5. CASE d = at
    BY <1>2, <2>4, <2>5
  <2>6. CASE d # at
    <3>1. d \in DOMAIN taken
      BY <1>1, <2>1, <2>6 DEF Passed
    <3>2. PICK r \in Edges : r.from = d /\ at \in reachable[r.to] /\ taken[d] = r.status
      BY <1>1, <2>1, <2>6 DEF Passed
    <3>3. PICK j \in DOMAIN ordered : ordered[j] = e.to
      BY <2>3 DEF After
    <3>4. PICK i \in DOMAIN ordered : i < j /\ ordered[i] = at
      BY <1>1, <1>2, <3>3, RoutesLeadForward
    <3>5. at \in After(0)
      BY <1>1, <3>4 DEF After
    <3>6. e.to \in reachable[at]
      BY <1>1, <1>2, <2>4, <3>5 DEF ReachedFrom
    <3>7. r.to \in Nodes
      BY <1>1, EdgesFinite DEF SortInv
    <3>8. e.to \in reachable[r.to]
      BY <1>1, <3>2, <3>6, <3>7 DEF ReachedFrom
    <3>9. d \in DOMAIN taken' /\ taken'[d] = taken[d]
      BY <1>2, <2>6, <3>1
    <3> QED
      BY <3>2, <3>8, <3>9
  <2> QED
    BY <2>5, <2>6
<1>7. ASSUME NEW d \in dominators'[at'] \ {at'}
      PROVE  /\ d \in DOMAIN taken'
             /\ \E r \in Edges' : r.from = d /\ at' \in reachable'[r.to] /\ taken'[d] = r.status
  <2>1. d \in dominators[e.to] \ {e.to}
    BY <1>2, <1>3, <1>7
  <2>2. PICK r \in Edges : r.from = d /\ e.to \in reachable[r.to] /\ taken'[d] = r.status
    BY <1>6, <2>1
  <2>3. at' \in reachable'[r.to] /\ r \in Edges'
    BY <1>2, <1>3, <2>2
  <2> QED
    BY <1>6, <2>1, <2>2, <2>3
<1>8. at' \in Reached'
  BY <1>2, <1>3, <1>5
<1> QED
  BY <1>7, <1>8 DEF Passed

LEMMA InitFacts ==
  ASSUME Init
  PROVE  FactsInv
<1>1. SortInv /\ ordered = <<>>
  BY InitSorts DEF Init, InitSorting
<1> QED
  BY <1>1 DEF FactsInv, Init

\* The facts that a step does not touch mean what they meant.
LEMMA FactsStay ==
  ASSUME UNCHANGED <<region, sorting>>
  PROVE  /\ Nodes' = Nodes
         /\ \A k : DominatedUpTo(k) /\ UNCHANGED dominators
              => (DominatedUpTo(k))'
         /\ \A k : ReachedFrom(k) /\ UNCHANGED reachable => (ReachedFrom(k))'
         /\ Passed /\ UNCHANGED <<facts, walk>> => Passed'
<1>1. /\ region' = region /\ ordered' = ordered
      /\ Nodes' = Nodes /\ Edges' = Edges /\ Reached' = Reached
  BY DEF sorting, Nodes, Edges, Reached, visitFrom, Arcs
<1>2. \A k : (Before(k))' = Before(k) /\ (After(k))' = After(k)
  BY <1>1 DEF Before, After
<1>3. ASSUME NEW k, DominatedUpTo(k), UNCHANGED dominators
      PROVE  (DominatedUpTo(k))'
  BY <1>1, <1>2, <1>3 DEF DominatedUpTo
<1>4. ASSUME NEW k, ReachedFrom(k), UNCHANGED reachable
      PROVE  (ReachedFrom(k))'
  BY <1>1, <1>2, <1>4 DEF ReachedFrom
<1>5. ASSUME Passed, UNCHANGED <<facts, walk>>
      PROVE  Passed'
  BY <1>1, <1>5 DEF Passed, facts, walk
<1> QED
  BY <1>1, <1>3, <1>4, <1>5

\* Before anything is collected the facts are empty.
LEMMA NoFacts ==
  ASSUME SortInv
  PROVE  /\ dominators = [n \in Nodes |-> {}] /\ region.entry \in Nodes => DominatedUpTo(0)
         /\ reachable = [n \in Nodes |-> {}] => ReachedFrom(Len(ordered))
<1>1. \A e \in Edges : e.from \in Nodes /\ e.to \in Nodes
  BY EdgesFinite DEF SortInv
<1>2. ASSUME dominators = [n \in Nodes |-> {}], region.entry \in Nodes
      PROVE  DominatedUpTo(0)
  BY <1>1, <1>2 DEF DominatedUpTo
<1>3. After(Len(ordered)) = {}
  BY DEF After, SortInv
<1>4. \A i \in DOMAIN ordered : ordered[i] \in Nodes
  BY DEF SortInv
<1>5. ASSUME reachable = [n \in Nodes |-> {}]
      PROVE  ReachedFrom(Len(ordered))
  BY <1>1, <1>3, <1>4, <1>5 DEF ReachedFrom
<1> QED
  BY <1>2, <1>5

LEMMA NextKeepsFacts ==
  ASSUME FactsInv, [Next]_vars
  PROVE  FactsInv'
<1>1. SortInv' /\ SortInv
  BY NextSorts DEF FactsInv
<1>2. Len(ordered) \in Nat /\ Len(ordered') \in Nat /\ position \in 0..Len(ordered)
  BY <1>1 DEF SortInv, FactsInv
<1>3. CASE Sort
  <2>1. PICK n \in ready : Take(n)
    BY <1>3 DEF Sort
  <2>2. Nodes' = Nodes /\ region' = region
    BY <2>1 DEF Take, Nodes
  <2> QED
    BY <1>1, <1>2, <1>3, <2>2 DEF FactsInv, Sort, facts, walk
<1>4. CASE Admit
  <2>1. UNCHANGED <<region, sorting, facts, position, walk>> /\ Nodes' = Nodes
    BY <1>4 DEF Admit, Nodes
  <2>2. position = 0 /\ phase = "sort" /\ at = region.entry
    BY <1>4 DEF Admit, FactsInv
  <2>3. CASE phase' = "dominators"
    <3>1. region.entry \in Nodes
      BY <1>4, <2>3 DEF Admit
    <3>2. DominatedUpTo(0)
      BY <1>1, <2>2, <3>1, NoFacts DEF FactsInv
    <3>3. DominatedUpTo(position)'
      BY <2>1, <2>2, <3>2, FactsStay DEF facts
    <3> QED
      BY <1>1, <1>2, <2>1, <2>2, <2>3, <3>1, <3>3 DEF FactsInv, facts, walk, sorting
  <2>4. CASE phase' = "refused"
    BY <1>1, <1>2, <2>1, <2>2, <2>4 DEF FactsInv, facts, walk, sorting
  <2> QED
    BY <1>4, <2>3, <2>4 DEF Admit
<1>5. CASE Dominate
  <2>1. DominatedUpTo(position)'
    BY <1>5, DominateKeeps
  <2>2. Nodes' = Nodes
    BY <1>5 DEF Dominate, Nodes
  <2>3. position' \in 0..Len(ordered')
    BY <1>2, <1>5 DEF Dominate, sorting
  <2> QED
    BY <1>1, <1>5, <2>1, <2>2, <2>3 DEF FactsInv, Dominate, walk
<1>6. CASE Turn
  <2>1. UNCHANGED <<region, sorting, facts, position, walk>> /\ Nodes' = Nodes
    BY <1>6 DEF Turn, Nodes
  <2>2. /\ phase = "dominators" /\ phase' = "reachable" /\ position = Len(ordered)
        /\ DominatedUpTo(Len(ordered)) /\ ReachedFrom(Len(ordered))
    BY <1>1, <1>6, NoFacts DEF Turn, FactsInv
  <2>3. ordered' = ordered /\ position' = position
    BY <2>1 DEF sorting
  <2>4. DominatedUpTo(Len(ordered))' /\ ReachedFrom(position)'
    BY <2>1, <2>2, <2>3, FactsStay DEF facts
  <2> QED
    BY <1>1, <1>2, <2>1, <2>2, <2>3, <2>4 DEF FactsInv, facts, walk
<1>7. CASE Reach
  <2>1. ReachedFrom(position)'
    BY <1>7, ReachKeeps
  <2>2. /\ UNCHANGED <<region, sorting>> /\ dominators' = dominators /\ Nodes' = Nodes
        /\ ordered' = ordered
    BY <1>7 DEF Reach, Nodes, sorting
  <2>3. DominatedUpTo(Len(ordered))'
    BY <1>7, <2>2, FactsStay DEF FactsInv, Reach
  <2>4. position' \in 0..Len(ordered')
    BY <1>2, <1>7, <2>2 DEF Reach
  <2> QED
    BY <1>1, <1>7, <2>1, <2>2, <2>3, <2>4 DEF FactsInv, Reach, walk
<1>8. CASE Start
  <2>1. UNCHANGED <<region, sorting, facts, position, walk>> /\ Nodes' = Nodes
    BY <1>8 DEF Start, Nodes
  <2>2. /\ phase = "reachable" /\ phase' = "walk" /\ position = 0 /\ at = region.entry
        /\ region.entry \in Nodes /\ DominatedUpTo(Len(ordered)) /\ ReachedFrom(0)
    BY <1>8 DEF Start, FactsInv
  <2>3. Passed
    BY <1>1, <2>2, ReachedIsLeast DEF Passed, DominatedUpTo, SortInv
  <2>4. ordered' = ordered
    BY <2>1 DEF sorting
  <2>5. DominatedUpTo(Len(ordered))' /\ ReachedFrom(0)' /\ Passed'
    BY <2>1, <2>2, <2>3, <2>4, FactsStay DEF facts
  <2> QED
    BY <1>1, <1>2, <2>1, <2>2, <2>4, <2>5 DEF FactsInv, facts, walk
<1>9. CASE Step
  <2>1. Passed'
    BY <1>9, StepKeeps
  <2>2. /\ UNCHANGED <<region, sorting, facts, position>> /\ Nodes' = Nodes
        /\ ordered' = ordered /\ phase = "walk" /\ phase' = "walk"
    BY <1>9 DEF Step, Nodes, sorting
  <2>3. DominatedUpTo(Len(ordered))' /\ ReachedFrom(0)'
    BY <2>2, FactsStay DEF FactsInv, facts
  <2> QED
    BY <1>1, <1>2, <2>1, <2>2, <2>3 DEF FactsInv
<1>10. CASE UNCHANGED vars
  <2>1. /\ UNCHANGED <<region, sorting, phase, facts, position, walk>> /\ Nodes' = Nodes
        /\ ordered' = ordered
    BY <1>10 DEF vars, Nodes, sorting
  <2>2. /\ DominatedUpTo(position) => DominatedUpTo(position)'
        /\ DominatedUpTo(Len(ordered)) => DominatedUpTo(Len(ordered))'
        /\ ReachedFrom(position) => ReachedFrom(position)'
        /\ ReachedFrom(0) => ReachedFrom(0)' /\ (Passed => Passed')
    BY <2>1, FactsStay DEF facts
  <2> QED
    BY <1>1, <1>2, <2>1, <2>2 DEF FactsInv, facts, walk
<1> QED
  BY <1>3, <1>4, <1>5, <1>6, <1>7, <1>8, <1>9, <1>10 DEF Next

\* What the token has passed is what was promised: all the routes from which a place
\* can be reached have one status, and no node is promised its own result.
LEMMA FactsKeepPromises ==
  ASSUME FactsInv
  PROVE  PromisesAreKept
<1> SUFFICES ASSUME phase = "walk", NEW producer \in Nodes, NEW status \in Statuses,
                    statusDominates(producer, at, status)
             PROVE  producer \in DOMAIN taken /\ taken[producer] = status
  BY DEF PromisesAreKept
<1>1. SortInv /\ ReachedFrom(0) /\ Passed /\ DOMAIN ordered \subseteq Nat
  BY DEF FactsInv, SortInv
<1>2. /\ producer \in dominators[at]
      /\ \E e \in Edges : e.from = producer /\ at \in reachable[e.to]
      /\ \A e \in Edges : e.from = producer /\ at \in reachable[e.to] => e.status = status
  BY DEF statusDominates
<1>3. producer # at
  <2> SUFFICES ASSUME producer = at
               PROVE  FALSE
    OBVIOUS
  <2>1. PICK e \in Edges : e.from = at /\ at \in reachable[e.to]
    BY <1>2
  <2>2. e.to \in After(0)
    BY <1>1, <2>1, EdgesFinite DEF ReachedFrom, SortInv
  <2>3. PICK j \in DOMAIN ordered : ordered[j] = e.to
    BY <2>2 DEF After
  <2>4. PICK i \in DOMAIN ordered : i < j /\ ordered[i] = at
    BY <1>1, <2>1, <2>3, RoutesLeadForward
  <2>5. PICK h \in DOMAIN ordered : j <= h /\ ordered[h] = at
    BY <1>1, <2>1, <2>3 DEF ReachedFrom
  <2> QED
    BY <1>1, <2>4, <2>5 DEF SortInv, OrderIsTopological
<1> QED
  BY <1>1, <1>2, <1>3 DEF Passed

\* In every region, however large: what a node may read because statusDominates says
\* so is there when a token gets to it, with that status, whichever way it came.
THEOREM PromisedResultsAreThere == Spec => []PromisesAreKept
<1>1. Init => FactsInv
  BY InitFacts
<1>2. FactsInv /\ [Next]_vars => FactsInv'
  BY NextKeepsFacts
<1>3. FactsInv => PromisesAreKept
  BY FactsKeepPromises
<1> QED
  BY <1>1, <1>2, <1>3, PTL DEF Spec
=============================================================================
