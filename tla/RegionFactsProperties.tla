------------------------ MODULE RegionFactsProperties ------------------------
(***************************************************************************)
(* What ordering a region, admitting it and promising results in it have to*)
(* get right, and the regions they are checked on.                         *)
(***************************************************************************)
EXTENDS RegionFacts

\* Whatever the shape of the region and the order of the ready nodes, a node is
\* ordered once, after every node with a route to it, also when several routes
\* of one node lead to the same other one.
OrderIsTopological ==
  /\ \A i, j \in DOMAIN ordered : ordered[i] = ordered[j] => i = j
  /\ \A e \in Edges : \A j \in DOMAIN ordered :
       ordered[j] = e.to => \E i \in 1..(j - 1) : ordered[i] = e.from

-----------------------------------------------------------------------------
(***************************************************************************)
(* Walks, for reference: the ways a token can take from the entry in at    *)
(* most as many moves as there are nodes.                                  *)
(***************************************************************************)
Destination(w) == IF w = <<>> THEN region.entry ELSE w[Len(w)].to

Walks ==
  LET walks[k \in 0..Cardinality(Nodes)] ==
        IF k = 0 THEN {<<>>}
        ELSE LET shorter == walks[k - 1]
             IN  shorter \cup UNION {{Append(w, e) : e \in {d \in Edges : d.from = Destination(w)}} :
                                    w \in shorter}
  IN  walks[Cardinality(Nodes)]

Visited(w) == {region.entry} \cup {w[i].to : i \in DOMAIN w}

\* The verdict is right: a region is admitted exactly if every route stays in it,
\* every node lies on a walk, every walk can be continued to an end, and none is
\* as long as there are nodes (so that none goes round in circles).
AdmittedIffSound ==
  phase \notin {"sort"} =>
    (admitted <=>
       /\ region.entry \in Nodes
       /\ \A e \in region.routes : e.to \in Nodes
       /\ UNION {Visited(w) : w \in Walks} = Nodes
       /\ \A w \in Walks : Len(w) < Cardinality(Nodes)
       /\ \A n \in Nodes : \E w \in Walks : n \in Visited(w) /\ Destination(w) \in Ends)

\* A result that a node is allowed to read is there when a token gets to the node,
\* whichever way it came, and has the status that was promised.
PromisesAreKept ==
  phase = "walk" =>
    \A producer \in Nodes, status \in Statuses :
      statusDominates(producer, at, status)
        => producer \in DOMAIN taken /\ taken[producer] = status

\* And nothing that is always there is refused: if every walk to a node leaves the
\* producer with that status, the node may read its result.
PromisesAreComplete ==
  phase = "walk" /\ taken = <<>> =>
    \A producer, consumer \in Nodes, status \in Statuses :
      LET arriving == {w \in Walks : Destination(w) = consumer}
      IN  /\ arriving # {}
          /\ \A w \in arriving : \E i \in DOMAIN w :
               w[i].from = producer /\ w[i].status = status
          => statusDominates(producer, consumer, status)

\* In an admitted region the token arrives at an end.
AdmittedRegionsEnd == [](admitted => <>(phase = "walk" /\ at \in Ends))
=============================================================================
