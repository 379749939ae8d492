------------------------- MODULE LoweringProperties -------------------------
(***************************************************************************)
(* What the compilation of a source has to keep, and the sources it is     *)
(* checked on.                                                             *)
(***************************************************************************)
EXTENDS Lowering

(***************************************************************************)
(* Sources: two nodes of any kind in front of two ends, and a region that  *)
(* is nested in a parallel, a repeat or a map.                             *)
(***************************************************************************)
Names == [script |-> <<"succeeded", "failed", "cancelled">>,
          choice |-> <<"first", "second">>,
          call |-> <<"done", "other", "failed", "cancelled">>,
          wait |-> <<"completed", "cancelled">>,
          humanGate |-> <<"answer", "deadline", "cancelled">>,
          parallel |-> <<"completed", "impossible", "failed", "cancelled">>,
          repeat |-> <<"completed", "exhausted", "failed", "cancelled">>,
          map |-> <<"completed", "failed", "cancelled">>,
          consensus |-> <<"approved", "inconclusive", "rejected", "participantFailed", "cancelled">>]

\* Of the routes, one name leads to x and the others to y.
Leading(names, name, x, y) == [n \in ToSet(names) |-> IF n = name THEN x ELSE y]

SourceNode(kind, routes) ==
  [kind |-> kind, routes |-> routes, regions |-> <<>>, branches |-> <<>>,
   participants |-> <<>>, strategies |-> <<>>, outcome |-> "none",
   policy |-> [kind |-> "none"], key |-> 0]
End(outcome) == [SourceNode("end", <<>>) EXCEPT !.outcome = outcome]

Voter(key, bindingKey) == [key |-> key, bindingKey |-> bindingKey]
Thresholds == [kind : {"independentThreshold"}, approveThreshold : {2}, rejectThreshold : 1..2]
\* The policies and the ranges of participants an agent may state.
Votes ==
  {v \in [minimumParticipants : 1..2, maximumParticipants : 1..3,
          policy : [kind : {"quorum"}, minimumParticipation : 1..2] \cup Thresholds] :
     normalizeAgentStrategy(v)}

AgentNode(single, range, voted) ==
  [SourceNode("agent", <<>>) EXCEPT !.strategies =
     [single |-> [routes |-> single],
      consensus |-> [minimumParticipants |-> range.minimumParticipants,
                     maximumParticipants |-> range.maximumParticipants,
                     policy |-> range.policy, routes |-> voted]]]

\* The nested region: an agent that gets to the second of its ends by a vote only.
AnyVotes == [minimumParticipants |-> 1, maximumParticipants |-> 2,
             policy |-> [kind |-> "quorum", minimumParticipation |-> 1]]
Nested ==
  [entry |-> 1,
   nodes |-> <<AgentNode(Leading(Names.script, "succeeded", 2, 2), AnyVotes,
                         Leading(Names.consensus, "approved", 2, 3)),
               End("done"), End("failed")>>]

\* Branches and participants as they may be written, in any order and with any keys;
\* what is accepted of them is in order.
Parallels ==
  {[branches |-> sortedByKey(p.branches), policy |-> p.policy] :
     p \in {q \in [branches : {<<[key |-> i], [key |-> j]>> : i, j \in 1..2},
                   policy : [kind : {"all"}] \cup [kind : {"threshold"}, count : 2..3]] :
             normalizeParallel(q.branches, q.policy)}}
Polls ==
  {[participants |-> sortedByKey(p.participants), policy |-> p.policy] :
     p \in {q \in [participants : {<<Voter(i, 7), Voter(j, 8)>> : i, j \in 1..2},
                   policy : [kind : {"unanimous"}] \cup Thresholds] :
             normalizeConsensus(q.participants, q.policy)}}

Routed(kind, routes) ==
  LET node == SourceNode(kind, routes)
  IN  CASE kind = "parallel" ->
             {[node EXCEPT !.regions = <<Nested, Nested>>, !.branches = p.branches,
                           !.policy = p.policy] : p \in Parallels}
        [] kind \in {"repeat", "map"} -> {[node EXCEPT !.regions = <<Nested>>]}
        [] kind = "consensus" ->
             {[node EXCEPT !.participants = p.participants, !.policy = p.policy] : p \in Polls}
        [] kind = "script" -> {[node EXCEPT !.key = 5]}
        [] OTHER -> {node}

Plain(kinds, ways) ==
  UNION {Routed(kind, Leading(Names[kind], Names[kind][k], w[1], w[2])) :
           kind \in kinds, k \in 1..2, w \in ways}
Agents(ranges, ways, votedWays) ==
  {AgentNode(Leading(Names.script, "succeeded", w[1], w[2]), v,
             Leading(Names.consensus, "inconclusive", u[1], u[2])) :
     v \in ranges, w \in ways, u \in votedWays}

FirstNodes ==
  Plain(DOMAIN Names, {<<2, 3>>, <<3, 2>>})
  \cup Agents(Votes, {<<2, 3>>, <<3, 4>>, <<2, 2>>}, {<<3, 2>>, <<4, 4>>})
SecondNodes ==
  Plain({"script", "choice", "parallel", "consensus"}, {<<3, 4>>})
  \cup Agents({AnyVotes}, {<<3, 4>>, <<4, 4>>}, {<<3, 4>>})

\* Of those, the regions the validation of a source accepts: every node is reached if
\* all strategies of an agent count.
Ways(node) ==
  IF node.kind = "agent"
  THEN UNION {Range(node.strategies[s].routes) : s \in DOMAIN node.strategies}
  ELSE Range(node.routes)
AnySource ==
  {[entry |-> 1, nodes |-> <<first, second, End("done"), End("failed")>>] :
     <<first, second>> \in
       {p \in FirstNodes \X SecondNodes : 2 \in Ways(p[1]) /\ {3, 4} \subseteq Ways(p[1]) \cup Ways(p[2])}}

\* What may be submitted: anything for each agent, something missing, something extra.
\* Participants come in any order and may come twice.
Selection(strategy, participants) == [strategy |-> strategy, participants |-> participants]
SomeSelections == {Selection("single", <<Voter(1, 6)>>), Selection("consensus", <<Voter(2, 6)>>),
            Selection("consensus", <<Voter(2, 6), Voter(1, 9)>>),
            Selection("consensus", <<Voter(2, 6), Voter(2, 9)>>),
            Selection("consensus", <<Voter(3, 9), Voter(2, 9), Voter(1, 9)>>)}
AnySubmission(agents) ==
  LET all == [DOMAIN agents -> SomeSelections]
      some == CHOOSE s \in SomeSelections : s.strategy = "single"
  IN  all \cup {[slot \in DOMAIN agents \cup {Nowhere} |-> some]}
          \cup {[slot \in DOMAIN agents \ {missing} |-> some] : missing \in DOMAIN agents}

-----------------------------------------------------------------------------
\* Once the selections are validated, a source whose data and size are in order (other
\* modules are about those) is compiled, unless two nodes declare one requirement
\* differently: the ids of the program are distinct, its graph, the order and the policies
\* of its branches and the participants of its votes pass admission, its provenance records
\* all that is in it and nothing that was dropped, and its requirements are those of its
\* activities.
ValidatedIsCompiled ==
  phase = "refused" /\ selections # <<>> => ~requirementsAgree(lowered)

\* The program goes where the source says, whatever strategies were selected: the
\* choice behind a parallel is part of the node it was made for.
Source == INSTANCE SourceWalk WITH
  entry <- source.entry,
  routes <- [i \in DOMAIN source.nodes |->
               {r.to : r \in sourceRoutes(source.nodes[i], Append(Root, i))}],
  at <- IF at = Nowhere THEN 0 ELSE Last(at[1])
FollowsSource == Source!Spec

-----------------------------------------------------------------------------
(***************************************************************************)
(* Which results may be read where, told from the ways through a graph.    *)
(***************************************************************************)
Reach(start, edges) ==
  LET found[steps \in 0..Cardinality(edges)] ==
        IF steps = 0 THEN {start}
        ELSE LET earlier == found[steps - 1]
             IN  earlier \cup {e.to : e \in {d \in edges : d.from \in earlier}}
  IN  found[Cardinality(edges)]

\* Every way to the consumer leaves the producer with the status.
Promised(edges, entry, producer, consumer, status) ==
  LET leading == {e \in edges : e.from = producer /\ consumer \in Reach(e.to, edges)}
  IN  /\ producer = entry \/ consumer \notin Reach(entry, {e \in edges : e.to # producer})
      /\ leading # {}
      /\ \A e \in leading : e.status = status

\* What the compiler lets a node of the source read, the dataflow of the program lets it
\* read as well, and the other way round: the statuses of the routes are kept although
\* a node may become two.
StatusesAreKept ==
  phase = "walk" /\ at = lowered.region.entry =>
    LET targetIds == createTargetIds(source, Root)
        said == UNION {sourceRoutes(source.nodes[i], Append(Root, i)) : i \in DOMAIN source.nodes}
        made == UNION {programRoutes(n) : n \in lowered.region.nodes}
    IN  \A producer, consumer \in Reach(source.entry, said) :
          \A status \in {"succeeded", "failed"} :
            Promised(said, source.entry, producer, consumer, status)
            <=> Promised(made, at, targetIds[producer], targetIds[consumer], status)
=============================================================================
