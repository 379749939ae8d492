------------------------------ MODULE Lowering ------------------------------
(***************************************************************************)
(* From a source to a program: the selections are validated, the nodes of  *)
(* a region are lowered one after the other, those nobody gets to with the *)
(* selected strategies are dropped, and the program is admitted and        *)
(* emitted with its provenance and its requirements.  Then a token walks   *)
(* the region of the program as the machine does.                          *)
(*                                                                         *)
(* A source region is [entry, nodes], its nodes numbered in the order of   *)
(* their ids; a source node [kind, routes, regions, branches,              *)
(* participants, strategies, outcome, policy, key], where routes leads     *)
(* from the name of a route to a node, and branches[j] has the key of      *)
(* regions[j] if the node is a parallel.  A path is the sequence of        *)
(* numbers on the way to a region or to a node, and an id what is hashed   *)
(* into it: a path, a role and an ordinal.                                 *)
(***************************************************************************)
EXTENDS Selections, Functions

CONSTANTS
  Sources,             \* regions the validation of a source accepts
  Submissions(_)       \* the selections that may come with agents

VARIABLES
  source, selections,  \* the source region, and the validated selections by path
  phase,               \* "select", "lower", "walk" or "refused"
  fragments,           \* what the nodes lowered so far become
  lowered,             \* [region, provenance, requirements]
  at                   \* the node of the token

vars == <<source, selections, phase, fragments, lowered, at>>

-----------------------------------------------------------------------------
Nowhere == <<>>
Root == <<1>>

\* A mutant: the second and the third exit of a participant are numbered by its index.
createLoweredIdentityClose(path, role, ordinal) ==
  <<path, role, IF role = "consensusParticipantExit" THEN (ordinal + 2) \div 2 ELSE ordinal>>

createLoweredIdentity(path, role, ordinal) == <<path, role, ordinal>>

RECURSIVE agentsOf(_, _)
agentsOf(region, path) ==
  UNION {LET node == region.nodes[i] IN
         (IF node.kind = "agent" THEN {<<Append(path, i), node.strategies>>} ELSE {})
         \cup UNION {agentsOf(node.regions[j], path \o <<i, j>>) : j \in DOMAIN node.regions} :
         i \in DOMAIN region.nodes}

\* The slots of a source: the paths of its agents, with their strategies.
reachableAgents(region) ==
  LET agents == agentsOf(region, Root)
  IN  [path \in {a[1] : a \in agents} |-> (CHOOSE a \in agents : a[1] = path)[2]]

selectedStrategy(path) == selections[path].strategy
byVotes(node, path) ==
  \/ node.kind = "consensus"
  \/ node.kind = "agent" /\ selectedStrategy(path) = "consensus"

-----------------------------------------------------------------------------
(***************************************************************************)
(* Routes of the source: what status a node is left with on the way.       *)
(***************************************************************************)
completionStatus(route) == IF route \in {"failed", "cancelled"} THEN route ELSE "succeeded"

\* A mutant: the classifications of a parallel count as statuses.
statusOfRouteByName(node, path, route) ==
  IF node.kind = "choice" THEN "neutral" ELSE completionStatus(route)

statusOfRoute(node, path, route) ==
  IF node.kind = "choice" THEN "neutral"
  ELSE IF node.kind = "parallel" \/ byVotes(node, path) THEN "succeeded"
  ELSE completionStatus(route)

routesOf(node, path) ==
  IF node.kind = "agent" THEN node.strategies[selectedStrategy(path)].routes ELSE node.routes

sourceRoutes(node, path) ==
  LET routes == routesOf(node, path)
  IN  {[from |-> Last(path), to |-> routes[route], status |-> statusOfRoute(node, path, route)] :
        route \in DOMAIN routes}

-----------------------------------------------------------------------------
(***************************************************************************)
(* The nodes of a program: [id, kind, routes, regions, mode, branches,     *)
(* outcome, policy, key].  Of a parallel, branches[j] is the key of        *)
(* regions[j], in a vote with the binding of its participant.  A fragment  *)
(* is the nodes one source node becomes, the ids of all there is in it,    *)
(* each as often as it was created, and the requirements it uses.          *)
(***************************************************************************)
ProgramNode(id, kind, routes) ==
  [id |-> id, kind |-> kind, routes |-> routes,
   regions |-> <<>>, mode |-> "none", branches |-> <<>>,
   outcome |-> "none", policy |-> [kind |-> "none"], key |-> 0]
Fragment(nodes, provenance, requirements) ==
  [nodes |-> nodes, provenance |-> provenance, requirements |-> requirements]

targetRole(node, path) ==
  IF byVotes(node, path) THEN "consensusParallel"
  ELSE IF node.kind = "agent" THEN "agentSingleActivity" ELSE "direct"

createTargetIds(region, path) ==
  [i \in DOMAIN region.nodes |->
     createLoweredIdentity(Append(path, i), targetRole(region.nodes[i], Append(path, i)), 0)]

targetRoutes(routes, targetIds) == [route \in DOMAIN routes |-> targetIds[routes[route]]]

lowerSingleAgent(node, path, targetIds) ==
  LET id == createLoweredIdentity(path, "agentSingleActivity", 0)
      participant == selections[path].participants[1]
      activity == ProgramNode(id, "activity",
                              targetRoutes(node.strategies["single"].routes, targetIds))
  IN  Fragment({[activity EXCEPT !.key = participant.bindingKey]}, <<id>>,
               {[key |-> participant.bindingKey, declared |-> "agent"]})

lowerActivity(node, path, targetIds) ==
  LET id == createLoweredIdentity(path, "direct", 0)
      activity == ProgramNode(id, "activity", targetRoutes(node.routes, targetIds))
  IN  Fragment({[activity EXCEPT !.key = node.key]}, <<id>>,
               {[key |-> node.key, declared |-> "script"]})

\* Choices, calls, waits, gates and ends keep their kind and their routes.
lowerDirectNode(node, path, targetIds) ==
  LET id == createLoweredIdentity(path, "direct", 0)
      lowering == ProgramNode(id, node.kind, targetRoutes(node.routes, targetIds))
  IN  Fragment({[lowering EXCEPT !.outcome = node.outcome]}, <<id>>, {})

VoteOutcomes == <<"vote", "failed", "cancelled">>

\* The participant of index i: an activity, and an end for each way it may settle.
lowerConsensusParticipant(path, participant, i) ==
  LET regionId == createLoweredIdentity(path, "consensusParticipantRegion", i)
      activityId == createLoweredIdentity(path, "consensusParticipantActivity", i)
      endIds == [k \in 1..3 |-> createLoweredIdentity(path, "consensusParticipantExit", i * 3 + k - 1)]
      activity == ProgramNode(activityId, "activity",
                    [succeeded |-> endIds[1], failed |-> endIds[2], cancelled |-> endIds[3]])
      ends == {[ProgramNode(endIds[k], "end", <<>>) EXCEPT !.outcome = VoteOutcomes[k]] : k \in 1..3}
  IN  [region |-> [id |-> regionId, entry |-> activityId,
                   nodes |-> {[activity EXCEPT !.key = participant.bindingKey]} \cup ends],
       branch |-> [key |-> participant.key, bindingKey |-> participant.bindingKey],
       provenance |-> <<regionId, activityId>> \o endIds,
       requirement |-> [key |-> participant.bindingKey, declared |-> "vote"]]

\* The cases of the choice that is put after a parallel.
lowerCases(routes, targetIds) == targetRoutes(routes, targetIds)

lowerVoteTopology(path, participants, policy, routes, targetIds) ==
  LET parallelId == createLoweredIdentity(path, "consensusParallel", 0)
      choiceId == createLoweredIdentity(path, "consensusChoice", 0)
      ordered == sortedByKey(participants)
      voters == [i \in DOMAIN ordered |-> lowerConsensusParticipant(path, ordered[i], i - 1)]
      parallel == ProgramNode(parallelId, "parallel", [next |-> choiceId])
      choice == ProgramNode(choiceId, "choice", lowerCases(routes, targetIds))
  IN  Fragment({[parallel EXCEPT !.regions = [i \in DOMAIN voters |-> voters[i].region],
                                 !.branches = [i \in DOMAIN voters |-> voters[i].branch],
                                 !.mode = "votes", !.policy = policy], choice},
               <<parallelId, choiceId>>
                 \o FlattenSeq([i \in DOMAIN voters |-> voters[i].provenance]),
               {voters[i].requirement : i \in DOMAIN voters})

-----------------------------------------------------------------------------
(***************************************************************************)
(* Regions.                                                                *)
(***************************************************************************)
\* What is reached from start along the routes of the nodes.
reachableNodeIds(start, nodes) ==
  LET next == [n \in nodes |-> Range(n.routes)]
      found[steps \in 0..Cardinality(nodes)] ==
        IF steps = 0 THEN {start}
        ELSE LET earlier == found[steps - 1]
             IN  earlier \cup UNION {next[n] : n \in {m \in nodes : m.id \in earlier}}
  IN  found[Cardinality(nodes)]

retained(pieces, reachable) ==
  SelectSeq(pieces, LAMBDA f : \E n \in f.nodes : n.id \in reachable)

\* The region made of the fragments of its nodes.
assembleRegion(region, path, pieces) ==
  LET id == createLoweredIdentity(path, "direct", 0)
      entry == createTargetIds(region, path)[region.entry]
      reachable == reachableNodeIds(entry, UNION {f.nodes : f \in Range(pieces)})
      kept == retained(pieces, reachable)
      nodes == UNION {f.nodes : f \in Range(kept)}
  IN  [region |-> [id |-> id, entry |-> entry, nodes |-> {n \in nodes : n.id \in reachable}],
       provenance |-> <<id>> \o FlattenSeq([i \in DOMAIN kept |-> kept[i].provenance]),
       requirements |-> UNION {f.requirements : f \in Range(kept)}]

RECURSIVE lowerRegion(_, _)

\* A parallel keeps its branches as they are ordered and is followed by a choice of its
\* classification; a repeat and a map keep their routes.
lowerStructured(node, path, targetIds) ==
  LET inner == [j \in DOMAIN node.regions |-> lowerRegion(node.regions[j], Append(path, j))]
      id == createLoweredIdentity(path, "direct", 0)
      choiceId == createLoweredIdentity(path, "genericParallelChoice", 0)
      own == IF node.kind = "parallel" THEN <<id, choiceId>> ELSE <<id>>
      routes == IF node.kind = "parallel" THEN [next |-> choiceId]
                ELSE targetRoutes(node.routes, targetIds)
      lowering == [ProgramNode(id, node.kind, routes) EXCEPT
                     !.regions = [j \in DOMAIN inner |-> inner[j].region],
                     !.mode = IF node.kind = "parallel" THEN "generic" ELSE "none",
                     !.branches = node.branches, !.policy = node.policy]
      choice == ProgramNode(choiceId, "choice", lowerCases(node.routes, targetIds))
  IN  Fragment({lowering} \cup {n \in {choice} : node.kind = "parallel"},
               own \o FlattenSeq([j \in DOMAIN inner |-> inner[j].provenance]),
               UNION {inner[j].requirements : j \in DOMAIN inner})

\* A mutant: the vote is routed like the agent's other strategy.
lowerSlotConsensusLikeSingle(node, path, targetIds) ==
  lowerVoteTopology(path, selections[path].participants, node.strategies["consensus"].policy,
                    node.strategies["single"].routes, targetIds)

lowerSlotConsensus(node, path, targetIds) ==
  LET strategy == node.strategies["consensus"]
  IN  lowerVoteTopology(path, selections[path].participants, strategy.policy,
                        strategy.routes, targetIds)

lowerExplicitConsensus(node, path, targetIds) ==
  lowerVoteTopology(path, node.participants, node.policy, node.routes, targetIds)

lowerNode(node, path, targetIds) ==
  IF node.kind = "consensus" THEN lowerExplicitConsensus(node, path, targetIds)
  ELSE IF byVotes(node, path) THEN lowerSlotConsensus(node, path, targetIds)
  ELSE IF node.kind = "agent" THEN lowerSingleAgent(node, path, targetIds)
  ELSE IF node.kind = "script" THEN lowerActivity(node, path, targetIds)
  ELSE IF node.regions # <<>> THEN lowerStructured(node, path, targetIds)
  ELSE lowerDirectNode(node, path, targetIds)

lowerRegion(region, path) ==
  assembleRegion(region, path,
    [i \in DOMAIN region.nodes |->
       lowerNode(region.nodes[i], Append(path, i), createTargetIds(region, path))])

-----------------------------------------------------------------------------
(***************************************************************************)
(* What the admission of the program asks of it, and what is emitted.      *)
(* Calls, data and limits are examined as well: see CallGraph, Scopes,     *)
(* RegionFacts and Envelope.                                               *)
(***************************************************************************)
RECURSIVE regionsOf(_)
regionsOf(region) ==
  {region} \cup UNION {UNION {regionsOf(n.regions[j]) : j \in DOMAIN n.regions} : n \in region.nodes}

idsOf(region) == {n.id : n \in region.nodes}
endsOf(region) == {n \in region.nodes : n.kind = "end"}

hasValidRegionGraph(region) ==
  LET from(ids) == UNION {Range(n.routes) : n \in {m \in region.nodes : m.id \in ids}}
  IN  /\ from(idsOf(region)) \subseteq idsOf(region)
      /\ region.entry \in idsOf(region)
      /\ reachableNodeIds(region.entry, region.nodes) = idsOf(region)
      /\ \A n \in region.nodes :
           /\ reachableNodeIds(n.id, region.nodes) \cap {m.id : m \in endsOf(region)} # {}
           /\ \A target \in Range(n.routes) : n.id \notin reachableNodeIds(target, region.nodes)

hasExactEnds(activity, ends) ==
  \A outcome \in Range(VoteOutcomes) : \E end \in ends :
    /\ end.outcome = outcome
    /\ activity.routes[IF outcome = "vote" THEN "succeeded" ELSE outcome] = end.id

\* The branch of a participant runs what its binding requires, and nothing else.
hasValidVoteBranch(branch, region) ==
  /\ Cardinality(region.nodes) = 4
  /\ Cardinality(endsOf(region)) = 3
  /\ \E activity \in region.nodes \ endsOf(region) :
       /\ activity.kind = "activity"
       /\ region.entry = activity.id
       /\ activity.key = branch.bindingKey
       /\ hasExactEnds(activity, endsOf(region))

\* No key comes twice, none before a smaller one.
isStrictlySorted(values) == \A i \in 2..Len(values) : values[i - 1].key < values[i].key

\* The policy fits the number of branches, and a vote has a participant in each. (The
\* exits of a generic branch and their classes are schemas, and left out.)
hasValidParallel(node) ==
  /\ isStrictlySorted(node.branches)
  /\ IF node.mode = "generic"
     THEN node.policy.kind = "threshold" => node.policy.count <= Len(node.branches)
     ELSE /\ validPolicy(node.policy, Len(node.branches))
          /\ \A j \in DOMAIN node.branches : hasValidVoteBranch(node.branches[j], node.regions[j])

\* No id is in the program twice, as a node or as a region.
admitOwnedPipelineProgram(region) ==
  LET regions == regionsOf(region)
      nodes == UNION {r.nodes : r \in regions}
  IN  /\ \A r \in regions : hasValidRegionGraph(r)
      /\ \A n \in nodes : n.kind = "parallel" => hasValidParallel(n)
      /\ Cardinality({n.id : n \in nodes} \cup {r.id : r \in regions})
           = FoldSet(LAMBDA r, sum : sum + 1 + Cardinality(r.nodes), 0, regions)

admitLoweredProgram(result) ==
  IsInjective(result.provenance) /\ admitOwnedPipelineProgram(result.region)

\* What a node of the program may be left with, as its dataflow is examined.
programRoutes(node) ==
  {[from |-> node.id, to |-> node.routes[route],
    status |-> CASE node.kind = "choice" -> "neutral"
                 [] node.kind = "parallel" -> "succeeded"
                 [] OTHER -> completionStatus(route)] : route \in DOMAIN node.routes}

activitiesOf(region) ==
  {n \in UNION {r.nodes : r \in regionsOf(region)} : n.kind = "activity"}

\* One declaration for a key, one provenance record for everything in the program.
requirementsAgree(result) ==
  \A r, q \in result.requirements : r.key = q.key => r = q
requirementsAreExact(result) ==
  {r.key : r \in result.requirements} = {n.key : n \in activitiesOf(result.region)}
provenanceIsExact(result) ==
  ToSet(result.provenance) =
    UNION {{r.id} \cup idsOf(r) : r \in regionsOf(result.region)}

emitProgramBundle(result) ==
  requirementsAgree(result) /\ requirementsAreExact(result) /\ provenanceIsExact(result)

-----------------------------------------------------------------------------
NotLowered == [region |-> [id |-> Nowhere, entry |-> Nowhere, nodes |-> {}],
               provenance |-> <<>>, requirements |-> {}]

Init ==
  /\ source \in Sources
  /\ selections = <<>>
  /\ phase = "select"
  /\ fragments = <<>>
  /\ lowered = NotLowered
  /\ at = Nowhere

Select ==
  /\ phase = "select"
  /\ \E submitted \in Submissions(reachableAgents(source)) :
       IF validatePipelineSelections(submitted, reachableAgents(source))
       THEN phase' = "lower" /\ selections' = materialize(submitted)
       ELSE phase' = "refused" /\ UNCHANGED selections
  /\ UNCHANGED <<source, fragments, lowered, at>>

LowerNode ==
  LET i == Len(fragments) + 1
  IN  /\ phase = "lower"
      /\ i <= Len(source.nodes)
      /\ fragments' = Append(fragments,
                         lowerNode(source.nodes[i], Append(Root, i), createTargetIds(source, Root)))
      /\ UNCHANGED <<source, selections, phase, lowered, at>>

\* The region is put together, and the program admitted and emitted, or refused.
compilePipeline ==
  /\ phase = "lower"
  /\ Len(fragments) = Len(source.nodes)
  /\ lowered' = assembleRegion(source, Root, fragments)
  /\ phase' = IF admitLoweredProgram(lowered') /\ emitProgramBundle(lowered')
              THEN "walk" ELSE "refused"
  /\ at' = IF phase' = "walk" THEN lowered'.region.entry ELSE Nowhere
  /\ UNCHANGED <<source, selections, fragments>>

Move ==
  /\ phase = "walk"
  /\ \E n \in lowered.region.nodes :
       n.id = at /\ at' \in Range(n.routes)
  /\ UNCHANGED <<source, selections, phase, fragments, lowered>>

Next == Select \/ LowerNode \/ compilePipeline \/ Move
Spec == Init /\ [][Next]_vars
=============================================================================
