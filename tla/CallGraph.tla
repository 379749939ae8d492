------------------------------ MODULE CallGraph ------------------------------
(***************************************************************************)
(* Which module calls which: what the compiler refuses when it links a     *)
(* source (linkSource, findRecursion, findDepthViolations), and what       *)
(* admission measures and demands of the program that is emitted           *)
(* (measureProgramModuleGraph, hasValidCallGraph).                         *)
(*                                                                         *)
(* The two look at the same calls in different ways: linking searches from *)
(* every module that calls, over all calls of the source; admission orders *)
(* the modules after what they call, over the calls that lowering kept     *)
(* (those the selected strategies can reach).                              *)
(*                                                                         *)
(* phase: "link", "search", "deepen", and then, whatever linking found, the*)
(* program's side: "order", "done".                                        *)
(***************************************************************************)
EXTENDS Integers, Sequences, FiniteSets, SequencesExt

CONSTANTS
  Modules,      \* the modules of the package
  Sources,      \* [calls, kept]: calls in source order, and the ones lowered
  Outcomes,     \* the outcomes every module exits with
  CallDepth     \* PIPELINE_LIMITS.sourcePackage.callDepth

\* A call names a module, which may be missing, and routes outcomes.
ASSUME SourcesAssumption ==
  /\ CallDepth \in Nat /\ IsFiniteSet(Modules)
  /\ \A s \in Sources : s.kept \subseteq DOMAIN s.calls
  /\ \A s \in Sources : \A i \in DOMAIN s.calls : s.calls[i].from \in Modules

VARIABLES
  source, phase,
  linked,       \* how many calls were looked at
  edges,        \* the calls that lead to a module, in source order
  diagnostics,  \* what linking refuses: [code, call]
  starts,       \* modules to visit from, still to come
  path,         \* the visit: [module, rest], rest being its edges still to follow
  visited,
  pending,      \* visits still to make: [module, depth]
  deepestVisit,
  ordered,      \* the modules that come after all they call, as far as they are known
  depths        \* how deep their calls nest

linking == <<linked, edges>>
search == <<starts, path, visited>>
deepening == <<pending, deepestVisit>>
measure == <<ordered, depths>>
vars == <<source, phase, linking, diagnostics, search, deepening, measure>>

Found(code, call) == [code |-> code, call |-> call]
Codes == {d.code : d \in diagnostics}

\* byModule, the edges grouped by the module they are in, in their order.
EdgesOf(m) == SelectSeq(edges, LAMBDA e : e.from = m)
\* The modules that call, in the order of their first call.
Callers ==
  LET first == SelectSeq([i \in DOMAIN edges |-> [at |-> i, from |-> edges[i].from]],
                         LAMBDA c : \A j \in 1..(c.at - 1) : edges[j].from # c.from)
  IN  [i \in DOMAIN first |-> first[i].from]

-----------------------------------------------------------------------------
(***************************************************************************)
(* Linking.                                                                *)
(***************************************************************************)
Init ==
  /\ source \in Sources
  /\ phase = "link"
  /\ linked = 0 /\ edges = <<>> /\ diagnostics = {}
  /\ starts = <<>> /\ path = <<>> /\ visited = {}
  /\ pending = <<>> /\ deepestVisit = [m \in Modules |-> -1]
  /\ ordered = {} /\ depths = [m \in Modules |-> 0]

\* One call: its module has to exist, and its outcomes to be the module's.
Link ==
  /\ phase = "link"
  /\ linked < Len(source.calls)
  /\ linked' = linked + 1
  /\ LET call == source.calls[linked + 1]
     IN  /\ edges' = IF call.to \in Modules
                     THEN Append(edges, [from |-> call.from, to |-> call.to, call |-> linked + 1])
                     ELSE edges
         /\ diagnostics' = diagnostics \cup
              (IF call.to \notin Modules THEN {Found("LINK_MODULE_MISSING", linked + 1)}
               ELSE IF call.outcomes # Outcomes
                    THEN {Found("LINK_MODULE_OUTCOME_MISMATCH", linked + 1)} ELSE {})
  /\ UNCHANGED <<source, phase, search, deepening, measure>>

Linked ==
  /\ phase = "link"
  /\ linked = Len(source.calls)
  /\ phase' = "search"
  /\ starts' = Callers
  /\ UNCHANGED <<source, linking, diagnostics, path, visited, deepening, measure>>

-----------------------------------------------------------------------------
(***************************************************************************)
(* findRecursion: one visit after the other, depth first.                  *)
(***************************************************************************)
\* The modules whose visit is under way.
visiting == {path[i].module : i \in DOMAIN path}

Visit(m) == Append(path, [module |-> m, rest |-> EdgesOf(m)])

VisitNext ==
  /\ phase = "search"
  /\ path = <<>> /\ starts # <<>>
  /\ starts' = Tail(starts)
  /\ path' = IF Head(starts) \in visited THEN path ELSE Visit(Head(starts))
  /\ UNCHANGED <<source, phase, linking, diagnostics, visited, deepening, measure>>

\* Mutant: an edge to a module already visited closes a cycle as well.
closesAnyway(e) == e.to \in visiting \cup visited

closes(e) == e.to \in visiting

\* The next edge of the innermost visit.
Follow ==
  /\ phase = "search"
  /\ path # <<>> /\ Last(path).rest # <<>>
  /\ LET edge == Head(Last(path).rest)
         here == [path EXCEPT ![Len(path)].rest = Tail(@)]
     IN  IF closes(edge)
         THEN /\ diagnostics' = diagnostics \cup {Found("LINK_RECURSION", edge.call)}
              /\ path' = here
         ELSE /\ path' = IF edge.to \in visited THEN here
                         ELSE Append(here, [module |-> edge.to, rest |-> EdgesOf(edge.to)])
              /\ UNCHANGED diagnostics
  /\ UNCHANGED <<source, phase, linking, starts, visited, deepening, measure>>

Return ==
  /\ phase = "search"
  /\ path # <<>> /\ Last(path).rest = <<>>
  /\ visited' = visited \cup {Last(path).module}
  /\ path' = Front(path)
  /\ UNCHANGED <<source, phase, linking, diagnostics, starts, deepening, measure>>

\* Depths are looked at only if nothing recurs.
Searched ==
  /\ phase = "search"
  /\ path = <<>> /\ starts = <<>>
  /\ phase' = "deepen"
  /\ pending' = IF "LINK_RECURSION" \in Codes THEN <<>>
                ELSE [i \in DOMAIN Callers |-> [module |-> Callers[i], depth |-> 0]]
  /\ UNCHANGED <<source, linking, diagnostics, search, deepestVisit, measure>>

-----------------------------------------------------------------------------
(***************************************************************************)
(* findDepthViolations: a module is visited again if it is found deeper.   *)
(***************************************************************************)
\* Mutant: a module is visited once.
deeperOnce(visit) == deepestVisit[visit.module] = -1

deeper(visit) == visit.depth > deepestVisit[visit.module]

Deepen ==
  /\ phase = "deepen"
  /\ pending # <<>>
  /\ LET visit == Last(pending)
         here == EdgesOf(visit.module)
         further == [i \in DOMAIN here |-> [module |-> here[i].to, depth |-> visit.depth + 1]]
     IN  IF ~deeper(visit)
         THEN /\ pending' = Front(pending)
              /\ UNCHANGED <<diagnostics, deepestVisit>>
         ELSE /\ deepestVisit' = [deepestVisit EXCEPT ![visit.module] = visit.depth]
              /\ IF visit.depth + 1 > CallDepth
                 THEN /\ diagnostics' = diagnostics \cup
                           {Found("BOUND_EXCEEDED", here[i].call) : i \in DOMAIN here}
                      /\ pending' = Front(pending)
                 ELSE /\ pending' = Front(pending) \o further
                      /\ UNCHANGED diagnostics
  /\ UNCHANGED <<source, phase, linking, search, measure>>

linkSource == phase \in {"order", "done"} /\ diagnostics = {}

-----------------------------------------------------------------------------
(***************************************************************************)
(* The program: the calls that were kept.                                  *)
(***************************************************************************)
Calls == {source.calls[i] : i \in source.kept}
\* What a module calls, also in the regions nested in it; a module called twice
\* is one dependency.
dependencies == [m \in Modules |-> {c.to : c \in {d \in Calls : d.from = m}}]
known(m) == dependencies[m] \cap Modules

Deepened ==
  /\ phase = "deepen"
  /\ pending = <<>>
  /\ phase' = "order"
  /\ UNCHANGED <<source, linking, diagnostics, search, deepening, measure>>

\* One more than the deepest module it calls.
depthOf(m) == Max({0} \cup {IF n \in Modules THEN depths[n] + 1 ELSE 1 : n \in dependencies[m]})

\* The next module after all it calls (TopologicalOrder has the counting), and its
\* depth.
Order ==
  /\ phase = "order"
  /\ \E m \in Modules \ ordered :
       /\ known(m) \subseteq ordered
       /\ ordered' = ordered \cup {m}
       /\ depths' = [depths EXCEPT ![m] = depthOf(m)]
  /\ UNCHANGED <<source, phase, linking, diagnostics, search, deepening>>

Measured ==
  /\ phase = "order"
  /\ \A m \in Modules \ ordered : ~(known(m) \subseteq ordered)
  /\ phase' = "done"
  /\ UNCHANGED <<source, linking, diagnostics, search, deepening, measure>>

maximumCallDepth == Max({depths[m] : m \in Modules})

\* Every call matches its module, and the modules can be ordered.
callMatchesModule(call) == call.to \in Modules /\ call.outcomes = Outcomes
\* Mutant: every call leads somewhere, and that is all.
hasValidCallGraphAnyOrder == \A call \in Calls : call.to \in Modules

hasValidCallGraph ==
  /\ \A call \in Calls : call.to \in Modules
  /\ ordered = Modules

AdmittedCalls ==
  /\ maximumCallDepth <= CallDepth
  /\ \A call \in Calls : callMatchesModule(call)
  /\ hasValidCallGraph

Next ==
  \/ Link \/ Linked
  \/ VisitNext \/ Follow \/ Return \/ Searched
  \/ Deepen \/ Deepened
  \/ Order \/ Measured
Spec == Init /\ [][Next]_vars
=============================================================================
