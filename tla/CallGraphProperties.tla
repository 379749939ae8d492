------------------------ MODULE CallGraphProperties ------------------------
(***************************************************************************)
(* What linking and admission have to agree on, and the packages they are  *)
(* checked on: every sequence of a few calls.                              *)
(***************************************************************************)
EXTENDS CallGraph

-----------------------------------------------------------------------------
(***************************************************************************)
(* Chains of calls, for reference: the edges of the source one after the   *)
(* other, as many as there are modules at most.                            *)
(***************************************************************************)
Edges == {edges[i] : i \in DOMAIN edges}

Chains ==
  LET chains[k \in 0..Cardinality(Modules)] ==
        IF k = 0 THEN {<<>>}
        ELSE LET shorter == chains[k - 1]
             IN  shorter \cup {Append(c, e) : c \in shorter, e \in Edges}
      joined(c) == \A i \in 1..(Len(c) - 1) : c[i].to = c[i + 1].from
  IN  {c \in chains[Cardinality(Modules)] : joined(c)}

Cyclic == \E c \in Chains : c # <<>> /\ c[1].from = c[Len(c)].to

\* The search for recursion, which marks modules as it goes and never looks at one
\* twice, finds a cycle exactly if there is one; and each edge it blames lies on one.
RecursionIsFound ==
  phase = "deepen" =>
    /\ "LINK_RECURSION" \in Codes <=> Cyclic
    /\ \A d \in diagnostics : d.code = "LINK_RECURSION" =>
         \E c \in Chains : c # <<>> /\ c[1].call = d.call /\ c[1].from = c[Len(c)].to

\* The calls blamed for depth are exactly those below a chain of the greatest depth
\* allowed, although a module is not followed again unless it is found deeper.
DepthIsExact ==
  phase = "order" /\ "LINK_RECURSION" \notin Codes =>
    {d.call : d \in {f \in diagnostics : f.code = "BOUND_EXCEEDED"}}
      = {e.call : e \in {f \in Edges :
           \E c \in Chains : Len(c) = CallDepth + 1 /\ c[Len(c)] = f}}

\* What links is never refused by admission for its calls, whichever of them the
\* selected strategies can reach; and linking refuses nothing else: if all the calls
\* are lowered, what is not linked would not be admitted.
LinkingAgreesWithAdmission ==
  phase = "done" =>
    IF linkSource THEN AdmittedCalls
    ELSE source.kept = DOMAIN source.calls => ~AdmittedCalls

\* Every call of an admitted program leads to a module of less depth, and no module
\* is deeper than the limit: so there is no chain of calls that returns to a module
\* or that is longer than CallDepth (hasValidCallGraph, measureProgramModuleGraph).
AdmittedCallsDescend ==
  AdmittedCalls =>
    \A call \in Calls : /\ call.to \in Modules
                        /\ depths[call.to] < depths[call.from]
                        /\ depths[call.from] <= CallDepth

-----------------------------------------------------------------------------
Three == {"a", "b", "c"}
Done == {"done"}

Call == [from : Three, to : Three, outcomes : {Done}]
Broken == {[from |-> "a", to |-> "lost", outcomes |-> Done],
           [from |-> "b", to |-> "c", outcomes |-> {"done", "other"}]}

\* Up to four calls between three modules; all of them are kept, or one is not.
AnyCalls ==
  {s \in [calls : UNION {[1..n -> Call] : n \in 0..4}, kept : SUBSET (1..4)] :
     s.kept = DOMAIN s.calls
     \/ (Len(s.calls) = 3 /\ s.kept \in {{1, 2}, {1, 3}, {2, 3}})}
  \cup {[calls |-> c, kept |-> DOMAIN c] : c \in [1..2 -> Call \cup Broken]}
=============================================================================
