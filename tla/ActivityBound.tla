--------------------------- MODULE ActivityBound ---------------------------
(***************************************************************************)
(* What the compiler promises of a program besides its envelope: at most   *)
(* how many activities a run of it starts (proveActivityBound).  The bound *)
(* is computed within the integers the compiler is exact on; a package     *)
(* whose bound leaves them, or exceeds the bound its author declared, is   *)
(* refused.  The nodes are those the source nodes are lowered to: an agent *)
(* that reaches a consensus is a vote over activities.                     *)
(***************************************************************************)
EXTENDS Envelope

CONSTANTS
  MaxSafeInteger,           \* the largest integer the compiler is exact on
  maximumTotalActivities    \* what the author of the package declared

ASSUME BoundAssumption ==
  /\ MaxSafeInteger \in Nat
  /\ maximumTotalActivities \in Nat

\* A bound that overflows (null in the code), here and in what is computed from it.
Overflow == -1
addWithinLimit(left, right) ==
  IF Overflow \in {left, right} \/ left > MaxSafeInteger - right THEN Overflow ELSE left + right

multiplyWithinLimit(left, right) ==
  IF left = Overflow \/ (left # 0 /\ right > MaxSafeInteger \div left) THEN Overflow
  ELSE left * right

continuationBound(bounds) ==
  IF Overflow \in bounds THEN Overflow ELSE Max({0} \cup bounds)

\* A mutant: of the branches of a parallel only the longest counts.
longest(bounds) == continuationBound(Image(bounds))

sum(bounds) == FoldSeq(addWithinLimit, 0, bounds)

\* What node adds itself, when ofRegion bounds the regions it owns.
nodeBound(node, ofRegion) ==
  CASE node.kind = "activity" -> 1
    [] node.kind = "call" -> ofRegion[node.region]
    [] node.kind = "parallel" ->
         sum([i \in DOMAIN node.order |-> ofRegion[node.branch[node.order[i]].region]])
    [] node.kind = "repeat" ->
         multiplyWithinLimit(ofRegion[node.region], node.maximumIterations)
    [] node.kind = "map" -> multiplyWithinLimit(ofRegion[node.region], maximumItems(node))
    [] node.kind \in {"choice", "wait", "humanGate", "end"} -> 0

\* From n on to the end of its region.
evaluateRegionBounds[n \in DOMAIN Nodes] ==
  LET ofRegion == [r \in OwnedRegions(n) |-> evaluateRegionBounds[Initial[r]]]
      after == continuationBound({evaluateRegionBounds[t] : t \in localTargets(n)})
  IN  addWithinLimit(nodeBound(Nodes[n], ofRegion), after)

regionBound(region) == evaluateRegionBounds[Initial[region]]

proveActivityBound ==
  regionBound(EntryRegion) # Overflow /\ regionBound(EntryRegion) <= maximumTotalActivities
=============================================================================
