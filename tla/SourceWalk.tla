----------------------------- MODULE SourceWalk -----------------------------
(***************************************************************************)
(* What a source region says, apart from any program: it is entered at its *)
(* entry, and every node is left on one of its routes, those of a strategy *)
(* that was not selected not being among them.                             *)
(***************************************************************************)
EXTENDS Naturals

VARIABLES
  entry,      \* a node, numbered from 1
  routes,     \* node -> the nodes its routes lead to
  at          \* the node being visited, 0 before the region is entered

Init == at = 0
Enter == at = 0 /\ at' = entry
Leave == at # 0 /\ at' \in routes[at]

Next == Enter \/ Leave
Spec == Init /\ [][Next]_at
=============================================================================
