------------------------------ MODULE MCRegions ------------------------------
(***************************************************************************)
(* Regions to check the facts on: every region of a small size.            *)
(***************************************************************************)
EXTENDS RegionFactsProperties

\* What a node may route to, given the ids it can name: nowhere (an end), to one
\* or two of them by its own choice, or by success and by failure.
Out(n, ids) ==
  {{}}
  \cup {{[from |-> n, to |-> a, status |-> "neutral"],
         [from |-> n, to |-> b, status |-> "neutral"]} : a, b \in ids}
  \cup {{[from |-> n, to |-> a, status |-> "succeeded"],
         [from |-> n, to |-> b, status |-> "failed"]} : a, b \in ids}

\* Any routes between three nodes, and between two of which they can name a third
\* that the region does not have.
Small == 1..3
AnyRegions ==
  {[nodes |-> Small, entry |-> 1, routes |-> a \cup b \cup c] :
     a \in Out(1, Small), b \in Out(2, Small), c \in Out(3, Small)}
  \cup {[nodes |-> {1, 2}, entry |-> entry, routes |-> a \cup b] :
          entry \in {1, 3}, a \in Out(1, Small), b \in Out(2, Small)}

\* Routes that only lead on to a higher number, from 1.
Four == 1..4
ForwardRegions ==
  {[nodes |-> Four, entry |-> 1, routes |-> a \cup b \cup c] :
     a \in Out(1, 2..4), b \in Out(2, 3..4), c \in Out(3, {4})}

AllRegions == AnyRegions \cup ForwardRegions
=============================================================================
