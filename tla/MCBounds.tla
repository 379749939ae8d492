------------------------------ MODULE MCBounds ------------------------------
(***************************************************************************)
(* Rounds: a loop that calls a module, and the module a map and then, on   *)
(* one of its ways, a vote.  Each round starts at most two activities of   *)
(* the map and two votes, and one activity of the loop itself: ten in all. *)
(*                                                                         *)
(*   root:   loop (at most 2) -> done                                      *)
(*     body:   sub -> step -> again                                        *)
(*       module:  each (2 items) -> ballot -> poll -> mEnd, or -> mEnd     *)
(*                                                                         *)
(* Mixed: these rounds, the race or the three votes in a row, by a choice. *)
(***************************************************************************)
EXTENDS MCPrograms, ActivityBound

RoundNodes ==
  [loop |-> [LoopNodes.loop EXCEPT !.inputs = Sure, !.conditions = {"continue"},
             !.maximumIterations = 2, !.completed = "done", !.exhausted = "done",
             !.failed = "done", !.cancelled = "done"],
   sub |-> [LoopNodes.sub EXCEPT !.inputs = Sure, !.outputs = Sure],
   step |-> [LoopNodes.step EXCEPT !.inputs = Sure],
   again |-> End("again", Sure), broken |-> End("broken", Sure), halted |-> End("halted", Sure),
   each |-> MapNode({<<"i", "j">>}, 1, "collect", "ballot"),
   work |-> Activity("wEnd"), wEnd |-> End("ok", Sure),
   ballot |-> Choice({"poll", "mEnd"}, FALSE),
   poll |-> [Vote([kind |-> "unanimous"], "cancel", "mEnd") EXCEPT
               !.branch = [p |-> @.p, q |-> @.q], !.order = <<"p", "q">>],
   review |-> Activity("voted"), voted |-> End("ok", Sure),
   mEnd |-> End("ok", Sure), done |-> End("ok", Sure)]

RoundInitial == [body |-> "sub", module |-> "each", item |-> "work", review |-> "review"]

MixedNodes ==
  [start |-> Choice({"loop", "outer", "unanimous"}, FALSE)]
  @@ RoundNodes @@ RaceNodes @@ VoteNodes
MixedInitial == [root |-> "start"] @@ RoundInitial @@ RaceInitial @@ VoteInitial

\* The least bound an author can declare.
ExactActivities == regionBound(EntryRegion)

\* No run of a program whose bound was proved starts more activities than its author
\* declared, however its loops, calls, maps and votes nest and whatever is answered.
ActivitiesWithinBound ==
  proveActivityBound =>
    Cardinality({op \in issued : NodeAt(op).kind = "activity"}) <= maximumTotalActivities
=============================================================================
