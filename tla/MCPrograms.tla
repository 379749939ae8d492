----------------------------- MODULE MCPrograms -----------------------------
(***************************************************************************)
(* The programs the pipeline machine is model-checked on.  Each is a graph *)
(* of nodes (Nodes) and the node each region starts at (Initial); the entry*)
(* region is "root".                                                       *)
(***************************************************************************)
EXTENDS EnvelopeProperties

\* The programs below are ordered: the further a node is from the end, the more
\* nodes can follow it.
ASSUME ProgramsAreOrdered ==
  Ordered([n \in DOMAIN Nodes |-> Cardinality(DOMAIN Nodes \ ReachedIn({n}))])

\* Limits no run of these programs comes near.
Ample == [limit \in {"work", "frames", "operations", "results", "memberships", "slots"}
            |-> 100000]

\* One limit at what admission computes of the program, and room for the others.
ExactWork == [Ample EXCEPT !.work = synchronousWork]
ExactOperations == [Ample EXCEPT !.operations = measureProgramResources.operations]
ExactMemberships ==
  [Ample EXCEPT !.memberships = measureProgramResources.cancellation.memberships]

Sure == {TRUE}
End(outcome, outputs) == [kind |-> "end", outcome |-> outcome, outputs |-> outputs]
Activity(end) == [kind |-> "activity", inputs |-> Sure,
                  succeeded |-> end, failed |-> end, cancelled |-> end]
Choice(targets, missing) == [kind |-> "choice", targets |-> targets, missing |-> missing]
Branch(region, classes) == [region |-> region, inputs |-> Sure, exits |-> [ok |-> classes]]
Parallel(branch, order, policy, remaining, next) ==
  [kind |-> "parallel", mode |-> "generic", branch |-> branch, order |-> order,
   policy |-> policy, remaining |-> remaining, next |-> next]
Policy(kind) == [kind |-> kind]

-----------------------------------------------------------------------------
(***************************************************************************)
(* Nested: a parallel that cancels its losers, with another one inside one *)
(* of its branches: two owners whose cancellations can overlap.            *)
(*                                                                         *)
(*   root:  outer (any, cancel) -> done                                    *)
(*     outer.a:  inner (any, cancel) -> aEnd     outer.b:  b -> bEnd       *)
(*       inner.x: x -> xEnd       inner.y: y -> yEnd                       *)
(***************************************************************************)
NestedNodes ==
  [outer |-> Parallel([a |-> Branch("a", {"qualifies"}), b |-> Branch("b", {"qualifies"})],
                      <<"a", "b">>, Policy("any"), "cancel", "done"),
   inner |-> Parallel([x |-> Branch("x", {"qualifies", "doesNotQualify"}),
                       y |-> Branch("y", {"qualifies"})],
                      <<"x", "y">>, Policy("any"), "cancel", "aEnd"),
   x |-> Activity("xEnd"), y |-> Activity("yEnd"), b |-> Activity("bEnd"),
   xEnd |-> End("ok", Sure), yEnd |-> End("ok", Sure), aEnd |-> End("ok", Sure),
   bEnd |-> End("ok", Sure), done |-> End("ok", Sure)]

NestedInitial ==
  [root |-> "outer", a |-> "inner", b |-> "b", x |-> "x", y |-> "y"]

-----------------------------------------------------------------------------
(***************************************************************************)
(* Race: a branch that ends on the spot beside a branch that is still      *)
(* starting, in the transition that starts the owner.                      *)
(*                                                                         *)
(*   outer.a:  inner (all, drain) -> aEnd      outer.b:  pick -> bEnd      *)
(*       inner.x: x -> xEnd       inner.y: route -> y -> yEnd              *)
(***************************************************************************)
RaceNodes ==
  [outer |-> Parallel([a |-> Branch("a", {"qualifies"}), b |-> Branch("b", {"qualifies"})],
                      <<"a", "b">>, Policy("any"), "cancel", "done"),
   inner |-> Parallel([x |-> Branch("x", {"qualifies"}), y |-> Branch("y", {"qualifies"})],
                      <<"x", "y">>, Policy("all"), "drain", "aEnd"),
   pick |-> Choice({"bEnd"}, FALSE), route |-> Choice({"y"}, FALSE),
   x |-> Activity("xEnd"), y |-> Activity("yEnd"),
   xEnd |-> End("ok", Sure), yEnd |-> End("ok", Sure), aEnd |-> End("ok", Sure),
   bEnd |-> End("ok", Sure), done |-> End("ok", Sure)]

RaceInitial ==
  [root |-> "outer", a |-> "inner", b |-> "pick", x |-> "x", y |-> "route"]

-----------------------------------------------------------------------------
(***************************************************************************)
(* Loops: a loop that calls beside a gate, below a parallel that cancels,  *)
(* and a signal to wait for afterwards.                                    *)
(*                                                                         *)
(*   root:  outer (any, cancel) -> last -> done                            *)
(*     outer.a:  loop (at most 3) -> aEnd                                  *)
(*       body: pick -> sub -> step, or -> halted                           *)
(*       module: signal -> mEnd                                            *)
(*     outer.b:  gate -> late -> bEnd, or -> bEnd                          *)
(***************************************************************************)
Signal(end) == [kind |-> "wait", signal |-> TRUE, completed |-> end, cancelled |-> end]

LoopNodes ==
  [outer |-> Parallel([a |-> Branch("a", {"qualifies"}), b |-> Branch("b", {"doesNotQualify"})],
                      <<"a", "b">>, Policy("any"), "cancel", "last"),
   loop |-> [kind |-> "repeat", inputs |-> BOOLEAN, region |-> "body",
             exits |-> [again |-> "value", broken |-> "failed", halted |-> "cancelled"],
             conditions |-> {"continue", "stop", "missing"}, values |-> Sure,
             maximumIterations |-> 3, completed |-> "aEnd", exhausted |-> "aEnd",
             failed |-> "aEnd", cancelled |-> "aEnd"],
   pick |-> Choice({"sub", "halted"}, TRUE),
   sub |-> [kind |-> "call", inputs |-> BOOLEAN, region |-> "module",
            outcomes |-> [ok |-> "step"], outputs |-> BOOLEAN, failed |-> "broken",
            cancelled |-> "halted"],
   signal |-> Signal("mEnd"),
   step |-> [kind |-> "activity", inputs |-> BOOLEAN, succeeded |-> "again",
             failed |-> "broken", cancelled |-> "halted"],
   gate |-> [kind |-> "humanGate", answers |-> [yes |-> "late", no |-> "bEnd"],
             deadline |-> "bEnd", cancelled |-> "bEnd"],
   late |-> Activity("bEnd"), last |-> Signal("done"),
   again |-> End("again", Sure), broken |-> End("broken", Sure), halted |-> End("halted", Sure),
   mEnd |-> End("ok", BOOLEAN), aEnd |-> End("ok", Sure), bEnd |-> End("ok", Sure),
   done |-> End("ok", BOOLEAN)]

LoopInitial ==
  [root |-> "outer", a |-> "loop", b |-> "gate", body |-> "pick", module |-> "signal"]

-----------------------------------------------------------------------------
(***************************************************************************)
(* Owners: the nested parallels or, by a choice, a fail-fast map beside a  *)
(* map that collects failures, or a map several of whose items may end in  *)
(* the transition that starts them.                                        *)
(*                                                                         *)
(*   root:  start -> outer, or -> both (any, cancel) -> done, or -> brief  *)
(*     both.a:  fast (two at a time, cancel) -> aEnd   item: work -> wEnd  *)
(*     both.b:  slow (one at a time, collect) -> bEnd                      *)
(*     brief (two at a time, collect) -> done   short: pick -> work -> wEnd, *)
(*                                                     or -> wEnd          *)
(***************************************************************************)
MapNode(collections, concurrency, failure, end) ==
  [kind |-> "map", inputs |-> Sure, region |-> "item", collections |-> collections,
   exits |-> [ok |-> "succeeded", bad |-> "failed"], concurrency |-> concurrency,
   failure |-> failure, completed |-> end, failed |-> end, cancelled |-> end]

OwnerNodes ==
  [start |-> Choice({"outer", "both", "brief"}, FALSE),
   both |-> Parallel([a |-> Branch("first", {"qualifies"}), b |-> Branch("second", {"qualifies"})],
                     <<"a", "b">>, Policy("any"), "cancel", "done"),
   fast |-> MapNode({<<"i", "j", "k">>}, 2, "cancel", "aEnd"),
   slow |-> MapNode({<<>>, <<"i", "j">>}, 1, "collect", "bEnd"),
   brief |-> [MapNode({<<"i", "j", "k">>}, 2, "collect", "done") EXCEPT !.region = "short"],
   pick |-> Choice({"work", "wEnd"}, FALSE),
   work |-> [Activity("wEnd") EXCEPT !.failed = "wBad"],
   wEnd |-> End("ok", Sure), wBad |-> End("bad", Sure),
   aEnd |-> End("ok", Sure), bEnd |-> End("ok", Sure), done |-> End("ok", Sure)]
  @@ NestedNodes

OwnerInitial ==
  [root |-> "start", first |-> "fast", second |-> "slow", item |-> "work",
   short |-> "pick"] @@ NestedInitial

-----------------------------------------------------------------------------
(***************************************************************************)
(* Votes: three votes in a row, each over three reviewers.                 *)
(***************************************************************************)
Vote(policy, remaining, next) ==
  LET reviewer == [region |-> "review", inputs |-> Sure,
                   exits |-> [ok |-> {"approve", "reject", "abstain"}]]
      absent == [reviewer EXCEPT !.inputs = BOOLEAN]
  IN  [kind |-> "parallel", mode |-> "vote",
       branch |-> [p |-> reviewer, q |-> reviewer, r |-> absent],
       order |-> <<"p", "q", "r">>, policy |-> policy, remaining |-> remaining, next |-> next]

VoteNodes ==
  [unanimous |-> Vote([kind |-> "unanimous"], "drain", "quorum"),
   quorum |-> Vote([kind |-> "quorum", minimumParticipation |-> 2], "cancel", "thresholds"),
   thresholds |-> Vote([kind |-> "independentThreshold", approveThreshold |-> 2,
                        rejectThreshold |-> 2], "drain", "done"),
   review |-> Activity("voted"), voted |-> End("ok", Sure), done |-> End("ok", Sure)]

VoteInitial == [root |-> "unanimous", review |-> "review"]

-----------------------------------------------------------------------------
(***************************************************************************)
(* Chain: two activities in a row.  Trio: the first of three wins.         *)
(***************************************************************************)
ChainNodes ==
  [a |-> [Activity("b") EXCEPT !.failed = "done"], b |-> Activity("done"),
   done |-> End("ok", Sure)]
ChainInitial == [root |-> "a"]

TrioNodes ==
  [outer |-> Parallel([a |-> Branch("a", {"qualifies"}), b |-> Branch("a", {"qualifies"}),
                       c |-> Branch("a", {"qualifies"})],
                      <<"a", "b", "c">>, Policy("any"), "cancel", "done"),
   x |-> Activity("xEnd"), xEnd |-> End("ok", Sure), done |-> End("ok", Sure)]
TrioInitial == [root |-> "outer", a |-> "x"]
=============================================================================
