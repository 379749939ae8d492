------------------------------- MODULE Frames -------------------------------
(***************************************************************************)
(* The frame tree of the pipeline machine and what a transition does to it *)
(* when a region, a branch, an item or an owner completes.                 *)
(*                                                                         *)
(* A frame key is the path of the frame: the root region is <<"root">>; a  *)
(* node of a region that owns regions (call, parallel, repeat, map) has the*)
(* owner frame  region \o <<node>>, and the regions it runs are            *)
(* owner \o <<branch key, item key or ordinal>>.  An operation's command   *)
(* key is  region \o <<node>>  as well.  The code hashes the same          *)
(* coordinates into digests; nothing below depends on the order of keys.   *)
(*                                                                         *)
(* A handler is an operator from a draft to a draft.  A draft is           *)
(*   frames    frame key -> frame          pending   unanswered operations *)
(*   queue     frames still to execute     cleanups  owner -> cleanup      *)
(*   terminal  the outcome selected, or None                               *)
(*   cancel    the owner whose pending descendants this handler asked to   *)
(*             cancel, or NoOwner                                          *)
(*   valid     FALSE once a handler refused (context.invalidate)           *)
(*   work      the work units charged so far in this transition            *)
(***************************************************************************)
EXTENDS Policies, SequencesExt

CONSTANTS
  Nodes,        \* node id -> the node, a record whose fields depend on its kind
  Initial,      \* region id -> the node a fresh frame of that region starts at
  EntryRegion   \* the region of the entry module

ASSUME ProgramAssumption == EntryRegion \in DOMAIN Initial

\* The preflight of a map refuses a collection with two items of one key.
ASSUME CollectionsAssumption ==
  \A n \in DOMAIN Nodes : Nodes[n].kind = "map" =>
    \A items \in Nodes[n].collections : IsInjective(items) /\ items \in Seq(ToSet(items))

\* The classes a branch of a parallel can end with.
Classes(node) == IF node.mode = "generic" THEN GenericClass ELSE VoteClass

\* Admission refuses a map that runs nothing at a time, a parallel whose branches
\* are not strictly sorted by key, and a completion policy that does not fit the
\* number of branches.
ASSUME OwnersAssumption ==
  \A n \in DOMAIN Nodes :
    LET node == Nodes[n]
    IN  /\ node.kind = "map" => node.concurrency \in Nat \ {0}
        /\ node.kind = "parallel" =>
             /\ node.order \in Seq(ToSet(node.order)) /\ IsInjective(node.order)
             /\ \A b \in ToSet(node.order) : \A outcome \in DOMAIN node.branch[b].exits :
                  node.branch[b].exits[outcome] \subseteq Classes(node)
             /\ IF node.mode = "generic" THEN AdmittedGeneric(node.policy, Len(node.order))
                ELSE AdmittedVote(node.policy, Len(node.order))

OperationKinds == {"activity", "wait", "humanGate"}

Root == <<"root">>
NoOwner == <<>>
IsRegion(k) == Len(k) % 2 = 1
NodeAt(k) == Nodes[Last(k)]       \* the node of an owner frame or an operation
OwnerOf(region) == Front(region)
RegionOf(k) == Front(k)           \* the region holding an owner or an operation

\* Cancellation that reached a completion: the owners still to consume it,
\* innermost first, and whether the whole run is being cancelled.
NoCleanup == [owners |-> <<>>, run |-> FALSE]
Requested(cleanup) == cleanup.owners # <<>> \/ cleanup.run
consumeCleanupOwner(cleanup, owner) ==
  IF cleanup.owners # <<>> /\ Head(cleanup.owners) = owner
  THEN [cleanup EXCEPT !.owners = Tail(@)] ELSE cleanup

RegionFrame(region) == [ready |-> {Initial[region]}, results |-> <<>>]

-----------------------------------------------------------------------------
(***************************************************************************)
(* The program as a graph: where a node can route to.                      *)
(***************************************************************************)
Image(f) == {f[x] : x \in DOMAIN f}

\* Every node n can be followed by.
localTargets(n) ==
  LET node == Nodes[n]
  IN  CASE node.kind = "activity" -> {node.succeeded, node.failed, node.cancelled}
        [] node.kind = "wait" -> {node.completed, node.cancelled}
        [] node.kind = "humanGate" ->
             Image(node.answers) \cup ({node.deadline} \ {None}) \cup {node.cancelled}
        [] node.kind = "choice" -> node.targets
        [] node.kind = "call" -> Image(node.outcomes) \cup {node.failed, node.cancelled}
        [] node.kind = "parallel" -> {node.next}
        [] node.kind = "repeat" ->
             {node.completed, node.exhausted, node.failed, node.cancelled}
        [] node.kind = "map" -> {node.completed, node.failed, node.cancelled}
        [] node.kind = "end" -> {}

\* Admission refuses a region whose graph has a cycle: the nodes of a program
\* have positions that every route increases.
Ordered(position) ==
  /\ position \in [DOMAIN Nodes -> Nat]
  /\ \A n \in DOMAIN Nodes : \A target \in localTargets(n) :
       target \in DOMAIN Nodes /\ position[n] < position[target]

-----------------------------------------------------------------------------
\* The function f, and g where f is not defined.
Else(f, g) == [x \in DOMAIN f \cup DOMAIN g |-> IF x \in DOMAIN f THEN f[x] ELSE g[x]]

\* The function g has all that f has.
Extends(g, f) == DOMAIN f \subseteq DOMAIN g /\ \A x \in DOMAIN f : g[x] = f[x]

\* The function f with v at x.
With(f, x, v) == [y \in DOMAIN f \cup {x} |-> IF y = x THEN v ELSE f[y]]

\* The elements of s that are in S, in their order: element number j is the one
\* with j of those that stay up to it.
Retain(s, S) ==
  LET kept == {i \in DOMAIN s : s[i] \in S}
      UpTo(i) == Cardinality({h \in kept : h <= i})
  IN  [j \in 1..Cardinality(kept) |-> s[CHOOSE i \in kept : UpTo(i) = j]]

Invalid(d) == [d EXCEPT !.valid = FALSE]
Charge(d, units) == [d EXCEPT !.work = @ + units]
Enqueue(d, k) == [d EXCEPT !.queue = IF Contains(@, k) THEN @ ELSE Append(@, k)]
SetFrame(d, k, frame) == [d EXCEPT !.frames = With(@, k, frame)]

\* Fresh frames: `regions` says which region each key runs, `keys` lists them in
\* the order they are queued.
AddRegions(d, regions, keys) ==
  LET new == DOMAIN regions
      frame == [k \in new |-> RegionFrame(regions[k])]
  IN  IF new \cap DOMAIN d.frames # {} THEN Invalid(d)
      ELSE [d EXCEPT !.frames = Else(frame, @),
                     !.queue = @ \o Retain(keys, new \ ToSet(@)),
                     !.work = @ + Cardinality(new)]
AddRegion(d, k, region) == AddRegions(d, [new \in {k} |-> region], <<k>>)

\* Some operation is unanswered in or below frame k.
HasPending(d, k) == \E op \in d.pending : IsPrefix(k, op)

\* The trees below `roots` go away; deleted frames that were queued are only
\* dropped from the queue by the callers that discard them.
PruneTrees(d, roots) ==
  LET gone == {k \in DOMAIN d.frames : \E r \in roots : IsPrefix(r, k)}
  IN  [d EXCEPT !.frames = [k \in DOMAIN @ \ gone |-> @[k]],
                !.work = @ + Cardinality(gone)]
Discard(d, roots) ==
  [d EXCEPT !.queue = Retain(@, {k \in ToSet(@) : ~\E r \in roots : IsPrefix(r, k)})]

\* recordPendingNodeResult / storePendingNodeResult are refused when the node
\* has a result or is ready again.
Unsettled(d, region, node) ==
  /\ region \in DOMAIN d.frames
  /\ node \notin DOMAIN d.frames[region].results \cup d.frames[region].ready

storePendingNodeResult(d, region, node, st) ==
  IF ~Unsettled(d, region, node) THEN Invalid(d)
  ELSE SetFrame(d, region, [d.frames[region] EXCEPT !.results = With(@, node, st)])

recordPendingNodeResult(d, region, node, st, target) ==
  IF ~Unsettled(d, region, node) THEN Invalid(d)
  ELSE SetFrame(d, region,
                [results |-> With(d.frames[region].results, node, st),
                 ready |-> d.frames[region].ready \cup {target}])

storeOwnedResult(d, region, node, st) ==
  Charge(storePendingNodeResult(d, region, node, st), 2)

\* A mutant: the region is not woken up.
routeOwnedResultAsleep(d, region, node, st, target) ==
  Charge(recordPendingNodeResult(d, region, node, st, target), 2)

routeOwnedResult(d, region, node, st, target) ==
  Charge(Enqueue(recordPendingNodeResult(d, region, node, st, target), region), 2)

\* A node that fails before it starts anything routes at once.
routeImmediateResult(d, region, node, st, target) ==
  LET frame == d.frames[region]
  IN  IF node \in DOMAIN frame.results \/ node \notin frame.ready THEN Invalid(d)
      ELSE Charge(Enqueue(SetFrame(d, region,
                                   [results |-> With(frame.results, node, st),
                                    ready |-> (frame.ready \ {node}) \cup {target}]),
                          region), 1)

consumeRegionNode(d, region, node) ==
  SetFrame(d, region, [d.frames[region] EXCEPT !.ready = @ \ {node}])

-----------------------------------------------------------------------------
(***************************************************************************)
(* Parallel.                                                               *)
(***************************************************************************)
classifyParallel(node, results, selected) ==
  IF node.mode = "generic"
  THEN classifyGenericParallel(node.policy, results, Len(node.order), selected)
  ELSE classifyVoteParallel(node.policy, results, Len(node.order), selected)

\* Live branches below which no operation is pending: they can stop at once.
cancelUnstartedBranches(d, o) ==
  LET own == d.frames[o]
      idle == {b \in own.live : ~HasPending(d, Append(o, b))}
      roots == {Append(o, b) : b \in idle}
  IN  SetFrame(Discard(PruneTrees(d, roots), roots), o,
               [own EXCEPT !.live = @ \ idle,
                           !.results = Else(@, [b \in idle |-> "cancelled"])])

completeParallelBranch(d, branch, class, cleanup) ==
  LET o == OwnerOf(branch)
      own == d.frames[o]
      remaining == consumeCleanupOwner(cleanup, o)
      results == With(own.results, Last(branch), class)
      selected == classifyParallel(NodeAt(o), results, own.selected)
      done == [own EXCEPT !.live = @ \ {Last(branch)}, !.results = results]
      pruned == Charge(PruneTrees(d, {branch}), 2)
      refused == \/ o \notin DOMAIN d.frames
                 \/ HasPending(d, branch)
                 \/ remaining # cleanup /\ own.selected = None
  IN  IF refused THEN Invalid(d)
      ELSE IF Requested(cleanup)
      THEN LET drained == [done EXCEPT !.selected = IF @ = None THEN "cancelled" ELSE @,
                                       !.status = "draining"]
               stopped == cancelUnstartedBranches(SetFrame(pruned, o, drained), o)
           IN  Enqueue([stopped EXCEPT !.cleanups = With(@, o, remaining)], o)
      ELSE IF own.selected # None \/ selected = None
      THEN Enqueue(SetFrame(pruned, o, done), o)
      ELSE IF NodeAt(o).remaining = "cancel"
      THEN LET closing == [done EXCEPT !.selected = selected, !.status = "cancelling"]
               stopped == cancelUnstartedBranches(SetFrame(pruned, o, closing), o)
           IN  Enqueue([stopped EXCEPT !.cancel = o], o)
      ELSE Enqueue(SetFrame(pruned, o, [done EXCEPT !.selected = selected,
                                                    !.status = "draining"]), o)

-----------------------------------------------------------------------------
(***************************************************************************)
(* Map.                                                                    *)
(***************************************************************************)
completeMapItem(d, item, class, cleanup) ==
  LET o == OwnerOf(item)
      own == d.frames[o]
      remaining == consumeCleanupOwner(cleanup, o)
      selectFailure == /\ own.selected = None
                       /\ class = "failed"
                       /\ NodeAt(o).failure # "collect"
      done == [own EXCEPT !.active = @ \ {Last(item)},
                          !.completed = With(@, Last(item), class)]
      updated ==
        CASE Requested(cleanup) ->
               [done EXCEPT !.selected = IF @ = None THEN "cancelled" ELSE @,
                            !.status = "draining"]
          [] ~Requested(cleanup) /\ selectFailure ->
               [done EXCEPT !.selected = "failed", !.failedItem = Last(item),
                            !.status = IF NodeAt(o).failure = "cancel"
                                       THEN "cancelling" ELSE "draining"]
          [] OTHER -> done
  IN  IF \/ o \notin DOMAIN d.frames
         \/ HasPending(d, item)
         \/ remaining # cleanup /\ own.selected = None
      THEN Invalid(d)
      ELSE Enqueue([SetFrame(Charge(PruneTrees(d, {item}), 2), o, updated) EXCEPT
                      !.cleanups = IF Requested(cleanup) THEN With(@, o, remaining) ELSE @],
                   o)

\* A mutant: they also stay in the list of items to start.
locallyCancelUnstartedTwice(own) ==
  [own EXCEPT !.completed = Else(@, [i \in ToSet(own.unstarted) |-> "cancelled"])]

\* Items that were never started are cancelled once something is selected.
locallyCancelUnstarted(own) ==
  [own EXCEPT !.unstarted = <<>>,
              !.completed = Else(@, [i \in ToSet(own.unstarted) |-> "cancelled"])]

\* A mutant: items that have their result are cancelled again.
locallyCancelIdleActiveTwice(d, o) ==
  LET own == d.frames[o]
      idle == {i \in own.active \cup DOMAIN own.completed : ~HasPending(d, Append(o, i))}
      roots == {Append(o, i) : i \in idle}
  IN  SetFrame(Discard(PruneTrees(d, roots), roots), o,
               [own EXCEPT !.active = @ \ idle,
                           !.completed = Else([i \in idle |-> "cancelled"], @)])

\* Under fail-fast cancellation, so are started items with nothing pending.
locallyCancelIdleActive(d, o) ==
  LET own == d.frames[o]
      idle == {i \in own.active : ~HasPending(d, Append(o, i))}
      roots == {Append(o, i) : i \in idle}
  IN  SetFrame(Discard(PruneTrees(d, roots), roots), o,
               [own EXCEPT !.active = @ \ idle,
                           !.completed = Else(@, [i \in idle |-> "cancelled"])])

\* A mutant: one item too many.
refillBeyond(d, o) ==
  LET own == d.frames[o]
      capacity == NodeAt(o).concurrency - Cardinality(own.active) + 1
      count == IF capacity < Len(own.unstarted) THEN capacity ELSE Len(own.unstarted)
      starting == SubSeq(own.unstarted, 1, count)
      keys == [i \in 1..count |-> Append(o, starting[i])]
      started == [own EXCEPT !.unstarted = SubSeq(@, count + 1, Len(@)),
                             !.active = @ \cup ToSet(starting)]
  IN  AddRegions(SetFrame(d, o, started), [k \in ToSet(keys) |-> NodeAt(o).region], keys)

\* Starts the next items, in key order, up to the concurrency of the node.
refill(d, o) ==
  LET own == d.frames[o]
      capacity == NodeAt(o).concurrency - Cardinality(own.active)
      count == IF capacity < Len(own.unstarted) THEN capacity ELSE Len(own.unstarted)
      starting == SubSeq(own.unstarted, 1, count)
      keys == [i \in 1..count |-> Append(o, starting[i])]
      started == [own EXCEPT !.unstarted = SubSeq(@, count + 1, Len(@)),
                             !.active = @ \cup ToSet(starting)]
  IN  AddRegions(SetFrame(d, o, started), [k \in ToSet(keys) |-> NodeAt(o).region], keys)

-----------------------------------------------------------------------------
(***************************************************************************)
(* What completes outside a cancellation, and the walk of a cancellation   *)
(* from the operation it interrupted up to the owner that absorbs it.      *)
(***************************************************************************)
\* A call or repeat owner is done: its node gets its result in the parent.
finishOwner(d, o, st, target) ==
  IF o \notin DOMAIN d.frames \/ HasPending(d, o) THEN Invalid(d)
  ELSE routeOwnedResult(PruneTrees(d, {o}), RegionOf(o), Last(o), st, target)

completeFailedRegion(d, region) ==
  CASE region = Root ->
         [d EXCEPT !.terminal = IF @ = None THEN "failed" ELSE @]
    [] region # Root /\ NodeAt(OwnerOf(region)).kind \in {"call", "repeat"} ->
         finishOwner(d, OwnerOf(region), "failed", NodeAt(OwnerOf(region)).failed)
    [] region # Root /\ NodeAt(OwnerOf(region)).kind = "parallel" ->
         completeParallelBranch(d, region, "failed", NoCleanup)
    [] OTHER -> completeMapItem(d, region, "failed", NoCleanup)

\* Calls and repeats above `region` end without routing and hand the result to
\* the first branch or item region; the root accepts it only during a run
\* cancellation.  `st` is "failed" or "cancelled".
completeRequestedCancellation(d, region, st, cleanup) ==
  LET owners == {SubSeq(region, 1, n) : n \in {m \in 1..Len(region) : m % 2 = 0}}
      absorbing == {o \in owners : NodeAt(o).kind \in {"parallel", "map"}}
      depth == Max({1} \cup {Len(o) + 1 : o \in absorbing})
      top == SubSeq(region, 1, depth)
      passed == {o \in owners : Len(o) > depth}
      refused == \/ region \notin DOMAIN d.frames
                 \/ \E o \in passed :
                      \/ o \notin DOMAIN d.frames
                      \/ HasPending(d, o)
                      \/ ~Unsettled(d, RegionOf(o), Last(o))
      pruned == PruneTrees(d, passed)
      stored == IF passed = {} THEN d
                ELSE Charge(storeOwnedResult(pruned, top, region[depth + 1], st),
                            2 * (Cardinality(passed) - 1))
  IN  CASE refused -> Invalid(d)
        [] ~refused /\ top = Root ->
             IF cleanup.run THEN stored ELSE Invalid(stored)
        [] ~refused /\ top # Root /\ NodeAt(OwnerOf(top)).kind = "parallel" ->
             completeParallelBranch(stored, top, st, cleanup)
        [] OTHER -> completeMapItem(stored, top, st, cleanup)
=============================================================================
