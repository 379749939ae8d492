--------------------------- MODULE FrameTreeProofs ---------------------------
(*****************************************************************************)
(* The live frames of the pipeline are a tree, and every handler keeps it    *)
(* one.                                                                      *)
(*                                                                           *)
(* A region frame holds one token, which moves along the order of its        *)
(* nodes; an owner frame has the regions its kind allows below it; a key is  *)
(* used once. Tree is the invariant, on the frames, the pending operations   *)
(* and the keys used so far; Evolves is what a step may do to a frame. The   *)
(* lemmas say of each handler of Frames that its draft is again a tree:      *)
(* Grows when it opens no frame, Develops when it may. KernelTreeProofs      *)
(* puts them together for the machine.                                       *)
(*****************************************************************************)
EXTENDS Frames, PoliciesProofs, SequenceTheorems, TLAPS

-----------------------------------------------------------------------------
(*****************************************************************************)
(* What the handlers of Frames leave alone. Whatever they do to the tree, a  *)
(* handler maps drafts to drafts, neither starts nor ends an operation,      *)
(* never takes a refusal back and selects no outcome of the run, except that *)
(* a failure reaching the root region selects "failed".                      *)
(*****************************************************************************)
DraftFields == {"frames", "pending", "queue", "cleanups", "terminal", "cancel", "valid",
                "work"}

IsDraft(d) ==
  /\ d = [f \in DraftFields |-> d[f]]
  /\ d.valid \in BOOLEAN

\* e is a draft made from d, with the same operations and refused if d was.
Derived(d, e) == IsDraft(e) /\ e.pending = d.pending /\ (e.valid => d.valid)

\* Also without selecting an outcome.
Keeps(d, e) == Derived(d, e) /\ e.terminal = d.terminal

\* Handlers compose.
LEMMA KeepsTransitive ==
  ASSUME NEW d, NEW e, NEW f, Keeps(d, e), Keeps(e, f)
  PROVE  Keeps(d, f)
BY DEF Keeps, Derived

\* Doing nothing keeps the outcome.
LEMMA KeepsItself ==
  ASSUME NEW d, IsDraft(d)
  PROVE  Keeps(d, d)
BY DEF Keeps, Derived

\* Neither does an update of the tree, the queue, the cleanups, the request or
\* the work.
LEMMA KeepsUpdate ==
  ASSUME NEW d, NEW x, IsDraft(d)
  PROVE  /\ Keeps(d, [d EXCEPT !.frames = x])
         /\ Keeps(d, [d EXCEPT !.queue = x])
         /\ Keeps(d, [d EXCEPT !.cleanups = x])
         /\ Keeps(d, [d EXCEPT !.cancel = x])
         /\ Keeps(d, [d EXCEPT !.work = x])
         /\ Keeps(d, Charge(d, x))
BY DEF Keeps, Derived, IsDraft, DraftFields, Charge

\* Refusing does not select an outcome either.
LEMMA KeepsInvalid ==
  ASSUME NEW d, IsDraft(d)
  PROVE  Keeps(d, Invalid(d))
BY DEF Keeps, Derived, IsDraft, DraftFields, Invalid

-----------------------------------------------------------------------------
\* The elementary updates of the tree and the queue.
LEMMA KeepsTree ==
  ASSUME NEW d, IsDraft(d), NEW k, NEW frame, NEW roots
  PROVE  /\ Keeps(d, Enqueue(d, k))
         /\ Keeps(d, SetFrame(d, k, frame))
         /\ Keeps(d, PruneTrees(d, roots))
         /\ Keeps(d, Discard(d, roots))
<1>1. Keeps(d, Enqueue(d, k))
  BY KeepsUpdate DEF Enqueue
<1>2. Keeps(d, SetFrame(d, k, frame))
  BY KeepsUpdate DEF SetFrame
<1>3. Keeps(d, PruneTrees(d, roots))
  <2>1. \A x, y : Keeps(d, [d EXCEPT !.frames = x, !.work = y])
    BY DEF Keeps, Derived, IsDraft, DraftFields
  <2> QED
    BY <2>1 DEF PruneTrees
<1>4. Keeps(d, Discard(d, roots))
  BY KeepsUpdate DEF Discard
<1> QED
  BY <1>1, <1>2, <1>3, <1>4

\* Starting regions.
LEMMA KeepsAddRegions ==
  ASSUME NEW d, IsDraft(d), NEW keys, NEW regions
  PROVE  Keeps(d, AddRegions(d, keys, regions))
<1>1. ASSUME NEW x, NEW y, NEW z
      PROVE  Keeps(d, [d EXCEPT !.frames = x, !.queue = y, !.work = z])
  BY DEF Keeps, Derived, IsDraft, DraftFields
<1> QED
  BY <1>1, KeepsInvalid DEF AddRegions

\* See KeepsAddRegions.
LEMMA KeepsAddRegion ==
  ASSUME NEW d, IsDraft(d), NEW k, NEW region
  PROVE  Keeps(d, AddRegion(d, k, region))
BY KeepsAddRegions DEF AddRegion

\* Storing and routing the result of a node.
LEMMA KeepsResult ==
  ASSUME NEW d, IsDraft(d), NEW region, NEW node, NEW st, NEW target
  PROVE  /\ Keeps(d, storePendingNodeResult(d, region, node, st))
         /\ Keeps(d, recordPendingNodeResult(d, region, node, st, target))
         /\ Keeps(d, storeOwnedResult(d, region, node, st))
         /\ Keeps(d, routeOwnedResult(d, region, node, st, target))
         /\ Keeps(d, routeImmediateResult(d, region, node, st, target))
         /\ Keeps(d, consumeRegionNode(d, region, node))
<1>1. ASSUME NEW e, Keeps(d, e), NEW units
      PROVE  /\ Keeps(d, Charge(e, units))
             /\ Keeps(d, Enqueue(e, region))
             /\ Keeps(d, Charge(Enqueue(e, region), units))
  <2>1. Keeps(e, Charge(e, units)) /\ Keeps(e, Enqueue(e, region))
    BY <1>1, KeepsUpdate, KeepsTree DEF Keeps, Derived
  <2>2. Keeps(Enqueue(e, region), Charge(Enqueue(e, region), units))
    BY <2>1, KeepsUpdate DEF Keeps, Derived
  <2> QED
    BY <1>1, <2>1, <2>2, KeepsTransitive
<1>2. Keeps(d, storePendingNodeResult(d, region, node, st))
  BY KeepsTree, KeepsInvalid DEF storePendingNodeResult
<1>3. Keeps(d, recordPendingNodeResult(d, region, node, st, target))
  BY KeepsTree, KeepsInvalid DEF recordPendingNodeResult
<1>4. Keeps(d, storeOwnedResult(d, region, node, st))
  BY <1>1, <1>2 DEF storeOwnedResult
<1>5. Keeps(d, routeOwnedResult(d, region, node, st, target))
  BY <1>1, <1>3 DEF routeOwnedResult
<1>6. Keeps(d, routeImmediateResult(d, region, node, st, target))
  BY <1>1, KeepsTree, KeepsInvalid DEF routeImmediateResult
<1>7. Keeps(d, consumeRegionNode(d, region, node))
  BY KeepsTree DEF consumeRegionNode
<1> QED
  BY <1>2, <1>3, <1>4, <1>5, <1>6, <1>7

-----------------------------------------------------------------------------
\* Stopping the idle branches of a parallel and the idle items of a map.
LEMMA KeepsCancelUnstarted ==
  ASSUME NEW d, IsDraft(d), NEW o
  PROVE  /\ Keeps(d, cancelUnstartedBranches(d, o))
         /\ Keeps(d, locallyCancelIdleActive(d, o))
<1>1. ASSUME NEW roots, NEW frame
      PROVE  Keeps(d, SetFrame(Discard(PruneTrees(d, roots), roots), o, frame))
  <2>1. Keeps(d, PruneTrees(d, roots))
    BY KeepsTree
  <2>2. Keeps(PruneTrees(d, roots), Discard(PruneTrees(d, roots), roots))
    BY <2>1, KeepsTree DEF Keeps, Derived
  <2>3. Keeps(Discard(PruneTrees(d, roots), roots),
              SetFrame(Discard(PruneTrees(d, roots), roots), o, frame))
    BY <2>2, KeepsTree DEF Keeps, Derived
  <2> QED
    BY <2>1, <2>2, <2>3, KeepsTransitive
<1> QED
  BY <1>1 DEF cancelUnstartedBranches, locallyCancelIdleActive

\* Starting the next items of a map.
LEMMA KeepsRefill ==
  ASSUME NEW d, IsDraft(d), NEW o
  PROVE  Keeps(d, refill(d, o))
<1>1. ASSUME NEW frame, NEW keys, NEW regions
      PROVE  Keeps(d, AddRegions(SetFrame(d, o, frame), keys, regions))
  <2>1. Keeps(d, SetFrame(d, o, frame))
    BY KeepsTree
  <2>2. Keeps(SetFrame(d, o, frame), AddRegions(SetFrame(d, o, frame), keys, regions))
    BY <2>1, KeepsAddRegions DEF Keeps, Derived
  <2> QED
    BY <2>1, <2>2, KeepsTransitive
<1> QED
  BY <1>1 DEF refill

\* A branch of a parallel completes.
LEMMA KeepsBranch ==
  ASSUME NEW d, IsDraft(d), NEW branch, NEW class, NEW cleanup
  PROVE  Keeps(d, completeParallelBranch(d, branch, class, cleanup))
<1> DEFINE o == OwnerOf(branch)
           pruned == Charge(PruneTrees(d, {branch}), 2)
<1>1. Keeps(d, pruned)
  <2>1. Keeps(d, PruneTrees(d, {branch}))
    BY KeepsTree
  <2> QED
    BY <2>1, KeepsUpdate, KeepsTransitive DEF Keeps, Derived
<1>2. ASSUME NEW frame
      PROVE  /\ Keeps(d, SetFrame(pruned, o, frame))
             /\ Keeps(d, Enqueue(SetFrame(pruned, o, frame), o))
  <2>1. Keeps(pruned, SetFrame(pruned, o, frame))
    BY <1>1, KeepsTree DEF Keeps, Derived
  <2>2. Keeps(SetFrame(pruned, o, frame), Enqueue(SetFrame(pruned, o, frame), o))
    BY <2>1, KeepsTree DEF Keeps, Derived
  <2> QED
    BY <1>1, <2>1, <2>2, KeepsTransitive
<1>3. ASSUME NEW frame
      PROVE  LET stopped == cancelUnstartedBranches(SetFrame(pruned, o, frame), o)
             IN  /\ Keeps(d, stopped)
                 /\ \A x : /\ Keeps(d, Enqueue([stopped EXCEPT !.cleanups = x], o))
                          /\ Keeps(d, Enqueue([stopped EXCEPT !.cancel = x], o))
  <2> DEFINE stopped == cancelUnstartedBranches(SetFrame(pruned, o, frame), o)
  <2>1. Keeps(SetFrame(pruned, o, frame), stopped)
    BY <1>2, KeepsCancelUnstarted DEF Keeps, Derived
  <2>2. Keeps(d, stopped)
    BY <1>2, <2>1, KeepsTransitive
  <2> HIDE DEF stopped
  <2>3. ASSUME NEW e, Keeps(stopped, e)
        PROVE  Keeps(d, Enqueue(e, o))
    <3>1. Keeps(e, Enqueue(e, o))
      BY <2>3, KeepsTree DEF Keeps, Derived
    <3> QED
      BY <2>2, <2>3, <3>1, KeepsTransitive
  <2>4. IsDraft(stopped)
    BY <2>2 DEF Keeps, Derived
  <2>5. \A x : /\ Keeps(stopped, [stopped EXCEPT !.cleanups = x])
              /\ Keeps(stopped, [stopped EXCEPT !.cancel = x])
    BY <2>4, KeepsUpdate
  <2> QED
    BY <2>2, <2>3, <2>5 DEF stopped
<1>4. Keeps(d, Invalid(d))
  BY KeepsInvalid
<1> QED
  BY <1>2, <1>3, <1>4, Zenon DEF completeParallelBranch

\* An item of a map completes.
LEMMA KeepsItem ==
  ASSUME NEW d, IsDraft(d), NEW item, NEW class, NEW cleanup
  PROVE  Keeps(d, completeMapItem(d, item, class, cleanup))
<1> DEFINE o == OwnerOf(item)
<1>1. ASSUME NEW frame, NEW x
      PROVE  Keeps(d, Enqueue([SetFrame(Charge(PruneTrees(d, {item}), 2), o, frame) EXCEPT
                                 !.cleanups = x], o))
  <2> DEFINE pruned == Charge(PruneTrees(d, {item}), 2)
             e == SetFrame(pruned, o, frame)
             f == [e EXCEPT !.cleanups = x]
  <2>1. Keeps(d, pruned)
    <3>1. Keeps(d, PruneTrees(d, {item}))
      BY KeepsTree
    <3> QED
      BY <3>1, KeepsUpdate, KeepsTransitive DEF Keeps, Derived
  <2>2. Keeps(pruned, e)
    BY <2>1, KeepsTree DEF Keeps, Derived
  <2>3. Keeps(e, f)
    BY <2>2, KeepsUpdate DEF Keeps, Derived
  <2>4. Keeps(f, Enqueue(f, o))
    BY <2>3, KeepsTree DEF Keeps, Derived
  <2> QED
    BY <2>1, <2>2, <2>3, <2>4, KeepsTransitive
<1>2. Keeps(d, Invalid(d))
  BY KeepsInvalid
<1> DEFINE mapped == completeMapItem(d, item, class, cleanup)
<1>3. \/ mapped = Invalid(d)
      \/ \E frame, x : mapped = Enqueue([SetFrame(Charge(PruneTrees(d, {item}), 2), o, frame)
                                            EXCEPT !.cleanups = x], o)
  BY Zenon DEF completeMapItem
<1> QED
  BY <1>1, <1>2, <1>3

\* A call or a repeat completes.
LEMMA KeepsOwner ==
  ASSUME NEW d, IsDraft(d), NEW o, NEW st, NEW target
  PROVE  Keeps(d, finishOwner(d, o, st, target))
<1> DEFINE e == PruneTrees(d, {o})
<1>1. Keeps(d, e)
  BY KeepsTree
<1>2. Keeps(e, routeOwnedResult(e, RegionOf(o), Last(o), st, target))
  BY <1>1, KeepsResult DEF Keeps, Derived
<1> QED
  BY <1>1, <1>2, KeepsTransitive, KeepsInvalid DEF finishOwner

\* A failing region fails its owner, or the run if it is the root.
LEMMA FailedRegionSelects ==
  ASSUME NEW d, IsDraft(d), NEW region
  PROVE  LET e == completeFailedRegion(d, region)
         IN  Derived(d, e) /\ e.terminal \in {d.terminal, "failed"}
<1>1. CASE region = Root
  <2>1. completeFailedRegion(d, region)
          = [d EXCEPT !.terminal = IF @ = None THEN "failed" ELSE @]
    BY <1>1 DEF completeFailedRegion
  <2> QED
    BY <2>1 DEF Derived, IsDraft, DraftFields
<1>2. CASE region # Root
  <2>1. \/ \E o, target : completeFailedRegion(d, region) = finishOwner(d, o, "failed", target)
        \/ completeFailedRegion(d, region)
             = completeParallelBranch(d, region, "failed", NoCleanup)
        \/ completeFailedRegion(d, region) = completeMapItem(d, region, "failed", NoCleanup)
    BY <1>2, Zenon DEF completeFailedRegion
  <2> QED
    BY <2>1, KeepsOwner, KeepsBranch, KeepsItem DEF Keeps, Derived
<1> QED
  BY <1>1, <1>2

\* A cancellation walks up to its owner without selecting an outcome of the run.
LEMMA KeepsRequestedCancellation ==
  ASSUME NEW d, IsDraft(d), NEW region, NEW st, NEW cleanup
  PROVE  Keeps(d, completeRequestedCancellation(d, region, st, cleanup))
<1> DEFINE ended == completeRequestedCancellation(d, region, st, cleanup)
<1>1. ASSUME NEW passed, NEW top, NEW node, NEW units
      PROVE  Keeps(d, Charge(storeOwnedResult(PruneTrees(d, passed), top, node, st), units))
  <2>1. Keeps(d, PruneTrees(d, passed))
    BY KeepsTree
  <2>2. Keeps(PruneTrees(d, passed), storeOwnedResult(PruneTrees(d, passed), top, node, st))
    BY <2>1, KeepsResult DEF Keeps, Derived
  <2>3. Keeps(d, storeOwnedResult(PruneTrees(d, passed), top, node, st))
    BY <2>1, <2>2, KeepsTransitive
  <2> QED
    BY <2>3, KeepsUpdate, KeepsTransitive DEF Keeps, Derived
<1>2. \E stored, top :
        /\ \/ stored = d
           \/ \E passed, node, units :
                stored = Charge(storeOwnedResult(PruneTrees(d, passed), top, node, st), units)
        /\ ended \in {Invalid(d), stored, Invalid(stored),
                      completeParallelBranch(stored, top, st, cleanup),
                      completeMapItem(stored, top, st, cleanup)}
  BY Zenon DEF completeRequestedCancellation
<1>3. PICK stored, top :
        /\ \/ stored = d
           \/ \E passed, node, units :
                stored = Charge(storeOwnedResult(PruneTrees(d, passed), top, node, st), units)
        /\ ended \in {Invalid(d), stored, Invalid(stored),
                      completeParallelBranch(stored, top, st, cleanup),
                      completeMapItem(stored, top, st, cleanup)}
  BY <1>2
<1>4. Keeps(d, stored)
  BY <1>1, <1>3, KeepsItself
<1>5. /\ Keeps(stored, Invalid(stored))
      /\ Keeps(stored, completeParallelBranch(stored, top, st, cleanup))
      /\ Keeps(stored, completeMapItem(stored, top, st, cleanup))
  BY <1>4, KeepsInvalid, KeepsBranch, KeepsItem DEF Keeps, Derived
<1>6. Keeps(d, Invalid(d))
  BY KeepsInvalid
<1> QED
  BY <1>3, <1>4, <1>5, <1>6, KeepsTransitive

-----------------------------------------------------------------------------
(*****************************************************************************)
(* Keys.                                                                     *)
(*****************************************************************************)
\* A frame or operation key: a finite sequence, written out so that keys with
\* equal elements are equal.
IsKey(k) == Len(k) \in Nat /\ k = [i \in 1..Len(k) |-> k[i]]

\* Key x names something inside what k names.
Below(k, x) == IsStrictPrefix(k, x)

\* Where the way from k down to x goes first.
Step(k, x) == x[Len(k) + 1]

\* The children of k that lead to one of the keys.
Steps(k, keys) == {Step(k, x) : x \in {y \in keys : Below(k, y)}}

\* No region of the program has a cycle: its nodes can be ordered along the
\* transitions, as admission checks (program/admission/graphs.ts).
Acyclic == \E position : Ordered(position)

\* Some such order.
Rank == CHOOSE position : Ordered(position)

-----------------------------------------------------------------------------
(*****************************************************************************)
(* The tree.                                                                 *)
(*****************************************************************************)
\* A region holds one token. `now` are the nodes something live is below,
\* `ever` those something ever was: there is at most one ready node, none
\* while anything is live below the region, and the token only moves up the
\* order, so no node is entered twice.
RegionFits(frame, now, ever) ==
  /\ DOMAIN frame = {"ready", "results"}
  /\ \A m, n \in frame.ready : m = n
  /\ now # {} => frame.ready = {}
  /\ \A n \in ever : n \in DOMAIN Nodes /\ \A m \in frame.ready : Rank[n] < Rank[m]
  /\ \A n \in ever : \A m \in now : n = m \/ Rank[n] < Rank[m]

\* The bodies of a loop are numbered up to the current iteration.
RepeatFits(own, ever) ==
  /\ DOMAIN own = {"kind", "iteration"}
  /\ own.iteration \in Nat
  /\ \A i \in ever : i \in Nat /\ i <= own.iteration

\* Every branch of a parallel is live or has a result; a selection made on
\* early results is the one all the results so far give, unless a failure or
\* a cancellation spoils them; only live branches have anything below.
ParallelFits(node, own, now) ==
  /\ DOMAIN own = {"kind", "live", "selected", "results", "status"}
  /\ own.live \subseteq ToSet(node.order)
  /\ DOMAIN own.results = ToSet(node.order) \ own.live
  /\ ~Spoiled(own.results) => own.selected = classifyParallel(node, own.results, None)
  /\ now \subseteq own.live

\* The items of a map are partitioned into unstarted, active and completed
\* ones, no more are active than the concurrency allows, a failed map points
\* at its first failed item, only active items have anything live below and
\* nothing was ever below an unstarted one.
MapFits(node, own, now, ever) ==
  /\ DOMAIN own = {"kind", "unstarted", "active", "completed", "selected", "failedItem",
                   "status"}
  /\ own.unstarted \in Seq(ToSet(own.unstarted)) /\ IsInjective(own.unstarted)
  /\ IsFiniteSet(own.active) /\ Cardinality(own.active) <= node.concurrency
  /\ own.active \cap DOMAIN own.completed = {}
  /\ (own.active \cup DOMAIN own.completed) \cap ToSet(own.unstarted) = {}
  /\ \E items \in node.collections :
       ToSet(own.unstarted) \cup own.active \cup DOMAIN own.completed = ToSet(items)
  /\ IF own.selected = "failed"
     THEN own.failedItem \in DOMAIN own.completed /\ own.completed[own.failedItem] = "failed"
     ELSE own.failedItem = None
  /\ now \subseteq own.active
  /\ ever \cap ToSet(own.unstarted) = {}

\* The frame under key k, given its live and past children.
Fits(k, frame, now, ever) ==
  IF IsRegion(k) THEN RegionFits(frame, now, ever)
  ELSE /\ Last(k) \in DOMAIN Nodes
       /\ NodeAt(k).kind \in {"call", "repeat", "parallel", "map"}
       /\ NodeAt(k).kind = "repeat" => RepeatFits(frame, ever)
       /\ NodeAt(k).kind = "parallel" => ParallelFits(NodeAt(k), frame, now)
       /\ NodeAt(k).kind = "map" => MapFits(NodeAt(k), frame, now, ever)

\* Keys are keys, the only key of length one is the root, and what is pending
\* are operations of nodes that dispatch one.
Keyed(F, P, H) ==
  /\ \A x \in DOMAIN F \cup P \cup H : IsKey(x)
  /\ \A k \in DOMAIN F : Len(k) >= 1 /\ (Len(k) = 1 => k = Root)
  /\ \A op \in P : /\ Len(op) >= 2 /\ ~IsRegion(op)
                   /\ Last(op) \in DOMAIN Nodes /\ NodeAt(op).kind \in OperationKinds

\* Whatever is live has all its ancestors alive.
Closed(F, P) ==
  \A x \in DOMAIN F \cup P : \A m \in 1..(Len(x) - 1) : SubSeq(x, 1, m) \in DOMAIN F

\* Nothing is below a pending operation, which is no frame itself.
Leaves(F, P) ==
  \A op \in P : op \notin DOMAIN F /\ \A x \in DOMAIN F \cup P : ~Below(op, x)

\* The forest invariant of live frames F, pending operations P and the keys H
\* used so far.
Tree(F, P, H) ==
  /\ Keyed(F, P, H)
  /\ Closed(F, P)
  /\ Leaves(F, P)
  /\ \A k \in DOMAIN F : Fits(k, F[k], Steps(k, DOMAIN F \cup P), Steps(k, DOMAIN F \cup P \cup H))

\* What a later frame g keeps of a frame f with the same key: results are
\* only added, the selection of an owner and the failure of a map are written
\* once.
Settled(k, f, g) ==
  /\ IsRegion(k) => Extends(g.results, f.results)
  /\ ~IsRegion(k) /\ NodeAt(k).kind = "parallel" => Extends(g.results, f.results)
  /\ ~IsRegion(k) /\ NodeAt(k).kind = "map" =>
       /\ Extends(g.completed, f.completed)
       /\ f.failedItem # None => g.failedItem = f.failedItem
  /\ ~IsRegion(k) /\ NodeAt(k).kind \in {"parallel", "map"} /\ f.selected # None =>
       g.selected = f.selected

\* Every frame of G is an old one that kept what it had settled, or has a key
\* no prefix of a key used before: a closed frame is never reopened.
Evolves(F, G, H) ==
  \A k \in DOMAIN G : \/ k \in DOMAIN F /\ Settled(k, F[k], G[k])
                      \/ \A x \in H : ~IsPrefix(k, x)

-----------------------------------------------------------------------------
(*****************************************************************************)
(* Facts about keys.                                                         *)
(*****************************************************************************)
\* A prefix agrees position by position.
LEMMA PrefixPointwise ==
  ASSUME NEW k, NEW x, IsKey(k), IsKey(x)
  PROVE  IsPrefix(k, x) <=> Len(k) <= Len(x) /\ \A i \in 1..Len(k) : k[i] = x[i]
<1>1. CASE Len(k) <= Len(x)
  <2>1. SubSeq(k, 1, Len(k)) = [i \in 1..Len(k) |-> k[i]]
    BY DEF IsKey
  <2>2. SubSeq(x, 1, Len(k)) = [i \in 1..Len(k) |-> x[i]]
    BY <1>1 DEF IsKey
  <2> QED
    BY <1>1, <2>1, <2>2 DEF IsPrefix
<1>2. CASE ~(Len(k) <= Len(x))
  BY <1>2 DEF IsPrefix
<1> QED
  BY <1>1, <1>2

\* Appending to a key, and taking it back.
LEMMA KeyAppend ==
  ASSUME NEW k, NEW c, IsKey(k)
  PROVE  /\ IsKey(Append(k, c))
         /\ Len(Append(k, c)) = Len(k) + 1
         /\ Front(Append(k, c)) = k
         /\ Last(Append(k, c)) = c
         /\ \A i \in 1..Len(k) : Append(k, c)[i] = k[i]
         /\ Append(k, c)[Len(k) + 1] = c
<1> DEFINE S == {k[i] : i \in 1..Len(k)} \cup {c}
<1>1. k \in Seq(S) /\ c \in S
  BY DEF IsKey
<1> HIDE DEF S
<1> DEFINE x == Append(k, c)
<1>2. /\ x \in Seq(S) /\ Len(x) = Len(k) + 1 /\ x[Len(k) + 1] = c
      /\ \A i \in 1..Len(k) : x[i] = k[i]
  BY <1>1 DEF IsKey
<1> HIDE DEF x
<1>3. Front(x) = k
  <2>1. Front(x) \in Seq(S) /\ Len(Front(x)) = Len(k) /\ \A i \in 1..Len(k) : Front(x)[i] = k[i]
    BY <1>1, <1>2 DEF Front
  <2> QED
    BY <1>1, <2>1
<1>4. IsKey(x)
  BY <1>2 DEF IsKey
<1>5. Last(x) = c
  BY <1>2 DEF Last
<1> QED
  BY <1>2, <1>3, <1>4, <1>5 DEF x

\* Taking the last element off a key.
LEMMA KeyFront ==
  ASSUME NEW k, IsKey(k), Len(k) >= 1
  PROVE  /\ IsKey(Front(k))
         /\ Len(Front(k)) = Len(k) - 1
         /\ \A i \in 1..Len(Front(k)) : Front(k)[i] = k[i]
         /\ Append(Front(k), Last(k)) = k
<1> DEFINE S == {k[i] : i \in 1..Len(k)}
<1>1. k \in Seq(S)
  BY DEF IsKey
<1>3. Last(k) \in S
  BY DEF IsKey, Last
<1> HIDE DEF S
<1>2. /\ Front(k) \in Seq(S) /\ Len(Front(k)) = Len(k) - 1
      /\ \A i \in 1..Len(Front(k)) : Front(k)[i] = k[i]
  BY <1>1 DEF IsKey, Front
<1> DEFINE f == Front(k)
<1> HIDE DEF f
<1>4. f \in Seq(S) /\ Len(f) = Len(k) - 1 /\ \A i \in 1..Len(f) : f[i] = k[i]
  BY <1>2 DEF f
<1>5. /\ Append(f, Last(k)) \in Seq(S) /\ Len(Append(f, Last(k))) = Len(k)
      /\ \A i \in 1..Len(k) : Append(f, Last(k))[i] = k[i]
  BY <1>1, <1>3, <1>4 DEF Last
<1>6. Append(f, Last(k)) = k
  BY <1>1, <1>5
<1> QED
  BY <1>2, <1>6 DEF IsKey, f

\* What is below a key is longer.
LEMMA BelowIsShorter ==
  ASSUME NEW k, NEW x, IsKey(k), IsKey(x)
  PROVE  Below(k, x) <=> IsPrefix(k, x) /\ Len(k) < Len(x)
<1>1. ASSUME IsPrefix(k, x), Len(k) = Len(x)
      PROVE  k = x
  BY <1>1, PrefixPointwise DEF IsKey
<1>2. Len(k) \in Nat /\ Len(x) \in Nat
  BY DEF IsKey
<1> QED
  BY <1>1, <1>2, PrefixPointwise DEF Below, IsStrictPrefix

\* Prefixes compose, and the first step stays the same.
LEMMA PrefixTransitive ==
  ASSUME NEW a, NEW b, NEW c, IsKey(a), IsKey(b), IsKey(c), IsPrefix(a, b), IsPrefix(b, c)
  PROVE  /\ IsPrefix(a, c)
         /\ Below(a, b) => Below(a, c) /\ Step(a, c) = Step(a, b)
         /\ Below(b, c) => Below(a, c)
<1>1. Len(a) \in Nat /\ Len(b) \in Nat /\ Len(c) \in Nat
  BY DEF IsKey
<1>2. IsPrefix(a, c)
  BY <1>1, PrefixPointwise
<1>3. Below(a, b) => Step(a, c) = Step(a, b)
  BY <1>1, PrefixPointwise, BelowIsShorter DEF Step
<1> QED
  BY <1>1, <1>2, <1>3, PrefixPointwise, BelowIsShorter

\* A key is a prefix of itself, and not below itself.
LEMMA PrefixItself ==
  ASSUME NEW k, IsKey(k)
  PROVE  IsPrefix(k, k) /\ ~Below(k, k)
BY PrefixPointwise, BelowIsShorter DEF IsKey

\* Two prefixes of a key are prefixes of each other.
LEMMA PrefixesCompare ==
  ASSUME NEW a, NEW b, NEW x, IsKey(a), IsKey(b), IsKey(x), IsPrefix(a, x), IsPrefix(b, x),
         Len(a) <= Len(b)
  PROVE  IsPrefix(a, b)
<1>1. Len(a) \in Nat /\ Len(b) \in Nat /\ Len(x) \in Nat
  BY DEF IsKey
<1> QED
  BY <1>1, PrefixPointwise

\* The child c of k is above x exactly when x is below k through c.
LEMMA ChildAbove ==
  ASSUME NEW k, NEW c, NEW x, IsKey(k), IsKey(x)
  PROVE  IsPrefix(Append(k, c), x) <=> Below(k, x) /\ Step(k, x) = c
<1> DEFINE child == Append(k, c)
<1>1. Len(k) \in Nat /\ Len(x) \in Nat
  BY DEF IsKey
<1>2. /\ IsKey(child) /\ Len(child) = Len(k) + 1
      /\ child[Len(k) + 1] = c /\ \A i \in 1..Len(k) : child[i] = k[i]
  BY KeyAppend
<1> HIDE DEF child
<1>3. IsPrefix(child, x) <=> Len(k) + 1 <= Len(x) /\ x[Len(k) + 1] = c
                               /\ \A i \in 1..Len(k) : k[i] = x[i]
  <2>1. IsPrefix(child, x) <=> Len(k) + 1 <= Len(x) /\ \A i \in 1..(Len(k) + 1) : child[i] = x[i]
    BY <1>2, PrefixPointwise
  <2> QED
    BY <1>1, <1>2, <2>1
<1> QED
  BY <1>1, <1>3, PrefixPointwise, BelowIsShorter DEF Step, child

\* What is above a child of r is above r or r itself.
LEMMA BelowChild ==
  ASSUME NEW k, NEW r, NEW c, IsKey(k), IsKey(r)
  PROVE  /\ Below(k, Append(r, c)) <=> IsPrefix(k, r)
         /\ Below(k, r) => Step(k, Append(r, c)) = Step(k, r)
         /\ Step(r, Append(r, c)) = c
<1> DEFINE child == Append(r, c)
<1>1. Len(k) \in Nat /\ Len(r) \in Nat
  BY DEF IsKey
<1>2. /\ IsKey(child) /\ Len(child) = Len(r) + 1
      /\ child[Len(r) + 1] = c /\ \A i \in 1..Len(r) : child[i] = r[i]
  BY KeyAppend
<1> HIDE DEF child
<1>3. Below(k, child) <=> Len(k) < Len(r) + 1 /\ \A i \in 1..Len(k) : k[i] = child[i]
  BY <1>1, <1>2, PrefixPointwise, BelowIsShorter
<1>4. Below(k, child) <=> IsPrefix(k, r)
  BY <1>1, <1>2, <1>3, PrefixPointwise
<1>5. Below(k, r) => Step(k, child) = Step(k, r)
  BY <1>1, <1>2, BelowIsShorter DEF Step
<1> QED
  BY <1>2, <1>4, <1>5 DEF Step, child

\* The chosen order is one.
LEMMA RankOrders ==
  ASSUME Acyclic
  PROVE  Ordered(Rank)
BY Zenon DEF Acyclic, Rank

\* The first m elements of a key are the only key of length m above it.
LEMMA PrefixOfKey ==
  ASSUME NEW x, IsKey(x), NEW m \in 1..Len(x)
  PROVE  /\ IsKey(SubSeq(x, 1, m)) /\ Len(SubSeq(x, 1, m)) = m
         /\ IsPrefix(SubSeq(x, 1, m), x)
         /\ m < Len(x) => Below(SubSeq(x, 1, m), x)
         /\ \A k : IsKey(k) /\ IsPrefix(k, x) /\ Len(k) = m => k = SubSeq(x, 1, m)
<1>1. Len(x) \in Nat /\ m <= Len(x)
  BY DEF IsKey
<1> DEFINE p == SubSeq(x, 1, m)
<1>2. p = [i \in 1..m |-> x[i]] /\ Len(p) = m
  BY <1>1 DEF IsKey
<1> HIDE DEF p
<1>3. IsKey(p)
  BY <1>2 DEF IsKey
<1>4. IsPrefix(p, x) /\ (m < Len(x) => Below(p, x))
  BY <1>1, <1>2, <1>3, PrefixPointwise, BelowIsShorter
<1>5. ASSUME NEW k, IsKey(k), IsPrefix(k, x), Len(k) = m
      PROVE  k = p
  BY <1>1, <1>2, <1>5, PrefixPointwise DEF IsKey
<1> QED
  BY <1>2, <1>3, <1>4, <1>5 DEF p

\* Every non-empty key above something live is a live frame.
LEMMA ClosedAbove ==
  ASSUME NEW F, NEW P, Closed(F, P), NEW x \in DOMAIN F \cup P, IsKey(x),
         NEW k, IsKey(k), Len(k) >= 1, Below(k, x)
  PROVE  k \in DOMAIN F
<1>1. Len(k) \in 1..(Len(x) - 1) /\ Len(x) \in Nat /\ IsPrefix(k, x)
  BY BelowIsShorter DEF IsKey
<1>2. k = SubSeq(x, 1, Len(k))
  BY <1>1, PrefixOfKey
<1> QED
  BY <1>1, <1>2 DEF Closed

-----------------------------------------------------------------------------
(*****************************************************************************)
(* Facts about trees.                                                        *)
(*****************************************************************************)
\* A frame still fits when fewer keys are below it.
LEMMA FitsLess ==
  ASSUME NEW k, NEW frame, NEW now, NEW ever, Fits(k, frame, now, ever),
         NEW now2 \in SUBSET now, NEW ever2 \in SUBSET ever
  PROVE  Fits(k, frame, now2, ever2)
BY DEF Fits, RegionFits, RepeatFits, ParallelFits, MapFits

\* Fewer keys lead to fewer children.
LEMMA StepsLess ==
  ASSUME NEW k, NEW X, NEW Y, X \subseteq Y
  PROVE  Steps(k, X) \subseteq Steps(k, Y)
BY DEF Steps

\* A frame keeps what it has.
LEMMA SettledItself ==
  ASSUME NEW k, NEW f
  PROVE  Settled(k, f, f)
BY DEF Settled, Extends

\* Keeping what is settled composes.
LEMMA SettledTransitive ==
  ASSUME NEW k, NEW f, NEW g, NEW h, Settled(k, f, g), Settled(k, g, h)
  PROVE  Settled(k, f, h)
BY DEF Settled, Extends

\* So does evolving.
LEMMA EvolvesTransitive ==
  ASSUME NEW F, NEW G, NEW I, NEW H, Evolves(F, G, H), Evolves(G, I, H)
  PROVE  Evolves(F, I, H)
BY SettledTransitive DEF Evolves

\* An operation may be forgotten, and keys in use count as used.
LEMMA SmallerTree ==
  ASSUME NEW F, NEW P, NEW H, Tree(F, P, H), NEW Q \in SUBSET P,
         NEW I \in SUBSET (H \cup P \cup DOMAIN F)
  PROVE  Tree(F, Q, I)
<1>1. \A k \in DOMAIN F : Fits(k, F[k], Steps(k, DOMAIN F \cup Q), Steps(k, DOMAIN F \cup Q \cup I))
  <2> SUFFICES ASSUME NEW k \in DOMAIN F
               PROVE  Fits(k, F[k], Steps(k, DOMAIN F \cup Q), Steps(k, DOMAIN F \cup Q \cup I))
    OBVIOUS
  <2>1. /\ Steps(k, DOMAIN F \cup Q) \subseteq Steps(k, DOMAIN F \cup P)
        /\ Steps(k, DOMAIN F \cup Q \cup I) \subseteq Steps(k, DOMAIN F \cup P \cup H)
    BY StepsLess
  <2> QED
    BY <2>1, FitsLess DEF Tree
<1> QED
  BY <1>1 DEF Tree, Keyed, Closed, Leaves

\* Closing frames (PruneTrees, storing an owner's result) keeps the tree:
\* whole subtrees go, with nothing pending in them.
LEMMA CutTree ==
  ASSUME NEW F, NEW P, NEW H, Tree(F, P, H), NEW roots,
         \A r \in roots : IsKey(r) /\ \A op \in P : ~IsPrefix(r, op),
         NEW gone, gone = {k \in DOMAIN F : \E r \in roots : IsPrefix(r, k)},
         NEW G, G = [k \in DOMAIN F \ gone |-> F[k]]
  PROVE  Tree(G, P, H) /\ Evolves(F, G, H)
<1>1. DOMAIN G \subseteq DOMAIN F /\ \A k \in DOMAIN G : G[k] = F[k]
  OBVIOUS
<1>2. \A k \in DOMAIN G : Fits(k, G[k], Steps(k, DOMAIN G \cup P), Steps(k, DOMAIN G \cup P \cup H))
  <2> SUFFICES ASSUME NEW k \in DOMAIN G
               PROVE  Fits(k, G[k], Steps(k, DOMAIN G \cup P), Steps(k, DOMAIN G \cup P \cup H))
    OBVIOUS
  <2>1. /\ Steps(k, DOMAIN G \cup P) \subseteq Steps(k, DOMAIN F \cup P)
        /\ Steps(k, DOMAIN G \cup P \cup H) \subseteq Steps(k, DOMAIN F \cup P \cup H)
    BY <1>1, StepsLess
  <2>2. Fits(k, G[k], Steps(k, DOMAIN F \cup P), Steps(k, DOMAIN F \cup P \cup H))
    BY <1>1 DEF Tree
  <2> QED
    BY <2>1, <2>2, FitsLess
<1>3. Closed(G, P)
  <2> SUFFICES ASSUME NEW x \in DOMAIN G \cup P, NEW m \in 1..(Len(x) - 1)
               PROVE  SubSeq(x, 1, m) \in DOMAIN G
    BY DEF Closed
  <2> DEFINE p == SubSeq(x, 1, m)
  <2>1. IsKey(x) /\ p \in DOMAIN F
    BY <1>1 DEF Tree, Keyed, Closed
  <2>2. IsKey(p) /\ IsPrefix(p, x)
    <3>1. m \in 1..Len(x)
      BY <2>1 DEF IsKey
    <3> QED
      BY <2>1, <3>1, PrefixOfKey
  <2> HIDE DEF p
  <2>3. ASSUME NEW r \in roots, IsPrefix(r, p)
        PROVE  FALSE
    BY <2>1, <2>2, <2>3, PrefixTransitive
  <2> QED
    BY <2>1, <2>3 DEF p
<1>4. Keyed(G, P, H) /\ Leaves(G, P)
  BY <1>1 DEF Tree, Keyed, Leaves
<1>5. Evolves(F, G, H)
  BY <1>1, SettledItself DEF Evolves
<1> QED
  BY <1>2, <1>3, <1>4, <1>5 DEF Tree

\* A frame may be replaced by one that fits and keeps what is settled.
LEMMA SetTree ==
  ASSUME NEW F, NEW P, NEW H, Tree(F, P, H), NEW k \in DOMAIN F, NEW frame,
         Fits(k, frame, Steps(k, DOMAIN F \cup P), Steps(k, DOMAIN F \cup P \cup H)),
         Settled(k, F[k], frame),
         NEW G, G = With(F, k, frame)
  PROVE  Tree(G, P, H) /\ Evolves(F, G, H) /\ DOMAIN G = DOMAIN F
<1>1. /\ DOMAIN G = DOMAIN F /\ G[k] = frame
      /\ \A j \in DOMAIN F : j # k => G[j] = F[j]
  BY DEF With
<1>2. \A j \in DOMAIN G : Fits(j, G[j], Steps(j, DOMAIN G \cup P), Steps(j, DOMAIN G \cup P \cup H))
  BY <1>1 DEF Tree
<1>3. Keyed(G, P, H) /\ Leaves(G, P) /\ Closed(G, P)
  BY <1>1 DEF Tree, Keyed, Leaves, Closed
<1>4. Evolves(F, G, H)
  BY <1>1, SettledItself DEF Evolves
<1> QED
  BY <1>1, <1>2, <1>3, <1>4 DEF Tree

\* The keys of the children C of k.
ChildrenOf(k, C) == {Append(k, c) : c \in C}

\* New children of k add their own steps to k, and none to any other key.
LEMMA ChildSteps ==
  ASSUME NEW k, IsKey(k), NEW C, NEW X, \A x \in X : IsKey(x)
  PROVE  /\ Steps(k, X \cup ChildrenOf(k, C)) \subseteq Steps(k, X) \cup C
         /\ \A j : IsKey(j) /\ j # k /\ k \in X =>
              Steps(j, X \cup ChildrenOf(k, C)) \subseteq Steps(j, X)
<1>1. \A c \in C : Step(k, Append(k, c)) = c
  BY BelowChild
<1>2. ASSUME NEW j, IsKey(j), j # k, k \in X, NEW c \in C, Below(j, Append(k, c))
      PROVE  Below(j, k) /\ Step(j, Append(k, c)) = Step(j, k)
  <2>1. IsPrefix(j, k)
    BY <1>2, BelowChild
  <2>2. Below(j, k)
    BY <1>2, <2>1 DEF Below, IsStrictPrefix
  <2> QED
    BY <1>2, <2>2, BelowChild
<1> DEFINE children == ChildrenOf(k, C)
<1>3. Steps(k, X \cup children) \subseteq Steps(k, X) \cup C
  <2> SUFFICES ASSUME NEW x \in X \cup children, Below(k, x)
               PROVE  Step(k, x) \in Steps(k, X) \cup C
    BY DEF Steps
  <2> QED
    BY <1>1 DEF Steps, ChildrenOf
<1>4. ASSUME NEW j, IsKey(j), j # k, k \in X
      PROVE  Steps(j, X \cup children) \subseteq Steps(j, X)
  <2> SUFFICES ASSUME NEW x \in X \cup children, Below(j, x)
               PROVE  Step(j, x) \in Steps(j, X)
    BY DEF Steps
  <2>1. CASE x \in X
    BY <2>1 DEF Steps
  <2>2. CASE x \in children
    <3>1. Below(j, k) /\ Step(j, x) = Step(j, k)
      BY <1>2, <1>4, <2>2 DEF ChildrenOf
    <3> QED
      BY <1>4, <3>1 DEF Steps
  <2> QED
    BY <2>1, <2>2
<1> QED
  BY <1>3, <1>4

\* Nothing is inside a child no used key leads to.
LEMMA ChildFresh ==
  ASSUME NEW k, IsKey(k), NEW X, \A x \in X : IsKey(x), NEW c, c \notin Steps(k, X)
  PROVE  \A x \in X : ~IsPrefix(Append(k, c), x)
BY ChildAbove DEF Steps

\* The ancestors of a new child are alive.
LEMMA ChildUnder ==
  ASSUME NEW F, NEW P, Closed(F, P), NEW k \in DOMAIN F, IsKey(k), NEW c,
         NEW m \in 1..Len(k)
  PROVE  SubSeq(Append(k, c), 1, m) \in DOMAIN F
<1> DEFINE p == SubSeq(Append(k, c), 1, m)
<1>1. IsKey(Append(k, c)) /\ Len(Append(k, c)) = Len(k) + 1 /\ Len(k) \in Nat
  BY KeyAppend DEF IsKey
<1>2. IsKey(p) /\ Len(p) = m /\ Below(p, Append(k, c))
  <2>1. m \in 1..Len(Append(k, c)) /\ m < Len(Append(k, c))
    BY <1>1
  <2> QED
    BY <1>1, <2>1, PrefixOfKey
<1>3. IsPrefix(p, k)
  BY <1>2, BelowChild
<1> HIDE DEF p
<1>4. CASE p = k
  BY <1>4 DEF p
<1>5. CASE p # k
  <2>1. Below(p, k)
    BY <1>3, <1>5 DEF Below, IsStrictPrefix
  <2>2. Len(p) >= 1
    BY <1>2
  <2>3. p \in DOMAIN F
    BY <1>2, <2>1, <2>2, ClosedAbove
  <2> QED
    BY <2>3 DEF p
<1> QED
  BY <1>4, <1>5

\* A child of a frame is not inside a pending operation.
LEMMA ChildNotUnder ==
  ASSUME NEW F, NEW P, Leaves(F, P), NEW k \in DOMAIN F, IsKey(k), NEW c,
         NEW op \in P, IsKey(op)
  PROVE  ~Below(op, Append(k, c))
<1>1. Below(op, Append(k, c)) => IsPrefix(op, k)
  BY BelowChild
<1>2. op # k /\ ~Below(op, k)
  BY DEF Leaves
<1> QED
  BY <1>1, <1>2 DEF Below, IsStrictPrefix

\* New children C of k would be new keys, and k fits with them.
Free(F, P, H, k, C) ==
  /\ k \in DOMAIN F
  /\ C \cap Steps(k, DOMAIN F \cup P \cup H) = {}
  /\ Fits(k, F[k], Steps(k, DOMAIN F \cup P) \cup C, Steps(k, DOMAIN F \cup P \cup H) \cup C)

\* The frames `new` of the children C of k fit with nothing below them.
Begins(k, C, new) ==
  /\ DOMAIN new = ChildrenOf(k, C)
  /\ \A c \in C : Fits(Append(k, c), new[Append(k, c)], {}, {})

\* G is F with the frames `new` of the children C, which are bare.
Added(F, P, H, k, C, new, G) ==
  /\ Tree(G, P, H) /\ Evolves(F, G, H)
  /\ DOMAIN G = DOMAIN F \cup DOMAIN new
  /\ \A j \in DOMAIN F : G[j] = F[j]
  /\ \A c \in C : Steps(Append(k, c), DOMAIN G \cup P \cup H) = {}

\* Opening children of a frame (AddOwner, AddRegions) keeps the tree.
LEMMA AddTree ==
  ASSUME NEW F, NEW P, NEW H, Tree(F, P, H), NEW k, NEW C, Free(F, P, H, k, C),
         NEW new, Begins(k, C, new)
  PROVE  Added(F, P, H, k, C, new, Else(new, F))
<1> DEFINE G == Else(new, F)
<1>0. /\ k \in DOMAIN F /\ C \cap Steps(k, DOMAIN F \cup P \cup H) = {}
      /\ Fits(k, F[k], Steps(k, DOMAIN F \cup P) \cup C,
                       Steps(k, DOMAIN F \cup P \cup H) \cup C)
  BY DEF Free
<1>14. DOMAIN new = ChildrenOf(k, C) /\ \A c \in C : Fits(Append(k, c), new[Append(k, c)], {}, {})
  BY DEF Begins
<1> DEFINE live == DOMAIN F \cup P
           all == DOMAIN F \cup P \cup H
           children == ChildrenOf(k, C)
<1>1. IsKey(k) /\ Len(k) \in Nat /\ Len(k) >= 1 /\ \A x \in all : IsKey(x)
  BY <1>0 DEF Tree, Keyed, IsKey
<1>2. \A c \in C : IsKey(Append(k, c)) /\ Len(Append(k, c)) = Len(k) + 1
  BY <1>1, KeyAppend
<1>3. \A c \in C : \A x \in all : ~IsPrefix(Append(k, c), x)
  BY <1>0, <1>1, ChildFresh
<1>4. \A y \in children : y \notin all
  <2> SUFFICES ASSUME NEW c \in C, Append(k, c) \in all
               PROVE  FALSE
    BY DEF ChildrenOf
  <2> QED
    BY <1>2, <1>3, PrefixItself
<1>5. /\ DOMAIN G = DOMAIN F \cup children
      /\ \A j \in DOMAIN F : G[j] = F[j]
      /\ \A y \in children : G[y] = new[y]
  BY <1>4, <1>14 DEF Else
<1>6. DOMAIN G \cup P = live \cup children /\ DOMAIN G \cup P \cup H = all \cup children
  BY <1>5
<1> HIDE DEF children, G
<1>7. \A c \in C : Steps(Append(k, c), all \cup children) = {}
  <2> SUFFICES ASSUME NEW c \in C, NEW x \in all \cup children, Below(Append(k, c), x)
               PROVE  FALSE
    BY DEF Steps
  <2>1. x \notin all
    BY <1>3 DEF Below, IsStrictPrefix
  <2>2. PICK e \in C : x = Append(k, e)
    BY <2>1 DEF children, ChildrenOf
  <2>3. IsPrefix(Append(k, c), k)
    BY <1>1, <1>2, <2>2, BelowChild
  <2> QED
    BY <1>0, <1>3, <2>3
<1>8. \A c \in C : Steps(Append(k, c), live \cup children) = {}
  BY <1>7, StepsLess
<1>9. \A y \in DOMAIN G : Fits(y, G[y], Steps(y, DOMAIN G \cup P), Steps(y, DOMAIN G \cup P \cup H))
  <2>1. CASE TRUE
    <3>1. \A y \in children : Fits(y, G[y], Steps(y, DOMAIN G \cup P), Steps(y, DOMAIN G \cup P \cup H))
      BY <1>5, <1>6, <1>7, <1>8, <1>14 DEF children, ChildrenOf
    <3>2. ASSUME NEW j \in DOMAIN F
          PROVE  Fits(j, F[j], Steps(j, live \cup children), Steps(j, all \cup children))
      <4>1. CASE j = k
        <5>1. /\ Steps(k, live \cup children) \subseteq Steps(k, live) \cup C
              /\ Steps(k, all \cup children) \subseteq Steps(k, all) \cup C
          BY <1>1, ChildSteps DEF children
        <5> QED
          BY <1>0, <4>1, <5>1, FitsLess
      <4>2. CASE j # k
        <5>1. IsKey(j) /\ k \in live /\ k \in all
          BY <1>0, <1>1
        <5>2. /\ Steps(j, live \cup children) \subseteq Steps(j, live)
              /\ Steps(j, all \cup children) \subseteq Steps(j, all)
          BY <1>1, <4>2, <5>1, ChildSteps DEF children
        <5> QED
          BY <5>2, FitsLess DEF Tree
      <4> QED
        BY <4>1, <4>2
    <3> QED
      BY <1>5, <1>6, <3>1, <3>2
  <2> QED
    BY <2>1
<1>10. Keyed(G, P, H)
  <2>1. \A c \in C : IsKey(Append(k, c)) /\ Len(Append(k, c)) >= 1 /\ Len(Append(k, c)) # 1
    BY <1>1, <1>2
  <2>2. \A y \in children : IsKey(y) /\ Len(y) >= 1 /\ Len(y) # 1
    BY <2>1 DEF children, ChildrenOf
  <2> QED
    BY <1>5, <2>2 DEF Tree, Keyed
<1>11. Closed(G, P)
  <2>1. \A c \in C : \A m \in 1..(Len(Append(k, c)) - 1) : SubSeq(Append(k, c), 1, m) \in DOMAIN F
    BY <1>0, <1>1, <1>2, ChildUnder DEF Tree
  <2> QED
    BY <1>5, <2>1 DEF Tree, Closed, children, ChildrenOf
<1>12. Leaves(G, P)
  <2>1. \A op \in P : \A c \in C : ~Below(op, Append(k, c))
    BY <1>0, <1>1, ChildNotUnder DEF Tree
  <2> QED
    BY <1>4, <1>5, <2>1 DEF Tree, Leaves, children, ChildrenOf
<1>13. Evolves(F, G, H)
  <2>1. \A j \in DOMAIN F : Settled(j, F[j], G[j])
    BY <1>5, SettledItself
  <2>2. \A y \in children : \A x \in H : ~IsPrefix(y, x)
    BY <1>3 DEF children, ChildrenOf
  <2> QED
    BY <1>5, <2>1, <2>2 DEF Evolves
<1> QED
  BY <1>5, <1>6, <1>7, <1>9, <1>10, <1>11, <1>12, <1>13, <1>14 DEF Tree, Added, children, G, ChildrenOf

\* Dispatching the operation of a ready node keeps the tree.
LEMMA DispatchTree ==
  ASSUME NEW F, NEW P, NEW H, Tree(F, P, H), NEW r \in DOMAIN F, IsRegion(r), NEW n \in DOMAIN Nodes,
         Nodes[n].kind \in OperationKinds, 
         n \notin Steps(r, DOMAIN F \cup P \cup H),
         Fits(r, F[r], Steps(r, DOMAIN F \cup P) \cup {n}, Steps(r, DOMAIN F \cup P \cup H) \cup {n})
  PROVE  Tree(F, P \cup {Append(r, n)}, H)
<1> DEFINE live == DOMAIN F \cup P
           all == DOMAIN F \cup P \cup H
           op == Append(r, n)
<1>1. IsKey(r) /\ Len(r) \in Nat /\ Len(r) >= 1 /\ \A x \in all : IsKey(x)
  BY DEF Tree, Keyed, IsKey
<1>2. IsKey(op) /\ Len(op) = Len(r) + 1 /\ Last(op) = n
  BY <1>1, KeyAppend
<1>3. \A x \in all : ~IsPrefix(op, x)
  BY <1>1, ChildFresh
<1>4. op \notin all
  BY <1>2, <1>3, PrefixItself
<1>5. {op} = ChildrenOf(r, {n})
  BY DEF ChildrenOf
<1>6. ASSUME NEW j \in DOMAIN F
      PROVE  Fits(j, F[j], Steps(j, live \cup {op}), Steps(j, all \cup {op}))
  <2>1. CASE j = r
    <3>1. /\ Steps(r, live \cup {op}) \subseteq Steps(r, live) \cup {n}
          /\ Steps(r, all \cup {op}) \subseteq Steps(r, all) \cup {n}
      BY <1>1, <1>5, ChildSteps
    <3> QED
      BY <2>1, <3>1, FitsLess
  <2>2. CASE j # r
    <3>1. IsKey(j) /\ r \in live /\ r \in all
      BY <1>1
    <3>2. /\ Steps(j, live \cup {op}) \subseteq Steps(j, live)
          /\ Steps(j, all \cup {op}) \subseteq Steps(j, all)
      BY <1>1, <1>5, <2>2, <3>1, ChildSteps
    <3> QED
      BY <3>2, FitsLess DEF Tree
  <2> QED
    BY <2>1, <2>2
<1>7. ~IsRegion(op)
  BY <1>1, <1>2 DEF IsRegion
<1>8. Keyed(F, P \cup {op}, H)
  <2>1. Len(op) >= 2 /\ NodeAt(op).kind \in OperationKinds
    BY <1>1, <1>2 DEF NodeAt
  <2> HIDE DEF op
  <2> QED
    BY <1>2, <1>7, <2>1 DEF Tree, Keyed
<1>9. Closed(F, P \cup {op})
  <2>1. \A m \in 1..(Len(op) - 1) : SubSeq(op, 1, m) \in DOMAIN F
    BY <1>1, <1>2, ChildUnder DEF Tree
  <2> HIDE DEF op
  <2> QED
    BY <2>1 DEF Tree, Closed
<1>10. Leaves(F, P \cup {op})
  <2>1. \A p \in P : ~Below(p, op)
    BY <1>1, ChildNotUnder DEF Tree
  <2>2. \A x \in DOMAIN F \cup P \cup {op} : ~Below(op, x)
    BY <1>2, <1>3, PrefixItself DEF Below, IsStrictPrefix
  <2> HIDE DEF op
  <2> QED
    BY <1>4, <2>1, <2>2 DEF Tree, Leaves
<1> HIDE DEF op
<1>11. /\ DOMAIN F \cup (P \cup {op}) = live \cup {op}
       /\ DOMAIN F \cup (P \cup {op}) \cup H = all \cup {op}
  OBVIOUS
<1> QED
  BY <1>6, <1>8, <1>9, <1>10, <1>11 DEF Tree, op

-----------------------------------------------------------------------------
(*****************************************************************************)
(* Drafts.                                                                   *)
(*****************************************************************************)
\* A handler that asks for a cancellation names an owner that has selected.
Closes(d) ==
  /\ IsKey(d.cancel)
  /\ d.cancel \in DOMAIN d.frames =>
       /\ ~IsRegion(d.cancel)
       /\ NodeAt(d.cancel).kind \in {"parallel", "map"}
       /\ d.frames[d.cancel].selected # None

\* A draft whose frames are a tree of keys that all count as used.
Good(d, H) ==
  IsDraft(d) /\ Tree(d.frames, d.pending, H) /\ DOMAIN d.frames \subseteq H /\ Closes(d)

\* Draft e follows from d by a handler that may open frames.
Develops(d, e, H) ==
  /\ Derived(d, e)
  /\ Tree(e.frames, e.pending, H) 
  /\ Evolves(d.frames, e.frames, H)
  /\ Closes(e)

\* Draft e follows from d by a handler that opens none.
Grows(d, e, H) == Develops(d, e, H) /\ DOMAIN e.frames \subseteq H

\* Handlers compose.
LEMMA GrowsTransitive ==
  ASSUME NEW d, NEW e, NEW f, NEW H, Grows(d, e, H)
  PROVE  /\ Good(e, H)
         /\ Grows(e, f, H) => Grows(d, f, H)
         /\ Develops(e, f, H) => Develops(d, f, H)
BY EvolvesTransitive DEF Grows, Develops, Good, Derived

\* An owner that has selected keeps its selection.
LEMMA ClosesKept ==
  ASSUME NEW d, NEW H, Good(d, H), NEW e, e.cancel = d.cancel, DOMAIN e.frames \subseteq H,
         Tree(e.frames, e.pending, H), Evolves(d.frames, e.frames, H)
  PROVE  Closes(e)
<1> SUFFICES ASSUME e.cancel \in DOMAIN e.frames
             PROVE  /\ ~IsRegion(d.cancel)
                    /\ NodeAt(d.cancel).kind \in {"parallel", "map"}
                    /\ e.frames[d.cancel].selected # None
  BY DEF Closes, Good
<1>1. d.cancel \in H /\ d.cancel \in DOMAIN e.frames /\ IsKey(d.cancel)
  BY DEF Tree, Keyed
<1>2. d.cancel \in DOMAIN d.frames /\ Settled(d.cancel, d.frames[d.cancel], e.frames[d.cancel])
  BY <1>1, PrefixItself DEF Evolves
<1> QED
  BY <1>2 DEF Good, Closes, Settled

\* A handler that closes or changes frames, and asks for no cancellation.
LEMMA GrowsWith ==
  ASSUME NEW d, NEW H, Good(d, H), NEW e, Derived(d, e), e.cancel = d.cancel,
         DOMAIN e.frames \subseteq DOMAIN d.frames,
         Tree(e.frames, d.pending, H), Evolves(d.frames, e.frames, H)
  PROVE  Grows(d, e, H)
<1>1. e.pending = d.pending /\ DOMAIN e.frames \subseteq H
  BY DEF Derived, Good
<1> QED
  BY <1>1, ClosesKept DEF Grows, Develops

\* A handler that leaves the frames alone.
LEMMA GrowsSame ==
  ASSUME NEW d, NEW H, Good(d, H), NEW e, Derived(d, e), e.cancel = d.cancel,
         e.frames = d.frames
  PROVE  Grows(d, e, H)
<1>1. Evolves(d.frames, d.frames, H)
  BY SettledItself DEF Evolves
<1> QED
  BY <1>1, GrowsWith DEF Good

\* Charging, queueing, discarding and refusing leave the frames alone.
LEMMA GrowsUpdate ==
  ASSUME NEW d, NEW H, Good(d, H), NEW x
  PROVE  /\ Grows(d, d, H)
         /\ Grows(d, Invalid(d), H)
         /\ Grows(d, Charge(d, x), H)
         /\ Grows(d, Enqueue(d, x), H)
         /\ Grows(d, Discard(d, x), H)
         /\ Grows(d, [d EXCEPT !.queue = x], H)
         /\ Grows(d, [d EXCEPT !.cleanups = x], H)
         /\ Invalid(d).frames = d.frames /\ Charge(d, x).frames = d.frames
         /\ Enqueue(d, x).frames = d.frames /\ Discard(d, x).frames = d.frames
         /\ [d EXCEPT !.cleanups = x].frames = d.frames
<1>1. IsDraft(d)
  BY DEF Good
<1>2. ASSUME NEW e, Keeps(d, e), e.cancel = d.cancel, e.frames = d.frames
      PROVE  Grows(d, e, H)
  BY <1>2, GrowsSame DEF Keeps
<1>3. /\ Keeps(d, d) /\ Keeps(d, Invalid(d)) /\ Keeps(d, Charge(d, x))
      /\ Keeps(d, Enqueue(d, x)) /\ Keeps(d, Discard(d, x))
      /\ Keeps(d, [d EXCEPT !.queue = x]) /\ Keeps(d, [d EXCEPT !.cleanups = x])
  BY <1>1, KeepsItself, KeepsInvalid, KeepsUpdate, KeepsTree
<1>4. /\ Invalid(d).cancel = d.cancel /\ Invalid(d).frames = d.frames
      /\ Charge(d, x).cancel = d.cancel /\ Charge(d, x).frames = d.frames
  BY <1>1 DEF IsDraft, DraftFields, Invalid, Charge
<1>5. ASSUME NEW y
      PROVE  /\ [d EXCEPT !.queue = y].cancel = d.cancel /\ [d EXCEPT !.queue = y].frames = d.frames
             /\ [d EXCEPT !.cleanups = y].cancel = d.cancel /\ [d EXCEPT !.cleanups = y].frames = d.frames
  BY <1>1 DEF IsDraft, DraftFields
<1>6. /\ Enqueue(d, x).cancel = d.cancel /\ Enqueue(d, x).frames = d.frames
      /\ Discard(d, x).cancel = d.cancel /\ Discard(d, x).frames = d.frames
  BY <1>5 DEF Enqueue, Discard
<1> QED
  BY <1>2, <1>3, <1>4, <1>5, <1>6

\* PruneTrees keeps the frames outside the pruned subtrees.
LEMMA PruneFrames ==
  ASSUME NEW d, IsDraft(d), NEW roots, NEW e, e = PruneTrees(d, roots)
  PROVE  /\ e.pending = d.pending /\ e.cancel = d.cancel
         /\ e.frames = [k \in DOMAIN d.frames \ {k \in DOMAIN d.frames : \E r \in roots : IsPrefix(r, k)}
                          |-> d.frames[k]]
BY DEF PruneTrees, IsDraft, DraftFields

\* The same, read key by key.
LEMMA PruneShape ==
  ASSUME NEW d, IsDraft(d), NEW roots, NEW e, e = PruneTrees(d, roots)
  PROVE  /\ \A k \in DOMAIN e.frames : /\ k \in DOMAIN d.frames
                                       /\ e.frames[k] = d.frames[k]
                                       /\ \A r \in roots : ~IsPrefix(r, k)
         /\ \A k \in DOMAIN d.frames : k \in DOMAIN e.frames \/ \E r \in roots : IsPrefix(r, k)
         /\ e.pending = d.pending /\ e.cancel = d.cancel
BY DEF PruneTrees, IsDraft, DraftFields

\* SetFrame changes one frame.
LEMMA SetShape ==
  ASSUME NEW d, IsDraft(d), NEW k \in DOMAIN d.frames, NEW frame
  PROVE  LET e == SetFrame(d, k, frame)
         IN  /\ e.frames = With(d.frames, k, frame)
             /\ DOMAIN e.frames = DOMAIN d.frames
             /\ e.frames[k] = frame
             /\ \A j \in DOMAIN d.frames : j # k => e.frames[j] = d.frames[j]
             /\ e.pending = d.pending /\ e.cancel = d.cancel
<1>1. SetFrame(d, k, frame).frames = With(d.frames, k, frame)
  BY DEF SetFrame, IsDraft, DraftFields
<1>2. SetFrame(d, k, frame).pending = d.pending /\ SetFrame(d, k, frame).cancel = d.cancel
  BY DEF SetFrame, IsDraft, DraftFields
<1> QED
  BY <1>1, <1>2 DEF With

\* Idle subtrees may be pruned.
LEMMA GrowsPrune ==
  ASSUME NEW d, NEW H, Good(d, H), NEW roots,
         \A r \in roots : IsKey(r) /\ ~HasPending(d, r)
  PROVE  Grows(d, PruneTrees(d, roots), H)
<1> DEFINE e == PruneTrees(d, roots)
           G == e.frames
           gone == {k \in DOMAIN d.frames : \E r \in roots : IsPrefix(r, k)}
<1>1. IsDraft(d) /\ Keeps(d, e)
  BY KeepsTree DEF Good
<1>2. G = [k \in DOMAIN d.frames \ gone |-> d.frames[k]] /\ e.cancel = d.cancel
  BY <1>1, PruneFrames
<1> HIDE DEF e
<1>3. Tree(G, d.pending, H) /\ Evolves(d.frames, G, H)
  <2>1. /\ Tree(d.frames, d.pending, H)
        /\ \A r \in roots : IsKey(r) /\ \A op \in d.pending : ~IsPrefix(r, op)
    BY DEF Good, HasPending
  <2>2. gone = {k \in DOMAIN d.frames : \E r \in roots : IsPrefix(r, k)}
    OBVIOUS
  <2> HIDE DEF gone, G
  <2> QED
    BY <1>2, <2>1, <2>2, CutTree
<1>4. DOMAIN G \subseteq DOMAIN d.frames
  BY <1>2
<1> QED
  BY <1>1, <1>2, <1>3, <1>4, GrowsWith DEF Keeps, e

\* A frame may be replaced by one that fits.
LEMMA GrowsSet ==
  ASSUME NEW d, NEW H, Good(d, H), NEW k \in DOMAIN d.frames, NEW frame,
         Fits(k, frame, Steps(k, DOMAIN d.frames \cup d.pending),
                        Steps(k, DOMAIN d.frames \cup d.pending \cup H)),
         Settled(k, d.frames[k], frame)
  PROVE  Grows(d, SetFrame(d, k, frame), H)
<1> DEFINE e == SetFrame(d, k, frame)
           G == e.frames
<1>1. IsDraft(d) /\ Keeps(d, e)
  BY KeepsTree DEF Good
<1>2. Tree(G, d.pending, H) /\ Evolves(d.frames, G, H) /\ DOMAIN G = DOMAIN d.frames
  BY <1>1, SetShape, SetTree DEF Good
<1>3. e.cancel = d.cancel
  BY <1>1, SetShape
<1> QED
  BY <1>1, <1>2, <1>3, GrowsWith DEF Keeps

-----------------------------------------------------------------------------
(*****************************************************************************)
(* Results and transitions.                                                  *)
(*****************************************************************************)
\* The token of region r has just been at node n: nothing is live below r, no
\* node is ready and every node entered so far is at most n in the order.
Vacant(d, H, r, n) ==
  r \in DOMAIN d.frames =>
    /\ d.frames[r].ready = {}
    /\ Steps(r, DOMAIN d.frames \cup d.pending) = {}
    /\ \A m \in Steps(r, DOMAIN d.frames \cup d.pending \cup H) :
         m \in DOMAIN Nodes /\ (m = n \/ Rank[m] < Rank[n])

\* Once the operation or the owner under key x is gone, its region is vacant.
LEMMA Vacates ==
  ASSUME Acyclic, NEW F, NEW P, NEW H, Tree(F, P, H), NEW x \in DOMAIN F \cup P, ~IsRegion(x),
         NEW e, NEW n, n = Last(x), NEW r, r = RegionOf(x),
         \A y \in DOMAIN e.frames \cup e.pending : y \in DOMAIN F \cup P /\ ~IsPrefix(x, y),
         \A k \in DOMAIN e.frames : k \in DOMAIN F /\ e.frames[k].ready = F[k].ready
  PROVE  /\ IsRegion(r) /\ IsKey(r) /\ x = Append(r, n)
         /\ Vacant(e, H, r, n)
<1>1. IsKey(x) /\ Len(x) \in Nat /\ Len(x) >= 1
  <2>1. IsKey(x) /\ Len(x) >= 1
    BY DEF Tree, Keyed
  <2> QED
    BY <2>1 DEF IsKey
<1>2. IsKey(r) /\ x = Append(r, n) /\ Len(r) = Len(x) - 1
  BY <1>1, KeyFront DEF RegionOf
<1>3. IsRegion(r)
  BY <1>1, <1>2 DEF IsRegion
<1>4. ASSUME r \in DOMAIN e.frames
      PROVE  /\ e.frames[r].ready = {}
             /\ Steps(r, DOMAIN e.frames \cup e.pending) = {}
             /\ \A m \in Steps(r, DOMAIN e.frames \cup e.pending \cup H) :
                  m \in DOMAIN Nodes /\ (m = n \/ Rank[m] < Rank[n])
  <2> DEFINE now == Steps(r, DOMAIN F \cup P)
             ever == Steps(r, DOMAIN F \cup P \cup H)
  <2>1. RegionFits(F[r], now, ever)
    BY <1>3, <1>4 DEF Tree, Fits
  <2>2. n \in now /\ now \subseteq ever
    <3>1. Below(r, Append(r, n)) /\ Step(r, Append(r, n)) = n
      BY <1>2, BelowChild, PrefixItself
    <3>2. n \in now
      BY <1>2, <3>1 DEF Steps
    <3> QED
      BY <3>2, StepsLess
  <2>3. Steps(r, DOMAIN e.frames \cup e.pending \cup H) \subseteq ever
    BY StepsLess
  <2>4. Steps(r, DOMAIN e.frames \cup e.pending) = {}
    <3> SUFFICES ASSUME NEW y \in DOMAIN e.frames \cup e.pending, Below(r, y)
                 PROVE  FALSE
      BY DEF Steps
    <3>1. y \in DOMAIN F \cup P /\ ~IsPrefix(x, y) /\ IsKey(y)
      BY DEF Tree, Keyed
    <3>2. Step(r, y) \in now
      BY <3>1 DEF Steps
    <3> HIDE DEF now, ever
    <3>3. Step(r, y) = n
      BY <2>1, <2>2, <3>2, RankOrders DEF RegionFits, Ordered
    <3>4. IsPrefix(Append(r, n), y)
      BY <1>2, <3>1, <3>3, ChildAbove
    <3> QED
      BY <1>2, <3>1, <3>4
  <2> HIDE DEF now, ever
  <2>5. e.frames[r].ready = {}
    BY <1>4, <2>1, <2>2 DEF RegionFits
  <2> QED
    BY <2>1, <2>2, <2>3, <2>4, <2>5 DEF RegionFits
<1> QED
  BY <1>2, <1>3, <1>4 DEF Vacant

\* Storing a node result keeps the tree.
LEMMA GrowsStored ==
  ASSUME NEW d, NEW H, Good(d, H), NEW region, IsRegion(region), NEW node, NEW st
  PROVE  /\ Grows(d, storePendingNodeResult(d, region, node, st), H)
         /\ Grows(d, storeOwnedResult(d, region, node, st), H)
         /\ DOMAIN storePendingNodeResult(d, region, node, st).frames = DOMAIN d.frames
         /\ DOMAIN storeOwnedResult(d, region, node, st).frames = DOMAIN d.frames
<1> DEFINE e == storePendingNodeResult(d, region, node, st)
           frame == [d.frames[region] EXCEPT !.results = With(@, node, st)]
<1>1. Grows(d, e, H) /\ DOMAIN e.frames = DOMAIN d.frames
  <2>1. CASE ~Unsettled(d, region, node)
    BY <2>1, GrowsUpdate DEF storePendingNodeResult
  <2>2. CASE Unsettled(d, region, node)
    <3> DEFINE now == Steps(region, DOMAIN d.frames \cup d.pending)
               ever == Steps(region, DOMAIN d.frames \cup d.pending \cup H)
    <3>1. region \in DOMAIN d.frames /\ node \notin DOMAIN d.frames[region].results
      BY <2>2 DEF Unsettled
    <3>2. RegionFits(d.frames[region], now, ever)
      BY <3>1 DEF Good, Tree, Fits
    <3>3. Extends(With(d.frames[region].results, node, st), d.frames[region].results)
      BY <3>1 DEF Extends, With
    <3>4. frame.results = With(d.frames[region].results, node, st)
          /\ frame.ready = d.frames[region].ready /\ DOMAIN frame = {"ready", "results"}
      BY <3>2 DEF RegionFits
    <3> HIDE DEF frame, now, ever
    <3>5. RegionFits(frame, now, ever) /\ Settled(region, d.frames[region], frame)
      BY <3>2, <3>3, <3>4 DEF RegionFits, Settled
    <3>6. e = SetFrame(d, region, frame)
      BY <2>2 DEF storePendingNodeResult, frame
    <3>7. Fits(region, frame, now, ever)
      BY <3>5 DEF Fits
    <3>8. Grows(d, SetFrame(d, region, frame), H)
      BY <3>1, <3>5, <3>7, GrowsSet, Zenon DEF now, ever
    <3>9. DOMAIN SetFrame(d, region, frame).frames = DOMAIN d.frames
      BY <3>1, SetShape DEF Good
    <3> QED
      BY <3>6, <3>8, <3>9
  <2> QED
    BY <2>1, <2>2
<1>2. Grows(d, Charge(e, 2), H) /\ DOMAIN Charge(e, 2).frames = DOMAIN d.frames
  BY <1>1, GrowsTransitive, GrowsUpdate
<1> QED
  BY <1>1, <1>2 DEF storeOwnedResult

\* Storing the result of node n in its vacant region and readying the target
\* of a transition of n keeps the tree: the target is later in the order.
LEMMA GrowsRouted ==
  ASSUME Acyclic, NEW d, NEW H, Good(d, H), NEW region, IsRegion(region), NEW st,
         NEW node \in DOMAIN Nodes, Vacant(d, H, region, node),
         NEW target \in localTargets(node)
  PROVE  /\ Grows(d, recordPendingNodeResult(d, region, node, st, target), H)
         /\ Grows(d, routeOwnedResult(d, region, node, st, target), H)
<1> DEFINE e == recordPendingNodeResult(d, region, node, st, target)
           frame == [results |-> With(d.frames[region].results, node, st),
                     ready |-> d.frames[region].ready \cup {target}]
<1>1. Grows(d, e, H)
  <2>1. CASE ~Unsettled(d, region, node)
    BY <2>1, GrowsUpdate DEF recordPendingNodeResult
  <2>2. CASE Unsettled(d, region, node)
    <3> DEFINE now == Steps(region, DOMAIN d.frames \cup d.pending)
               ever == Steps(region, DOMAIN d.frames \cup d.pending \cup H)
    <3>1. region \in DOMAIN d.frames /\ node \notin DOMAIN d.frames[region].results
      BY <2>2 DEF Unsettled
    <3>2. RegionFits(d.frames[region], now, ever)
      BY <3>1 DEF Good, Tree, Fits
    <3>3. Extends(With(d.frames[region].results, node, st), d.frames[region].results)
      BY <3>1 DEF Extends, With
    <3>4. /\ now = {} /\ frame.ready = {target}
          /\ \A m \in ever : m \in DOMAIN Nodes /\ (m = node \/ Rank[m] < Rank[node])
      BY <3>1 DEF Vacant
    <3>5. target \in DOMAIN Nodes /\ Rank[node] < Rank[target] /\ Rank \in [DOMAIN Nodes -> Nat]
      BY RankOrders DEF Ordered
    <3> HIDE DEF now, ever
    <3>6. \A m \in ever : Rank[m] < Rank[target]
      BY <3>4, <3>5
    <3>7. DOMAIN frame = {"ready", "results"}
      OBVIOUS
    <3>8. Settled(region, d.frames[region], frame)
      BY <3>3 DEF Settled
    <3>9. e = SetFrame(d, region, frame)
      BY <2>2 DEF recordPendingNodeResult
    <3> HIDE DEF frame
    <3>10. RegionFits(frame, now, ever)
      BY <3>4, <3>6, <3>7 DEF RegionFits
    <3>11. Fits(region, frame, now, ever)
      BY <3>10 DEF Fits
    <3>12. Grows(d, SetFrame(d, region, frame), H)
      BY <3>1, <3>8, <3>11, GrowsSet, Zenon DEF now, ever
    <3> QED
      BY <3>9, <3>12
  <2> QED
    BY <2>1, <2>2
<1>2. Grows(e, Enqueue(e, region), H)
  BY <1>1, GrowsTransitive, GrowsUpdate
<1>3. Grows(d, Enqueue(e, region), H)
  BY <1>1, <1>2, GrowsTransitive
<1>4. Grows(d, Charge(Enqueue(e, region), 2), H)
  BY <1>3, GrowsTransitive, GrowsUpdate
<1> QED
  BY <1>1, <1>4 DEF routeOwnedResult

\* So does a result computed at once.
LEMMA GrowsImmediate ==
  ASSUME Acyclic, NEW d, NEW H, Good(d, H), NEW region \in DOMAIN d.frames, IsRegion(region),
         NEW st, NEW node \in DOMAIN Nodes, NEW target \in localTargets(node)
  PROVE  Grows(d, routeImmediateResult(d, region, node, st, target), H)
<1> DEFINE frame == [results |-> With(d.frames[region].results, node, st),
                     ready |-> (d.frames[region].ready \ {node}) \cup {target}]
           e == SetFrame(d, region, frame)
           now == Steps(region, DOMAIN d.frames \cup d.pending)
           ever == Steps(region, DOMAIN d.frames \cup d.pending \cup H)
<1>1. CASE node \in DOMAIN d.frames[region].results \/ node \notin d.frames[region].ready
  BY <1>1, GrowsUpdate DEF routeImmediateResult
<1>2. CASE ~(node \in DOMAIN d.frames[region].results \/ node \notin d.frames[region].ready)
  <2>1. RegionFits(d.frames[region], now, ever)
    BY DEF Good, Tree, Fits
  <2>2. Settled(region, d.frames[region], frame)
    BY <1>2 DEF Extends, With, Settled
  <2>3. frame.ready = {target} /\ DOMAIN frame = {"ready", "results"}
    BY <1>2, <2>1 DEF RegionFits
  <2>4. target \in DOMAIN Nodes /\ Rank[node] < Rank[target] /\ Rank \in [DOMAIN Nodes -> Nat]
    BY RankOrders DEF Ordered
  <2>5. routeImmediateResult(d, region, node, st, target) = Charge(Enqueue(e, region), 1)
    BY <1>2 DEF routeImmediateResult
  <2> HIDE DEF now, ever, frame
  <2>6. now = {} /\ \A m \in ever : m \in DOMAIN Nodes /\ Rank[m] < Rank[node]
    BY <1>2, <2>1 DEF RegionFits
  <2>7. RegionFits(frame, now, ever)
    BY <2>3, <2>4, <2>6 DEF RegionFits
  <2>8. Grows(d, e, H)
    BY <2>2, <2>7, GrowsSet DEF Fits, now, ever
  <2> HIDE DEF e
  <2>9. Grows(d, Enqueue(e, region), H)
    BY <2>8, GrowsTransitive, GrowsUpdate
  <2>10. Grows(d, Charge(Enqueue(e, region), 1), H)
    <3> DEFINE f == Enqueue(e, region)
    <3>1. Grows(d, f, H)
      BY <2>9
    <3> HIDE DEF f
    <3>2. Grows(d, Charge(f, 1), H)
      BY <3>1, GrowsTransitive, GrowsUpdate
    <3> QED
      BY <3>2 DEF f
  <2> QED
    BY <2>5, <2>10
<1> QED
  BY <1>1, <1>2

\* Taking the ready node of a region makes the region vacant.
LEMMA GrowsConsumed ==
  ASSUME Acyclic, NEW d, NEW H, Good(d, H), NEW region \in DOMAIN d.frames, IsRegion(region),
         NEW node \in DOMAIN Nodes, node \in d.frames[region].ready
  PROVE  LET e == consumeRegionNode(d, region, node)
         IN  /\ Grows(d, e, H)
             /\ Vacant(e, H, region, node)
             /\ node \notin Steps(region, DOMAIN e.frames \cup e.pending \cup H)
             /\ DOMAIN e.frames = DOMAIN d.frames
             /\ DOMAIN e.frames[region] = {"ready", "results"}
<1> DEFINE frame == [d.frames[region] EXCEPT !.ready = @ \ {node}]
           e == SetFrame(d, region, frame)
           now == Steps(region, DOMAIN d.frames \cup d.pending)
           ever == Steps(region, DOMAIN d.frames \cup d.pending \cup H)
<1>1. RegionFits(d.frames[region], now, ever)
  BY DEF Good, Tree, Fits
<1>2. /\ frame.ready = {} /\ DOMAIN frame = {"ready", "results"}
      /\ frame.results = d.frames[region].results
  BY <1>1 DEF RegionFits
<1>3. consumeRegionNode(d, region, node) = e
  BY DEF consumeRegionNode
<1> HIDE DEF now, ever, frame
<1>4. now = {} /\ \A m \in ever : m \in DOMAIN Nodes /\ Rank[m] < Rank[node]
  BY <1>1 DEF RegionFits
<1>5. RegionFits(frame, now, ever) /\ Settled(region, d.frames[region], frame)
  BY <1>1, <1>2 DEF RegionFits, Settled, Extends
<1>6. /\ Grows(d, e, H) /\ DOMAIN e.frames = DOMAIN d.frames /\ e.pending = d.pending
      /\ e.frames[region] = frame
  <2>1. Fits(region, frame, now, ever)
    BY <1>5 DEF Fits
  <2>2. Grows(d, e, H)
    BY <1>5, <2>1, GrowsSet, Zenon DEF now, ever
  <2> QED
    BY <2>2, SetShape DEF Good
<1> HIDE DEF e
<1>7. Vacant(e, H, region, node)
  BY <1>2, <1>4, <1>6 DEF Vacant, now, ever
<1>8. node \notin ever
  <2>1. Rank[node] \in Nat
    BY RankOrders DEF Ordered
  <2> QED
    BY <1>4, <2>1
<1> QED
  BY <1>2, <1>3, <1>6, <1>7, <1>8 DEF ever

\* The owner of a region other than the root is alive and owns it.
LEMMA OwnedRegion ==
  ASSUME NEW d, NEW H, Good(d, H), NEW region \in DOMAIN d.frames, IsRegion(region),
         region # Root, NEW o, o = OwnerOf(region)
  PROVE  /\ IsKey(o) /\ o \in DOMAIN d.frames /\ ~IsRegion(o)
         /\ Last(o) \in DOMAIN Nodes
         /\ NodeAt(o).kind \in {"call", "repeat", "parallel", "map"}
         /\ region = Append(o, Last(region))
         /\ Last(region) \in Steps(o, DOMAIN d.frames \cup d.pending)
<1>1. IsKey(region) /\ Len(region) \in Nat /\ Len(region) >= 2
  <2>1. IsKey(region) /\ Len(region) >= 1 /\ Len(region) # 1
    BY DEF Good, Tree, Keyed
  <2> QED
    BY <2>1 DEF IsKey
<1>2. IsKey(o) /\ Len(o) = Len(region) - 1 /\ region = Append(o, Last(region))
  BY <1>1, KeyFront DEF OwnerOf
<1>3. Below(o, region) /\ Step(o, region) = Last(region)
  <2>1. \A c : Below(o, Append(o, c)) /\ Step(o, Append(o, c)) = c
    BY <1>2, BelowChild, PrefixItself
  <2> QED
    BY <1>2, <2>1, Zenon
<1>4. o \in DOMAIN d.frames
  <2>1. Len(o) >= 1
    BY <1>1, <1>2
  <2> QED
    BY <1>1, <1>2, <1>3, <2>1, ClosedAbove DEF Good, Tree
<1>5. ~IsRegion(o)
  BY <1>1, <1>2 DEF IsRegion
<1>6. Last(region) \in Steps(o, DOMAIN d.frames \cup d.pending)
  BY <1>3 DEF Steps
<1> QED
  BY <1>2, <1>4, <1>5, <1>6 DEF Good, Tree, Fits

\* finishOwner keeps the tree.
LEMMA GrowsOwner ==
  ASSUME Acyclic, NEW d, NEW H, Good(d, H), NEW o, ~IsRegion(o), NEW st,
         NEW target \in localTargets(Last(o))
  PROVE  Grows(d, finishOwner(d, o, st, target), H)
<1> DEFINE e == PruneTrees(d, {o})
<1>1. CASE o \notin DOMAIN d.frames \/ HasPending(d, o)
  BY <1>1, GrowsUpdate DEF finishOwner
<1>2. CASE ~(o \notin DOMAIN d.frames \/ HasPending(d, o))
  <2>1. o \in DOMAIN d.frames /\ IsKey(o) /\ IsDraft(d)
    BY <1>2 DEF Good, Tree, Keyed
  <2>2. Grows(d, e, H)
    BY <1>2, <2>1, GrowsPrune
  <2>3. /\ \A k \in DOMAIN e.frames : k \in DOMAIN d.frames /\ ~IsPrefix(o, k)
        /\ \A k \in DOMAIN e.frames : e.frames[k] = d.frames[k]
        /\ e.pending = d.pending
    BY <2>1, PruneShape
  <2>4. finishOwner(d, o, st, target) = routeOwnedResult(e, RegionOf(o), Last(o), st, target)
    BY <1>2 DEF finishOwner
  <2> HIDE DEF e
  <2>5. \A y \in DOMAIN e.frames \cup e.pending :
          y \in DOMAIN d.frames \cup d.pending /\ ~IsPrefix(o, y)
    BY <1>2, <2>3 DEF HasPending
  <2>6. IsRegion(RegionOf(o)) /\ Vacant(e, H, RegionOf(o), Last(o))
    <3>1. o \in DOMAIN d.frames \cup d.pending /\ Tree(d.frames, d.pending, H)
      BY <2>1 DEF Good
    <3>2. \A k \in DOMAIN e.frames : k \in DOMAIN d.frames /\ e.frames[k].ready = d.frames[k].ready
      BY <2>3
    <3> QED
      BY <2>5, <3>1, <3>2, Vacates
  <2>7. Last(o) \in DOMAIN Nodes
    BY <2>1 DEF Good, Tree, Fits
  <2>8. Grows(e, routeOwnedResult(e, RegionOf(o), Last(o), st, target), H)
    BY <2>2, <2>6, <2>7, GrowsTransitive, GrowsRouted
  <2> QED
    BY <2>2, <2>4, <2>8, GrowsTransitive
<1> QED
  BY <1>1, <1>2

-----------------------------------------------------------------------------
(*****************************************************************************)
(* Parallels.                                                                *)
(*****************************************************************************)
\* The branches or items `idle` of o, whose regions are `roots`, wait for no
\* answer.
Idles(d, o, idle, roots) ==
  /\ \A b \in idle : Append(o, b) \in roots /\ ~HasPending(d, Append(o, b))
  /\ \A r \in roots : \E b \in idle : r = Append(o, b)

\* Draft e is d without what was below the children `idle` of o.
Drops(d, H, o, idle, e) ==
  /\ Grows(d, e, H)
  /\ o \in DOMAIN e.frames /\ e.frames[o] = d.frames[o]
  /\ e.pending = d.pending
  /\ DOMAIN e.frames \subseteq DOMAIN d.frames
  /\ Steps(o, DOMAIN e.frames \cup e.pending)
       \subseteq Steps(o, DOMAIN d.frames \cup d.pending) \ idle
  /\ Steps(o, DOMAIN e.frames \cup e.pending \cup H)
       \subseteq Steps(o, DOMAIN d.frames \cup d.pending \cup H)

\* Pruning idle branches or items leaves their owner as it was.
LEMMA DropsChildren ==
  ASSUME NEW d, NEW H, Good(d, H), NEW o \in DOMAIN d.frames, NEW idle, NEW roots,
         Idles(d, o, idle, roots)
  PROVE  Drops(d, H, o, idle, PruneTrees(d, roots))
<1> USE DEF Idles
<1> DEFINE e == PruneTrees(d, roots)
<1> HIDE DEF e
<1>1. IsKey(o) /\ IsDraft(d) /\ \A x \in DOMAIN d.frames \cup d.pending : IsKey(x)
  BY DEF Good, Tree, Keyed
<1>2. \A b \in idle : IsKey(Append(o, b)) /\ Len(Append(o, b)) = Len(o) + 1 /\ Len(o) \in Nat
  BY <1>1, KeyAppend DEF IsKey
<1>3. Grows(d, e, H)
  <2>1. \A r \in roots : IsKey(r) /\ ~HasPending(d, r)
    BY <1>2
  <2> QED
    BY <2>1, GrowsPrune DEF e
<1>4. /\ \A k \in DOMAIN e.frames : k \in DOMAIN d.frames /\ \A r \in roots : ~IsPrefix(r, k)
      /\ \A k \in DOMAIN d.frames : k \in DOMAIN e.frames \/ \E r \in roots : IsPrefix(r, k)
      /\ \A k \in DOMAIN e.frames : e.frames[k] = d.frames[k]
      /\ e.pending = d.pending
  BY <1>1, PruneShape DEF e
<1>5. o \in DOMAIN e.frames
  <2>1. \A b \in idle : ~IsPrefix(Append(o, b), o)
    BY <1>1, ChildAbove, PrefixItself
  <2> QED
    BY <1>4, <2>1
<1>6. Steps(o, DOMAIN e.frames \cup e.pending) \cap idle = {}
  <2> SUFFICES ASSUME NEW y \in DOMAIN e.frames \cup e.pending, Below(o, y), Step(o, y) \in idle
               PROVE  FALSE
    BY DEF Steps
  <2>1. y \in DOMAIN d.frames \cup d.pending /\ IsKey(y)
    BY <1>1, <1>4
  <2>2. IsPrefix(Append(o, Step(o, y)), y)
    BY <1>1, <2>1, ChildAbove
  <2> QED
    BY <1>4, <2>2 DEF HasPending
<1>7. /\ Steps(o, DOMAIN e.frames \cup e.pending) \subseteq Steps(o, DOMAIN d.frames \cup d.pending)
      /\ Steps(o, DOMAIN e.frames \cup e.pending \cup H)
           \subseteq Steps(o, DOMAIN d.frames \cup d.pending \cup H)
  BY <1>4, StepsLess
<1> QED
  BY <1>3, <1>4, <1>5, <1>6, <1>7 DEF Drops, e

-----------------------------------------------------------------------------

\* Spoiled and classifyParallel read a function only through its values.
LEMMA ClassifySame ==
  ASSUME NEW f, NEW g, DOMAIN f = DOMAIN g, \A x \in DOMAIN f : f[x] = g[x], NEW node
  PROVE  /\ Spoiled(f) <=> Spoiled(g)
         /\ classifyParallel(node, f, None) = classifyParallel(node, g, None)
<1>1. \A class : CountOf(f, class) = CountOf(g, class)
  <2> TAKE class
  <2>1. {b \in DOMAIN f : f[b] = class} = {b \in DOMAIN g : g[b] = class}
    OBVIOUS
  <2> QED
    BY <2>1, Zenon DEF CountOf
<1>2. Spoiled(f) <=> Spoiled(g)
  BY DEF Spoiled
<1>3. /\ \A p, t : classifyGenericParallel(p, f, t, None) = classifyGenericParallel(p, g, t, None)
      /\ \A p, t : classifyVoteParallel(p, f, t, None) = classifyVoteParallel(p, g, t, None)
  BY <1>1, <1>2 DEF classifyGenericParallel, classifyVoteParallel
<1> QED
  BY <1>2, <1>3 DEF classifyParallel

\* Branches that are cancelled before they end get the result "cancelled".
LEMMA ParallelStops ==
  ASSUME NEW node, NEW own, NEW now, ParallelFits(node, own, now),
         NEW idle \in SUBSET own.live, NEW next \in SUBSET (now \ idle),
         NEW stopped, DOMAIN stopped = idle, \A b \in idle : stopped[b] = "cancelled",
         NEW frame, DOMAIN frame = DOMAIN own, frame.live = own.live \ idle,
         frame.results = Else(own.results, stopped), frame.selected = own.selected
  PROVE  /\ ParallelFits(node, frame, next)
         /\ Extends(frame.results, own.results)
<1> DEFINE results == Else(own.results, stopped)
<1>1. /\ frame.live = own.live \ idle /\ frame.results = results
      /\ frame.selected = own.selected /\ DOMAIN frame = DOMAIN own
  OBVIOUS
<1>2. /\ DOMAIN results = DOMAIN own.results \cup idle
      /\ \A b \in DOMAIN own.results : results[b] = own.results[b]
      /\ \A b \in idle : b \notin DOMAIN own.results => results[b] = "cancelled"
  BY DEF Else
<1> HIDE DEF results
<1>3. idle \cap DOMAIN own.results = {} /\ idle \subseteq ToSet(node.order)
  BY DEF ParallelFits
<1>4. ASSUME ~Spoiled(results)
      PROVE  own.selected = classifyParallel(node, results, None)
  <2>1. idle = {}
    BY <1>2, <1>3, <1>4 DEF Spoiled
  <2>2. DOMAIN results = DOMAIN own.results
    BY <1>2, <2>1
  <2>3. ~Spoiled(own.results)
    BY <1>2, <1>4, <2>2, ClassifySame
  <2> QED
    BY <1>2, <2>2, <2>3, ClassifySame DEF ParallelFits
<1>5. DOMAIN results = ToSet(node.order) \ (own.live \ idle)
  BY <1>2, <1>3 DEF ParallelFits
<1> HIDE DEF ParallelFits
<1>6. next \subseteq own.live \ idle /\ own.live \ idle \subseteq ToSet(node.order)
  BY DEF ParallelFits
<1> QED
  BY <1>1, <1>2, <1>4, <1>5, <1>6 DEF ParallelFits, Extends

\* A frame that may replace the frame under key k.
Suits(d, H, k, frame) ==
  /\ k \in DOMAIN d.frames
  /\ Fits(k, frame, Steps(k, DOMAIN d.frames \cup d.pending),
                    Steps(k, DOMAIN d.frames \cup d.pending \cup H))
  /\ Settled(k, d.frames[k], frame)

\* Draft e is d with another frame under key k.
Sets(d, H, k, frame, e) ==
  /\ Grows(d, e, H)
  /\ DOMAIN e.frames = DOMAIN d.frames
  /\ e.frames[k] = frame
  /\ e.pending = d.pending /\ e.cancel = d.cancel

\* SetFrame with a suitable frame keeps the tree.
LEMMA GrowsFrame ==
  ASSUME NEW d, NEW H, Good(d, H), NEW k, NEW frame, Suits(d, H, k, frame)
  PROVE  Sets(d, H, k, frame, SetFrame(d, k, frame))
<1>1. k \in DOMAIN d.frames
  BY DEF Suits
<1>2. Grows(d, SetFrame(d, k, frame), H)
  BY GrowsSet, Zenon DEF Suits
<1>3. /\ DOMAIN SetFrame(d, k, frame).frames = DOMAIN d.frames
      /\ SetFrame(d, k, frame).frames[k] = frame
      /\ SetFrame(d, k, frame).pending = d.pending
      /\ SetFrame(d, k, frame).cancel = d.cancel
  BY <1>1, SetShape DEF Good
<1> QED
  BY <1>2, <1>3 DEF Sets

\* cancelUnstartedBranches keeps the tree.
LEMMA GrowsStopBranches ==
  ASSUME NEW d, NEW H, Good(d, H), NEW o \in DOMAIN d.frames, ~IsRegion(o),
         NodeAt(o).kind = "parallel",
         NEW e, e = cancelUnstartedBranches(d, o)
  PROVE  /\ Grows(d, e, H)
         /\ o \in DOMAIN e.frames
         /\ e.frames[o].selected = d.frames[o].selected
<1> DEFINE own == d.frames[o]
           idle == {b \in own.live : ~HasPending(d, Append(o, b))}
           roots == {Append(o, b) : b \in idle}
           stopped == [b \in idle |-> "cancelled"]
           pruned == PruneTrees(d, roots)
           discarded == Discard(pruned, roots)
           frame == [own EXCEPT !.live = @ \ idle, !.results = Else(@, stopped)]
           now == Steps(o, DOMAIN pruned.frames \cup pruned.pending)
<1>1. e = SetFrame(discarded, o, frame)
  BY Zenon DEF cancelUnstartedBranches
<1>2. /\ idle \subseteq own.live /\ Idles(d, o, idle, roots)
      /\ DOMAIN stopped = idle /\ \A b \in idle : stopped[b] = "cancelled"
  BY DEF Idles
<1>3. /\ DOMAIN frame = DOMAIN own /\ frame.live = own.live \ idle
      /\ frame.results = Else(own.results, stopped) /\ frame.selected = own.selected
  BY DEF Good, Tree, Fits, ParallelFits
<1> HIDE DEF roots, idle, stopped, frame
<1>4. Drops(d, H, o, idle, pruned)
  BY <1>2, DropsChildren
<1> HIDE DEF pruned
<1>5. Good(pruned, H) /\ Grows(pruned, discarded, H) /\ discarded.frames = pruned.frames
  BY <1>4, GrowsTransitive, GrowsUpdate DEF Drops
<1> HIDE DEF discarded
<1>6. ParallelFits(NodeAt(o), frame, now) /\ Extends(frame.results, own.results)
  <2> DEFINE before == Steps(o, DOMAIN d.frames \cup d.pending)
             node == NodeAt(o)
  <2>1. ParallelFits(node, own, before)
    BY DEF Good, Tree, Fits
  <2>2. now \in SUBSET (before \ idle) /\ idle \in SUBSET own.live
    BY <1>2, <1>4 DEF Drops
  <2> HIDE DEF now, own, before, node
  <2> QED
    BY <1>2, <1>3, <2>1, <2>2, ParallelStops DEF node
<1>7. Suits(discarded, H, o, frame)
  <2>1. discarded.pending = pruned.pending
    BY <1>5 DEF Grows, Develops, Derived
  <2>2. o \in DOMAIN discarded.frames /\ discarded.frames[o] = own
    BY <1>4, <1>5 DEF Drops
  <2>3. Last(o) \in DOMAIN Nodes
    BY DEF Good, Tree, Fits
  <2> QED
    BY <1>3, <1>5, <1>6, <2>1, <2>2, <2>3 DEF Suits, Fits, Settled
<1>8. Sets(discarded, H, o, frame, e)
  BY <1>1, <1>5, <1>7, GrowsTransitive, GrowsFrame
<1>9. Grows(d, e, H)
  BY <1>4, <1>5, <1>8, GrowsTransitive DEF Drops, Sets
<1> QED
  BY <1>3, <1>4, <1>5, <1>8, <1>9 DEF Drops, Sets

\* A branch b of a parallel ends with a class, and the selection is made
\* once.
Advances(node, own, b, class, frame) ==
  /\ DOMAIN frame = DOMAIN own
  /\ frame.live = own.live \ {b}
  /\ frame.results = With(own.results, b, class)
  /\ own.selected # None => frame.selected = own.selected
  /\ own.selected = None /\ ~Spoiled(frame.results) =>
       frame.selected = classifyParallel(node, frame.results, None)

\* The selection of a parallel survives the end of a branch, whatever its
\* class: classifyParallel decides nothing that a later result would change
\* (GenericDecisionIsFinal, VoteDecisionIsFinal).
LEMMA ParallelAdvances ==
  ASSUME NEW n \in DOMAIN Nodes, NEW node, node = Nodes[n], node.kind = "parallel",
         NEW own, NEW now, ParallelFits(node, own, now), NEW b \in own.live,
         NEW next \in SUBSET (now \ {b}),
         NEW class, NEW frame, Advances(node, own, b, class, frame)
  PROVE  ParallelFits(node, frame, next) /\ Extends(frame.results, own.results)
<1> DEFINE results == frame.results
<1> USE DEF Advances
<1>1. b \notin DOMAIN own.results /\ b \in ToSet(node.order)
  BY DEF ParallelFits
<1>2. /\ DOMAIN results = DOMAIN own.results \cup {b}
      /\ \A x \in DOMAIN own.results : results[x] = own.results[x]
  BY <1>1 DEF With
<1>3. ASSUME own.selected # None, ~Spoiled(results)
      PROVE  own.selected = classifyParallel(node, results, None)
  <2>1. own.selected = classifyParallel(node, own.results, None)
    BY <1>2, <1>3 DEF ParallelFits, Spoiled
  <2> DEFINE total == Len(node.order)
  <2>2. Results(results, total)
    <3>1. node.order \in Seq(ToSet(node.order))
      BY OwnersAssumption
    <3>2. DOMAIN results \subseteq ToSet(node.order)
      BY <1>1, <1>2 DEF ParallelFits
    <3>3. total \in Nat /\ ToSet(node.order) = {node.order[i] : i \in 1..total}
      BY <3>1 DEF ToSet
    <3> DEFINE at == [i \in 1..total |-> node.order[i]]
    <3>4. IsFiniteSet(1..total) /\ Cardinality(1..total) = total
      BY <3>3, FS_Interval
    <3>5. at \in Surjection(1..total, ToSet(node.order))
      BY <3>3 DEF Surjection
    <3> HIDE DEF at, total
    <3>6. IsFiniteSet(ToSet(node.order)) /\ Cardinality(ToSet(node.order)) <= total
      BY <3>4, <3>5, FS_Surjection
    <3>7. IsFiniteSet(DOMAIN results) /\ Cardinality(DOMAIN results) <= total
      <4>1. IsFiniteSet(DOMAIN results) /\ Cardinality(DOMAIN results) <= Cardinality(ToSet(node.order))
        BY <3>2, <3>6, FS_Subset
      <4> QED
        BY <3>3, <3>6, <4>1, FS_CardinalityType
    <3>8. total # 0
      BY <1>1, <3>3
    <3> QED
      BY <3>3, <3>7, <3>8 DEF Results
  <2>3. ResultsGrow(own.results, results)
    BY <1>2 DEF ResultsGrow
  <2>4. IF node.mode = "generic" THEN AdmittedGeneric(node.policy, total)
        ELSE AdmittedVote(node.policy, total)
    BY OwnersAssumption
  <2> HIDE DEF total
  <2>5. CASE node.mode = "generic"
    <3>1. \A r : classifyParallel(node, r, None) = classifyGenericParallel(node.policy, r, total, None)
      BY <2>5 DEF classifyParallel, total
    <3>2. classifyGenericParallel(node.policy, results, total, None)
            = classifyGenericParallel(node.policy, own.results, total, None)
      BY <1>3, <2>1, <2>2, <2>3, <2>4, <2>5, <3>1, GenericDecisionIsFinal
    <3> QED
      BY <2>1, <3>1, <3>2
  <2>6. CASE node.mode # "generic"
    <3>1. \A r : classifyParallel(node, r, None) = classifyVoteParallel(node.policy, r, total, None)
      BY <2>6 DEF classifyParallel, total
    <3>2. classifyVoteParallel(node.policy, results, total, None)
            = classifyVoteParallel(node.policy, own.results, total, None)
      BY <1>3, <2>1, <2>2, <2>3, <2>4, <2>6, <3>1, VoteDecisionIsFinal
    <3> QED
      BY <2>1, <3>1, <3>2
  <2> QED
    BY <2>5, <2>6
<1>4. DOMAIN results = ToSet(node.order) \ frame.live
  BY <1>1, <1>2 DEF ParallelFits
<1>5. /\ DOMAIN frame = {"kind", "live", "selected", "results", "status"}
      /\ frame.live \subseteq ToSet(node.order) /\ next \subseteq frame.live
  BY DEF ParallelFits
<1>6. ~Spoiled(results) => frame.selected = classifyParallel(node, results, None)
  BY <1>3
<1> QED
  BY <1>2, <1>4, <1>5, <1>6 DEF ParallelFits, Extends

\* A handler may ask for the cancellation of an owner that has selected.
LEMMA GrowsCancel ==
  ASSUME NEW d, NEW H, NEW e, Grows(d, e, H), NEW o \in DOMAIN e.frames, ~IsRegion(o),
         NodeAt(o).kind \in {"parallel", "map"}, e.frames[o].selected # None
  PROVE  Grows(d, [e EXCEPT !.cancel = o], H)
<1> DEFINE f == [e EXCEPT !.cancel = o]
<1>1. /\ IsDraft(f) /\ f.frames = e.frames /\ f.pending = e.pending /\ f.valid = e.valid
      /\ f.cancel = o
  BY DEF Grows, Develops, Derived, IsDraft, DraftFields
<1>2. IsKey(o)
  BY DEF Grows, Develops, Tree, Keyed
<1> QED
  BY <1>1, <1>2 DEF Grows, Develops, Derived, Closes

\* completeParallelBranch keeps the tree.
LEMMA GrowsBranch ==
  ASSUME NEW d, NEW H, Good(d, H), NEW branch \in DOMAIN d.frames, IsRegion(branch),
         branch # Root, NodeAt(OwnerOf(branch)).kind = "parallel", NEW class, NEW cleanup,
         Requested(cleanup) => class \in {"failed", "cancelled"}
  PROVE  Grows(d, completeParallelBranch(d, branch, class, cleanup), H)
<1> DEFINE o == OwnerOf(branch)
           b == Last(branch)
           own == d.frames[o]
           node == NodeAt(o)
           first == PruneTrees(d, {branch})
           pruned == Charge(first, 2)
           before == Steps(o, DOMAIN d.frames \cup d.pending)
           after == Steps(o, DOMAIN pruned.frames \cup pruned.pending)
           e == completeParallelBranch(d, branch, class, cleanup)
<1>1. /\ IsKey(o) /\ o \in DOMAIN d.frames /\ ~IsRegion(o) /\ Last(o) \in DOMAIN Nodes
      /\ branch = Append(o, b) /\ b \in before
  BY OwnedRegion
<1>2. node = Nodes[Last(o)] /\ node.kind = "parallel" /\ ParallelFits(node, own, before)
  BY <1>1 DEF Good, Tree, Fits, NodeAt
<1>3. b \in own.live
  BY <1>1, <1>2 DEF ParallelFits
<1> HIDE DEF b, before, node
<1>4. ASSUME ~HasPending(d, branch)
      PROVE  Grows(d, pruned, H) /\ Drops(d, H, o, {b}, first) /\ pruned.frames = first.frames
  <2>1. Idles(d, o, {b}, {branch})
    BY <1>1, <1>4 DEF Idles
  <2>2. Drops(d, H, o, {b}, first)
    BY <1>1, <2>1, DropsChildren
  <2>3. Good(first, H)
    BY <2>2, GrowsTransitive DEF Drops
  <2>4. Grows(first, pruned, H) /\ pruned.frames = first.frames
    BY <2>3, GrowsUpdate
  <2> QED
    BY <2>2, <2>4, GrowsTransitive DEF Drops
<1>5. ASSUME ~HasPending(d, branch), NEW frame, Advances(node, own, b, class, frame),
             NEW f, f = SetFrame(pruned, o, frame)
      PROVE  Grows(d, f, H) /\ o \in DOMAIN f.frames /\ f.frames[o] = frame
  <2>1. Grows(d, pruned, H) /\ Drops(d, H, o, {b}, first) /\ pruned.frames = first.frames
    BY <1>4, <1>5
  <2>2. Good(pruned, H) /\ pruned.pending = first.pending
    BY <2>1, GrowsTransitive DEF Drops, Grows, Develops, Derived
  <2> HIDE DEF own, o
  <2>3. after \in SUBSET (before \ {b})
    BY <2>1, <2>2 DEF Drops, before
  <2> HIDE DEF pruned, first, after
  <2>4. ParallelFits(node, frame, after) /\ Extends(frame.results, own.results)
    BY <1>1, <1>2, <1>3, <1>5, <2>3, ParallelAdvances
  <2>5. o \in DOMAIN pruned.frames /\ pruned.frames[o] = own
    BY <2>1 DEF Drops, own
  <2>6. Suits(pruned, H, o, frame)
    BY <1>1, <1>2, <1>5, <2>4, <2>5 DEF Suits, Fits, Settled, Advances, after, node
  <2>7. Sets(pruned, H, o, frame, f)
    BY <1>5, <2>2, <2>6, GrowsFrame
  <2> QED
    BY <2>1, <2>5, <2>7, GrowsTransitive DEF Sets
<1> HIDE DEF pruned, first
<1> DEFINE results == With(own.results, b, class)
           selected == classifyParallel(node, results, own.selected)
           done == [own EXCEPT !.live = @ \ {b}, !.results = results]
           drained == [done EXCEPT !.selected = IF @ = None THEN "cancelled" ELSE @,
                                   !.status = "draining"]
           closing == [done EXCEPT !.selected = selected, !.status = "cancelling"]
           decided == [done EXCEPT !.selected = selected, !.status = "draining"]
           stopped(f) == cancelUnstartedBranches(SetFrame(pruned, o, f), o)
<1>6. /\ Requested(cleanup) => Advances(node, own, b, class, drained)
      /\ own.selected = None /\ selected # None =>
           /\ Advances(node, own, b, class, closing) /\ closing.selected # None
           /\ Advances(node, own, b, class, decided)
      /\ ~(own.selected = None /\ selected # None) => Advances(node, own, b, class, done)
  <2>1. /\ DOMAIN done = DOMAIN own /\ done.live = own.live \ {b} /\ done.results = results
        /\ done.selected = own.selected
    BY <1>2 DEF ParallelFits
  <2>2. /\ DOMAIN drained = DOMAIN own /\ drained.live = done.live /\ drained.results = results
        /\ drained.selected = IF own.selected = None THEN "cancelled" ELSE own.selected
    BY <1>2, <2>1 DEF ParallelFits
  <2>3. /\ DOMAIN closing = DOMAIN own /\ closing.live = done.live /\ closing.results = results
        /\ closing.selected = selected
        /\ DOMAIN decided = DOMAIN own /\ decided.live = done.live /\ decided.results = results
        /\ decided.selected = selected
    BY <1>2, <2>1 DEF ParallelFits
  <2>4. class \in {"failed", "cancelled"} => Spoiled(results)
    <3>1. b \in DOMAIN results /\ results[b] = class
      BY DEF With
    <3> QED
      BY <3>1 DEF Spoiled
  <2>5. own.selected = None => selected = classifyParallel(node, results, None)
    OBVIOUS
  <2> HIDE DEF done, drained, closing, decided, selected
  <2>6. Requested(cleanup) => Advances(node, own, b, class, drained)
    BY <2>1, <2>2, <2>4 DEF Advances
  <2>7. own.selected = None /\ selected # None =>
           /\ Advances(node, own, b, class, closing) /\ closing.selected # None
           /\ Advances(node, own, b, class, decided)
    BY <2>1, <2>3, <2>5 DEF Advances
  <2>8. ~(own.selected = None /\ selected # None) => Advances(node, own, b, class, done)
    BY <2>1, <2>5 DEF Advances
  <2> QED
    BY <2>6, <2>7, <2>8
<1> DEFINE noted(x) == [stopped(drained) EXCEPT !.cleanups = x]
           asked == [stopped(closing) EXCEPT !.cancel = o]
<1>7. \/ e = Invalid(d)
      \/ /\ ~HasPending(d, branch)
         /\ \/ Requested(cleanup) /\ e = Enqueue(noted(With(stopped(drained).cleanups, o, consumeCleanupOwner(cleanup, o))), o)
            \/ /\ own.selected = None /\ selected # None
               /\ e = Enqueue(asked, o) \/ e = Enqueue(SetFrame(pruned, o, decided), o)
            \/ /\ ~(own.selected = None /\ selected # None)
               /\ e = Enqueue(SetFrame(pruned, o, done), o)
  BY Zenon DEF completeParallelBranch, node, b, pruned, first
<1> HIDE DEF done, drained, closing, decided, selected
<1>8. ASSUME ~HasPending(d, branch), NEW frame, Advances(node, own, b, class, frame)
      PROVE  /\ Grows(d, stopped(frame), H)
             /\ o \in DOMAIN stopped(frame).frames
             /\ stopped(frame).frames[o].selected = frame.selected
             /\ Grows(d, Enqueue(SetFrame(pruned, o, frame), o), H)
  <2> DEFINE f == SetFrame(pruned, o, frame)
             g == stopped(frame)
  <2>1. Grows(d, f, H) /\ o \in DOMAIN f.frames /\ f.frames[o] = frame
    BY <1>5, <1>8
  <2> HIDE DEF f
  <2>2. Good(f, H)
    BY <2>1, GrowsTransitive
  <2>3. Grows(f, g, H) /\ o \in DOMAIN g.frames /\ g.frames[o].selected = frame.selected
    BY <1>1, <1>2, <2>1, <2>2, GrowsStopBranches DEF f, node
  <2>4. Grows(f, Enqueue(f, o), H)
    BY <2>2, GrowsUpdate
  <2> QED
    BY <2>1, <2>3, <2>4, GrowsTransitive DEF f
<1> HIDE DEF stopped
<1>9. ASSUME NEW f, Grows(d, f, H), NEW x
      PROVE  Grows(d, Enqueue(f, o), H) /\ Grows(d, [f EXCEPT !.cleanups = x], H)
  <2>1. Good(f, H)
    BY <1>9, GrowsTransitive
  <2>2. Grows(f, Enqueue(f, o), H) /\ Grows(f, [f EXCEPT !.cleanups = x], H)
    BY <2>1, GrowsUpdate
  <2> QED
    BY <1>9, <2>2, GrowsTransitive
<1>10. ASSUME ~HasPending(d, branch), Requested(cleanup), NEW x
       PROVE  Grows(d, Enqueue(noted(x), o), H)
  <2>1. Grows(d, noted(x), H)
    BY <1>6, <1>8, <1>9, <1>10
  <2> HIDE DEF noted
  <2> QED
    BY <1>9, <2>1
<1>11. ASSUME ~HasPending(d, branch), own.selected = None, selected # None
       PROVE  Grows(d, Enqueue(asked, o), H)
  <2> DEFINE f == stopped(closing)
  <2>1. Grows(d, f, H) /\ o \in DOMAIN f.frames /\ f.frames[o].selected # None
    BY <1>6, <1>8, <1>11
  <2> HIDE DEF f
  <2>2. Grows(d, [f EXCEPT !.cancel = o], H)
    BY <1>1, <1>2, <2>1, GrowsCancel DEF node
  <2>3. Grows(d, asked, H)
    BY <2>2 DEF f
  <2> HIDE DEF asked
  <2> QED
    BY <1>9, <2>3
<1>12. ASSUME ~HasPending(d, branch), own.selected = None, selected # None
       PROVE  Grows(d, Enqueue(SetFrame(pruned, o, decided), o), H)
  BY <1>6, <1>8, <1>12
<1>13. ASSUME ~HasPending(d, branch), ~(own.selected = None /\ selected # None)
       PROVE  Grows(d, Enqueue(SetFrame(pruned, o, done), o), H)
  BY <1>6, <1>8, <1>13
<1>14. Grows(d, Invalid(d), H)
  BY GrowsUpdate
<1> HIDE DEF e, noted, asked
<1>15. Grows(d, e, H)
  BY <1>7, <1>10, <1>11, <1>12, <1>13, <1>14, Zenon
<1> QED
  BY <1>15 DEF e

-----------------------------------------------------------------------------

-----------------------------------------------------------------------------
(*****************************************************************************)
(* Maps.                                                                     *)
(*****************************************************************************)
\* Items of a map leave the active or the unstarted ones and are completed.
Retires(own, frame) ==
  /\ DOMAIN frame = DOMAIN own
  /\ frame.unstarted \in {own.unstarted, <<>>}
  /\ frame.active \subseteq own.active
  /\ DOMAIN frame.completed = DOMAIN own.completed \cup (own.active \ frame.active)
                                \cup (ToSet(own.unstarted) \ ToSet(frame.unstarted))
  /\ Extends(frame.completed, own.completed)
  /\ \/ frame.selected = own.selected /\ frame.failedItem = own.failedItem
     \/ own.selected = None /\ frame.selected # "failed" /\ frame.failedItem = own.failedItem
     \/ /\ own.selected = None /\ frame.selected = "failed"
        /\ frame.failedItem \in DOMAIN frame.completed
        /\ frame.completed[frame.failedItem] = "failed"

\* A map that retires items still fits, and nothing settled changes.
LEMMA MapRetires ==
  ASSUME NEW k, ~IsRegion(k), NodeAt(k).kind = "map", Last(k) \in DOMAIN Nodes,
         NEW own, NEW now, NEW ever, Fits(k, own, now, ever),
         NEW frame, Retires(own, frame),
         NEW next \in SUBSET (now \ (own.active \ frame.active)), NEW later \in SUBSET ever
  PROVE  Fits(k, frame, next, later) /\ Settled(k, own, frame)
<1> DEFINE node == NodeAt(k)
<1>1. MapFits(node, own, now, ever)
  BY DEF Fits
<1> HIDE DEF node
<1>2. /\ frame.unstarted \in Seq(ToSet(frame.unstarted)) /\ IsInjective(frame.unstarted)
      /\ ToSet(frame.unstarted) \subseteq ToSet(own.unstarted)
  <2>1. /\ <<>> \in Seq(ToSet(<<>>)) /\ IsInjective(<<>>) /\ ToSet(<<>>) = {}
    BY DEF IsInjective, ToSet
  <2> QED
    BY <1>1, <2>1 DEF MapFits, Retires
<1>3. IsFiniteSet(frame.active) /\ Cardinality(frame.active) <= node.concurrency
  <2>1. /\ IsFiniteSet(frame.active) /\ Cardinality(frame.active) <= Cardinality(own.active)
    BY <1>1, FS_Subset DEF MapFits, Retires
  <2>2. Cardinality(frame.active) \in Nat /\ Cardinality(own.active) \in Nat
    BY <1>1, <2>1, FS_CardinalityType DEF MapFits
  <2>3. node.concurrency \in Nat
    BY OwnersAssumption DEF node, NodeAt
  <2> QED
    BY <1>1, <2>1, <2>2, <2>3 DEF MapFits
<1>4. /\ frame.active \cap DOMAIN frame.completed = {}
      /\ (frame.active \cup DOMAIN frame.completed) \cap ToSet(frame.unstarted) = {}
      /\ ToSet(frame.unstarted) \cup frame.active \cup DOMAIN frame.completed
           = ToSet(own.unstarted) \cup own.active \cup DOMAIN own.completed
  BY <1>1, <1>2 DEF MapFits, Retires
<1>5. IF frame.selected = "failed"
      THEN /\ frame.failedItem \in DOMAIN frame.completed
           /\ frame.completed[frame.failedItem] = "failed"
      ELSE frame.failedItem = None
  BY <1>1 DEF MapFits, Retires, Extends, None
<1>6. next \subseteq frame.active /\ later \cap ToSet(frame.unstarted) = {}
  BY <1>1, <1>2 DEF MapFits
<1>7. MapFits(node, frame, next, later)
  BY <1>1, <1>2, <1>3, <1>4, <1>5, <1>6 DEF MapFits, Retires
<1>8. /\ Extends(frame.completed, own.completed)
      /\ own.failedItem # None => frame.failedItem = own.failedItem
      /\ own.selected # None => frame.selected = own.selected
  BY <1>1 DEF MapFits, Retires, None
<1> QED
  BY <1>7, <1>8 DEF Fits, Settled, node

\* locallyCancelUnstarted completes the items that never started.
LEMMA RetiresUnstarted ==
  ASSUME NEW node, NEW own, NEW now, NEW ever, MapFits(node, own, now, ever)
  PROVE  Retires(own, locallyCancelUnstarted(own))
<1> DEFINE frame == locallyCancelUnstarted(own)
<1>1. /\ DOMAIN frame = DOMAIN own /\ frame.unstarted = <<>> /\ frame.active = own.active
      /\ frame.completed = Else(own.completed, [i \in ToSet(own.unstarted) |-> "cancelled"])
      /\ frame.selected = own.selected /\ frame.failedItem = own.failedItem
  BY DEF locallyCancelUnstarted, MapFits
<1>2. ToSet(<<>>) = {}
  BY DEF ToSet
<1>3. /\ DOMAIN frame.completed = DOMAIN own.completed \cup ToSet(own.unstarted)
      /\ Extends(frame.completed, own.completed)
  BY <1>1 DEF Else, Extends
<1> HIDE DEF frame
<1> QED
  BY <1>1, <1>2, <1>3 DEF Retires, frame

\* locallyCancelIdleActive keeps the tree.
LEMMA GrowsStopItems ==
  ASSUME NEW d, NEW H, Good(d, H), NEW o \in DOMAIN d.frames, ~IsRegion(o),
         NodeAt(o).kind = "map",
         NEW e, e = locallyCancelIdleActive(d, o)
  PROVE  /\ Grows(d, e, H)
         /\ o \in DOMAIN e.frames
         /\ e.frames[o].selected = d.frames[o].selected
<1> DEFINE own == d.frames[o]
           idle == {i \in own.active : ~HasPending(d, Append(o, i))}
           roots == {Append(o, i) : i \in idle}
           stopped == [i \in idle |-> "cancelled"]
           pruned == PruneTrees(d, roots)
           discarded == Discard(pruned, roots)
           frame == [own EXCEPT !.active = @ \ idle, !.completed = Else(@, stopped)]
           now == Steps(o, DOMAIN d.frames \cup d.pending)
           ever == Steps(o, DOMAIN d.frames \cup d.pending \cup H)
<1>1. e = SetFrame(discarded, o, frame)
  BY Zenon DEF locallyCancelIdleActive
<1>2. /\ idle \subseteq own.active /\ Idles(d, o, idle, roots) /\ DOMAIN stopped = idle
  BY DEF Idles
<1>3. Fits(o, own, now, ever) /\ Last(o) \in DOMAIN Nodes
  BY DEF Good, Tree, Fits
<1>4. /\ DOMAIN frame = DOMAIN own /\ frame.active = own.active \ idle
      /\ frame.completed = Else(own.completed, stopped) /\ frame.unstarted = own.unstarted
      /\ frame.selected = own.selected /\ frame.failedItem = own.failedItem
  BY <1>3 DEF Fits, MapFits
<1> HIDE DEF roots, idle, stopped, frame, now, ever
<1>5. Retires(own, frame)
  <2>1. /\ DOMAIN frame.completed = DOMAIN own.completed \cup idle
        /\ Extends(frame.completed, own.completed)
    BY <1>2, <1>4 DEF Else, Extends
  <2> QED
    BY <1>2, <1>4, <2>1 DEF Retires
<1>6. Drops(d, H, o, idle, pruned)
  BY <1>2, DropsChildren
<1> HIDE DEF pruned
<1>7. Good(pruned, H) /\ Grows(pruned, discarded, H) /\ discarded.frames = pruned.frames
  BY <1>6, GrowsTransitive, GrowsUpdate DEF Drops
<1> HIDE DEF discarded
<1>8. Suits(discarded, H, o, frame)
  <2>1. discarded.pending = pruned.pending
    BY <1>7 DEF Grows, Develops, Derived
  <2>2. o \in DOMAIN discarded.frames /\ discarded.frames[o] = own
    BY <1>6, <1>7 DEF Drops
  <2> DEFINE next == Steps(o, DOMAIN discarded.frames \cup discarded.pending)
             later == Steps(o, DOMAIN discarded.frames \cup discarded.pending \cup H)
  <2>3. next \in SUBSET (now \ idle) /\ later \in SUBSET ever
    BY <1>6, <1>7, <2>1 DEF Drops, now, ever
  <2>4. own.active \ frame.active = idle
    BY <1>2, <1>4
  <2> HIDE DEF next, later, own
  <2>5. Fits(o, frame, next, later) /\ Settled(o, own, frame)
    BY <1>3, <1>5, <2>3, <2>4, MapRetires
  <2> QED
    BY <2>2, <2>5 DEF Suits, next, later, own
<1>9. Sets(discarded, H, o, frame, e)
  BY <1>1, <1>7, <1>8, GrowsTransitive, GrowsFrame
<1>10. Grows(d, e, H)
  BY <1>6, <1>7, <1>9, GrowsTransitive DEF Drops, Sets
<1> QED
  BY <1>4, <1>6, <1>7, <1>9, <1>10 DEF Drops, Sets

\* completeMapItem keeps the tree.
LEMMA GrowsItem ==
  ASSUME NEW d, NEW H, Good(d, H), NEW item \in DOMAIN d.frames, IsRegion(item),
         item # Root, NodeAt(OwnerOf(item)).kind = "map", NEW class, NEW cleanup
  PROVE  Grows(d, completeMapItem(d, item, class, cleanup), H)
<1> DEFINE o == OwnerOf(item)
           i == Last(item)
           own == d.frames[o]
           first == PruneTrees(d, {item})
           pruned == Charge(first, 2)
           now == Steps(o, DOMAIN d.frames \cup d.pending)
           ever == Steps(o, DOMAIN d.frames \cup d.pending \cup H)
           done == [own EXCEPT !.active = @ \ {i}, !.completed = With(@, i, class)]
           drained == [done EXCEPT !.selected = IF @ = None THEN "cancelled" ELSE @,
                                   !.status = "draining"]
           failing(st) == [done EXCEPT !.selected = "failed", !.failedItem = i, !.status = st]
           e == completeMapItem(d, item, class, cleanup)
<1>1. /\ IsKey(o) /\ o \in DOMAIN d.frames /\ ~IsRegion(o) /\ Last(o) \in DOMAIN Nodes
      /\ item = Append(o, i) /\ i \in now
  BY OwnedRegion
<1>2. Fits(o, own, now, ever) /\ MapFits(NodeAt(o), own, now, ever)
  BY <1>1 DEF Good, Tree, Fits
<1>3. i \in own.active /\ i \notin DOMAIN own.completed
  BY <1>1, <1>2 DEF MapFits
<1>4. \/ e = Invalid(d)
      \/ /\ ~HasPending(d, item)
         /\ \E frame, x :
              /\ e = Enqueue([SetFrame(pruned, o, frame) EXCEPT !.cleanups = x], o)
              /\ \/ frame = drained
                 \/ /\ own.selected = None /\ class = "failed"
                    /\ \E st : frame = failing(st)
                 \/ frame = done
  BY Zenon DEF completeMapItem
<1> HIDE DEF i, now, ever
<1>5. ASSUME NEW frame,
             \/ frame = drained
             \/ own.selected = None /\ class = "failed" /\ \E st : frame = failing(st)
             \/ frame = done
      PROVE  Retires(own, frame) /\ own.active \ frame.active = {i}
  <2>1. /\ DOMAIN done = DOMAIN own /\ done.active = own.active \ {i}
        /\ done.completed = With(own.completed, i, class) /\ done.unstarted = own.unstarted
        /\ done.selected = own.selected /\ done.failedItem = own.failedItem
    BY <1>2 DEF MapFits
  <2>2. /\ DOMAIN done.completed = DOMAIN own.completed \cup {i}
        /\ Extends(done.completed, own.completed)
        /\ done.completed[i] = class
    BY <1>3, <2>1 DEF With, Extends
  <2>3. /\ DOMAIN drained = DOMAIN own /\ drained.active = done.active
        /\ drained.completed = done.completed /\ drained.unstarted = own.unstarted
        /\ drained.selected = IF own.selected = None THEN "cancelled" ELSE own.selected
        /\ drained.failedItem = own.failedItem
    BY <1>2, <2>1 DEF MapFits
  <2>4. ASSUME NEW st
        PROVE  /\ DOMAIN failing(st) = DOMAIN own /\ failing(st).active = done.active
               /\ failing(st).completed = done.completed /\ failing(st).unstarted = own.unstarted
               /\ failing(st).selected = "failed" /\ failing(st).failedItem = i
    BY <1>2, <2>1 DEF MapFits
  <2>5. own.active \ done.active = {i}
    BY <1>3, <2>1
  <2> HIDE DEF done, drained, failing
  <2>6. CASE frame = drained
    BY <2>1, <2>2, <2>3, <2>5, <2>6 DEF Retires
  <2>7. CASE own.selected = None /\ class = "failed" /\ \E st : frame = failing(st)
    BY <2>1, <2>2, <2>4, <2>5, <2>7 DEF Retires
  <2>8. CASE frame = done
    BY <2>1, <2>2, <2>5, <2>8 DEF Retires
  <2> QED
    BY <1>5, <2>6, <2>7, <2>8
<1>6. ASSUME ~HasPending(d, item), NEW frame, Retires(own, frame), own.active \ frame.active = {i},
             NEW f, f = SetFrame(pruned, o, frame)
      PROVE  Grows(d, f, H)
  <2>1. Drops(d, H, o, {i}, first)
    <3>1. Idles(d, o, {i}, {item})
      BY <1>1, <1>6 DEF Idles
    <3> QED
      BY <1>1, <3>1, DropsChildren
  <2>2. Good(first, H)
    BY <2>1, GrowsTransitive DEF Drops
  <2>3. Grows(first, pruned, H) /\ pruned.frames = first.frames
    BY <2>2, GrowsUpdate
  <2> HIDE DEF own, o, pruned, first
  <2>4. Grows(d, pruned, H) /\ Good(pruned, H) /\ pruned.pending = first.pending
    BY <2>1, <2>3, GrowsTransitive DEF Drops, Grows, Develops, Derived
  <2> DEFINE next == Steps(o, DOMAIN pruned.frames \cup pruned.pending)
             later == Steps(o, DOMAIN pruned.frames \cup pruned.pending \cup H)
  <2>5. next \in SUBSET (now \ {i}) /\ later \in SUBSET ever
    BY <2>1, <2>3, <2>4 DEF Drops, now, ever
  <2>6. o \in DOMAIN pruned.frames /\ pruned.frames[o] = own
    BY <2>1, <2>3 DEF Drops, own
  <2> HIDE DEF next, later
  <2>7. NodeAt(o).kind = "map"
    BY DEF o
  <2>8. Fits(o, frame, next, later) /\ Settled(o, own, frame)
    BY <1>1, <1>2, <1>6, <2>5, <2>7, MapRetires
  <2>9. Suits(pruned, H, o, frame)
    BY <2>6, <2>8 DEF Suits, next, later
  <2>10. Sets(pruned, H, o, frame, f)
    BY <1>6, <2>4, <2>9, GrowsFrame
  <2> QED
    BY <2>4, <2>10, GrowsTransitive DEF Sets
<1> HIDE DEF done, drained, failing, pruned, first, e, own
<1>7. ASSUME NEW f, Grows(d, f, H), NEW x
      PROVE  Grows(d, Enqueue([f EXCEPT !.cleanups = x], o), H)
  <2> DEFINE g == [f EXCEPT !.cleanups = x]
  <2>1. Grows(f, g, H)
    BY <1>7, GrowsTransitive, GrowsUpdate
  <2> HIDE DEF g
  <2>2. Grows(d, g, H) /\ Good(g, H)
    BY <1>7, <2>1, GrowsTransitive
  <2>3. Grows(g, Enqueue(g, o), H)
    BY <2>2, GrowsUpdate
  <2> QED
    BY <2>2, <2>3, GrowsTransitive DEF g
<1>8. CASE e = Invalid(d)
  BY <1>8, GrowsUpdate DEF e
<1>9. CASE /\ ~HasPending(d, item)
           /\ \E frame, x :
                /\ e = Enqueue([SetFrame(pruned, o, frame) EXCEPT !.cleanups = x], o)
                /\ \/ frame = drained
                   \/ own.selected = None /\ class = "failed" /\ \E st : frame = failing(st)
                   \/ frame = done
  BY <1>5, <1>6, <1>7, <1>9 DEF e
<1> QED
  BY <1>4, <1>8, <1>9

-----------------------------------------------------------------------------
(*****************************************************************************)
(* Failed and cancelled regions.                                             *)
(*****************************************************************************)
\* completeFailedRegion keeps the tree, whatever owns the region.
LEMMA GrowsFailedRegion ==
  ASSUME Acyclic, NEW d, NEW H, Good(d, H), NEW region \in DOMAIN d.frames, IsRegion(region)
  PROVE  Grows(d, completeFailedRegion(d, region), H)
<1> DEFINE o == OwnerOf(region)
           e == completeFailedRegion(d, region)
<1> SUFFICES Grows(d, e, H)
  OBVIOUS
<1>1. CASE region = Root
  <2>1. e = [d EXCEPT !.terminal = IF @ = None THEN "failed" ELSE @]
    BY <1>1 DEF completeFailedRegion
  <2>2. Derived(d, e) /\ e.cancel = d.cancel /\ e.frames = d.frames
    BY <2>1 DEF Good, Derived, IsDraft, DraftFields
  <2> QED
    BY <2>2, GrowsSame
<1>2. CASE region # Root
  <2>1. /\ ~IsRegion(o) /\ Last(o) \in DOMAIN Nodes
        /\ NodeAt(o).kind \in {"call", "repeat", "parallel", "map"}
    BY <1>2, OwnedRegion
  <2>2. CASE NodeAt(o).kind \in {"call", "repeat"}
    <3>1. e = finishOwner(d, o, "failed", NodeAt(o).failed)
      BY <1>2, <2>2, Zenon DEF completeFailedRegion
    <3>2. NodeAt(o).failed \in localTargets(Last(o))
      BY <2>2 DEF localTargets, NodeAt
    <3> QED
      BY <2>1, <3>1, <3>2, GrowsOwner
  <2>3. CASE NodeAt(o).kind = "parallel"
    <3>1. e = completeParallelBranch(d, region, "failed", NoCleanup)
      BY <1>2, <2>3 DEF completeFailedRegion
    <3>2. ~Requested(NoCleanup)
      BY DEF Requested, NoCleanup
    <3> HIDE DEF e
    <3> QED
      BY <1>2, <2>3, <3>1, <3>2, GrowsBranch
  <2>4. CASE NodeAt(o).kind = "map"
    <3>1. e = completeMapItem(d, region, "failed", NoCleanup)
      BY <1>2, <2>4 DEF completeFailedRegion
    <3> HIDE DEF e
    <3> QED
      BY <1>2, <2>4, <3>1, GrowsItem
  <2> QED
    BY <2>1, <2>2, <2>3, <2>4
<1> QED
  BY <1>1, <1>2

\* The greatest element of a bounded set of numbers is in it.
LEMMA MaxIsMember ==
  ASSUME NEW S \in SUBSET Nat, S # {}, NEW bound \in Nat, \A s \in S : s <= bound
  PROVE  Max(S) \in S
<1> DEFINE Over(s) == {t \in S : t > s}
           Overs == {Over(s) : s \in S}
<1>1. IsWellFoundedOn(StrictSubsetOrdering(S), SUBSET S)
  <2>1. IsFiniteSet(S)
    BY FS_BoundedSetOfNaturals
  <2> QED
    BY <2>1, FS_FiniteSubsetsOfFinite, FS_StrictSubsetOrderingWellFounded
<1>2. PICK U \in Overs : \A V \in Overs : <<V, U>> \notin StrictSubsetOrdering(S)
  <2>1. Overs \subseteq SUBSET S /\ Overs # {}
    OBVIOUS
  <2> HIDE DEF Overs
  <2> QED
    BY <1>1, <2>1, WFMin
<1>3. PICK m \in S : U = Over(m)
  BY <1>2
<1>4. \A s \in S : m >= s
  <2> SUFFICES ASSUME NEW s \in S, s > m
               PROVE  FALSE
    OBVIOUS
  <2>1. s \in Over(m) /\ s \notin Over(s) /\ Over(s) \subseteq Over(m)
    <3>1. m \in Nat /\ s \in Nat /\ \A t \in S : t \in Nat
      OBVIOUS
    <3>2. ~(s > s) /\ \A t \in S : t > s => t > m
      BY <3>1
    <3> QED
      BY <3>2
  <2>2. Over(s) \in Overs /\ Over(s) \in SUBSET S /\ Over(m) \in SUBSET S
    OBVIOUS
  <2> HIDE DEF Over, Overs
  <2>3. <<Over(s), Over(m)>> \in StrictSubsetOrdering(S)
    BY <2>1, <2>2 DEF StrictSubsetOrdering
  <2> QED
    BY <1>2, <1>3, <2>2, <2>3
<1> QED
  BY <1>4 DEF Max

\* A cancellation that reached `region` is absorbed by region `top`, once the
\* owners `passed` between them are gone.
Tops(d, region, top, passed) ==
  /\ IsKey(region) /\ IsKey(top) /\ IsPrefix(top, region)
  /\ IsRegion(top) /\ top \in DOMAIN d.frames
  /\ top # Root => NodeAt(OwnerOf(top)).kind \in {"parallel", "map"}
  /\ \A o \in passed : IsKey(o) /\ Len(o) > Len(top) /\ IsPrefix(o, region)
  /\ \A k : IsKey(k) /\ IsPrefix(k, region) /\ Len(k) >= Len(top) =>
       k = top \/ \E o \in passed : IsPrefix(o, k)

\* completeRequestedCancellation finds that region.
LEMMA CancellationTop ==
  ASSUME NEW d, NEW H, Good(d, H), NEW region \in DOMAIN d.frames, IsRegion(region)
  PROVE  LET owners == {SubSeq(region, 1, n) : n \in {m \in 1..Len(region) : m % 2 = 0}}
             absorbing == {o \in owners : NodeAt(o).kind \in {"parallel", "map"}}
             depth == Max({1} \cup {Len(o) + 1 : o \in absorbing})
             top == SubSeq(region, 1, depth)
             passed == {o \in owners : Len(o) > depth}
         IN  Tops(d, region, top, passed)
<1> DEFINE owners == {SubSeq(region, 1, n) : n \in {m \in 1..Len(region) : m % 2 = 0}}
           absorbing == {o \in owners : NodeAt(o).kind \in {"parallel", "map"}}
           depths == {1} \cup {Len(o) + 1 : o \in absorbing}
           depth == Max(depths)
           top == SubSeq(region, 1, depth)
           passed == {o \in owners : Len(o) > depth}
<1>1. IsKey(region) /\ Len(region) \in Nat /\ Len(region) >= 1
  <2>1. IsKey(region) /\ Len(region) >= 1
    BY DEF Good, Tree, Keyed
  <2> QED
    BY <2>1 DEF IsKey
<1>2. \A o \in owners : \E n \in 1..Len(region) :
        /\ n % 2 = 0 /\ n < Len(region) /\ o = SubSeq(region, 1, n)
        /\ Len(o) = n /\ IsKey(o) /\ IsPrefix(o, region)
  <2> SUFFICES ASSUME NEW n \in 1..Len(region), n % 2 = 0
               PROVE  /\ n < Len(region) /\ Len(SubSeq(region, 1, n)) = n
                      /\ IsKey(SubSeq(region, 1, n)) /\ IsPrefix(SubSeq(region, 1, n), region)
    OBVIOUS
  <2>1. n # Len(region)
    BY DEF IsRegion
  <2> QED
    BY <1>1, <2>1, PrefixOfKey
<1>9. \A n \in 1..Len(region) : n % 2 = 0 => SubSeq(region, 1, n) \in owners
  OBVIOUS
<1> HIDE DEF owners
<1>3. depth \in depths
  <2>1. \A s \in depths : s \in Nat /\ s <= Len(region)
    BY <1>1, <1>2
  <2>2. depths \in SUBSET Nat /\ depths # {}
    BY <2>1
  <2> HIDE DEF depths
  <2> QED
    BY <1>1, <2>1, <2>2, MaxIsMember
<1> HIDE DEF depth
<1>4. depth \in 1..Len(region) /\ depth % 2 = 1
  BY <1>1, <1>2, <1>3
<1>5. /\ IsKey(top) /\ Len(top) = depth /\ IsPrefix(top, region)
      /\ depth < Len(region) => Below(top, region)
      /\ \A k : IsKey(k) /\ IsPrefix(k, region) /\ Len(k) = depth => k = top
  BY <1>1, <1>4, PrefixOfKey
<1> HIDE DEF top
<1>6. top \in DOMAIN d.frames
  <2>1. CASE depth = Len(region)
    <3>1. region = top
      BY <1>1, <1>5, <2>1, PrefixItself
    <3> QED
      BY <1>1, <3>1
  <2>2. CASE depth # Len(region)
    <3>1. Below(top, region) /\ Len(top) >= 1
      BY <1>1, <1>4, <1>5, <2>2
    <3> QED
      BY <1>1, <1>5, <3>1, ClosedAbove DEF Good, Tree
  <2> QED
    BY <2>1, <2>2
<1>7. ASSUME top # Root
      PROVE  NodeAt(OwnerOf(top)).kind \in {"parallel", "map"}
  <2>1. depth # 1
    BY <1>5, <1>6, <1>7 DEF Good, Tree, Keyed
  <2>2. PICK o \in absorbing : depth = Len(o) + 1
    BY <1>3, <2>1
  <2>3. PICK n \in 1..Len(region) : o = SubSeq(region, 1, n) /\ Len(o) = n /\ IsKey(o)
    BY <1>2, <2>2
  <2>4. Len(top) >= 1
    BY <1>4, <1>5
  <2>5. /\ IsKey(OwnerOf(top)) /\ Len(OwnerOf(top)) = n
        /\ \A i \in 1..n : OwnerOf(top)[i] = top[i]
    BY <1>5, <2>2, <2>3, <2>4, KeyFront DEF OwnerOf
  <2>6. IsPrefix(OwnerOf(top), top)
    BY <1>4, <1>5, <2>2, <2>3, <2>5, PrefixPointwise
  <2>7. IsPrefix(OwnerOf(top), region)
    BY <1>1, <1>5, <2>5, <2>6, PrefixTransitive
  <2>8. OwnerOf(top) = o
    BY <1>1, <2>3, <2>5, <2>7, PrefixOfKey
  <2> QED
    BY <2>2, <2>8
<1>8. IsRegion(top)
  BY <1>4, <1>5 DEF IsRegion
<1>10. \A o \in passed : IsKey(o) /\ Len(o) > Len(top) /\ IsPrefix(o, region)
  BY <1>2, <1>5
<1>11. ASSUME NEW k, IsKey(k), IsPrefix(k, region), Len(k) >= Len(top), k # top
       PROVE  \E o \in passed : IsPrefix(o, k)
  <2> DEFINE o == SubSeq(region, 1, depth + 1)
  <2>1. Len(k) \in Nat /\ Len(k) <= Len(region) /\ Len(k) # depth /\ Len(k) >= depth
    BY <1>1, <1>5, <1>11, PrefixPointwise DEF IsKey
  <2>2. depth + 1 \in 1..Len(region) /\ (depth + 1) % 2 = 0
    BY <1>1, <1>4, <2>1
  <2>3. IsKey(o) /\ Len(o) = depth + 1 /\ IsPrefix(o, region) /\ o \in owners
    BY <1>1, <1>9, <2>2, PrefixOfKey
  <2> HIDE DEF o
  <2>4. o \in passed /\ IsPrefix(o, k)
    BY <1>1, <1>4, <1>11, <2>1, <2>3, PrefixesCompare
  <2> QED
    BY <2>4
<1> HIDE DEF passed
<1>12. Tops(d, region, top, passed)
  BY <1>1, <1>5, <1>6, <1>7, <1>8, <1>10, <1>11 DEF Tops
<1> QED
  BY <1>12 DEF top, passed, depth, depths, absorbing, owners

\* completeRequestedCancellation keeps the tree: it settles an ancestor the
\* cancellation asked for.
LEMMA GrowsCancellation ==
  ASSUME NEW d, NEW H, Good(d, H), NEW region, IsRegion(region),
         NEW st \in {"failed", "cancelled"}, NEW cleanup
  PROVE  Grows(d, completeRequestedCancellation(d, region, st, cleanup), H)
<1> DEFINE owners == {SubSeq(region, 1, n) : n \in {m \in 1..Len(region) : m % 2 = 0}}
           absorbing == {o \in owners : NodeAt(o).kind \in {"parallel", "map"}}
           depths == {1} \cup {Len(o) + 1 : o \in absorbing}
           depth == Max(depths)
           top == SubSeq(region, 1, depth)
           passed == {o \in owners : Len(o) > depth}
           refused == \/ region \notin DOMAIN d.frames
                      \/ \E o \in passed :
                           \/ o \notin DOMAIN d.frames
                           \/ HasPending(d, o)
                           \/ ~Unsettled(d, RegionOf(o), Last(o))
           pruned == PruneTrees(d, passed)
           kept == storeOwnedResult(pruned, top, region[depth + 1], st)
           stored == IF passed = {} THEN d ELSE Charge(kept, 2 * (Cardinality(passed) - 1))
           e == completeRequestedCancellation(d, region, st, cleanup)
<1>1. \/ e = Invalid(d)
      \/ ~refused /\ (e = stored \/ e = Invalid(stored))
      \/ /\ ~refused /\ top # Root /\ NodeAt(OwnerOf(top)).kind = "parallel"
         /\ e = completeParallelBranch(stored, top, st, cleanup)
      \/ /\ ~refused /\ top # Root /\ NodeAt(OwnerOf(top)).kind # "parallel"
         /\ e = completeMapItem(stored, top, st, cleanup)
  BY Zenon DEF completeRequestedCancellation
<1> SUFFICES Grows(d, e, H)
  OBVIOUS
<1> HIDE DEF e
<1>2. ASSUME ~refused
      PROVE  /\ IsRegion(top) /\ top \in DOMAIN d.frames
             /\ top # Root => NodeAt(OwnerOf(top)).kind \in {"parallel", "map"}
             /\ \A o \in passed : IsKey(o) /\ Len(o) > Len(top) /\ IsKey(top)
  <2>1. region \in DOMAIN d.frames
    BY <1>2
  <2>2. Tops(d, region, top, passed)
    BY <2>1, CancellationTop
  <2> HIDE DEF top, passed
  <2> QED
    BY <2>2 DEF Tops
<1>3. ASSUME ~refused
      PROVE  Grows(d, stored, H) /\ top \in DOMAIN stored.frames
  <2>1. CASE passed = {}
    BY <1>2, <1>3, <2>1, GrowsUpdate
  <2>2. CASE passed # {}
    <3>1. \A o \in passed : IsKey(o) /\ ~HasPending(d, o)
      BY <1>2, <1>3
    <3>2. Grows(d, pruned, H)
      BY <3>1, GrowsPrune
    <3>3. top \in DOMAIN pruned.frames
      <4>1. \A o \in passed : ~IsPrefix(o, top)
        <5> SUFFICES ASSUME NEW o \in passed, IsPrefix(o, top)
                     PROVE  FALSE
          OBVIOUS
        <5>1. IsKey(o) /\ IsKey(top) /\ Len(o) > Len(top) /\ Len(o) \in Nat /\ Len(top) \in Nat
          BY <1>2, <1>3 DEF IsKey
        <5> HIDE DEF passed, top
        <5> QED
          BY <5>1, PrefixPointwise
      <4>2. IsDraft(d) /\ top \in DOMAIN d.frames
        BY <1>2, <1>3 DEF Good
      <4> HIDE DEF passed, top
      <4> QED
        BY <4>1, <4>2, PruneShape DEF pruned
    <3>4. stored = Charge(kept, 2 * (Cardinality(passed) - 1))
      BY <2>2
    <3> SUFFICES Grows(d, stored, H) /\ top \in DOMAIN stored.frames
      OBVIOUS
    <3> HIDE DEF passed, pruned, top, depth, stored
    <3>5. Good(pruned, H)
      BY <3>2, GrowsTransitive
    <3>6. Grows(pruned, kept, H) /\ DOMAIN kept.frames = DOMAIN pruned.frames
      BY <1>2, <1>3, <3>5, GrowsStored
    <3> HIDE DEF kept
    <3>7. Grows(d, kept, H) /\ Good(kept, H)
      BY <3>2, <3>6, GrowsTransitive
    <3>8. Grows(kept, stored, H) /\ stored.frames = kept.frames
      BY <3>4, <3>7, GrowsUpdate
    <3> QED
      BY <3>3, <3>6, <3>7, <3>8, GrowsTransitive
  <2> QED
    BY <2>1, <2>2
<1> HIDE DEF refused, stored, top
<1>4. CASE e = Invalid(d)
  BY <1>4, GrowsUpdate
<1>5. CASE ~refused /\ (e = stored \/ e = Invalid(stored))
  <2>1. Good(stored, H) /\ Grows(stored, Invalid(stored), H)
    BY <1>3, <1>5, GrowsTransitive, GrowsUpdate
  <2> QED
    BY <1>3, <1>5, <2>1, GrowsTransitive
<1>6. CASE /\ ~refused /\ top # Root /\ NodeAt(OwnerOf(top)).kind = "parallel"
           /\ e = completeParallelBranch(stored, top, st, cleanup)
  <2>1. Good(stored, H) /\ Grows(stored, e, H)
    BY <1>2, <1>3, <1>6, GrowsTransitive, GrowsBranch
  <2> QED
    BY <1>3, <1>6, <2>1, GrowsTransitive
<1>7. CASE /\ ~refused /\ top # Root /\ NodeAt(OwnerOf(top)).kind # "parallel"
           /\ e = completeMapItem(stored, top, st, cleanup)
  <2>1. Good(stored, H) /\ Grows(stored, e, H)
    BY <1>2, <1>3, <1>7, GrowsTransitive, GrowsItem
  <2> QED
    BY <1>3, <1>7, <2>1, GrowsTransitive
<1> QED
  BY <1>1, <1>4, <1>5, <1>6, <1>7

-----------------------------------------------------------------------------

-----------------------------------------------------------------------------
(*****************************************************************************)
(* Handlers that open frames.                                                *)
(*****************************************************************************)
\* Handlers that open frames compose, once their keys count as used.
LEMMA DevelopsTransitive ==
  ASSUME NEW d, NEW e, NEW H, Develops(d, e, H), NEW I, I = H \cup DOMAIN e.frames
  PROVE  /\ Good(e, I)
         /\ \A f : Develops(e, f, I) => Develops(d, f, H)
<1>1. Good(e, I)
  <2>1. Tree(e.frames, e.pending, I)
    <3>1. I \in SUBSET (H \cup e.pending \cup DOMAIN e.frames) /\ Tree(e.frames, e.pending, H)
      BY DEF Develops
    <3> QED
      BY <3>1, SmallerTree
  <2> QED
    BY <2>1 DEF Good, Develops, Derived
<1>2. ASSUME NEW f, Develops(e, f, I)
      PROVE  Develops(d, f, H)
  <2>1. Tree(f.frames, f.pending, H)
    <3>1. H \in SUBSET (I \cup f.pending \cup DOMAIN f.frames) /\ Tree(f.frames, f.pending, I)
      BY <1>2 DEF Develops
    <3> QED
      BY <3>1, SmallerTree
  <2>2. Evolves(e.frames, f.frames, H)
    BY <1>2 DEF Develops, Evolves
  <2>3. Evolves(d.frames, f.frames, H)
    BY <2>2, EvolvesTransitive DEF Develops
  <2> QED
    BY <1>2, <2>1, <2>3 DEF Develops, Derived
<1> QED
  BY <1>1, <1>2

\* See Free.
Fresh(d, H, o, C) == Free(d.frames, d.pending, H, o, C)

\* Draft e opens children C of o and leaves o as it was.
Adds(d, H, o, C, e) ==
  /\ Develops(d, e, H)
  /\ e.cancel = d.cancel
  /\ o \in DOMAIN e.frames /\ e.frames[o] = d.frames[o]

\* Nothing is, or ever was, below the children C of o.
Bare(H, o, C, e) ==
  \A c \in C : Steps(Append(o, c), DOMAIN e.frames \cup e.pending \cup H) = {}

\* Opening the frames `new` keeps the tree.
LEMMA DevelopsFrames ==
  ASSUME NEW d, NEW H, Good(d, H), d.cancel = NoOwner, NEW o, NEW C, Fresh(d, H, o, C),
         NEW new, Begins(o, C, new),
         NEW e, Derived(d, e), e.cancel = d.cancel, e.frames = Else(new, d.frames)
  PROVE  Adds(d, H, o, C, e) /\ Bare(H, o, C, e)
<1> DEFINE F == d.frames
           P == d.pending
           G == e.frames
<1>1. Tree(F, P, H) /\ Free(F, P, H, o, C) /\ G = Else(new, F) /\ e.pending = P
  BY DEF Good, Fresh, Derived
<1> HIDE DEF F, P, G
<1>2. Added(F, P, H, o, C, new, G)
  BY <1>1, AddTree
<1>3. Closes(e)
  <2>1. IsKey(NoOwner)
    BY DEF Good, Closes
  <2>2. NoOwner \notin DOMAIN e.frames
    <3>1. \A k \in DOMAIN G : Len(k) >= 1
      BY <1>2 DEF Added, Tree, Keyed
    <3>2. Len(NoOwner) = 0
      BY DEF NoOwner
    <3> QED
      BY <3>1, <3>2 DEF G
  <2> QED
    BY <2>1, <2>2 DEF Closes
<1> QED
  BY <1>1, <1>2, <1>3 DEF Added, Free, Adds, Bare, Develops, F, P, G

\* AddRegions keeps the tree.
LEMMA DevelopsRegions ==
  ASSUME NEW d, NEW H, Good(d, H), d.cancel = NoOwner, NEW o, ~IsRegion(o), NEW C,
         Fresh(d, H, o, C), NEW regions, DOMAIN regions = ChildrenOf(o, C),
         NEW keys, NEW e, e = AddRegions(d, regions, keys)
  PROVE  Adds(d, H, o, C, e)
<1> DEFINE new == [k \in DOMAIN regions |-> RegionFrame(regions[k])]
<1>1. CASE DOMAIN regions \cap DOMAIN d.frames # {}
  <2>1. e = Invalid(d)
    BY <1>1 DEF AddRegions
  <2>2. Grows(d, Invalid(d), H) /\ Invalid(d).frames = d.frames /\ Invalid(d).cancel = d.cancel
    BY GrowsUpdate DEF Good, IsDraft, DraftFields, Invalid
  <2> QED
    BY <2>1, <2>2 DEF Adds, Fresh, Free, Grows
<1>2. CASE DOMAIN regions \cap DOMAIN d.frames = {}
  <2>1. Keeps(d, e)
    BY KeepsAddRegions DEF Good
  <2>2. e.frames = Else(new, d.frames) /\ e.cancel = d.cancel
    <3>1. \A x, y, z : LET f == [d EXCEPT !.frames = x, !.queue = y, !.work = z]
                       IN  f.frames = x /\ f.cancel = d.cancel
      BY DEF Good, IsDraft, DraftFields
    <3> HIDE DEF new
    <3> QED
      BY <1>2, <3>1 DEF AddRegions, new
  <2>3. \A c \in C : IsRegion(Append(o, c))
    <3>1. IsKey(o) /\ Len(o) \in Nat
      BY DEF Good, Tree, Keyed, Fresh, Free, IsKey
    <3> QED
      BY <3>1, KeyAppend DEF IsRegion
  <2>4. \A c \in C : Fits(Append(o, c), new[Append(o, c)], {}, {})
    <3> SUFFICES ASSUME NEW c \in C
                 PROVE  Fits(Append(o, c), new[Append(o, c)], {}, {})
      OBVIOUS
    <3>1. new[Append(o, c)] = RegionFrame(regions[Append(o, c)])
      BY DEF ChildrenOf
    <3>2. IsRegion(Append(o, c))
      BY <2>3
    <3> HIDE DEF new
    <3> QED
      BY <3>1, <3>2 DEF Fits, RegionFits, RegionFrame
  <2>5. DOMAIN new = ChildrenOf(o, C)
    OBVIOUS
  <2>6. Begins(o, C, new)
    BY <2>4, <2>5 DEF Begins
  <2> HIDE DEF new
  <2> QED
    BY <2>1, <2>2, <2>6, DevelopsFrames DEF Keeps
<1> QED
  BY <1>1, <1>2

\* A sequence is one over any set that holds its elements.
LEMMA SeqOverElements ==
  ASSUME NEW S, NEW s, s \in Seq(S), NEW T, \A i \in 1..Len(s) : s[i] \in T
  PROVE  s \in Seq(T)
<1>1. s \in [1..Len(s) -> T] /\ Len(s) \in Nat
  OBVIOUS
<1>2. QED
  BY <1>1, SeqDef

\* Its elements are in ToSet.
LEMMA SeqElements ==
  ASSUME NEW S, NEW s, s \in Seq(S)
  PROVE  \A i \in 1..Len(s) : s[i] \in ToSet(s)
<1>1. DOMAIN s = 1..Len(s)
  OBVIOUS
<1> QED
  BY <1>1 DEF ToSet

\* The first elements of a sequence.
Firsts(all, count) == {all[i] : i \in 1..count}

\* A sequence splits into its first elements C and the rest.
Splits(all, count, C, rest) ==
  /\ rest \in Seq(ToSet(rest)) /\ IsInjective(rest)
  /\ ToSet(all) = C \cup ToSet(rest) /\ C \cap ToSet(rest) = {}
  /\ IsFiniteSet(C) /\ Cardinality(C) <= count

\* The first `count` elements and the rest are such a split.
LEMMA ListSplits ==
  ASSUME NEW all, all \in Seq(ToSet(all)), IsInjective(all),
         NEW count \in Nat, count <= Len(all),
         NEW rest, rest = SubSeq(all, count + 1, Len(all))
  PROVE  Splits(all, count, Firsts(all, count), rest)
<1> DEFINE C == {all[i] : i \in 1..count}
<1> DEFINE n == Len(all)
           m == n - count
<1>1. n \in Nat /\ DOMAIN all = 1..n /\ \A i \in 1..n : all[i] \in ToSet(all)
  BY DEF ToSet
<1>2. m \in Nat /\ \A i \in 1..m : i + count \in 1..n /\ ~(i + count <= count)
  BY <1>1
<1>3. \A i \in 1..n : ~(i <= count) => i - count \in 1..m /\ i - count + count = i
  BY <1>1
<1>4. DOMAIN rest = 1..m /\ \A i \in 1..m : rest[i] = all[i + count]
  <2>1. Len(rest) = m
    <3>1. \A i \in (count + 1)..n : i \in 1..n
      BY <1>1
    <3>2. Len(rest) = IF count + 1 <= n THEN n - (count + 1) + 1 ELSE 0
      BY <3>1, SubSeqProperties
    <3>3. \A a, b \in Nat : a <= b => (IF a + 1 <= b THEN b - (a + 1) + 1 ELSE 0) = b - a
      OBVIOUS
    <3> QED
      BY <1>1, <3>2, <3>3, Zenon
  <2>2. rest \in Seq(ToSet(all)) /\ \A i \in 1..m : rest[i] = all[count + 1 + i - 1]
    BY <1>1
  <2>3. \A i \in 1..m : count + 1 + i - 1 = i + count
    OBVIOUS
  <2> QED
    BY <2>1, <2>2, <2>3
<1>5. rest \in Seq(ToSet(rest))
  <2>1. rest \in Seq(ToSet(all))
    BY <1>1
  <2>2. \A i \in 1..Len(rest) : rest[i] \in ToSet(rest)
    BY <2>1, SeqElements
  <2> DEFINE T == ToSet(rest)
  <2> HIDE DEF T
  <2>3. \A i \in 1..Len(rest) : rest[i] \in T
    BY <2>2 DEF T
  <2>4. rest \in Seq(T)
    BY <2>1, <2>3, SeqOverElements
  <2> QED
    BY <2>4 DEF T
<1> HIDE DEF n, m
<1>6. \A x : x \in ToSet(rest) <=> \E i \in 1..m : x = all[i + count]
  BY <1>4 DEF ToSet
<1>7. \A x : x \in ToSet(all) <=> \E i \in 1..n : x = all[i]
  BY <1>1 DEF ToSet
<1>8. \A i, j \in 1..n : all[i] = all[j] => i = j
  BY <1>1 DEF IsInjective
<1>9. \A i \in 1..n : i <= count <=> i \in 1..count
  BY <1>1
<1>10. 1..count \subseteq 1..n
  BY <1>1 DEF n
<1>11. ToSet(all) = C \cup ToSet(rest)
  <2>1. ASSUME NEW i \in 1..n
        PROVE  all[i] \in C \cup ToSet(rest)
    BY <1>3, <1>6, <1>9
  <2> QED
    BY <1>2, <1>6, <1>7, <1>10, <2>1
<1>12. C \cap ToSet(rest) = {}
  <2> SUFFICES ASSUME NEW i \in 1..count, NEW j \in 1..m, all[i] = all[j + count]
               PROVE  FALSE
    BY <1>6
  <2>1. i \in 1..n /\ j + count \in 1..n /\ ~(j + count <= count) /\ i <= count
    BY <1>2, <1>10
  <2> QED
    BY <1>8, <2>1
<1>13. IsInjective(rest)
  <2> SUFFICES ASSUME NEW i \in 1..m, NEW j \in 1..m, rest[i] = rest[j]
               PROVE  i = j
    BY <1>4 DEF IsInjective
  <2>1. i + count = j + count
    BY <1>2, <1>4, <1>8
  <2> QED
    BY <1>2, <2>1
<1>14. IsFiniteSet(C) /\ Cardinality(C) <= count
  <2>1. IsFiniteSet(1..count) /\ Cardinality(1..count) = count
    <3>1. 1 \in Int /\ count \in Int /\ (IF 1 > count THEN 0 ELSE count - 1 + 1) = count
      OBVIOUS
    <3> QED
      BY <3>1, FS_Interval
  <2> DEFINE at == [i \in 1..count |-> all[i]]
  <2>2. at \in Surjection(1..count, C)
    BY DEF Surjection
  <2> HIDE DEF at
  <2> QED
    BY <2>1, <2>2, FS_Surjection
<1> QED
  BY <1>5, <1>11, <1>12, <1>13, <1>14 DEF Splits, Firsts

\* A map starts its next `count` unstarted items.
Starts(own, count, C, frame) ==
  /\ count \in Nat /\ count <= Len(own.unstarted)
  /\ C = Firsts(own.unstarted, count)
  /\ DOMAIN frame = DOMAIN own
  /\ frame.unstarted = SubSeq(own.unstarted, count + 1, Len(own.unstarted))
  /\ frame.active = own.active \cup C /\ frame.completed = own.completed
  /\ frame.selected = own.selected /\ frame.failedItem = own.failedItem

\* A map that starts items still fits; nothing was ever below them.
LEMMA MapStarts ==
  ASSUME NEW k, ~IsRegion(k), NodeAt(k).kind = "map", Last(k) \in DOMAIN Nodes,
         NEW own, NEW now, NEW ever, Fits(k, own, now, ever),
         NEW count, NEW C, NEW frame, Starts(own, count, C, frame),
         Cardinality(own.active) + count <= NodeAt(k).concurrency
  PROVE  /\ Fits(k, frame, now \cup C, ever \cup C)
         /\ Settled(k, own, frame)
         /\ C \cap ever = {}
<1> DEFINE node == NodeAt(k)
<1>9. /\ frame.active = own.active \cup C /\ frame.completed = own.completed
      /\ frame.selected = own.selected /\ frame.failedItem = own.failedItem
      /\ DOMAIN frame = DOMAIN own /\ count \in Nat
  BY DEF Starts
<1>1. MapFits(node, own, now, ever)
  BY DEF Fits
<1> HIDE DEF node
<1>2. own.unstarted \in Seq(ToSet(own.unstarted)) /\ IsInjective(own.unstarted)
  BY <1>1 DEF MapFits
<1>3. /\ frame.unstarted \in Seq(ToSet(frame.unstarted)) /\ IsInjective(frame.unstarted)
      /\ ToSet(own.unstarted) = C \cup ToSet(frame.unstarted)
      /\ C \cap ToSet(frame.unstarted) = {}
      /\ IsFiniteSet(C) /\ Cardinality(C) <= count
  <2> DEFINE rest == SubSeq(own.unstarted, count + 1, Len(own.unstarted))
  <2>1. Splits(own.unstarted, count, Firsts(own.unstarted, count), rest)
    <3>1. count \in Nat /\ count <= Len(own.unstarted)
      BY DEF Starts
    <3> HIDE DEF rest
    <3> QED
      BY <1>2, <3>1, ListSplits DEF rest
  <2>2. C = Firsts(own.unstarted, count) /\ frame.unstarted = rest
    BY DEF Starts
  <2> HIDE DEF rest
  <2> QED
    BY <2>1, <2>2 DEF Splits
<1>4. IsFiniteSet(frame.active) /\ Cardinality(frame.active) <= node.concurrency
  <2>1. IsFiniteSet(own.active) /\ own.active \cap C = {}
    BY <1>1, <1>3 DEF MapFits
  <2>2. Cardinality(own.active \cup C)
          = Cardinality(own.active) + Cardinality(C) - Cardinality(own.active \cap C)
    BY <1>3, <2>1, FS_Union
  <2>3. IsFiniteSet(own.active \cup C)
    BY <1>3, <2>1, FS_Union
  <2>4. Cardinality(own.active \cap C) = 0
    BY <2>1, FS_EmptySet
  <2>5. Cardinality(C) \in Nat /\ Cardinality(own.active) \in Nat
    BY <1>3, <2>1, FS_CardinalityType
  <2>6. node.concurrency \in Nat /\ Cardinality(own.active) + count <= node.concurrency
    BY OwnersAssumption DEF node, NodeAt
  <2>7. Cardinality(own.active \cup C) <= node.concurrency
    BY <1>3, <1>9, <2>2, <2>4, <2>5, <2>6
  <2> QED
    BY <1>9, <2>3, <2>7
<1>5. /\ frame.active \cap DOMAIN frame.completed = {}
      /\ (frame.active \cup DOMAIN frame.completed) \cap ToSet(frame.unstarted) = {}
      /\ ToSet(frame.unstarted) \cup frame.active \cup DOMAIN frame.completed
           = ToSet(own.unstarted) \cup own.active \cup DOMAIN own.completed
  BY <1>1, <1>3, <1>9 DEF MapFits
<1>6. now \cup C \subseteq frame.active /\ (ever \cup C) \cap ToSet(frame.unstarted) = {}
  BY <1>1, <1>3, <1>9 DEF MapFits
<1>7. C \cap ever = {}
  BY <1>1, <1>3 DEF MapFits
<1>8. MapFits(node, frame, now \cup C, ever \cup C)
  BY <1>1, <1>3, <1>4, <1>5, <1>6, <1>9 DEF MapFits
<1> QED
  BY <1>7, <1>8, <1>9 DEF Fits, Settled, Extends, node

\* refill starts no more items than the concurrency allows, and keeps the
\* tree.
LEMMA DevelopsRefill ==
  ASSUME NEW d, NEW H, Good(d, H), d.cancel = NoOwner, NEW o \in DOMAIN d.frames, ~IsRegion(o),
         NodeAt(o).kind = "map", NEW e, e = refill(d, o)
  PROVE  Develops(d, e, H) /\ e.cancel = d.cancel /\ o \in DOMAIN e.frames
<1> DEFINE own == d.frames[o]
           capacity == NodeAt(o).concurrency - Cardinality(own.active)
           count == IF capacity < Len(own.unstarted) THEN capacity ELSE Len(own.unstarted)
           starting == SubSeq(own.unstarted, 1, count)
           keys == [i \in 1..count |-> Append(o, starting[i])]
           started == [own EXCEPT !.unstarted = SubSeq(@, count + 1, Len(@)),
                                  !.active = @ \cup ToSet(starting)]
           regions == [k \in ToSet(keys) |-> NodeAt(o).region]
           first == SetFrame(d, o, started)
           C == Firsts(own.unstarted, count)
           now == Steps(o, DOMAIN d.frames \cup d.pending)
           ever == Steps(o, DOMAIN d.frames \cup d.pending \cup H)
<1>1. e = AddRegions(first, regions, keys)
  BY Zenon DEF refill
<1>2. /\ Last(o) \in DOMAIN Nodes /\ Fits(o, own, now, ever) /\ MapFits(NodeAt(o), own, now, ever)
  BY DEF Good, Tree, Fits
<1>3. /\ count \in Nat /\ count <= Len(own.unstarted)
      /\ Cardinality(own.active) + count <= NodeAt(o).concurrency
  <2>1. NodeAt(o).concurrency \in Nat
    BY <1>2, OwnersAssumption DEF NodeAt
  <2>2. Cardinality(own.active) \in Nat /\ Cardinality(own.active) <= NodeAt(o).concurrency
    BY <1>2, FS_CardinalityType DEF MapFits
  <2>3. Len(own.unstarted) \in Nat
    BY <1>2 DEF MapFits
  <2> QED
    BY <2>1, <2>2, <2>3
<1>4. own.unstarted \in Seq(ToSet(own.unstarted)) /\ Len(own.unstarted) \in Nat
  BY <1>2 DEF MapFits
<1> HIDE DEF count
<1>5. /\ Len(starting) = count /\ \A i \in 1..count : starting[i] = own.unstarted[i]
      /\ DOMAIN starting = 1..count
  BY <1>3, <1>4
<1> HIDE DEF starting
<1>6. ToSet(starting) = C /\ ToSet(keys) = ChildrenOf(o, C)
  BY <1>5 DEF ToSet, ChildrenOf, Firsts
<1>7. /\ DOMAIN started = DOMAIN own
      /\ started.unstarted = SubSeq(own.unstarted, count + 1, Len(own.unstarted))
      /\ started.active = own.active \cup C /\ started.completed = own.completed
      /\ started.selected = own.selected /\ started.failedItem = own.failedItem
  BY <1>2, <1>6 DEF MapFits
<1>8. DOMAIN regions = ChildrenOf(o, C)
  BY <1>6
<1> HIDE DEF started, regions, keys, now, ever
<1>9. Fits(o, started, now \cup C, ever \cup C) /\ Settled(o, own, started) /\ C \cap ever = {}
  <2>1. Starts(own, count, C, started)
    BY <1>3, <1>7 DEF Starts
  <2> HIDE DEF own, C
  <2> QED
    BY <1>2, <1>3, <2>1, MapStarts
<1> HIDE DEF C
<1>10. Sets(d, H, o, started, first)
  <2>1. now \in SUBSET (now \cup C) /\ ever \in SUBSET (ever \cup C)
    OBVIOUS
  <2>2. Fits(o, started, now, ever)
    BY <1>9, <2>1, FitsLess
  <2>3. Suits(d, H, o, started)
    BY <1>9, <2>2 DEF Suits, now, ever
  <2> QED
    BY <2>3, GrowsFrame
<1> HIDE DEF first
<1>11. Good(first, H) /\ Grows(d, first, H)
  BY <1>10, GrowsTransitive DEF Sets
<1>12. Fresh(first, H, o, C)
  <2>1. DOMAIN first.frames = DOMAIN d.frames /\ first.pending = d.pending /\ first.frames[o] = started
    BY <1>10 DEF Sets
  <2> QED
    BY <1>9, <2>1 DEF Fresh, Free, now, ever
<1>13. Adds(first, H, o, C, e)
  <2>1. first.cancel = NoOwner
    BY <1>10 DEF Sets
  <2> QED
    BY <1>1, <1>8, <1>11, <1>12, <2>1, DevelopsRegions
<1> QED
  BY <1>10, <1>11, <1>13, GrowsTransitive DEF Adds, Sets
=============================================================================
