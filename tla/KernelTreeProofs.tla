-------------------------- MODULE KernelTreeProofs --------------------------
(*****************************************************************************)
(* What the tree of frames gives the pipeline machine, for every acyclic     *)
(* program: an operation is dispatched once, the machine waits exactly for   *)
(* what it dispatched, receipts live as long as their region, early          *)
(* decisions are final, results are written once, the state a transition     *)
(* returns is readable by the next, and the machine implements PipelineRun.  *)
(*                                                                           *)
(* None of these is inductive. TreeInv adds to the invariant of              *)
(* KernelProofs that the frames, the pending and the answered operations     *)
(* are a tree of keys each used once (Forest), from which the freshness of   *)
(* every new operation follows. One lemma per action says that it commits a  *)
(* draft whose frames are again a tree; the handlers enter only through      *)
(* FrameTreeProofs.                                                          *)
(*****************************************************************************)
EXTENDS KernelProofs

-----------------------------------------------------------------------------
(*****************************************************************************)
(* Nodes that open something.                                                *)
(*****************************************************************************)
\* Draft d has just taken the node n of region r, which may now open what it
\* stands for.
Opens(d, H, r, n) ==
  /\ Good(d, H) /\ d.cancel = NoOwner
  /\ r \in DOMAIN d.frames /\ IsRegion(r)
  /\ n \in DOMAIN Nodes
  /\ DOMAIN d.frames[r] = {"ready", "results"}
  /\ Vacant(d, H, r, n)
  /\ n \notin Steps(r, DOMAIN d.frames \cup d.pending \cup H)

\* consumeRegionNode leads there.
LEMMA ConsumedOpens ==
  ASSUME Acyclic, NEW d, NEW H, Good(d, H), d.cancel = NoOwner,
         NEW r \in DOMAIN d.frames, IsRegion(r), NEW n \in DOMAIN Nodes, n \in d.frames[r].ready,
         NEW e, e = consumeRegionNode(d, r, n)
  PROVE  Grows(d, e, H) /\ Opens(e, H, r, n)
<1>1. /\ Grows(d, e, H) /\ Vacant(e, H, r, n)
      /\ n \notin Steps(r, DOMAIN e.frames \cup e.pending \cup H)
      /\ DOMAIN e.frames = DOMAIN d.frames
      /\ DOMAIN e.frames[r] = {"ready", "results"}
  BY GrowsConsumed
<1>2. e.cancel = NoOwner
  BY DEF consumeRegionNode, SetFrame, Good, IsDraft, DraftFields
<1>3. Good(e, H)
  BY <1>1, GrowsTransitive
<1> QED
  BY <1>1, <1>2, <1>3 DEF Opens

\* A region whose token is at n may have something below n.
LEMMA OpensFits ==
  ASSUME NEW d, NEW H, NEW r, NEW n, Opens(d, H, r, n)
  PROVE  /\ Fits(r, d.frames[r], Steps(r, DOMAIN d.frames \cup d.pending) \cup {n},
                                 Steps(r, DOMAIN d.frames \cup d.pending \cup H) \cup {n})
         /\ Fresh(d, H, r, {n})
<1> DEFINE now == Steps(r, DOMAIN d.frames \cup d.pending)
           ever == Steps(r, DOMAIN d.frames \cup d.pending \cup H)
           frame == d.frames[r]
<1>1. /\ frame.ready = {} /\ now = {} /\ DOMAIN frame = {"ready", "results"}
      /\ n \in DOMAIN Nodes /\ n \notin ever /\ r \in DOMAIN d.frames /\ IsRegion(r)
      /\ \A m \in ever : m \in DOMAIN Nodes /\ (m = n \/ Rank[m] < Rank[n])
  BY DEF Opens, Vacant
<1> HIDE DEF now, ever, frame
<1>2. RegionFits(frame, now \cup {n}, ever \cup {n})
  BY <1>1 DEF RegionFits
<1>3. Fits(r, frame, now \cup {n}, ever \cup {n})
  BY <1>1, <1>2 DEF Fits
<1> QED
  BY <1>1, <1>3 DEF Fresh, Free, now, ever, frame

\* Queueing a frame afterwards changes nothing.
LEMMA DevelopsTaken ==
  ASSUME NEW d, NEW H, NEW e, Develops(d, e, H), NEW x
  PROVE  Develops(d, Enqueue(e, x), H)
<1> DEFINE I == H \cup DOMAIN e.frames
<1>1. Good(e, I) /\ \A f : Develops(e, f, I) => Develops(d, f, H)
  BY DevelopsTransitive
<1> HIDE DEF I
<1>2. Grows(e, Enqueue(e, x), I)
  BY <1>1, GrowsUpdate
<1> QED
  BY <1>1, <1>2 DEF Grows

\* Draft e has just opened the owner o of node n.
Owns(e, I, o, n, frame) ==
  /\ Good(e, I) /\ e.cancel = NoOwner
  /\ o \in DOMAIN e.frames /\ ~IsRegion(o) /\ Last(o) = n
  /\ e.frames[o] = frame
  /\ Steps(o, DOMAIN e.frames \cup e.pending \cup I) = {}

\* AddOwner opens an owner with nothing below it.
LEMMA DevelopsOwner ==
  ASSUME NEW d, NEW H, NEW r, NEW n, Opens(d, H, r, n), NEW o, o = Append(r, n),
         NEW frame, Fits(o, frame, {}, {}), NEW e, e = AddOwner(d, o, frame)
  PROVE  Develops(d, e, H) /\ Owns(e, H \cup DOMAIN e.frames, o, n, frame)
<1>1. /\ Good(d, H) /\ d.cancel = NoOwner /\ r \in DOMAIN d.frames /\ IsRegion(r)
      /\ n \notin Steps(r, DOMAIN d.frames \cup d.pending \cup H)
  BY DEF Opens
<1>2. IsKey(r) /\ Len(r) \in Nat /\ \A x \in DOMAIN d.frames : IsKey(x)
  BY <1>1 DEF Good, Tree, Keyed, IsKey
<1>3. IsKey(o) /\ ~IsRegion(o) /\ Last(o) = n
  BY <1>1, <1>2, KeyAppend DEF IsRegion
<1>4. o \notin DOMAIN d.frames
  <2>1. n \notin Steps(r, DOMAIN d.frames)
    BY <1>1, StepsLess
  <2>2. \A x \in DOMAIN d.frames : ~IsPrefix(o, x)
    BY <1>2, <2>1, ChildFresh
  <2> QED
    BY <1>3, <2>2, PrefixItself
<1> DEFINE new == [k \in {o} |-> frame]
<1>5. e.frames = Else(new, d.frames) /\ e.cancel = d.cancel
  <2>1. \A f : With(d.frames, o, f) = Else([k \in {o} |-> f], d.frames)
    BY <1>4 DEF With, Else
  <2>2. e = Charge(SetFrame(d, o, frame), 1)
    BY <1>4 DEF AddOwner
  <2>3. e.frames = With(d.frames, o, frame) /\ e.cancel = d.cancel
    BY <1>1, <2>2 DEF Charge, SetFrame, Good, IsDraft, DraftFields
  <2> QED
    BY <2>1, <2>3
<1>6. Derived(d, e)
  BY <1>1, KeepsAddOwner DEF Good, Keeps
<1>7. Begins(r, {n}, new)
  <2>1. DOMAIN new = ChildrenOf(r, {n})
    BY DEF ChildrenOf
  <2>2. new[o] = frame
    OBVIOUS
  <2> QED
    BY <2>1, <2>2 DEF Begins
<1> HIDE DEF new
<1>8. Fresh(d, H, r, {n})
  BY OpensFits
<1>9. Adds(d, H, r, {n}, e) /\ Bare(H, r, {n}, e)
  <2> DEFINE C == {n}
  <2>1. Begins(r, C, new) /\ Fresh(d, H, r, C)
    BY <1>7, <1>8
  <2> HIDE DEF C
  <2>2. Adds(d, H, r, C, e) /\ Bare(H, r, C, e)
    BY <1>1, <1>5, <1>6, <2>1, DevelopsFrames
  <2> QED
    BY <2>2 DEF C
<1>13. Steps(o, DOMAIN e.frames \cup e.pending \cup H) = {}
  BY <1>9 DEF Bare
<1>10. Develops(d, e, H) /\ Good(e, H \cup DOMAIN e.frames)
  BY <1>9, DevelopsTransitive DEF Adds
<1>11. o \in DOMAIN e.frames /\ e.frames[o] = frame
  BY <1>5 DEF Else, new
<1>12. DOMAIN e.frames \cup e.pending \cup (H \cup DOMAIN e.frames) = DOMAIN e.frames \cup e.pending \cup H
  OBVIOUS
<1> QED
  BY <1>1, <1>3, <1>5, <1>9, <1>10, <1>11, <1>12, <1>13 DEF Owns

\* An owner may open the regions of its children at once.
LEMMA DevelopsStart ==
  ASSUME NEW d, NEW H, NEW r, NEW n, Opens(d, H, r, n), NEW o, o = Append(r, n),
         NEW frame, NEW C, Fits(o, frame, C, C), NEW regions, DOMAIN regions = ChildrenOf(o, C),
         NEW keys, NEW e, e = AddRegions(AddOwner(d, o, frame), regions, keys)
  PROVE  Develops(d, e, H)
<1> DEFINE own == AddOwner(d, o, frame)
           I == H \cup DOMAIN own.frames
<1>1. Fits(o, frame, {}, {})
  BY FitsLess
<1>2. Develops(d, own, H) /\ Owns(own, I, o, n, frame)
  BY <1>1, DevelopsOwner
<1>3. Good(own, I) /\ \A f : Develops(own, f, I) => Develops(d, f, H)
  BY <1>2, DevelopsTransitive
<1> HIDE DEF own, I
<1>4. Fresh(own, I, o, C)
  <2> DEFINE now == Steps(o, DOMAIN own.frames \cup own.pending)
             ever == Steps(o, DOMAIN own.frames \cup own.pending \cup I)
  <2>1. ever = {} /\ o \in DOMAIN own.frames /\ own.frames[o] = frame
    BY <1>2 DEF Owns
  <2>2. now = {}
    BY <2>1, StepsLess
  <2> HIDE DEF now, ever
  <2>3. now \cup C = C /\ ever \cup C = C /\ C \cap ever = {}
    BY <2>1, <2>2
  <2>4. Fits(o, own.frames[o], now \cup C, ever \cup C)
    BY <2>1, <2>3
  <2> QED
    BY <2>1, <2>3, <2>4 DEF Fresh, Free, now, ever
<1>5. own.cancel = NoOwner /\ ~IsRegion(o)
  BY <1>2 DEF Owns
<1>6. Adds(own, I, o, C, e)
  <2>1. e = AddRegions(own, regions, keys)
    BY DEF own
  <2> QED
    BY <1>3, <1>4, <1>5, <2>1, DevelopsRegions
<1> QED
  BY <1>3, <1>6 DEF Adds

\* A map opens its first items by refill.
LEMMA DevelopsMap ==
  ASSUME NEW d, NEW H, NEW r, NEW n, Opens(d, H, r, n), NEW o, o = Append(r, n),
         Nodes[n].kind = "map",
         NEW frame, Fits(o, frame, {}, {}), NEW e, e = refill(AddOwner(d, o, frame), o)
  PROVE  Develops(d, e, H)
<1> DEFINE own == AddOwner(d, o, frame)
           I == H \cup DOMAIN own.frames
<1>1. Develops(d, own, H) /\ Owns(own, I, o, n, frame)
  BY DevelopsOwner
<1>2. Good(own, I) /\ \A f : Develops(own, f, I) => Develops(d, f, H)
  BY <1>1, DevelopsTransitive
<1>3. e = refill(own, o)
  OBVIOUS
<1> HIDE DEF own, I
<1>4. /\ own.cancel = NoOwner /\ ~IsRegion(o) /\ o \in DOMAIN own.frames
      /\ NodeAt(o).kind = "map"
  BY <1>1 DEF Owns, NodeAt
<1>5. Develops(own, e, I)
  BY <1>2, <1>3, <1>4, DevelopsRefill
<1> QED
  BY <1>2, <1>5

\* A call and a loop open one region.
LEMMA DevelopsCall ==
  ASSUME NEW d, NEW H, NEW r, NEW n, Opens(d, H, r, n), NEW o, o = Append(r, n),
         Nodes[n].kind \in {"call", "repeat"}, NEW frame, NEW c,
         Nodes[n].kind = "repeat" => frame = [kind |-> "repeat", iteration |-> 0] /\ c = 0,
         NEW region, NEW e, e = AddRegion(AddOwner(d, o, frame), Append(o, c), region)
  PROVE  Develops(d, e, H)
<1>1. IsRegion(r) /\ IsKey(r) /\ Len(r) \in Nat /\ n \in DOMAIN Nodes
  BY DEF Opens, Good, Tree, Keyed, IsKey
<1>2. ~IsRegion(o) /\ Last(o) = n
  BY <1>1, KeyAppend DEF IsRegion
<1>3. Nodes[n].kind = "repeat" => RepeatFits(frame, {c})
  BY DEF RepeatFits
<1>4. Fits(o, frame, {c}, {c})
  BY <1>1, <1>2, <1>3 DEF Fits, NodeAt
<1> DEFINE regions == [k \in {Append(o, c)} |-> region]
           keys == <<Append(o, c)>>
<1>5. e = AddRegions(AddOwner(d, o, frame), regions, keys)
  BY DEF AddRegion
<1>6. DOMAIN regions = ChildrenOf(o, {c})
  BY DEF ChildrenOf
<1> HIDE DEF regions, keys
<1> DEFINE C == {c}
<1>7. Fits(o, frame, C, C) /\ DOMAIN regions = ChildrenOf(o, C)
  BY <1>4, <1>6
<1> HIDE DEF C
<1> QED
  BY <1>5, <1>7, DevelopsStart

\* The frame of a parallel that starts, also when an input failed and the
\* branches are cancelled before they begin.
LEMMA OpenedFits ==
  ASSUME NEW o, ~IsRegion(o), Last(o) \in DOMAIN Nodes, NEW node, node = NodeAt(o),
         node.kind = "parallel",
         NEW failures \in SUBSET ToSet(node.order),
         NEW results, results = [b \in failures |-> "failed"],
         NEW inputs, inputs = ToSet(node.order) \ failures,
         NEW st
  PROVE  /\ Fits(o, [kind |-> "parallel", live |-> inputs,
                     selected |-> classifyParallel(node, results, None),
                     results |-> results, status |-> st], inputs, inputs)
         /\ Fits(o, [kind |-> "parallel", live |-> {},
                     selected |-> classifyParallel(node, results, None),
                     results |-> Else(results, [b \in inputs |-> "cancelled"]),
                     status |-> st], {}, {})
<1> DEFINE selected == classifyParallel(node, results, None)
           opened == [kind |-> "parallel", live |-> inputs, selected |-> selected,
                      results |-> results, status |-> st]
           cancelled == [b \in inputs |-> "cancelled"]
           all == Else(results, cancelled)
           closed == [kind |-> "parallel", live |-> {}, selected |-> selected,
                      results |-> all, status |-> st]
<1> HIDE DEF selected
<1>1. ParallelFits(node, opened, inputs)
  BY DEF ParallelFits, selected
<1>2. /\ DOMAIN all = ToSet(node.order)
      /\ \A b \in failures : all[b] = "failed"
      /\ \A b \in inputs : all[b] = "cancelled"
  BY DEF Else
<1>3. ~Spoiled(all) => selected = classifyParallel(node, all, None)
  <2> HIDE DEF all
  <2> SUFFICES ASSUME ~Spoiled(all)
               PROVE  selected = classifyParallel(node, all, None)
    OBVIOUS
  <2>1. failures = {} /\ inputs = {}
    BY <1>2 DEF Spoiled
  <2>2. DOMAIN all = DOMAIN results /\ \A b \in DOMAIN all : all[b] = results[b]
    BY <1>2, <2>1
  <2> QED
    BY <2>2, ClassifySame DEF selected
<1> HIDE DEF all
<1>4. ParallelFits(node, closed, {})
  BY <1>2, <1>3 DEF ParallelFits
<1> QED
  BY <1>1, <1>4 DEF Fits, selected, all

\* The frame of a map that starts, also when it has no items.
LEMMA UnstartedFits ==
  ASSUME NEW o, ~IsRegion(o), Last(o) \in DOMAIN Nodes, NEW node, node = NodeAt(o),
         node.kind = "map", NEW items \in node.collections,
         NEW own, own = [kind |-> "map", unstarted |-> items, active |-> {},
                         completed |-> <<>>, selected |-> None, failedItem |-> None,
                         status |-> "active"]
  PROVE  /\ Fits(o, own, {}, {})
         /\ Fits(o, [own EXCEPT !.selected = "completed", !.status = "completed"], {}, {})
<1>1. items \in Seq(ToSet(items)) /\ IsInjective(items) /\ node.concurrency \in Nat
  BY CollectionsAssumption, OwnersAssumption DEF NodeAt
<1>2. IsFiniteSet({}) /\ Cardinality({}) = 0 /\ 0 <= node.concurrency
  BY <1>1, FS_EmptySet
<1>3. DOMAIN own.completed = {}
  OBVIOUS
<1>4. MapFits(node, own, {}, {})
  BY <1>1, <1>2, <1>3 DEF MapFits, None
<1>5. MapFits(node, [own EXCEPT !.selected = "completed", !.status = "completed"], {}, {})
  BY <1>1, <1>2, <1>3 DEF MapFits, None
<1> QED
  BY <1>4, <1>5 DEF Fits

-----------------------------------------------------------------------------
(*****************************************************************************)
(* The drain steps.                                                          *)
(*****************************************************************************)
\* The frames of a draft are a tree that evolves from the current frames.
Moved(e, H) ==
  /\ Tree(e.frames, pending, H)
  /\ Evolves(frames, e.frames, H)
  /\ Closes(e)

\* A step that commits such a draft.
Moves(H) == \E e : Commit(e) /\ Moved(e, H)

\* Every handler of a drain step that opens frames is such a step.
LEMMA EnteredMoves ==
  ASSUME NEW H, NEW e, Develops(Entered, e, H) \/ Develops(Taken, e, H), Commit(e)
  PROVE  Moves(H)
<1>1. e.pending = pending /\ Tree(e.frames, e.pending, H) /\ Evolves(frames, e.frames, H) /\ Closes(e)
  BY EnteredIsDraft, TakenIsDraft DEF Develops, Derived
<1> QED
  BY <1>1 DEF Moves, Moved

\* What a drain step starts from.
Whole(H) ==
  /\ Acyclic
  /\ Good(Entered, H) /\ Good(Taken, H)
  /\ Entered.cancel = NoOwner /\ Taken.cancel = NoOwner

\* It does while the frames are a tree.
LEMMA WholeTree ==
  ASSUME Acyclic, Tree(frames, pending, answered),
         NEW H, H = DOMAIN frames \cup pending \cup answered
  PROVE  Whole(H)
<1>1. Tree(frames, pending, H)
  BY SmallerTree
<1>2. IsKey(NoOwner) /\ NoOwner \notin DOMAIN frames
  <2>1. Len(NoOwner) = 0 /\ NoOwner = [i \in 1..0 |-> NoOwner[i]]
    BY DEF NoOwner
  <2>2. \A k \in DOMAIN frames : Len(k) >= 1
    BY DEF Tree, Keyed
  <2> QED
    BY <2>1, <2>2 DEF IsKey
<1>3. Entered.cancel = NoOwner /\ Taken.cancel = NoOwner
  BY DEF Entered, Taken, Charge, Draft
<1>4. Closes(Entered) /\ Closes(Taken)
  BY <1>2, <1>3, EnteredIsDraft, TakenIsDraft DEF Closes
<1> QED
  BY <1>1, <1>3, <1>4, EnteredIsDraft, TakenIsDraft DEF Whole, Good

\* The node a step executes is the ready node of a live region.
LEMMA NodeTaken ==
  ASSUME NEW H, Whole(H), NEW n \in DOMAIN Nodes, NEW kind, AtNode(n, kind),
         NEW r, r = Head(queue), NEW d, d = consumeRegionNode(Entered, r, n)
  PROVE  /\ r \in DOMAIN frames /\ IsRegion(r) /\ n \in frames[r].ready
         /\ r \in DOMAIN Entered.frames
         /\ Opens(d, H, r, n)
         /\ \A e : Develops(d, e, H) => Develops(Entered, e, H)
         /\ Grows(Entered, d, H)
<1>1. /\ r \in DOMAIN Entered.frames /\ IsRegion(r) /\ n \in Entered.frames[r].ready
      /\ Entered.frames = frames
  BY EnteredIsDraft DEF AtNode, Executing
<1>2. Acyclic /\ Good(Entered, H) /\ Entered.cancel = NoOwner
  BY DEF Whole
<1>3. Grows(Entered, d, H) /\ Opens(d, H, r, n)
  BY <1>1, <1>2, ConsumedOpens
<1> QED
  BY <1>1, <1>3, GrowsTransitive

\* Starting a call or a loop moves.
LEMMA CallMoves ==
  ASSUME NEW H, Whole(H), NEW n \in DOMAIN Nodes, StartCall(n) \/ StartRepeat(n)
  PROVE  Moves(H)
<1> DEFINE r == Head(queue)
           o == Append(r, n)
           d == consumeRegionNode(Entered, r, n)
<1>1. CASE StartCall(n)
  <2> DEFINE e == AddRegion(AddOwner(d, o, [kind |-> "call"]), Append(o, "module"), Nodes[n].region)
  <2>1. AtNode(n, "call") /\ Commit(e) /\ Nodes[n].kind = "call"
    BY <1>1, Zenon DEF StartCall, AtNode
  <2>2. Opens(d, H, r, n) /\ \A f : Develops(d, f, H) => Develops(Entered, f, H)
    BY <2>1, NodeTaken
  <2> HIDE DEF d
  <2>3. Develops(d, e, H)
    BY <2>1, <2>2, DevelopsCall
  <2> HIDE DEF e
  <2> QED
    BY <2>1, <2>2, <2>3, EnteredMoves
<1>2. CASE StartRepeat(n)
  <2> DEFINE frame == [kind |-> "repeat", iteration |-> 0]
             e == AddRegion(AddOwner(d, o, frame), Append(o, 0), Nodes[n].region)
  <2>1. AtNode(n, "repeat") /\ Commit(e) /\ Nodes[n].kind = "repeat"
    BY <1>2, Zenon DEF StartRepeat, AtNode
  <2>2. Opens(d, H, r, n) /\ \A f : Develops(d, f, H) => Develops(Entered, f, H)
    BY <2>1, NodeTaken
  <2> HIDE DEF d
  <2>3. Develops(d, e, H)
    BY <2>1, <2>2, DevelopsCall
  <2> HIDE DEF e
  <2> QED
    BY <2>1, <2>2, <2>3, EnteredMoves
<1> QED
  BY <1>1, <1>2

\* The key of the owner of a node.
LEMMA OwnerKey ==
  ASSUME NEW d, NEW H, NEW r, NEW n, Opens(d, H, r, n)
  PROVE  /\ ~IsRegion(Append(r, n)) /\ Last(Append(r, n)) = n /\ n \in DOMAIN Nodes
         /\ NodeAt(Append(r, n)) = Nodes[n]
<1>1. IsRegion(r) /\ IsKey(r) /\ Len(r) \in Nat /\ n \in DOMAIN Nodes
  BY DEF Opens, Good, Tree, Keyed, IsKey
<1> QED
  BY <1>1, KeyAppend DEF IsRegion, NodeAt

\* Starting a map moves.
LEMMA MapMoves ==
  ASSUME NEW H, Whole(H), NEW n \in DOMAIN Nodes, StartMap(n)
  PROVE  Moves(H)
<1> DEFINE r == Head(queue)
           o == Append(r, n)
           d == consumeRegionNode(Entered, r, n)
           own(items) == [kind |-> "map", unstarted |-> items, active |-> {},
                          completed |-> <<>>, selected |-> None, failedItem |-> None,
                          status |-> "active"]
           empty(items) == [own(items) EXCEPT !.selected = "completed", !.status = "completed"]
<1>1. /\ AtNode(n, "map") /\ Nodes[n].kind = "map"
      /\ \E items \in Nodes[n].collections :
           \/ Commit(Enqueue(AddOwner(d, o, empty(items)), o))
           \/ Commit(refill(AddOwner(d, o, own(items)), o))
  BY Zenon DEF StartMap, AtNode
<1>2. PICK items \in Nodes[n].collections :
           \/ Commit(Enqueue(AddOwner(d, o, empty(items)), o))
           \/ Commit(refill(AddOwner(d, o, own(items)), o))
  BY <1>1, Zenon
<1>3. Opens(d, H, r, n) /\ \A f : Develops(d, f, H) => Develops(Entered, f, H)
  BY <1>1, NodeTaken
<1> HIDE DEF d
<1>4. ~IsRegion(o) /\ Last(o) = n /\ NodeAt(o) = Nodes[n]
  BY <1>3, OwnerKey
<1> DEFINE started == own(items)
           done == empty(items)
<1>5. Fits(o, started, {}, {}) /\ Fits(o, done, {}, {})
  <2>1. /\ ~IsRegion(o) /\ Last(o) \in DOMAIN Nodes /\ NodeAt(o).kind = "map"
        /\ items \in NodeAt(o).collections
    BY <1>1, <1>2, <1>4
  <2> HIDE DEF o
  <2> QED
    BY <2>1, UnstartedFits, Zenon
<1>6. Commit(Enqueue(AddOwner(d, o, done), o)) \/ Commit(refill(AddOwner(d, o, started), o))
  BY <1>2
<1> HIDE DEF started, done, own, empty, o
<1>7. CASE Commit(Enqueue(AddOwner(d, o, done), o))
  <2>1. Develops(d, AddOwner(d, o, done), H)
    BY <1>3, <1>5, DevelopsOwner DEF o
  <2>2. Develops(d, Enqueue(AddOwner(d, o, done), o), H)
    BY <2>1, DevelopsTaken
  <2> QED
    BY <1>3, <1>7, <2>2, EnteredMoves
<1>8. CASE Commit(refill(AddOwner(d, o, started), o))
  <2>1. Develops(d, refill(AddOwner(d, o, started), o), H)
    BY <1>1, <1>3, <1>5, DevelopsMap DEF o
  <2> QED
    BY <1>3, <1>8, <2>1, EnteredMoves
<1> QED
  BY <1>6, <1>7, <1>8

\* Starting a parallel moves.
LEMMA ParallelMoves ==
  ASSUME NEW H, Whole(H), NEW n \in DOMAIN Nodes, StartParallel(n)
  PROVE  Moves(H)
<1> DEFINE r == Head(queue)
           o == Append(r, n)
           d == consumeRegionNode(Entered, r, n)
           node == Nodes[n]
           branches == ToSet(node.order)
           keys == [i \in DOMAIN node.order |-> Append(o, node.order[i])]
           results(failures) == [b \in failures |-> "failed"]
           selected(failures) == classifyParallel(node, results(failures), None)
           inputs(failures) == branches \ failures
           cancelled(failures) == [b \in inputs(failures) |-> "cancelled"]
           closed(failures) ==
             [kind |-> "parallel", live |-> {}, selected |-> selected(failures),
              results |-> Else(results(failures), cancelled(failures)), status |-> "completed"]
           opened(failures) ==
             [kind |-> "parallel", live |-> inputs(failures), selected |-> selected(failures),
              results |-> results(failures),
              status |-> IF selected(failures) = None THEN "active" ELSE "draining"]
           regions(failures) ==
             [k \in {Append(o, b) : b \in inputs(failures)} |-> node.branch[Last(k)].region]
           started(failures) == AddRegions(AddOwner(d, o, opened(failures)), regions(failures), keys)
<1>1. /\ AtNode(n, "parallel") /\ Nodes[n].kind = "parallel"
      /\ \E failures \in SUBSET {b \in branches : FALSE \in node.branch[b].inputs} :
           \/ Commit(Enqueue(AddOwner(d, o, closed(failures)), o))
           \/ Commit(Enqueue(started(failures), o))
           \/ Commit(started(failures))
  BY Zenon DEF StartParallel, AtNode
<1>2. PICK failures \in SUBSET branches :
           \/ Commit(Enqueue(AddOwner(d, o, closed(failures)), o))
           \/ Commit(Enqueue(started(failures), o))
           \/ Commit(started(failures))
  BY <1>1, Zenon
<1>3. Opens(d, H, r, n) /\ \A f : Develops(d, f, H) => Develops(Entered, f, H)
  BY <1>1, NodeTaken
<1> HIDE DEF d
<1>4. ~IsRegion(o) /\ Last(o) = n /\ NodeAt(o) = Nodes[n]
  BY <1>3, OwnerKey
<1> DEFINE C == inputs(failures)
           own == opened(failures)
           done == closed(failures)
           new == regions(failures)
<1>5. Fits(o, own, C, C) /\ Fits(o, done, {}, {})
  <2>1. /\ ~IsRegion(o) /\ Last(o) \in DOMAIN Nodes /\ NodeAt(o).kind = "parallel"
        /\ node = NodeAt(o)
    BY <1>1, <1>4
  <2>2. failures \in SUBSET ToSet(node.order)
    BY <1>2
  <2> HIDE DEF o, node
  <2> QED
    BY <2>1, <2>2, OpenedFits, Zenon
<1>6. DOMAIN new = ChildrenOf(o, C)
  BY DEF ChildrenOf
<1>7. \/ Commit(Enqueue(AddOwner(d, o, done), o))
      \/ Commit(Enqueue(AddRegions(AddOwner(d, o, own), new, keys), o))
      \/ Commit(AddRegions(AddOwner(d, o, own), new, keys))
  BY <1>2, Zenon
<1> HIDE DEF own, done, new, C, o, keys, inputs, opened, closed, regions, started
<1>8. CASE Commit(Enqueue(AddOwner(d, o, done), o))
  <2>1. Develops(d, AddOwner(d, o, done), H)
    BY <1>3, <1>5, DevelopsOwner DEF o
  <2>2. Develops(d, Enqueue(AddOwner(d, o, done), o), H)
    BY <2>1, DevelopsTaken
  <2> QED
    BY <1>3, <1>8, <2>2, EnteredMoves
<1>9. ASSUME NEW e, e = AddRegions(AddOwner(d, o, own), new, keys), Commit(e) \/ Commit(Enqueue(e, o))
      PROVE  Moves(H)
  <2>1. Develops(d, e, H)
    BY <1>3, <1>5, <1>6, <1>9, DevelopsStart DEF o
  <2>2. Develops(d, Enqueue(e, o), H)
    BY <2>1, DevelopsTaken
  <2> QED
    BY <1>3, <1>9, <2>1, <2>2, EnteredMoves
<1> QED
  BY <1>7, <1>8, <1>9

\* Every handler of a drain step that opens nothing is such a step.
LEMMA GrowsMoves ==
  ASSUME NEW H, NEW e, Grows(Entered, e, H) \/ Grows(Taken, e, H), Commit(e)
  PROVE  Moves(H)
BY EnteredMoves DEF Grows

\* Dropping a stale queue entry moves.
LEMMA SkipMoves ==
  ASSUME NEW H, Whole(H), SkipFrame
  PROVE  Moves(H)
<1> DEFINE e == [Taken EXCEPT !.valid = Head(queue) \in DOMAIN frames]
<1>1. Good(Taken, H) /\ IsDraft(Taken) /\ Taken.valid = TRUE
  BY TakenIsDraft DEF Whole
<1>2. Derived(Taken, e) /\ e.cancel = Taken.cancel /\ e.frames = Taken.frames
  BY <1>1 DEF Derived, IsDraft, DraftFields
<1>3. Commit(e)
  BY DEF SkipFrame
<1> HIDE DEF e
<1>4. Grows(Taken, e, H)
  BY <1>1, <1>2, GrowsSame
<1> QED
  BY <1>3, <1>4, GrowsMoves

\* Rejecting an input moves.
LEMMA RejectMoves ==
  ASSUME NEW H, Whole(H), NEW n \in DOMAIN Nodes, RejectInput(n)
  PROVE  Moves(H)
<1> DEFINE r == Head(queue)
           e == routeImmediateResult(Entered, r, n, "failed", Nodes[n].failed)
<1>1. /\ \E kind \in {"activity", "call", "repeat", "map"} : AtNode(n, kind) /\ Nodes[n].kind = kind
      /\ Commit(e)
  BY DEF RejectInput, AtNode
<1>2. r \in DOMAIN Entered.frames /\ IsRegion(r) /\ Acyclic /\ Good(Entered, H)
  BY <1>1, NodeTaken DEF Whole
<1>3. Nodes[n].failed \in localTargets(n)
  BY <1>1 DEF localTargets
<1>4. Grows(Entered, e, H)
  BY <1>2, <1>3, GrowsImmediate
<1> HIDE DEF e
<1> QED
  BY <1>1, <1>4, GrowsMoves

\* A region that fails moves.
LEMMA FailedMoves ==
  ASSUME NEW H, Whole(H), NEW n \in DOMAIN Nodes, MissChoice(n) \/ EndFails(n)
  PROVE  Moves(H)
<1> DEFINE r == Head(queue)
           e == completeFailedRegion(Entered, r)
<1>1. Commit(e) /\ \E kind : AtNode(n, kind)
  BY DEF MissChoice, EndFails
<1>2. r \in DOMAIN Entered.frames /\ IsRegion(r) /\ Acyclic /\ Good(Entered, H)
  BY <1>1, NodeTaken DEF Whole
<1>3. Grows(Entered, e, H)
  BY <1>2, GrowsFailedRegion
<1> HIDE DEF e
<1> QED
  BY <1>1, <1>3, GrowsMoves

\* The end of the root region moves.
LEMMA EndRootMoves ==
  ASSUME NEW H, Whole(H), NEW n \in DOMAIN Nodes, EndRoot(n)
  PROVE  Moves(H)
<1> DEFINE e == [Entered EXCEPT !.terminal = "succeeded"]
<1>1. Good(Entered, H) /\ IsDraft(Entered) /\ Entered.valid = TRUE
  BY EnteredIsDraft DEF Whole
<1>2. Derived(Entered, e) /\ e.cancel = Entered.cancel /\ e.frames = Entered.frames
  BY <1>1 DEF Derived, IsDraft, DraftFields
<1>3. Commit(e)
  BY DEF EndRoot
<1> HIDE DEF e
<1>4. Grows(Entered, e, H)
  BY <1>1, <1>2, GrowsSame
<1> QED
  BY <1>3, <1>4, GrowsMoves

\* A choice moves.
LEMMA ChoiceMoves ==
  ASSUME NEW H, Whole(H), NEW n \in DOMAIN Nodes, SelectChoice(n)
  PROVE  Moves(H)
<1> DEFINE r == Head(queue)
           d == consumeRegionNode(Entered, r, n)
           frame(target) == [d.frames[r] EXCEPT !.ready = @ \cup {target}]
<1>1. /\ AtNode(n, "choice") /\ Nodes[n].kind = "choice"
      /\ \E target \in Nodes[n].targets : Commit(Enqueue(SetFrame(d, r, frame(target)), r))
  BY Zenon DEF SelectChoice, AtNode
<1>2. PICK target \in Nodes[n].targets : Commit(Enqueue(SetFrame(d, r, frame(target)), r))
  BY <1>1, Zenon
<1>3. Opens(d, H, r, n) /\ Grows(Entered, d, H)
  BY <1>1, NodeTaken
<1>4. target \in DOMAIN Nodes /\ Rank[n] < Rank[target] /\ Rank \in [DOMAIN Nodes -> Nat]
  <2>1. target \in localTargets(n)
    BY <1>1 DEF localTargets
  <2> QED
    BY <2>1, RankOrders DEF Ordered, Whole
<1> HIDE DEF d
<1> DEFINE now == Steps(r, DOMAIN d.frames \cup d.pending)
           ever == Steps(r, DOMAIN d.frames \cup d.pending \cup H)
           own == d.frames[r]
           next == frame(target)
<1>5. /\ own.ready = {} /\ now = {} /\ DOMAIN own = {"ready", "results"}
      /\ r \in DOMAIN d.frames /\ IsRegion(r)
      /\ \A m \in ever : m \in DOMAIN Nodes /\ (m = n \/ Rank[m] < Rank[n])
      /\ Good(d, H)
  BY <1>3 DEF Opens, Vacant
<1>6. next.ready = {target} /\ next.results = own.results /\ DOMAIN next = {"ready", "results"}
  BY <1>5
<1> HIDE DEF now, ever, own, next
<1>7. RegionFits(next, now, ever)
  <2>1. \A m \in ever : m \in DOMAIN Nodes /\ Rank[m] < Rank[target]
    BY <1>4, <1>5
  <2> QED
    BY <1>4, <1>5, <1>6, <2>1 DEF RegionFits
<1>8. Suits(d, H, r, next)
  <2>1. Fits(r, next, now, ever)
    BY <1>5, <1>7 DEF Fits
  <2>2. Settled(r, own, next)
    BY <1>5, <1>6 DEF Settled, Extends
  <2> QED
    BY <1>5, <2>1, <2>2 DEF Suits, now, ever, own
<1> DEFINE e == SetFrame(d, r, next)
<1>9. Grows(Entered, e, H) /\ Good(e, H)
  <2>1. Grows(d, e, H)
    BY <1>5, <1>8, GrowsFrame DEF Sets
  <2> HIDE DEF e
  <2> QED
    BY <1>3, <2>1, GrowsTransitive
<1>10. Commit(Enqueue(e, r))
  BY <1>2 DEF next
<1> HIDE DEF e
<1>11. Grows(Entered, Enqueue(e, r), H)
  <2>1. Grows(e, Enqueue(e, r), H)
    BY <1>9, GrowsUpdate
  <2> QED
    BY <1>9, <2>1, GrowsTransitive
<1> QED
  BY <1>10, <1>11, GrowsMoves

\* An end node of a region other than the root ends the region of a live
\* owner.
LEMMA EndsOwned ==
  ASSUME NEW H, Whole(H), NEW n \in DOMAIN Nodes, NEW kind, EndOf(n, kind),
         NEW r, r = Head(queue), NEW o, o = OwnerOf(r)
  PROVE  /\ Acyclic /\ Good(Entered, H)
         /\ r \in DOMAIN Entered.frames /\ IsRegion(r) /\ r # Root
         /\ o \in DOMAIN Entered.frames /\ ~IsRegion(o) /\ NodeAt(o).kind = kind
         /\ r = Append(o, Last(r)) /\ IsKey(o) /\ Last(o) \in DOMAIN Nodes
<1>1. AtNode(n, "end") /\ r # Root /\ NodeAt(o).kind = kind
  BY DEF EndOf
<1>2. r \in DOMAIN Entered.frames /\ IsRegion(r) /\ Acyclic /\ Good(Entered, H)
  BY <1>1, NodeTaken DEF Whole
<1> QED
  BY <1>1, <1>2, OwnedRegion

\* Finishing an owner with an outcome it routes moves.
LEMMA FinishMoves ==
  ASSUME NEW H, Whole(H), NEW o, ~IsRegion(o), NEW st, NEW target \in localTargets(Last(o)),
         Commit(finishOwner(Entered, o, st, target))
  PROVE  Moves(H)
<1>1. Grows(Entered, finishOwner(Entered, o, st, target), H)
  BY GrowsOwner DEF Whole
<1> QED
  BY <1>1, GrowsMoves

\* The end of a called pipeline moves.
LEMMA EndCallMoves ==
  ASSUME NEW H, Whole(H), NEW n \in DOMAIN Nodes, EndCall(n)
  PROVE  Moves(H)
<1> DEFINE o == OwnerOf(Head(queue))
<1>1. /\ EndOf(n, "call")
      /\ \/ /\ Nodes[n].outcome \in DOMAIN NodeAt(o).outcomes
            /\ Commit(finishOwner(Entered, o, "succeeded", NodeAt(o).outcomes[Nodes[n].outcome]))
         \/ Commit(finishOwner(Entered, o, "failed", NodeAt(o).failed))
  BY Zenon DEF EndCall
<1>2. ~IsRegion(o) /\ NodeAt(o).kind = "call"
  BY <1>1, EndsOwned
<1>3. /\ NodeAt(o).failed \in localTargets(Last(o))
      /\ Nodes[n].outcome \in DOMAIN NodeAt(o).outcomes =>
           NodeAt(o).outcomes[Nodes[n].outcome] \in localTargets(Last(o))
  BY <1>2 DEF localTargets, Image, NodeAt
<1> HIDE DEF o
<1> QED
  BY <1>1, <1>2, <1>3, FinishMoves

\* The end of a loop by a failure or a cancellation moves.
LEMMA EndRepeatMoves ==
  ASSUME NEW H, Whole(H), NEW n \in DOMAIN Nodes, EndRepeat(n)
  PROVE  Moves(H)
<1> DEFINE o == OwnerOf(Head(queue))
<1>1. /\ EndOf(n, "repeat")
      /\ \E st : \/ Commit(finishOwner(Entered, o, st, NodeAt(o).failed))
                 \/ Commit(finishOwner(Entered, o, st, NodeAt(o).cancelled))
  BY Zenon DEF EndRepeat
<1>2. ~IsRegion(o) /\ NodeAt(o).kind = "repeat"
  BY <1>1, EndsOwned
<1>3. NodeAt(o).failed \in localTargets(Last(o)) /\ NodeAt(o).cancelled \in localTargets(Last(o))
  BY <1>2 DEF localTargets, NodeAt
<1> HIDE DEF o
<1> QED
  BY <1>1, <1>2, <1>3, FinishMoves

\* The end of a branch moves.
LEMMA EndBranchMoves ==
  ASSUME NEW H, Whole(H), NEW n \in DOMAIN Nodes, EndBranch(n)
  PROVE  Moves(H)
<1> DEFINE r == Head(queue)
<1>1. /\ EndOf(n, "parallel")
      /\ \E class : Commit(completeParallelBranch(Entered, r, class, NoCleanup))
  BY Zenon DEF EndBranch
<1>2. PICK class : Commit(completeParallelBranch(Entered, r, class, NoCleanup))
  BY <1>1
<1>3. /\ Good(Entered, H) /\ r \in DOMAIN Entered.frames /\ IsRegion(r) /\ r # Root
      /\ NodeAt(OwnerOf(r)).kind = "parallel"
  BY <1>1, EndsOwned
<1>4. ~Requested(NoCleanup)
  BY DEF Requested, NoCleanup
<1>5. Grows(Entered, completeParallelBranch(Entered, r, class, NoCleanup), H)
  BY <1>3, <1>4, GrowsBranch
<1> QED
  BY <1>2, <1>5, GrowsMoves

\* The end of a map item moves.
LEMMA EndItemMoves ==
  ASSUME NEW H, Whole(H), NEW n \in DOMAIN Nodes, EndItem(n)
  PROVE  Moves(H)
<1> DEFINE r == Head(queue)
<1>1. /\ EndOf(n, "map")
      /\ \E class : Commit(completeMapItem(Entered, r, class, NoCleanup))
  BY Zenon DEF EndItem
<1>2. PICK class : Commit(completeMapItem(Entered, r, class, NoCleanup))
  BY <1>1
<1>3. /\ Good(Entered, H) /\ r \in DOMAIN Entered.frames /\ IsRegion(r) /\ r # Root
      /\ NodeAt(OwnerOf(r)).kind = "map"
  BY <1>1, EndsOwned
<1>4. Grows(Entered, completeMapItem(Entered, r, class, NoCleanup), H)
  BY <1>3, GrowsItem
<1> QED
  BY <1>2, <1>4, GrowsMoves

\* A region with a ready node has nothing pending below it.
LEMMA NothingPendingHere ==
  ASSUME NEW d, NEW H, Good(d, H), NEW r \in DOMAIN d.frames, IsRegion(r), d.frames[r].ready # {}
  PROVE  ~HasPending(d, r)
<1>1. Steps(r, DOMAIN d.frames \cup d.pending) = {}
  BY DEF Good, Tree, Fits, RegionFits
<1>2. ASSUME NEW op \in d.pending, IsPrefix(r, op)
      PROVE  FALSE
  <2>1. IsKey(r) /\ IsKey(op) /\ ~IsRegion(op)
    BY DEF Good, Tree, Keyed
  <2>2. r # op
    BY <2>1
  <2>3. Below(r, op)
    BY <1>2, <2>2 DEF Below, IsStrictPrefix
  <2> QED
    BY <1>1, <2>3 DEF Steps
<1> QED
  BY <1>2 DEF HasPending

\* The next body of a loop gets a number no body had.
LEMMA DevelopsIteration ==
  ASSUME NEW d, NEW H, Good(d, H), d.cancel = NoOwner,
         NEW o \in DOMAIN d.frames, ~IsRegion(o), NodeAt(o).kind = "repeat",
         NEW body, NEW last, body = Append(o, last), Front(body) = o, ~HasPending(d, body),
         NEW e, e = startNextBody(d, body)
  PROVE  Develops(d, e, H)
<1> DEFINE pruned == PruneTrees(d, {body})
           own == d.frames[o]
           next == [own EXCEPT !.iteration = @ + 1]
           moved == SetFrame(pruned, o, next)
           c == next.iteration
           ever(f) == Steps(o, DOMAIN f.frames \cup f.pending \cup H)
           now(f) == Steps(o, DOMAIN f.frames \cup f.pending)
<1>1. Drops(d, H, o, {last}, pruned) /\ pruned.cancel = NoOwner
  <2>1. Idles(d, o, {last}, {body})
    BY DEF Idles
  <2>2. IsDraft(d)
    BY DEF Good
  <2> QED
    BY <2>1, <2>2, DropsChildren, PruneShape
<1>2. e = AddRegion(moved, Append(o, c), NodeAt(o).region)
  BY DEF startNextBody, OwnerOf
<1>3. RepeatFits(own, ever(d)) /\ Last(o) \in DOMAIN Nodes
  BY DEF Good, Tree, Fits
<1> HIDE DEF pruned
<1>4. o \in DOMAIN pruned.frames /\ pruned.frames[o] = own /\ Grows(d, pruned, H)
      /\ ever(pruned) \subseteq ever(d)
  BY <1>1 DEF Drops
<1>5. /\ own.iteration \in Nat /\ c = own.iteration + 1 /\ DOMAIN next = {"kind", "iteration"}
      /\ next.iteration = c
  BY <1>3 DEF RepeatFits
<1> HIDE DEF own, next, c
<1>6. Fits(o, next, now(pruned), ever(pruned))
  <2> DEFINE past == ever(pruned)
             live == now(pruned)
  <2>1. \A i \in past : i \in Nat /\ i <= own.iteration
    BY <1>3, <1>4 DEF RepeatFits
  <2> HIDE DEF past, live
  <2>2. RepeatFits(next, past)
    BY <1>5, <2>1 DEF RepeatFits
  <2>3. Fits(o, next, live, past)
    BY <1>3, <2>2 DEF Fits
  <2> QED
    BY <2>3 DEF past, live
<1>7. Good(pruned, H) /\ Suits(pruned, H, o, next)
  <2>1. Settled(o, own, next)
    BY DEF Settled
  <2>2. Good(pruned, H)
    BY <1>4, GrowsTransitive
  <2> QED
    BY <1>4, <1>6, <2>1, <2>2 DEF Suits
<1>8. Sets(pruned, H, o, next, moved)
  BY <1>7, GrowsFrame
<1> HIDE DEF moved
<1>9. /\ Grows(d, moved, H) /\ Good(moved, H) /\ moved.cancel = NoOwner
      /\ o \in DOMAIN moved.frames /\ moved.frames[o] = next /\ ever(moved) \subseteq ever(d)
  <2>1. Grows(pruned, moved, H)
    BY <1>8 DEF Sets
  <2>2. Grows(d, moved, H)
    BY <1>4, <2>1, GrowsTransitive
  <2>3. Good(moved, H)
    BY <2>2, GrowsTransitive
  <2> QED
    BY <1>1, <1>4, <1>8, <2>2, <2>3 DEF Sets
<1>10. Fresh(moved, H, o, {c})
  <2> DEFINE past == ever(moved)
             live == now(moved)
  <2>4. \A i \in past : i \in Nat /\ i <= own.iteration
    BY <1>3, <1>9 DEF RepeatFits
  <2> HIDE DEF past, live
  <2>1. c \notin past
    BY <1>5, <2>4
  <2>2. RepeatFits(next, past \cup {c})
    BY <1>5, <2>4 DEF RepeatFits
  <2>3. Fits(o, moved.frames[o], live \cup {c}, past \cup {c})
    BY <1>3, <1>9, <2>2 DEF Fits
  <2> QED
    BY <1>9, <2>1, <2>3 DEF Fresh, Free, past, live
<1> HIDE DEF now, ever
<1> DEFINE regions == [k \in {Append(o, c)} |-> NodeAt(o).region]
           keys == <<Append(o, c)>>
           C == {c}
<1>11. e = AddRegions(moved, regions, keys)
  BY <1>2 DEF AddRegion
<1>12. DOMAIN regions = ChildrenOf(o, C) /\ Fresh(moved, H, o, C)
  BY <1>10 DEF ChildrenOf
<1> HIDE DEF regions, keys, C
<1>13. Develops(moved, e, H)
  BY <1>9, <1>11, <1>12, DevelopsRegions DEF Adds
<1> QED
  BY <1>9, <1>13, GrowsTransitive

\* The end of an iteration moves.
LEMMA EndIterationMoves ==
  ASSUME NEW H, Whole(H), NEW n \in DOMAIN Nodes, EndIteration(n)
  PROVE  Moves(H)
<1> DEFINE body == Head(queue)
           o == OwnerOf(body)
           node == NodeAt(o)
<1>1. /\ EndOf(n, "repeat")
      /\ \/ Commit(finishOwner(Entered, o, "failed", node.failed))
         \/ Commit(finishOwner(Entered, o, "succeeded", node.exhausted))
         \/ Commit(finishOwner(Entered, o, "succeeded", node.completed))
         \/ Commit(startNextBody(Entered, body))
  BY Zenon DEF EndIteration
<1>2. /\ Good(Entered, H) /\ o \in DOMAIN Entered.frames /\ ~IsRegion(o)
      /\ NodeAt(o).kind = "repeat" /\ body = Append(o, Last(body)) /\ IsKey(o)
      /\ body \in DOMAIN Entered.frames /\ IsRegion(body)
  BY <1>1, EndsOwned
<1>3. AtNode(n, "end")
  BY <1>1 DEF EndOf
<1>4. /\ node.failed \in localTargets(Last(o)) /\ node.exhausted \in localTargets(Last(o))
      /\ node.completed \in localTargets(Last(o))
  BY <1>2 DEF localTargets, NodeAt
<1>5. CASE Commit(startNextBody(Entered, body))
  <2>1. n \in Entered.frames[body].ready
    BY <1>3, NodeTaken, EnteredIsDraft
  <2>2. ~HasPending(Entered, body)
    BY <1>2, <2>1, NothingPendingHere
  <2>3. Front(body) = o
    BY <1>2, KeyAppend
  <2>4. Entered.cancel = NoOwner
    BY DEF Whole
  <2> DEFINE e == startNextBody(Entered, body)
             last == Last(body)
  <2>5. body = Append(o, last)
    BY <1>2
  <2> HIDE DEF last, o, body
  <2>6. Develops(Entered, e, H)
    BY <1>2, <2>2, <2>3, <2>4, <2>5, DevelopsIteration
  <2>7. Commit(e)
    BY <1>5
  <2> HIDE DEF e
  <2> QED
    BY <2>6, <2>7, EnteredMoves
<1>6. CASE \/ Commit(finishOwner(Entered, o, "failed", node.failed))
           \/ Commit(finishOwner(Entered, o, "succeeded", node.exhausted))
           \/ Commit(finishOwner(Entered, o, "succeeded", node.completed))
  <2> HIDE DEF o, node
  <2> QED
    BY <1>2, <1>4, <1>6, FinishMoves
<1> QED
  BY <1>1, <1>5, <1>6

-----------------------------------------------------------------------------
(*****************************************************************************)
(* Settling an owner.                                                        *)
(*****************************************************************************)
\* Nothing is live below owner o.
Alone(d, o) == Steps(o, DOMAIN d.frames \cup d.pending) = {}

\* An owner with nothing below it leaves its region vacant.
LEMMA WithoutOwner ==
  ASSUME Acyclic, NEW d, NEW H, Good(d, H), NEW o \in DOMAIN d.frames, ~IsRegion(o), Alone(d, o),
         NEW e, e = Without(d, o)
  PROVE  /\ Grows(d, e, H) /\ Good(e, H)
         /\ IsRegion(RegionOf(o)) /\ Last(o) \in DOMAIN Nodes
         /\ Vacant(e, H, RegionOf(o), Last(o))
<1> DEFINE F == d.frames
           P == d.pending
           G == [k \in DOMAIN F \ {o} |-> F[k]]
<1>1. /\ IsDraft(d) /\ Tree(F, P, H) /\ DOMAIN F \subseteq H /\ Keyed(F, P, H) /\ Leaves(F, P)
      /\ Last(o) \in DOMAIN Nodes
  BY DEF Good, Tree, Fits
<1>2. IsKey(o) /\ \A x \in DOMAIN F \cup P : IsKey(x)
  BY <1>1 DEF Keyed
<1>3. \A x \in DOMAIN F \cup P : ~Below(o, x)
  BY DEF Alone, Steps
<1>4. IsPrefix(o, o) /\ \A x \in DOMAIN F \cup P : IsPrefix(o, x) => x = o
  BY <1>2, <1>3, PrefixItself DEF Below, IsStrictPrefix
<1>5. {k \in DOMAIN F : \E r \in {o} : IsPrefix(r, k)} = {o}
  BY <1>4
<1>6. \A r \in {o} : IsKey(r) /\ \A op \in P : ~IsPrefix(r, op)
  BY <1>1, <1>2, <1>4 DEF Leaves
<1>7. e.frames = G /\ e.pending = P /\ e.cancel = d.cancel /\ Derived(d, e)
  BY <1>1 DEF Without, IsDraft, DraftFields, Derived
<1>8. Tree(G, P, H) /\ Evolves(F, G, H)
  <2> DEFINE roots == {o}
             gone == {k \in DOMAIN F : \E r \in roots : IsPrefix(r, k)}
  <2>1. G = [k \in DOMAIN F \ gone |-> F[k]]
    BY <1>5
  <2>2. \A r \in roots : IsKey(r) /\ \A op \in P : ~IsPrefix(r, op)
    BY <1>6
  <2>3. Tree(F, P, H) /\ gone = {k \in DOMAIN F : \E r \in roots : IsPrefix(r, k)}
    BY <1>1
  <2> HIDE DEF roots, gone, F, P, G
  <2> QED
    BY <2>1, <2>2, <2>3, CutTree
<1>9. Grows(d, e, H)
  <2>1. DOMAIN e.frames \subseteq DOMAIN d.frames
    BY <1>7
  <2> QED
    BY <1>7, <1>8, <2>1, GrowsWith
<1>10. Good(e, H)
  BY <1>9, GrowsTransitive
<1>11. /\ \A y \in DOMAIN e.frames \cup e.pending : y \in DOMAIN F \cup P /\ ~IsPrefix(o, y)
       /\ \A k \in DOMAIN e.frames : k \in DOMAIN F /\ e.frames[k].ready = F[k].ready
  BY <1>4, <1>6, <1>7
<1> HIDE DEF F, P, G
<1>12. IsRegion(RegionOf(o)) /\ Vacant(e, H, RegionOf(o), Last(o))
  <2>1. o \in DOMAIN F \cup P
    BY DEF F
  <2> DEFINE n == Last(o)
             r == RegionOf(o)
  <2>2. n = Last(o) /\ r = RegionOf(o)
    OBVIOUS
  <2> HIDE DEF n, r
  <2> QED
    BY <1>1, <1>11, <2>1, <2>2, Vacates
<1> QED
  BY <1>1, <1>9, <1>10, <1>12

\* Its result may then be stored and routed, or fail or cancel its region.
LEMMA OwnerConcludes ==
  ASSUME Acyclic, NEW d, NEW H, Good(d, H), NEW o \in DOMAIN d.frames, ~IsRegion(o), Alone(d, o)
  PROVE  /\ Grows(d, Invalid(Without(d, o)), H)
         /\ \A st : \A target \in localTargets(Last(o)) :
              Grows(d, routeOwnedResult(Without(d, o), RegionOf(o), Last(o), st, target), H)
         /\ \A st \in {"failed", "cancelled"} : \A cleanup :
              Grows(d, completeRequestedCancellation(
                         storeOwnedResult(Without(d, o), RegionOf(o), Last(o), st),
                         RegionOf(o), st, cleanup), H)
<1> DEFINE r == RegionOf(o)
           n == Last(o)
           e == Without(d, o)
<1>1. Grows(d, e, H) /\ Good(e, H) /\ IsRegion(r) /\ n \in DOMAIN Nodes /\ Vacant(e, H, r, n)
  BY WithoutOwner
<1> HIDE DEF e, r
<1>2. \A f : Grows(e, f, H) => Grows(d, f, H)
  BY <1>1, GrowsTransitive
<1>3. Grows(d, Invalid(e), H)
  BY <1>1, <1>2, GrowsUpdate
<1>4. ASSUME NEW st, NEW target \in localTargets(n)
      PROVE  Grows(d, routeOwnedResult(e, r, n, st, target), H)
  <2>1. Grows(e, routeOwnedResult(e, r, n, st, target), H)
    BY <1>1, GrowsRouted
  <2> QED
    BY <1>2, <2>1
<1>5. ASSUME NEW st \in {"failed", "cancelled"}, NEW cleanup
      PROVE  Grows(d, completeRequestedCancellation(storeOwnedResult(e, r, n, st), r, st, cleanup), H)
  <2> DEFINE f == storeOwnedResult(e, r, n, st)
  <2>1. Grows(e, f, H)
    BY <1>1, GrowsStored
  <2> HIDE DEF f
  <2>2. Good(f, H)
    BY <2>1, GrowsTransitive
  <2>3. Grows(f, completeRequestedCancellation(f, r, st, cleanup), H)
    BY <1>1, <2>2, GrowsCancellation
  <2>4. Grows(e, completeRequestedCancellation(f, r, st, cleanup), H)
    BY <2>1, <2>3, GrowsTransitive
  <2> QED
    BY <1>2, <2>4 DEF f
<1> QED
  BY <1>3, <1>4, <1>5 DEF e, r

\* Settling a parallel moves.
LEMMA SettleParallelMoves ==
  ASSUME NEW H, Whole(H), SettleParallel
  PROVE  Moves(H)
<1> DEFINE o == Head(queue)
           own == frames[o]
<1>1. /\ Executing /\ ~IsRegion(o) /\ NodeAt(o).kind = "parallel"
      /\ \/ Commit(Taken)
         \/ DOMAIN own.results = ToSet(NodeAt(o).order) /\ Commit(finishParallel(Taken, o))
  BY DEF SettleParallel
<1>2. Good(Taken, H) /\ Acyclic /\ Taken.frames = frames /\ o \in DOMAIN Taken.frames
  BY <1>1, TakenIsDraft DEF Whole, Executing
<1>3. CASE Commit(Taken)
  <2>1. Grows(Taken, Taken, H)
    BY <1>2, GrowsUpdate
  <2> QED
    BY <1>3, <2>1, GrowsMoves
<1>4. CASE DOMAIN own.results = ToSet(NodeAt(o).order) /\ Commit(finishParallel(Taken, o))
  <2> DEFINE e == finishParallel(Taken, o)
  <2>1. Alone(Taken, o)
    <3>1. ParallelFits(NodeAt(o), Taken.frames[o], Steps(o, DOMAIN Taken.frames \cup Taken.pending))
      BY <1>1, <1>2 DEF Good, Tree, Fits
    <3> QED
      BY <1>2, <1>4, <3>1 DEF ParallelFits, Alone
  <2>2. NodeAt(o).next \in localTargets(Last(o))
    BY <1>1 DEF localTargets, NodeAt
  <2> HIDE DEF o
  <2>3. Grows(Taken, e, H)
    <3>1. /\ Grows(Taken, Invalid(Without(Taken, o)), H)
          /\ Grows(Taken, routeOwnedResult(Without(Taken, o), RegionOf(o), Last(o), "succeeded",
                                           NodeAt(o).next), H)
          /\ Grows(Taken, completeRequestedCancellation(
                            storeOwnedResult(Without(Taken, o), RegionOf(o), Last(o), "cancelled"),
                            RegionOf(o), "cancelled", CleanupFor(o)), H)
      BY <1>1, <1>2, <2>1, <2>2, OwnerConcludes
    <3> QED
      BY <3>1, Zenon DEF finishParallel
  <2>4. Commit(e)
    BY <1>4 DEF o
  <2> HIDE DEF e
  <2> QED
    BY <2>3, <2>4, GrowsMoves
<1> QED
  BY <1>1, <1>3, <1>4

\* Settling a map whose items are all completed keeps the tree.
LEMMA FinishMapGrows ==
  ASSUME Acyclic, NEW d, NEW H, Good(d, H), NEW o \in DOMAIN d.frames, ~IsRegion(o),
         NodeAt(o).kind = "map", d.frames[o].active = {}
  PROVE  Grows(d, finishMap(d, o), H)
<1>1. Alone(d, o)
  <2>1. MapFits(NodeAt(o), d.frames[o], Steps(o, DOMAIN d.frames \cup d.pending),
                Steps(o, DOMAIN d.frames \cup d.pending \cup H))
    BY DEF Good, Tree, Fits
  <2> QED
    BY <2>1 DEF MapFits, Alone
<1>2. NodeAt(o).failed \in localTargets(Last(o)) /\ NodeAt(o).completed \in localTargets(Last(o))
  BY DEF localTargets, NodeAt
<1> DEFINE st == IF d.frames[o].selected = "failed" THEN "failed" ELSE "cancelled"
<1>3. st \in {"failed", "cancelled"}
  OBVIOUS
<1>4. /\ Grows(d, Invalid(Without(d, o)), H)
      /\ Grows(d, routeOwnedResult(Without(d, o), RegionOf(o), Last(o), "failed",
                                   NodeAt(o).failed), H)
      /\ Grows(d, routeOwnedResult(Without(d, o), RegionOf(o), Last(o), "succeeded",
                                   NodeAt(o).completed), H)
      /\ Grows(d, completeRequestedCancellation(
                    storeOwnedResult(Without(d, o), RegionOf(o), Last(o), st),
                    RegionOf(o), st, CleanupFor(o)), H)
  <2> HIDE DEF st
  <2> QED
    BY <1>1, <1>2, <1>3, OwnerConcludes
<1> QED
  BY <1>4, Zenon DEF finishMap

\* Cancelling what a map did not start keeps the tree.
LEMMA MapCloses ==
  ASSUME NEW d, NEW H, Good(d, H), NEW o \in DOMAIN d.frames, ~IsRegion(o),
         NodeAt(o).kind = "map",
         NEW e, e = SetFrame(d, o, locallyCancelUnstarted(d.frames[o]))
  PROVE  Grows(d, e, H) /\ o \in DOMAIN e.frames /\ e.frames[o].selected = d.frames[o].selected
<1> DEFINE own == d.frames[o]
           frame == locallyCancelUnstarted(own)
           now == Steps(o, DOMAIN d.frames \cup d.pending)
           ever == Steps(o, DOMAIN d.frames \cup d.pending \cup H)
<1>1. Fits(o, own, now, ever) /\ Last(o) \in DOMAIN Nodes
  BY DEF Good, Tree, Fits
<1> HIDE DEF now, ever
<1>2. MapFits(NodeAt(o), own, now, ever)
  BY <1>1 DEF Fits
<1>3. Retires(own, frame)
  BY <1>2, RetiresUnstarted
<1>4. frame.active = own.active /\ frame.selected = own.selected
  BY <1>2 DEF MapFits, locallyCancelUnstarted
<1> HIDE DEF own, frame
<1>5. Fits(o, frame, now, ever) /\ Settled(o, own, frame)
  <2>1. now \in SUBSET (now \ (own.active \ frame.active)) /\ ever \in SUBSET ever
    BY <1>4
  <2> QED
    BY <1>1, <1>3, <2>1, MapRetires
<1>6. Suits(d, H, o, frame)
  BY <1>5 DEF Suits, own, now, ever
<1>7. e = SetFrame(d, o, frame)
  BY DEF frame, own
<1>8. Sets(d, H, o, frame, e)
  BY <1>6, <1>7, GrowsFrame
<1> QED
  BY <1>4, <1>8 DEF Sets, own

\* Settling a map moves.
LEMMA SettleMapMoves ==
  ASSUME NEW H, Whole(H), SettleMap
  PROVE  Moves(H)
<1> DEFINE o == Head(queue)
           own == frames[o]
           closed == SetFrame(Taken, o, locallyCancelUnstarted(own))
           stopped == [locallyCancelIdleActive(closed, o) EXCEPT !.cancel = o]
           settles(e) == \/ Commit(e)
                         \/ e.frames[o].active = {} /\ Commit(finishMap(e, o))
<1>1. /\ Executing /\ ~IsRegion(o) /\ NodeAt(o).kind = "map"
      /\ \/ own.selected # None /\ settles(stopped)
         \/ settles(closed)
         \/ settles(refill(Taken, o))
         \/ settles(Taken)
  <2> DEFINE owner == CASE own.selected # None /\ own.status = "cancelling" -> stopped
                        [] own.selected # None /\ own.status # "cancelling" -> closed
                        [] own.selected = None /\ own.unstarted # <<>> -> refill(Taken, o)
                        [] OTHER -> Taken
             waiting == \/ owner.frames[o].active # {}
                        \/ owner.frames[o].unstarted # <<>>
                        \/ o \in DOMAIN regionCancellations
  <2>1. /\ Executing /\ ~IsRegion(o) /\ NodeAt(o).kind = "map"
        /\ Commit(IF waiting THEN owner ELSE finishMap(owner, o))
    BY Zenon DEF SettleMap
  <2>4. ~waiting => owner.frames[o].active = {}
    BY Zenon
  <2>2. settles(owner)
    <3> HIDE DEF owner, waiting
    <3>1. waiting => Commit(owner)
      BY <2>1
    <3>2. ~waiting => Commit(finishMap(owner, o))
      BY <2>1
    <3> QED
      BY <2>4, <3>1, <3>2
  <2> HIDE DEF waiting, settles, stopped, closed, own
  <2>3. \/ own.selected # None /\ owner = stopped
        \/ owner = closed \/ owner = refill(Taken, o) \/ owner = Taken
    OBVIOUS
  <2> HIDE DEF owner
  <2> QED
    BY <2>1, <2>2, <2>3
<1>2. /\ Good(Taken, H) /\ Acyclic /\ Taken.frames = frames /\ o \in DOMAIN Taken.frames
      /\ Taken.cancel = NoOwner
  BY <1>1, TakenIsDraft DEF Whole, Executing
<1>3. ASSUME NEW e, Develops(Taken, e, H), o \in DOMAIN e.frames, settles(e)
      PROVE  Moves(H)
  <2>1. CASE Commit(e)
    BY <1>3, <2>1, EnteredMoves
  <2>2. CASE e.frames[o].active = {} /\ Commit(finishMap(e, o))
    <3> DEFINE I == H \cup DOMAIN e.frames
    <3>1. Good(e, I) /\ \A f : Develops(e, f, I) => Develops(Taken, f, H)
      BY <1>3, DevelopsTransitive
    <3> HIDE DEF I, o
    <3>2. Grows(e, finishMap(e, o), I)
      BY <1>1, <1>2, <1>3, <2>2, <3>1, FinishMapGrows
    <3>3. Develops(Taken, finishMap(e, o), H)
      BY <3>1, <3>2 DEF Grows
    <3> QED
      BY <2>2, <3>3, EnteredMoves
  <2> QED
    BY <1>3, <2>1, <2>2
<1> HIDE DEF settles
<1>4. Grows(Taken, closed, H) /\ o \in DOMAIN closed.frames /\ closed.frames[o].selected = own.selected
  <2> HIDE DEF o
  <2> QED
    BY <1>1, <1>2, MapCloses
<1>5. CASE own.selected # None /\ settles(stopped)
  <2> DEFINE idle == locallyCancelIdleActive(closed, o)
  <2>1. Good(closed, H)
    BY <1>4, GrowsTransitive
  <2> HIDE DEF closed, o
  <2>2. Grows(closed, idle, H) /\ o \in DOMAIN idle.frames /\ idle.frames[o].selected = closed.frames[o].selected
    BY <1>1, <1>4, <2>1, GrowsStopItems
  <2> HIDE DEF idle
  <2>3. Grows(Taken, idle, H)
    BY <1>4, <2>2, GrowsTransitive
  <2>4. Grows(Taken, stopped, H)
    BY <1>1, <1>4, <1>5, <2>2, <2>3, GrowsCancel DEF idle
  <2>5. o \in DOMAIN stopped.frames
    <3>1. IsDraft(idle)
      BY <2>3, GrowsTransitive DEF Good
    <3>2. stopped.frames = idle.frames
      BY <3>1 DEF IsDraft, DraftFields, idle
    <3> QED
      BY <2>2, <3>2
  <2> HIDE DEF stopped
  <2> QED
    BY <1>3, <1>5, <2>4, <2>5 DEF Grows
<1>6. CASE settles(closed)
  BY <1>3, <1>4, <1>6 DEF Grows
<1>7. CASE settles(refill(Taken, o))
  <2> DEFINE e == refill(Taken, o)
  <2>1. Develops(Taken, e, H) /\ o \in DOMAIN e.frames
    <3> HIDE DEF o
    <3> QED
      BY <1>1, <1>2, DevelopsRefill
  <2> QED
    BY <1>3, <1>7, <2>1
<1>8. CASE settles(Taken)
  <2>1. Grows(Taken, Taken, H)
    BY <1>2, GrowsUpdate
  <2> QED
    BY <1>2, <1>3, <1>8, <2>1 DEF Grows
<1> QED
  BY <1>1, <1>5, <1>6, <1>7, <1>8

-----------------------------------------------------------------------------
(*****************************************************************************)
(* Applying an event.                                                        *)
(*****************************************************************************)
\* Every answer routes along a transition of its node, or fails the region.
LEMMA AnswersRoute ==
  ASSUME NEW op, NodeAt(op).kind \in OperationKinds, NEW a \in Answers(op)
  PROVE  a.target = None \/ a.target \in localTargets(Last(op))
<1> DEFINE node == NodeAt(op)
           to == localTargets(Last(op))
<1>1. CASE node.kind = "activity"
  <2>1. a \in activityResult(node)
    BY <1>1 DEF Answers
  <2>2. to = {node.succeeded, node.failed, node.cancelled}
    BY <1>1 DEF localTargets, NodeAt
  <2> HIDE DEF node
  <2> QED
    BY <2>1, <2>2 DEF activityResult, Answer
<1>2. CASE node.kind = "wait"
  <2>1. a \in waitResult(node)
    BY <1>2 DEF Answers
  <2>2. to = {node.completed, node.cancelled}
    BY <1>2 DEF localTargets, NodeAt
  <2> HIDE DEF node
  <2> QED
    BY <2>1, <2>2 DEF waitResult, Answer
<1>3. CASE node.kind = "humanGate"
  <2>1. a \in gateResult(node)
    BY <1>3 DEF Answers
  <2>2. to = Image(node.answers) \cup ({node.deadline} \ {None}) \cup {node.cancelled}
    BY <1>3 DEF localTargets, NodeAt
  <2> HIDE DEF node
  <2>3. \/ \E x \in DOMAIN node.answers : a.target = node.answers[x]
        \/ a.target = node.cancelled
        \/ node.deadline # None /\ a.target = node.deadline
    BY <2>1 DEF gateResult, Answer
  <2> QED
    BY <2>2, <2>3 DEF Image
<1> QED
  BY <1>1, <1>2, <1>3 DEF OperationKinds

\* The draft an event starts from: its operation is not pending any more.
AnswerDraft(op) == [Draft EXCEPT !.pending = withoutOperation(op),
                                 !.work = indexWork + 1 + acknowledgementWork(op)]

\* The region of the answered operation is vacant.
LEMMA AnswerVacates ==
  ASSUME Acyclic, NEW H, Tree(frames, pending, H), DOMAIN frames \subseteq H,
         NEW op \in pending, NEW d, d = AnswerDraft(op)
  PROVE  /\ Good(d, H) /\ d.frames = frames /\ d.pending = pending \ {op}
         /\ IsRegion(RegionOf(op)) /\ RegionOf(op) \in DOMAIN frames
         /\ Last(op) \in DOMAIN Nodes /\ NodeAt(op).kind \in OperationKinds
         /\ Vacant(d, H, RegionOf(op), Last(op))
<1>1. IsDraft(d) /\ d.frames = frames /\ d.pending = pending \ {op} /\ d.cancel = NoOwner
  BY DraftIsDraft DEF IsDraft, DraftFields, withoutOperation, Draft, AnswerDraft
<1>2. Tree(frames, pending \ {op}, H)
  BY SmallerTree
<1>3. /\ IsKey(op) /\ Len(op) >= 2 /\ ~IsRegion(op) /\ Last(op) \in DOMAIN Nodes
      /\ NodeAt(op).kind \in OperationKinds
      /\ \A k \in DOMAIN frames : Len(k) >= 1
      /\ \A k \in DOMAIN frames \cup pending : IsKey(k)
      /\ Closed(frames, pending) /\ Leaves(frames, pending)
  BY DEF Tree, Keyed
<1>4. IsKey(NoOwner) /\ NoOwner \notin DOMAIN frames
  BY <1>3 DEF NoOwner, IsKey
<1>5. Good(d, H)
  BY <1>1, <1>2, <1>4 DEF Good, Closes
<1>6. \A y \in DOMAIN frames \cup pending : IsPrefix(op, y) => y = op
  BY <1>3 DEF Leaves, Below, IsStrictPrefix
<1>7. /\ \A y \in DOMAIN d.frames \cup d.pending :
           y \in DOMAIN frames \cup pending /\ ~IsPrefix(op, y)
      /\ \A k \in DOMAIN d.frames : k \in DOMAIN frames /\ d.frames[k].ready = frames[k].ready
  BY <1>1, <1>3, <1>6 DEF Leaves
<1> DEFINE r == RegionOf(op)
           n == Last(op)
<1>8. IsRegion(r) /\ IsKey(r) /\ op = Append(r, n) /\ Vacant(d, H, r, n)
  <2> DEFINE F == frames
             P == pending
  <2>1. op \in DOMAIN F \cup P /\ n = Last(op) /\ r = RegionOf(op) /\ Tree(F, P, H)
    OBVIOUS
  <2>2. /\ \A y \in DOMAIN d.frames \cup d.pending : y \in DOMAIN F \cup P /\ ~IsPrefix(op, y)
        /\ \A k \in DOMAIN d.frames : k \in DOMAIN F /\ d.frames[k].ready = F[k].ready
    BY <1>7
  <2> HIDE DEF r, n, F, P
  <2> QED
    BY <1>3, <2>1, <2>2, Vacates
<1> HIDE DEF r, n
<1>9. r \in DOMAIN frames
  <2>1. Len(r) >= 1
    BY <1>3, KeyFront DEF RegionOf, r
  <2>2. Below(r, op)
    BY <1>8, BelowChild, PrefixItself
  <2> QED
    BY <1>3, <1>8, <2>1, <2>2, ClosedAbove
<1> QED
  BY <1>1, <1>3, <1>5, <1>8, <1>9 DEF r, n

\* A late answer below a closing owner keeps the tree.
LEMMA CleanupGrows ==
  ASSUME NEW d, NEW H, Good(d, H), NEW op, IsRegion(RegionOf(op)), NEW a, NEW cleanup,
         NEW e, e = storeCleanupResult(d, op, a, cleanup)
  PROVE  Grows(d, e, H)
<1> DEFINE r == RegionOf(op)
           stored == storePendingNodeResult(d, r, Last(op), a.result)
           charged == Charge(stored, 1)
           st == IF a.result = "failed" THEN "failed" ELSE "cancelled"
           handed == completeRequestedCancellation(charged, r, st, cleanup)
<1>1. e = stored \/ e = handed
  BY Zenon DEF storeCleanupResult
<1>2. Grows(d, stored, H)
  BY GrowsStored
<1>3. st \in {"failed", "cancelled"}
  OBVIOUS
<1> HIDE DEF stored, st, r
<1>4. Good(stored, H)
  BY <1>2, GrowsTransitive
<1>5. Grows(stored, charged, H)
  BY <1>4, GrowsUpdate
<1>6. Grows(d, charged, H)
  BY <1>2, <1>5, GrowsTransitive
<1> HIDE DEF charged
<1>7. Good(charged, H)
  BY <1>6, GrowsTransitive
<1>8. Grows(charged, handed, H)
  BY <1>3, <1>7, GrowsCancellation DEF r
<1>9. Grows(d, handed, H)
  BY <1>6, <1>8, GrowsTransitive
<1> QED
  BY <1>1, <1>2, <1>9

\* An ordinary answer keeps the tree.
LEMMA OrdinaryGrows ==
  ASSUME Acyclic, NEW d, NEW H, Good(d, H), NEW op, IsRegion(RegionOf(op)),
         RegionOf(op) \in DOMAIN d.frames, Last(op) \in DOMAIN Nodes,
         Vacant(d, H, RegionOf(op), Last(op)), NEW a,
         a.target = None \/ a.target \in localTargets(Last(op)), NEW run,
         NEW e, e = applyOrdinaryResult(d, op, a, run)
  PROVE  Grows(d, e, H)
<1> DEFINE r == RegionOf(op)
           n == Last(op)
           stored == storePendingNodeResult(d, r, n, "failed")
           recorded == recordPendingNodeResult(d, r, n, a.result, a.target)
           routed == Charge(recorded, 1)
<1>1. CASE a.target = None
  <2>1. e = Charge(stored, 1) \/ e = completeFailedRegion(d, r)
    BY <1>1, Zenon DEF applyOrdinaryResult, brokenRegion
  <2>2. Grows(d, stored, H)
    BY GrowsStored
  <2>3. Grows(d, completeFailedRegion(d, r), H)
    BY GrowsFailedRegion
  <2> HIDE DEF stored
  <2>4. Good(stored, H)
    BY <2>2, GrowsTransitive
  <2>5. Grows(stored, Charge(stored, 1), H)
    BY <2>4, GrowsUpdate
  <2>6. Grows(d, Charge(stored, 1), H)
    BY <2>2, <2>5, GrowsTransitive
  <2> QED
    BY <2>1, <2>3, <2>6
<1>2. CASE a.target # None
  <2>1. e = routed \/ e = Enqueue(routed, r)
    BY <1>2, Zenon DEF applyOrdinaryResult
  <2>2. Grows(d, recorded, H)
    BY <1>2, GrowsRouted
  <2> HIDE DEF recorded
  <2>3. Good(recorded, H)
    BY <2>2, GrowsTransitive
  <2>4. Grows(recorded, routed, H)
    BY <2>3, GrowsUpdate
  <2>5. Grows(d, routed, H)
    BY <2>2, <2>4, GrowsTransitive
  <2> HIDE DEF routed
  <2>6. Good(routed, H)
    BY <2>5, GrowsTransitive
  <2>7. Grows(routed, Enqueue(routed, r), H)
    BY <2>6, GrowsUpdate
  <2>8. Grows(d, Enqueue(routed, r), H)
    BY <2>5, <2>7, GrowsTransitive
  <2> QED
    BY <2>1, <2>5, <2>8
<1> QED
  BY <1>1, <1>2

\* Applying an event keeps the tree.
LEMMA AppliedMoves ==
  ASSUME Acyclic, NEW H, Tree(frames, pending, H), DOMAIN frames \subseteq H,
         NEW op \in pending, NEW a \in Answers(op), NEW e, e = applied(op, a)
  PROVE  /\ Tree(e.frames, pending \ {op}, H)
         /\ Evolves(frames, e.frames, H)
         /\ Closes(e)
<1> DEFINE d == AnswerDraft(op)
           cleanup == cancellationsOf(op)
<1>1. \/ e = Invalid(d) \/ e = d
      \/ e = storeCleanupResult(d, op, a, cleanup)
      \/ e = applyOrdinaryResult(d, op, a, cleanup.run)
  BY Zenon DEF applied, AnswerDraft
<1>4. d = AnswerDraft(op)
  OBVIOUS
<1> HIDE DEF d, cleanup
<1>2. /\ Good(d, H) /\ d.frames = frames /\ d.pending = pending \ {op}
      /\ IsRegion(RegionOf(op)) /\ RegionOf(op) \in DOMAIN frames
      /\ Last(op) \in DOMAIN Nodes /\ NodeAt(op).kind \in OperationKinds
      /\ Vacant(d, H, RegionOf(op), Last(op))
  BY <1>4, AnswerVacates
<1>3. Grows(d, e, H)
  <2>1. CASE e = Invalid(d) \/ e = d
    <3>1. Grows(d, d, H) /\ Grows(d, Invalid(d), H)
      BY <1>2, GrowsUpdate
    <3> QED
      BY <2>1, <3>1
  <2>2. CASE e = storeCleanupResult(d, op, a, cleanup)
    BY <1>2, <2>2, CleanupGrows
  <2>3. CASE e = applyOrdinaryResult(d, op, a, cleanup.run)
    <3>1. a.target = None \/ a.target \in localTargets(Last(op))
      BY <1>2, AnswersRoute
    <3> QED
      BY <1>2, <2>3, <3>1, OrdinaryGrows
  <2> QED
    BY <1>1, <2>1, <2>2, <2>3
<1> QED
  BY <1>2, <1>3 DEF Grows, Develops, Derived

-----------------------------------------------------------------------------
(*****************************************************************************)
(* Region cancellations.                                                     *)
(*****************************************************************************)
\* A cancellation of owner o: it is alive, has selected, and what is awaited
\* is below it.
Cancelling(o, F, targets) ==
  /\ o \in DOMAIN F /\ ~IsRegion(o) /\ NodeAt(o).kind \in {"parallel", "map"}
  /\ F[o].selected # None
  /\ \A op \in targets : IsStrictPrefix(o, op)

\* Every region cancellation is one.
Cancels == \A o \in DOMAIN regionCancellations : Cancelling(o, frames, regionCancellations[o])

\* What a step does to the frames.
Shifts(F, G, P, H) ==
  /\ Tree(G, P, H) /\ Evolves(F, G, H)
  /\ DOMAIN F \subseteq H /\ \A k \in DOMAIN F : Len(k) >= 1

\* The owner of a cancellation lives as long as anything it awaits is
\* pending.
LEMMA CancellationKept ==
  ASSUME NEW F, NEW G, NEW P, NEW H, Shifts(F, G, P, H),
         NEW o, NEW targets, Cancelling(o, F, targets),
         NEW rest \in SUBSET (targets \cap P), rest # {}
  PROVE  Cancelling(o, G, rest)
<1>1. PICK op \in rest : op \in P /\ Below(o, op)
  BY DEF Cancelling, Below
<1>2. /\ o \in H /\ IsKey(o) /\ IsKey(op) /\ Len(o) >= 1 /\ Closed(G, P)
  BY <1>1 DEF Shifts, Cancelling, Tree, Keyed
<1>3. o \in DOMAIN G
  BY <1>1, <1>2, ClosedAbove
<1>4. Settled(o, F[o], G[o])
  BY <1>2, <1>3, PrefixItself DEF Shifts, Evolves
<1> QED
  BY <1>3, <1>4 DEF Cancelling, Settled

\* A handler asks only for operations below an owner that has selected.
LEMMA CancellationAsked ==
  ASSUME NEW d, NEW P, NEW H, Tree(d.frames, P, H), Closes(d), d.cancel # NoOwner,
         NEW targets, targets = descendantPendingTargets(P, d.cancel), targets # {}
  PROVE  Cancelling(d.cancel, d.frames, targets)
<1> DEFINE o == d.cancel
<1>1. IsKey(o)
  BY DEF Closes
<1>2. \A op \in targets : op \in P /\ IsStrictPrefix(o, op)
  BY DEF descendantPendingTargets
<1>3. Len(o) >= 1
  <2>1. CASE Len(o) = 0
    BY <1>1, <2>1 DEF IsKey, NoOwner
  <2> QED
    BY <1>1, <2>1 DEF IsKey
<1>4. o \in DOMAIN d.frames
  <2>1. PICK op \in targets : op \in P /\ Below(o, op)
    BY <1>2 DEF Below
  <2>2. IsKey(op) /\ Closed(d.frames, P)
    BY <2>1 DEF Tree, Keyed
  <2> QED
    BY <1>1, <1>3, <2>1, <2>2, ClosedAbove
<1> QED
  BY <1>2, <1>4 DEF Closes, Cancelling

\* Together: requestRegionCancellation keeps Cancels.
LEMMA CancelsKept ==
  ASSUME NEW d, NEW P, NEW H, Shifts(frames, d.frames, P, H), Closes(d), Cancels,
         frames' = d.frames,
         NEW cancellations,
         \A o \in DOMAIN cancellations :
           /\ o \in DOMAIN regionCancellations
           /\ cancellations[o] \in SUBSET (regionCancellations[o] \cap P)
           /\ cancellations[o] # {},
         NEW output, requestRegionCancellation(d.cancel, P, cancellations, output)
  PROVE  Cancels'
<1> DEFINE targets == descendantPendingTargets(P, d.cancel)
<1>1. \A o \in DOMAIN cancellations : Cancelling(o, frames', cancellations[o])
  BY CancellationKept DEF Cancels
<1>2. CASE regionCancellations' = cancellations
  BY <1>1, <1>2 DEF Cancels
<1>3. CASE /\ d.cancel # NoOwner /\ targets # {}
           /\ regionCancellations' = With(cancellations, d.cancel, targets)
  <2>1. Cancelling(d.cancel, frames', targets)
    BY <1>3, CancellationAsked DEF Shifts
  <2> HIDE DEF targets
  <2> QED
    BY <1>1, <1>3, <2>1 DEF Cancels, With
<1> QED
  BY <1>2, <1>3 DEF requestRegionCancellation, Asks

-----------------------------------------------------------------------------
(*****************************************************************************)
(* The invariant.                                                            *)
(*****************************************************************************)
\* The keys in use or used by an answered operation.
Known == DOMAIN frames \cup pending \cup answered

\* The frames and the pending operations are a tree, and answered operations
\* count as used.
Forest == Tree(frames, pending, answered)

\* An answered operation has its receipt as long as its region lives.
Receipts ==
  \A op \in answered : Len(op) >= 2 /\ (RegionOf(op) \in DOMAIN frames => op \in DOMAIN resolved)

\* What is pending was dispatched and is unanswered; what a transition
\* dispatches is new.
Counted ==
  /\ pending \cap answered = {}
  /\ pending \subseteq issued \cup Dispatched
  /\ phase = "rest" => Dispatched \subseteq issued
  /\ phase = "drain" => Dispatched \cap (issued \cup answered) = {}

\* A concluded pipeline holds nothing; one that is cancelling was asked to.
Concluded ==
  /\ status \in Terminal =>
       DOMAIN frames \cup pending \cup DOMAIN resolved \cup DOMAIN regionCancellations = {}
  /\ status = "cancelling" => runCancellation.requested

\* The inductive invariant.
TreeInv == IInv /\ Forest /\ Receipts /\ Counted /\ Cancels /\ Concluded

\* What it says of the keys in use.
LEMMA KnownTree ==
  ASSUME Acyclic, TreeInv
  PROVE  /\ Whole(Known) /\ Tree(frames, pending, Known)
         /\ DOMAIN frames \subseteq Known /\ \A k \in DOMAIN frames : Len(k) >= 1
         /\ \A o \in DOMAIN regionCancellations :
              regionCancellations[o] \in (SUBSET pending) \ {{}}
<1>1. Tree(frames, pending, answered)
  BY DEF TreeInv, Forest
<1>2. Tree(frames, pending, Known)
  BY <1>1, SmallerTree DEF Known
<1>3. Whole(Known)
  <2> DEFINE H == Known
  <2>1. H = DOMAIN frames \cup pending \cup answered
    BY DEF Known
  <2> HIDE DEF H
  <2>2. Whole(H)
    BY <1>1, <2>1, WholeTree
  <2> QED
    BY <2>2 DEF H
<1> QED
  BY <1>1, <1>2, <1>3 DEF Known, TreeInv, IInv, TypeOK, Tree, Keyed

\* A drain step that leaves the operations P pending.
Passes(P) ==
  /\ Shifts(frames, frames', P, Known) /\ pending' = P
  /\ Cancels'
  /\ UNCHANGED <<status, resolved, runCancellation, fault, phase, issued, answered>>

\* A step that moves leaves the pending operations alone.
LEMMA CommitPasses ==
  ASSUME Acyclic, TreeInv, Moves(Known)
  PROVE  Passes(pending) /\ Dispatched' = Dispatched
<1>1. PICK d : Commit(d) /\ Moved(d, Known)
  BY DEF Moves
<1>2. /\ frames' = d.frames
      /\ requestRegionCancellation(d.cancel, pending, regionCancellations, commands)
      /\ UNCHANGED <<status, pending, resolved, runCancellation, fault, phase, issued, answered>>
  BY <1>1 DEF Commit, Structure, history
<1>3. /\ DOMAIN frames \subseteq Known /\ \A k \in DOMAIN frames : Len(k) >= 1
      /\ \A o \in DOMAIN regionCancellations :
           regionCancellations[o] \in (SUBSET pending) \ {{}}
  BY KnownTree
<1>4. Shifts(frames, d.frames, pending, Known) /\ Closes(d)
  BY <1>1, <1>3 DEF Moved, Shifts
<1>5. Cancels'
  <2>1. \A o \in DOMAIN regionCancellations :
          /\ o \in DOMAIN regionCancellations
          /\ regionCancellations[o] \in SUBSET (regionCancellations[o] \cap pending)
          /\ regionCancellations[o] # {}
    BY <1>3
  <2> QED
    BY <1>2, <1>4, <2>1, CancelsKept DEF TreeInv
<1>6. Dispatched' = Dispatched
  BY <1>2, <1>3, RequestKeeps DEF Dispatched
<1> QED
  BY <1>2, <1>4, <1>5, <1>6 DEF Passes

\* A step that starts an operation dispatches one whose key was never used.
LEMMA OperationPasses ==
  ASSUME Acyclic, TreeInv, NEW n \in DOMAIN Nodes,
         StartActivity(n) \/ StartWait(n) \/ StartHumanGate(n)
  PROVE  \/ Passes(pending) /\ Dispatched' = Dispatched
         \/ \E op : /\ op \notin Known /\ Passes(pending \cup {op})
                    /\ Dispatched' = Dispatched \cup {op}
<1> DEFINE r == Head(queue)
           op == Append(r, n)
           e == consumeRegionNode(Entered, r, n)
           fresh == op \notin pending /\ op \notin DOMAIN resolved
<1>1. /\ \E kind : AtNode(n, kind)
      /\ Nodes[n].kind \in OperationKinds
      /\ addExternalOperation(n)
  BY DEF StartActivity, StartWait, StartHumanGate, AtNode, OperationKinds
<1>2. /\ Structure([e EXCEPT !.valid = fresh])
      /\ pending' = IF fresh THEN pending \cup {op} ELSE pending
      /\ commands' = IF fresh THEN commands \cup {Dispatch(op)} ELSE commands
      /\ UNCHANGED <<status, resolved, runCancellation, regionCancellations, fault, phase,
                     issued, answered>>
  BY <1>1 DEF addExternalOperation, history
<1>3. /\ Whole(Known) /\ DOMAIN frames \subseteq Known /\ \A k \in DOMAIN frames : Len(k) >= 1
      /\ \A o \in DOMAIN regionCancellations :
           regionCancellations[o] \in (SUBSET pending) \ {{}}
  BY KnownTree
<1>4. Opens(e, Known, r, n) /\ Grows(Entered, e, Known)
  BY <1>1, <1>3, NodeTaken
<1> HIDE DEF e
<1>5. frames' = e.frames
  <2>1. IsDraft(e)
    BY <1>4 DEF Opens, Good
  <2>2. [e EXCEPT !.valid = fresh].frames = e.frames
    BY <2>1 DEF IsDraft, DraftFields
  <2> QED
    BY <1>2, <2>2 DEF Structure
<1>6. /\ e.pending = pending /\ Tree(frames', pending, Known) /\ Evolves(frames, frames', Known)
  BY <1>4, <1>5, EnteredIsDraft DEF Grows, Develops, Derived
<1>7. /\ r \in DOMAIN frames' /\ IsRegion(r) /\ IsKey(r)
      /\ n \notin Steps(r, DOMAIN frames' \cup pending \cup Known)
      /\ Fits(r, frames'[r], Steps(r, DOMAIN frames' \cup pending) \cup {n},
                             Steps(r, DOMAIN frames' \cup pending \cup Known) \cup {n})
  <2>1. IsKey(r)
    BY <1>4 DEF Opens, Good, Tree, Keyed
  <2> QED
    BY <1>4, <1>5, <1>6, <2>1, OpensFits DEF Opens
<1>8. Tree(frames', pending \cup {op}, Known)
  BY <1>1, <1>6, <1>7, DispatchTree
<1>9. op \notin Known
  <2>1. Below(r, op) /\ Step(r, op) = n
    BY <1>7, BelowChild, PrefixItself
  <2> HIDE DEF op
  <2> QED
    BY <1>7, <2>1 DEF Steps
<1>10. ASSUME NEW P, pending \subseteq P, Tree(frames', P, Known), pending' = P
       PROVE  Passes(P)
  <2>1. Shifts(frames, frames', P, Known)
    BY <1>3, <1>6, <1>10 DEF Shifts
  <2>2. Cancels'
    <3>1. ASSUME NEW o \in DOMAIN regionCancellations
          PROVE  Cancelling(o, frames', regionCancellations[o])
      <4>1. Cancelling(o, frames, regionCancellations[o])
        BY DEF TreeInv, Cancels
      <4> QED
        BY <1>3, <1>10, <2>1, <4>1, CancellationKept
    <3> QED
      BY <1>2, <3>1 DEF Cancels
  <2> QED
    BY <1>2, <1>10, <2>1, <2>2 DEF Passes
<1>11. CASE fresh
  <2>1. Dispatch(op).kind = "dispatch" /\ Dispatch(op).op = op
    BY DEF Dispatch
  <2>2. commands' = commands \cup {Dispatch(op)} /\ pending' = pending \cup {op}
    BY <1>2, <1>11
  <2> HIDE DEF op
  <2>3. Dispatched' = Dispatched \cup {op}
    BY <2>1, <2>2 DEF Dispatched
  <2> QED
    BY <1>8, <1>9, <1>10, <2>2, <2>3
<1>12. CASE ~fresh
  <2>1. commands' = commands /\ pending' = pending
    BY <1>2, <1>12
  <2>2. Dispatched' = Dispatched
    BY <2>1 DEF Dispatched
  <2> QED
    BY <1>6, <1>10, <2>1, <2>2
<1> QED
  BY <1>11, <1>12

\* The region of an operation that was known is not a new frame.
LEMMA RegionStays ==
  ASSUME NEW F, NEW G, NEW H, Evolves(F, G, H), NEW op \in H, IsKey(op), Len(op) >= 2,
         RegionOf(op) \in DOMAIN G
  PROVE  RegionOf(op) \in DOMAIN F
<1> DEFINE r == RegionOf(op)
<1>1. IsKey(r) /\ Len(r) = Len(op) - 1 /\ \A i \in 1..Len(r) : r[i] = op[i]
  BY KeyFront DEF RegionOf
<1>2. IsPrefix(r, op)
  <2>1. Len(r) <= Len(op)
    BY <1>1 DEF IsKey
  <2> QED
    BY <1>1, <2>1, PrefixPointwise
<1> QED
  BY <1>2 DEF Evolves

\* Every drain step is one of the two.
LEMMA DrainPasses ==
  ASSUME Acyclic, TreeInv, Drain
  PROVE  \/ Passes(pending) /\ Dispatched' = Dispatched
         \/ \E op : /\ op \notin Known /\ Passes(pending \cup {op})
                    /\ Dispatched' = Dispatched \cup {op}
<1>1. Whole(Known)
  BY KnownTree
<1>2. CASE SkipFrame
  BY <1>1, <1>2, SkipMoves, CommitPasses
<1>3. ASSUME NEW n \in DOMAIN Nodes, ExecuteNode(n)
      PROVE  \/ Passes(pending) /\ Dispatched' = Dispatched
             \/ \E op : /\ op \notin Known /\ Passes(pending \cup {op})
                        /\ Dispatched' = Dispatched \cup {op}
  <2>1. CASE StartActivity(n) \/ StartWait(n) \/ StartHumanGate(n)
    BY <2>1, OperationPasses
  <2>2. CASE RejectInput(n) \/ SelectChoice(n) \/ MissChoice(n) \/ EndFails(n) \/ EndRoot(n)
    BY <1>1, <2>2, RejectMoves, ChoiceMoves, FailedMoves, EndRootMoves, CommitPasses
  <2>3. CASE StartCall(n) \/ StartRepeat(n) \/ StartParallel(n) \/ StartMap(n)
    BY <1>1, <2>3, CallMoves, ParallelMoves, MapMoves, CommitPasses
  <2>4. CASE EndCall(n) \/ EndBranch(n) \/ EndItem(n) \/ EndRepeat(n) \/ EndIteration(n)
    BY <1>1, <2>4, EndCallMoves, EndBranchMoves, EndItemMoves, EndRepeatMoves,
       EndIterationMoves, CommitPasses
  <2> QED
    BY <1>3, <2>1, <2>2, <2>3, <2>4 DEF ExecuteNode
<1>4. CASE SettleParallel \/ SettleMap
  BY <1>1, <1>4, SettleParallelMoves, SettleMapMoves, CommitPasses
<1> QED
  BY <1>2, <1>3, <1>4 DEF Drain

\* A step of the drain executes the head of the queue.
LEMMA DrainIsReady ==
  ASSUME Drain
  PROVE  Ready
<1>1. ASSUME NEW n \in DOMAIN Nodes, ExecuteNode(n)
      PROVE  Executing
  <2>1. CASE StartActivity(n) \/ StartWait(n) \/ StartHumanGate(n)
    BY <2>1, Zenon DEF StartActivity, StartWait, StartHumanGate, AtNode
  <2>2. CASE RejectInput(n) \/ SelectChoice(n) \/ MissChoice(n)
    BY <2>2, Zenon DEF RejectInput, SelectChoice, MissChoice, AtNode
  <2>3. CASE StartCall(n) \/ StartRepeat(n) \/ StartParallel(n) \/ StartMap(n)
    BY <2>3, Zenon DEF StartCall, StartRepeat, StartParallel, StartMap, AtNode
  <2>4. CASE EndFails(n) \/ EndRoot(n)
    BY <2>4, Zenon DEF EndFails, EndRoot, AtNode
  <2>5. CASE EndCall(n) \/ EndBranch(n) \/ EndItem(n)
    BY <2>5, Zenon DEF EndCall, EndBranch, EndItem, EndOf, AtNode
  <2>6. CASE EndRepeat(n) \/ EndIteration(n)
    BY <2>6, Zenon DEF EndRepeat, EndIteration, EndOf, AtNode
  <2> QED
    BY <1>1, <2>1, <2>2, <2>3, <2>4, <2>5, <2>6 DEF ExecuteNode
<1>2. SkipFrame => Ready
  BY DEF SkipFrame
<1>3. SettleParallel \/ SettleMap => Executing
  BY Zenon DEF SettleParallel, SettleMap
<1> QED
  BY <1>1, <1>2, <1>3 DEF Drain, Executing

\* Draining keeps the invariant.
LEMMA DrainStep ==
  ASSUME Acyclic, TreeInv, IInv', Drain
  PROVE  TreeInv' /\ Evolves(frames, frames', Known)
<1>1. phase = "drain"
  BY DrainIsReady DEF Ready
<1>2. status \notin Terminal /\ ~Faulty
  BY <1>1 DEF TreeInv, IInv, Finished, Faulty, None
<1>3. issued \cup answered \subseteq Known /\ pending \subseteq Known
  BY <1>2 DEF TreeInv, IInv, Ledger, Known
<1>4. PICK P : /\ Passes(P)
               /\ \/ P = pending /\ Dispatched' = Dispatched
                  \/ \E op : /\ op \notin Known /\ P = pending \cup {op}
                             /\ Dispatched' = Dispatched \cup {op}
  BY DrainPasses
<1>5. /\ Tree(frames', P, Known) /\ Evolves(frames, frames', Known) /\ pending' = P
      /\ UNCHANGED <<status, resolved, runCancellation, fault, phase, issued, answered>>
  BY <1>4 DEF Passes, Shifts
<1>6. Forest'
  <2>1. answered \in SUBSET (Known \cup P \cup DOMAIN frames')
    BY <1>3
  <2>2. Tree(frames', P, answered)
    BY <1>5, <2>1, SmallerTree
  <2> QED
    BY <1>5, <2>2 DEF Forest
<1>7. Receipts'
  <2>1. ASSUME NEW op \in answered, RegionOf(op) \in DOMAIN frames'
        PROVE  op \in DOMAIN resolved
    <3>1. IsKey(op) /\ Len(op) >= 2 /\ op \in Known
      BY <1>3, <1>5 DEF Tree, Keyed, TreeInv, Receipts
    <3>2. RegionOf(op) \in DOMAIN frames
      BY <1>5, <2>1, <3>1, RegionStays
    <3> QED
      BY <3>2 DEF TreeInv, Receipts
  <2> QED
    BY <1>5, <2>1 DEF TreeInv, Receipts
<1>8. Counted'
  BY <1>1, <1>3, <1>4, <1>5 DEF TreeInv, Counted
<1>9. Concluded'
  BY <1>2, <1>5 DEF TreeInv, Concluded
<1> QED
  BY <1>4, <1>5, <1>6, <1>7, <1>8, <1>9 DEF TreeInv, Passes

\* So does applying an event,
LEMMA AnswerStep ==
  ASSUME Acyclic, TreeInv, IInv', NEW op \in pending, NEW a \in Answers(op), ApplyEvent(op, a)
  PROVE  TreeInv' /\ Evolves(frames, frames', Known)
<1> DEFINE d == applied(op, a)
           P == pending \ {op}
<1>1. Live /\ phase = "rest" /\ status \notin Terminal /\ ~Faulty
  BY DEF ApplyEvent, Live, Terminal, TreeInv, IInv, Finished, Faulty, None
<1>2. /\ Tree(frames, pending, Known) /\ DOMAIN frames \subseteq Known
      /\ \A k \in DOMAIN frames : Len(k) >= 1
      /\ \A o \in DOMAIN regionCancellations :
           regionCancellations[o] \in (SUBSET pending) \ {{}}
  BY KnownTree
<1>3. Tree(d.frames, P, Known) /\ Evolves(frames, d.frames, Known) /\ Closes(d)
  <2>1. d = applied(op, a)
    OBVIOUS
  <2> DEFINE H == Known
  <2>2. Tree(frames, pending, H) /\ DOMAIN frames \subseteq H
    BY <1>2
  <2> HIDE DEF d, H
  <2>3. Tree(d.frames, P, H) /\ Evolves(frames, d.frames, H) /\ Closes(d)
    BY <2>1, <2>2, AppliedMoves
  <2> QED
    BY <2>3 DEF H
<1>4. /\ frames' = d.frames /\ pending' = P
      /\ resolved' = With(resolved, op, a.event)
      /\ answered' = answered \cup {op}
      /\ phase' = "drain"
      /\ runCancellation'.requested = runCancellation.requested
      /\ requestRegionCancellation(d.cancel, P, acknowledged(op), {})
      /\ UNCHANGED <<status, fault, issued>>
  <2>1. runCancellation' = [runCancellation EXCEPT !.awaiting = @ \ {op}]
    BY DEF ApplyEvent
  <2>2. DOMAIN runCancellation = {"requested", "awaiting"}
    BY DEF TreeInv, IInv, TypeOK
  <2> HIDE DEF d
  <2>3. pending' = P
    BY DEF ApplyEvent, withoutOperation
  <2>4. requestRegionCancellation(d.cancel, pending', acknowledged(op), {})
    BY DEF ApplyEvent, d
  <2> QED
    BY <2>1, <2>2, <2>3, <2>4 DEF ApplyEvent, Structure, d
<1> HIDE DEF d
<1>5. Shifts(frames, d.frames, P, Known)
  BY <1>2, <1>3 DEF Shifts
<1>6. \A o \in DOMAIN acknowledged(op) :
        /\ o \in DOMAIN regionCancellations
        /\ acknowledged(op)[o] \in SUBSET (regionCancellations[o] \cap P)
        /\ acknowledged(op)[o] # {}
  BY <1>2 DEF acknowledged
<1>7. Cancels'
  BY <1>3, <1>4, <1>5, <1>6, CancelsKept DEF TreeInv
<1>8. Dispatched' = {}
  <2>1. \A o \in DOMAIN acknowledged(op) : acknowledged(op)[o] \in (SUBSET P) \ {{}}
    BY <1>6
  <2> QED
    BY <1>4, <2>1, RequestKeeps DEF Dispatched
<1>9. Forest'
  <2>1. answered \cup {op} \in SUBSET (Known \cup P \cup DOMAIN d.frames)
    BY DEF Known
  <2>2. Tree(d.frames, P, answered \cup {op})
    BY <1>3, <2>1, SmallerTree
  <2> QED
    BY <1>4, <2>2 DEF Forest
<1>10. Receipts'
  <2>1. ASSUME NEW x \in answered, RegionOf(x) \in DOMAIN d.frames
        PROVE  x \in DOMAIN resolved
    <3>1. IsKey(x) /\ Len(x) >= 2 /\ x \in Known
      BY <1>2 DEF Tree, Keyed, TreeInv, Receipts, Known
    <3>2. RegionOf(x) \in DOMAIN frames
      BY <1>3, <2>1, <3>1, RegionStays
    <3> QED
      BY <3>2 DEF TreeInv, Receipts
  <2>2. Len(op) >= 2
    BY <1>2 DEF Tree, Keyed
  <2>3. DOMAIN resolved' = DOMAIN resolved \cup {op}
    BY <1>4 DEF With
  <2> QED
    BY <1>4, <2>1, <2>2, <2>3 DEF TreeInv, Receipts
<1>11. Counted'
  BY <1>1, <1>4, <1>8 DEF TreeInv, Counted
<1>12. Concluded'
  BY <1>1, <1>4 DEF TreeInv, Concluded
<1> QED
  BY <1>3, <1>4, <1>7, <1>9, <1>10, <1>11, <1>12 DEF TreeInv

\* No frames at all are a tree,
LEMMA EmptyTree ==
  ASSUME NEW H, \A x \in H : IsKey(x), NEW F, F = <<>>
  PROVE  Tree(F, {}, H) /\ \A G, I : Evolves(G, F, I)
<1>1. DOMAIN F = {}
  OBVIOUS
<1> QED
  BY <1>1 DEF Tree, Keyed, Closed, Leaves, Evolves

\* so does finishing the transition,
LEMMA EndStep ==
  ASSUME Acyclic, TreeInv, IInv', Finish
  PROVE  TreeInv' /\ Evolves(frames, frames', Known)
<1>1. /\ phase = "drain" /\ status \notin Terminal /\ ~Faulty
  BY DEF Finish, FinishInvalid, FinishTerminal, FinishRest, Drained, TreeInv, IInv, Finished,
         Faulty, None
<1>2. (\A x \in answered : IsKey(x)) /\ Tree(frames, pending, answered)
  BY DEF TreeInv, Forest, Tree, Keyed
<1>3. CASE ClearExecution /\ (FinishInvalid \/ FinishTerminal)
  <2>1. /\ frames' = <<>> /\ pending' = {} /\ resolved' = <<>> /\ regionCancellations' = <<>>
        /\ phase' = "rest" /\ answered' = answered
    BY <1>3 DEF ClearExecution, FinishInvalid, FinishTerminal, ClearTransition, history
  <2>2. Tree(frames', pending', answered') /\ Evolves(frames, frames', Known)
    BY <1>2, <2>1, EmptyTree
  <2>3. DOMAIN frames' = {} /\ DOMAIN resolved' = {} /\ DOMAIN regionCancellations' = {}
    BY <2>1
  <2>4. status' \in Terminal
    BY <1>3 DEF FinishInvalid, FinishTerminal, Writable, Outcome, TreeInv, IInv, TypeOK, Terminal, None
  <2>5. Dispatched' \subseteq issued'
    <3>1. \A outcome : Final(outcome).kind = outcome
      BY DEF Final
    <3>2. CASE FinishInvalid
      <4>1. commands' = {Final("fail")}
        BY <3>2 DEF FinishInvalid
      <4> QED
        BY <3>1, <4>1 DEF Dispatched
    <3>3. CASE FinishTerminal
      <4>1. /\ issued' = issued \cup Dispatched
            /\ \E outcome : commands' = commands \cup {Final(outcome)} /\ outcome # "dispatch"
        BY <3>3, <2>4 DEF FinishTerminal, Terminal
      <4> QED
        BY <3>1, <4>1 DEF Dispatched
    <3> QED
      BY <1>3, <3>2, <3>3
  <2>6. Forest' /\ Cancels' /\ Concluded'
    BY <2>1, <2>2, <2>3, <2>4 DEF Forest, Cancels, Concluded, Terminal
  <2>7. Receipts' /\ Counted'
    BY <2>1, <2>3, <2>5 DEF TreeInv, Receipts, Counted
  <2> QED
    BY <2>2, <2>6, <2>7 DEF TreeInv
<1>4. CASE FinishRest
  <2>1. /\ phase' = "rest" /\ issued' = issued \cup Dispatched /\ resolved' = pruneReceipts
        /\ UNCHANGED <<status, frames, pending, runCancellation, regionCancellations, fault,
                       commands, answered>>
    BY <1>4 DEF FinishRest, ClearTransition
  <2>2. Dispatched' = Dispatched
    BY <2>1 DEF Dispatched
  <2>3. Forest' /\ Cancels' /\ Counted' /\ Concluded'
    BY <1>1, <2>1, <2>2 DEF TreeInv, Forest, Cancels, Counted, Concluded
  <2>4. Receipts'
    BY <2>1 DEF TreeInv, Receipts, pruneReceipts
  <2>5. Evolves(frames, frames', Known)
    BY <2>1, SettledItself DEF Evolves
  <2> QED
    BY <2>3, <2>4, <2>5 DEF TreeInv
<1> QED
  BY <1>3, <1>4 DEF Finish, FinishInvalid, FinishTerminal

\* and so do a cancellation of the run and an event that is not applied.
LEMMA OtherStep ==
  ASSUME TreeInv, IInv', RequestRunCancellation \/ (\E verdict : Unapplied(verdict)) \/ UNCHANGED vars
  PROVE  TreeInv' /\ Evolves(frames, frames', Known)
<1>1. CASE RequestRunCancellation
  <2>1. /\ phase = "rest" /\ status \notin Terminal /\ phase' = "drain" /\ status' = "cancelling"
        /\ runCancellation'.requested
        /\ UNCHANGED <<frames, pending, resolved, regionCancellations, issued, answered>>
    BY <1>1 DEF RequestRunCancellation, Live, Terminal, history
  <2>2. Dispatched' = {}
    BY <1>1 DEF RequestRunCancellation, Dispatched, CancelPending
  <2>3. TreeInv'
    BY <2>1, <2>2 DEF TreeInv, Forest, Receipts, Counted, Cancels, Concluded, Terminal
  <2> QED
    BY <2>1, <2>3, SettledItself DEF Evolves
<1>2. CASE (\E verdict : Unapplied(verdict)) \/ UNCHANGED vars
  <2>1. /\ \/ Dispatched' = Dispatched
           \/ Dispatched' = {} /\ phase = "rest"
        /\ UNCHANGED <<status, frames, pending, resolved, runCancellation, regionCancellations,
                       phase, issued, answered>>
    BY <1>2 DEF Unapplied, state, transition, history, vars, Dispatched
  <2>2. TreeInv'
    BY <2>1 DEF TreeInv, Forest, Receipts, Counted, Cancels, Concluded
  <2> QED
    BY <2>1, <2>2, SettledItself DEF Evolves
<1> QED
  BY <1>1, <1>2

\* The first transition starts with the root region.
LEMMA InitTreeInv == Init => TreeInv
<1> SUFFICES ASSUME Init PROVE TreeInv
  OBVIOUS
<1>1. IInv
  BY InitIInv
<1>2. /\ DOMAIN frames = {Root} /\ frames[Root] = RegionFrame(EntryRegion)
      /\ pending = {} /\ answered = {} /\ issued = {} /\ Dispatched = {}
      /\ DOMAIN regionCancellations = {} /\ status = "running" /\ phase = "drain"
  BY DEF Init, Dispatched
<1>3. IsKey(Root) /\ Len(Root) = 1 /\ IsRegion(Root)
  BY DEF IsKey, Root, IsRegion
<1>4. Steps(Root, {Root}) = {}
  BY <1>3, PrefixItself DEF Steps
<1>5. Fits(Root, frames[Root], {}, {})
  <2>1. RegionFits(frames[Root], {}, {})
    BY <1>2 DEF RegionFits, RegionFrame
  <2> QED
    BY <1>3, <2>1 DEF Fits
<1>6. Forest
  <2>1. Keyed(frames, pending, answered)
    BY <1>2, <1>3 DEF Keyed
  <2>2. Closed(frames, pending)
    <3>1. 1..(Len(Root) - 1) = {}
      BY <1>3
    <3> QED
      BY <1>2, <3>1 DEF Closed
  <2>3. Leaves(frames, pending)
    BY <1>2 DEF Leaves
  <2>4. DOMAIN frames \cup pending = {Root} /\ DOMAIN frames \cup pending \cup answered = {Root}
    BY <1>2
  <2> QED
    BY <1>2, <1>4, <1>5, <2>1, <2>2, <2>3, <2>4 DEF Forest, Tree
<1>7. Receipts /\ Counted /\ Cancels /\ Concluded
  BY <1>2 DEF Receipts, Counted, Cancels, Concluded, Terminal
<1> QED
  BY <1>1, <1>6, <1>7 DEF TreeInv

\* The invariant is inductive, and every step evolves the frames.
LEMMA NextTreeInv ==
  ASSUME Acyclic, TreeInv, [Next]_vars
  PROVE  TreeInv' /\ Evolves(frames, frames', Known)
<1>1. IInv'
  BY NextIInv DEF TreeInv
<1>2. CASE Drain
  BY <1>1, <1>2, DrainStep
<1>3. CASE Finish
  BY <1>1, <1>3, EndStep
<1>4. CASE Event
  <2>1. CASE \E op \in pending : \E a \in Answers(op) : ApplyEvent(op, a)
    BY <1>1, <2>1, AnswerStep
  <2>2. CASE ~\E op \in pending : \E a \in Answers(op) : ApplyEvent(op, a)
    <3>1. RequestRunCancellation \/ \E verdict : Unapplied(verdict)
      BY <1>4, <2>2, Zenon DEF Event, Redeliver, RedeliverLate, RejectEvent, IgnoreEvent
    <3> QED
      BY <1>1, <3>1, OtherStep
  <2> QED
    BY <2>1, <2>2
<1>5. CASE UNCHANGED vars
  BY <1>1, <1>5, OtherStep
<1> QED
  BY <1>2, <1>3, <1>4, <1>5 DEF Next

-----------------------------------------------------------------------------
(*****************************************************************************)
(* The theorems.                                                             *)
(*****************************************************************************)
\* Whatever happens, the frames keep to the tree, and the ledger of
\* operations is exact.
THEOREM TreeInvariant ==
  ASSUME Acyclic
  PROVE  Spec => []TreeInv
<1>1. Init => TreeInv
  BY InitTreeInv
<1>2. TreeInv /\ [Next]_vars => TreeInv'
  BY NextTreeInv
<1> QED
  BY <1>1, <1>2, PTL DEF Spec

\* No operation is dispatched twice in the life of a run: its key is never
\* reused, also after the loop, branch or item it was in was pruned with its
\* receipt.
THEOREM OperationsAreDispatchedOnce ==
  ASSUME Acyclic
  PROVE  Spec => []DispatchedOnce
<1>1. TreeInv => DispatchedOnce
  BY DEF TreeInv, Counted, DispatchedOnce
<1> QED
  BY <1>1, TreeInvariant, PTL

\* A live pipeline waits exactly for what it dispatched and was not answered.
THEOREM PendingIsWhatWasIssued ==
  ASSUME Acyclic
  PROVE  Spec => []WaitsForWhatItIssued
<1>1. TreeInv => WaitsForWhatItIssued
  <2> SUFFICES ASSUME TreeInv, Live PROVE pending = issued \ answered
    BY DEF WaitsForWhatItIssued
  <2>1. phase = "rest" /\ ~Faulty
    BY DEF Live, TreeInv, IInv, Finished, Faulty, None, Terminal
  <2> QED
    BY <2>1 DEF TreeInv, IInv, Ledger, Counted
<1> QED
  BY <1>1, TreeInvariant, PTL

\* The receipt of an answered operation is kept while its region lives, so
\* that a redelivered event is recognised (matchOperationEvent).
THEOREM ReceiptsLiveWithTheirRegion ==
  ASSUME Acyclic
  PROVE  Spec => []ReceiptsOutliveRegion
<1>1. TreeInv => ReceiptsOutliveRegion
  BY DEF TreeInv, Receipts, ReceiptsOutliveRegion
<1> QED
  BY <1>1, TreeInvariant, PTL

\* A parallel that decided on early results decided what all its results
\* give.
THEOREM EarlyDecisionsAreFinal ==
  ASSUME Acyclic
  PROVE  Spec => []EarlyDecisionIsFinal
<1>1. TreeInv => EarlyDecisionIsFinal
  <2> SUFFICES ASSUME TreeInv, NEW o \in Parallels, ~Spoiled(frames[o].results)
               PROVE  frames[o].selected = classifyParallel(NodeAt(o), frames[o].results, None)
    BY DEF EarlyDecisionIsFinal
  <2>1. o \in DOMAIN frames /\ ~IsRegion(o) /\ NodeAt(o).kind = "parallel"
    BY DEF Parallels
  <2>2. \E now : ParallelFits(NodeAt(o), frames[o], now)
    BY <2>1 DEF TreeInv, Forest, Tree, Fits
  <2> QED
    BY <2>2 DEF ParallelFits
<1> QED
  BY <1>1, TreeInvariant, PTL

\* The part of StateReadable about one map.
LEMMA MapReadable ==
  ASSUME TreeInv, NEW o \in Maps
  PROVE  LET own == frames[o]
             parts == <<ToSet(own.unstarted), own.active, DOMAIN own.completed>>
         IN  /\ \E items \in NodeAt(o).collections :
                  UNION ToSet(parts) = ToSet(items)
             /\ \A i, j \in 1..3 : i # j => parts[i] \cap parts[j] = {}
             /\ IF own.selected = "failed" THEN own.completed[own.failedItem] = "failed"
                                           ELSE own.failedItem = None
<1> DEFINE own == frames[o]
           parts == <<ToSet(own.unstarted), own.active, DOMAIN own.completed>>
<1>1. o \in DOMAIN frames /\ ~IsRegion(o) /\ NodeAt(o).kind = "map"
  BY DEF Maps
<1>2. PICK now, ever : MapFits(NodeAt(o), own, now, ever)
  BY <1>1 DEF TreeInv, Forest, Tree, Fits
<1>3. /\ (own.active \cup DOMAIN own.completed) \cap ToSet(own.unstarted) = {}
      /\ own.active \cap DOMAIN own.completed = {}
      /\ \E items \in NodeAt(o).collections :
           ToSet(own.unstarted) \cup own.active \cup DOMAIN own.completed = ToSet(items)
      /\ IF own.selected = "failed" THEN own.completed[own.failedItem] = "failed"
                                    ELSE own.failedItem = None
  BY <1>2 DEF MapFits
<1>4. ToSet(parts) = {ToSet(own.unstarted), own.active, DOMAIN own.completed}
  <2>1. \A a, b, c : ToSet(<<a, b, c>>) = {a, b, c}
    BY DEF ToSet
  <2> QED
    BY <2>1
<1>5. UNION ToSet(parts) = ToSet(own.unstarted) \cup own.active \cup DOMAIN own.completed
  BY <1>4
<1>6. \A i, j \in 1..3 : i # j => parts[i] \cap parts[j] = {}
  BY <1>3
<1> QED
  BY <1>3, <1>5, <1>6

\* What a transition returns is accepted when the host hands it back
\* (hydratePipelineState).
THEOREM StateIsReadable ==
  ASSUME Acyclic
  PROVE  Spec => []StateReadable
<1>1. TreeInv => StateReadable
  <2> SUFFICES ASSUME TreeInv, phase = "rest" PROVE StateReadable
    BY DEF StateReadable
  <2>1. ASSUME NEW o \in DOMAIN regionCancellations
        PROVE  /\ o \in Parallels \cup Maps
               /\ frames[o].selected # None
               /\ regionCancellations[o] \subseteq {op \in pending : IsStrictPrefix(o, op)}
    BY DEF TreeInv, IInv, TypeOK, Cancels, Cancelling, Parallels, Maps
  <2>2. DOMAIN resolved \cap pending = {}
    BY DEF TreeInv, IInv, TypeOK, Counted
  <2>3. status = "cancelling" <=> Live /\ runCancellation.requested
    <3>1. Live => ~Faulty
      BY DEF Live, TreeInv, IInv, Finished, Faulty, None, Terminal
    <3> QED
      BY <3>1 DEF Live, TreeInv, Concluded, IInv, Frozen
  <2>4. status \in Terminal =>
          DOMAIN frames \cup pending \cup DOMAIN resolved \cup DOMAIN regionCancellations = {}
    BY DEF TreeInv, Concluded
  <2> QED
    BY <2>1, <2>2, <2>3, <2>4, MapReadable DEF StateReadable
<1> QED
  BY <1>1, TreeInvariant, PTL

\* Node, branch and item results and the selections of owners are written
\* once.
THEOREM ResultsNeverChange ==
  ASSUME Acyclic
  PROVE  Spec => ResultsAreFinal
<1> DEFINE Kept(k) ==
       /\ k \in Regions => Extends(frames'[k].results, frames[k].results)
       /\ k \in Parallels => Extends(frames'[k].results, frames[k].results)
       /\ k \in Maps => Extends(frames'[k].completed, frames[k].completed)
       /\ k \in Maps /\ frames[k].failedItem # None
            => frames'[k].failedItem = frames[k].failedItem
       /\ k \in Parallels \cup Maps /\ frames[k].selected # None
            => frames'[k].selected = frames[k].selected
<1>1. ASSUME TreeInv, [Next]_vars, NEW k \in DOMAIN frames \cap DOMAIN frames'
      PROVE  Kept(k)
  <2>1. Evolves(frames, frames', Known)
    BY <1>1, NextTreeInv
  <2>2. k \in Known /\ IsPrefix(k, k)
    <3>1. IsKey(k)
      BY <1>1 DEF TreeInv, Forest, Tree, Keyed
    <3> QED
      BY <3>1, PrefixItself DEF Known
  <2>3. Settled(k, frames[k], frames'[k])
    BY <2>1, <2>2 DEF Evolves
  <2> QED
    BY <2>3 DEF Settled, Regions, Parallels, Maps
<1>2. TreeInv /\ [Next]_vars => [\A k \in DOMAIN frames \cap DOMAIN frames' : Kept(k)]_vars
  BY <1>1
<1> QED
  BY <1>2, TreeInvariant, PTL DEF Spec, ResultsAreFinal

\* Every step is a step of the run a host sees, or changes nothing of it.
LEMMA RunStep ==
  ASSUME Acyclic, TreeInv, [Next]_vars, NoInvariantFault'
  PROVE  [Run!Next]_Run!vars
<1> DEFINE open == issued \ answered
<1>1. CASE UNCHANGED <<status, issued, answered>>
  BY <1>1 DEF Run!vars
<1>2. CASE Drain
  <2>1. UNCHANGED <<status, issued, answered>>
    BY <1>2, DrainPasses DEF Passes
  <2> QED
    BY <1>1, <2>1
<1>3. CASE FinishInvalid
  BY <1>3 DEF FinishInvalid, NoInvariantFault
<1>4. CASE FinishTerminal
  <2>1. /\ phase = "drain" /\ pending = {}
        /\ status' = Outcome /\ Outcome # None
        /\ issued' = issued \cup Dispatched /\ answered' = answered
    BY <1>4 DEF FinishTerminal, Drained, Writable
  <2>2. ~Faulty /\ status \notin Terminal
    BY <2>1 DEF TreeInv, IInv, Finished, Faulty, None
  <2>3. issued \cup Dispatched \subseteq answered /\ Dispatched \cap answered = {}
    BY <2>1, <2>2 DEF TreeInv, IInv, Ledger, Counted
  <2>4. open = {} /\ open' = open
    BY <2>1, <2>3
  <2>5. \/ status = "running" /\ status' \in {"succeeded", "failed"}
        \/ status = "cancelling" /\ status' = "cancelled"
    <3>1. status \in {"running", "cancelling"} /\ terminal \in {None, "succeeded", "failed"}
      BY <2>2 DEF TreeInv, IInv, TypeOK
    <3>2. runCancellation.requested => status = "cancelling" /\ terminal = None
      BY <2>2, <3>1 DEF TreeInv, IInv, Frozen
    <3>3. status = "cancelling" => runCancellation.requested
      BY DEF TreeInv, Concluded
    <3> QED
      BY <2>1, <3>1, <3>2, <3>3 DEF Outcome, None
  <2>6. Run!Conclude
    BY <2>1, <2>4, <2>5 DEF Run!Conclude
  <2> QED
    BY <2>6 DEF Run!Next
<1>5. CASE FinishRest
  <2>1. /\ phase = "drain" /\ status' = status
        /\ issued' = issued \cup Dispatched /\ answered' = answered
    BY <1>5 DEF FinishRest, Drained
  <2>2. ~Faulty /\ status \in {"running", "cancelling"}
    BY <2>1 DEF TreeInv, IInv, TypeOK, Finished, Faulty, None, Terminal
  <2>3. CASE status = "running"
    <3>1. Run!Open(open')
      BY <2>1, <2>3 DEF Run!Open
    <3> QED
      BY <3>1 DEF Run!Next
  <2>4. CASE status = "cancelling"
    <3>1. Dispatched = {}
      BY <2>2, <2>4 DEF TreeInv, Concluded, IInv, Frozen
    <3> QED
      BY <1>1, <2>1, <3>1
  <2> QED
    BY <2>2, <2>3, <2>4
<1>6. ASSUME NEW op \in pending, NEW a \in Answers(op), ApplyEvent(op, a)
      PROVE  Run!Next
  <2>1. /\ phase = "rest" /\ status \in {"running", "cancelling"} /\ status' = status
        /\ issued' = issued /\ answered' = answered \cup {op}
    BY <1>6 DEF ApplyEvent, Live
  <2>2. op \in open
    BY <1>6, <2>1 DEF TreeInv, Counted
  <2>3. Run!Answer(op)
    BY <2>1 DEF Run!Answer
  <2> QED
    BY <2>2, <2>3 DEF Run!Next
<1>7. CASE RequestRunCancellation
  <2>1. status = "running" /\ status' = "cancelling" /\ UNCHANGED <<issued, answered>>
    BY <1>7 DEF RequestRunCancellation, Live, history, TreeInv, Concluded
  <2>2. Run!Cancel
    BY <2>1 DEF Run!Cancel
  <2> QED
    BY <2>2 DEF Run!Next
<1>8. CASE (\E verdict : Unapplied(verdict)) \/ UNCHANGED vars
  BY <1>1, <1>8 DEF Unapplied, state, history, vars
<1>9. CASE Event
  <2>1. CASE \E op \in pending : \E a \in Answers(op) : ApplyEvent(op, a)
    BY <1>6, <2>1
  <2>2. CASE ~\E op \in pending : \E a \in Answers(op) : ApplyEvent(op, a)
    <3>1. RequestRunCancellation \/ \E verdict : Unapplied(verdict)
      BY <1>9, <2>2, Zenon DEF Event, Redeliver, RedeliverLate, RejectEvent, IgnoreEvent
    <3> QED
      BY <1>7, <1>8, <3>1
  <2> QED
    BY <2>1, <2>2
<1> QED
  BY <1>2, <1>3, <1>4, <1>5, <1>8, <1>9 DEF Next, Finish

\* Unless a transition is refused, the machine keeps what a host is promised
\* of a run: each operation is opened once and answered once, none is opened
\* while the run is being cancelled, and it concludes with nothing open.
THEOREM MachineImplementsRun ==
  ASSUME Acyclic
  PROVE  Spec /\ []NoInvariantFault => ImplementsRun
<1>1. Init => Run!Init
  BY DEF Init, Run!Init
<1>2. TreeInv /\ [Next]_vars /\ NoInvariantFault' => [Run!Next]_Run!vars
  BY RunStep
<1> QED
  BY <1>1, <1>2, TreeInvariant, PTL DEF Spec, ImplementsRun, Run!Spec
=============================================================================
