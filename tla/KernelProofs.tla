---------------------------- MODULE KernelProofs ----------------------------
(***************************************************************************)
(* Safety of the pipeline machine for every program: the type invariant,   *)
(* that a concluded run left nothing unanswered, and that a cancelled run  *)
(* stays cancelled.                                                        *)
(*                                                                         *)
(* None of the three is inductive.  They rest on the ledger (whatever was  *)
(* dispatched is pending or answered), on when a transition may carry an   *)
(* outcome, and on what a run cancellation freezes.  The handlers of a     *)
(* drain step enter only through FrameTreeProofs: they map drafts to       *)
(* drafts and select no outcome, except at the root.                       *)
(***************************************************************************)
EXTENDS KernelProperties, FrameTreeProofs

Faulty == fault = "INVARIANT_PROGRAM_STATE"

\* Whatever was dispatched, by this transition or an earlier one, has been
\* answered or is pending.
Ledger == ~Faulty => issued \cup Dispatched \subseteq answered \cup pending

\* Only a transition in progress carries an outcome or a refusal.
Resting == phase = "rest" => terminal = None /\ valid

\* A finished pipeline is at rest and waits for nothing; a fault finishes it.
Finished ==
  /\ status \in Terminal => phase = "rest" /\ pending = {}
  /\ fault # None => status \in Terminal

\* A run cancellation awaits everything pending; with it nothing is dispatched
\* and no region can select an outcome any more.
Frozen ==
  runCancellation.requested /\ ~Faulty =>
    /\ status \in {"cancelling", "cancelled"}
    /\ runCancellation.awaiting = pending
    /\ Dispatched = {}
    /\ terminal = None

IInv == TypeOK /\ Ledger /\ Resting /\ Finished /\ Frozen

-----------------------------------------------------------------------------
(***************************************************************************)
(* The drafts a drain step commits.                                        *)
(***************************************************************************)
\* A draft that selects no outcome while the run is being cancelled.
Safe(d) ==
  /\ IsDraft(d)
  /\ d.terminal \in {None, "succeeded", "failed"}
  /\ runCancellation.requested => d.terminal = None

\* The draft of a transition that is not refused.
LEMMA DraftIsDraft ==
  /\ IsDraft(Draft)
  /\ Draft.terminal = terminal
  /\ Draft.frames = frames
  /\ Draft.pending = pending
  /\ Draft.valid = TRUE
BY DEF Draft, IsDraft, DraftFields

\* The same, with the head of the queue taken.
LEMMA TakenIsDraft ==
  /\ IsDraft(Taken)
  /\ Taken.terminal = terminal
  /\ Taken.frames = frames
  /\ Taken.pending = pending
  /\ Taken.valid = TRUE
BY DEF Taken, Draft, IsDraft, DraftFields

\* The same, with the node of a region charged.
LEMMA EnteredIsDraft ==
  /\ IsDraft(Entered)
  /\ Entered.terminal = terminal
  /\ Entered.frames = frames
  /\ Entered.pending = pending
  /\ Entered.valid = TRUE
BY DEF Entered, Charge, Taken, Draft, IsDraft, DraftFields

\* requestRegionCancellation keeps the awaited sets non-empty and pending, and
\* dispatches nothing.
LEMMA RequestKeeps ==
  ASSUME NEW owner, NEW ops, NEW cancellations, NEW output,
         \A o \in DOMAIN cancellations : cancellations[o] \in (SUBSET ops) \ {{}},
         requestRegionCancellation(owner, ops, cancellations, output)
  PROVE  /\ \A o \in DOMAIN regionCancellations' :
              regionCancellations'[o] \in (SUBSET ops) \ {{}}
         /\ {c \in commands' : c.kind = "dispatch"} = {c \in output : c.kind = "dispatch"}
<1> DEFINE targets == descendantPendingTargets(ops, owner)
<1>1. targets \subseteq ops
  BY DEF descendantPendingTargets
<1>2. CASE /\ regionCancellations' = cancellations
           /\ commands' = output
  BY <1>2
<1>3. CASE /\ targets # {}
           /\ regionCancellations' = With(cancellations, owner, targets)
           /\ commands' = output \cup {CancelPending(owner, targets)}
  <2>1. /\ DOMAIN regionCancellations' = {owner} \cup DOMAIN cancellations
        /\ \A o \in {owner} \cup DOMAIN cancellations :
             regionCancellations'[o] = IF o = owner THEN targets ELSE cancellations[o]
    BY <1>3 DEF With
  <2>2. CancelPending(owner, targets).kind # "dispatch"
    BY DEF CancelPending
  <2> QED
    BY <1>1, <1>3, <2>1, <2>2
<1> QED
  BY <1>2, <1>3 DEF requestRegionCancellation, Asks

\* A drain step that commits a safe draft.
LEMMA CommitStep ==
  ASSUME IInv, phase = "drain", NEW d, Safe(d), Commit(d)
  PROVE  IInv'
<1>1. /\ \A o \in DOMAIN regionCancellations' :
           regionCancellations'[o] \in (SUBSET pending) \ {{}}
      /\ Dispatched' = Dispatched
  BY RequestKeeps DEF Commit, IInv, TypeOK, Dispatched
<1>2. UNCHANGED <<status, pending, resolved, runCancellation, fault, phase, before, reply,
                  issued, answered>>
  BY DEF Commit, history
<1>3. /\ terminal' = d.terminal
      /\ valid' = d.valid
  BY DEF Commit, Structure
<1>4. d.valid \in BOOLEAN
  BY DEF Safe, IsDraft
<1>5. TypeOK'
  BY <1>1, <1>2, <1>3, <1>4 DEF IInv, TypeOK, Safe, Terminal
<1>6. Ledger'
  BY <1>1, <1>2 DEF IInv, Ledger, Faulty
<1>7. Resting' /\ Finished'
  BY <1>2 DEF IInv, Resting, Finished, Terminal
<1>8. Frozen'
  BY <1>1, <1>2, <1>3 DEF IInv, Frozen, Faulty, Safe
<1> QED
  BY <1>5, <1>6, <1>7, <1>8 DEF IInv

-----------------------------------------------------------------------------
(***************************************************************************)
(* Every drain step that starts no operation commits a safe draft.         *)
(***************************************************************************)
Commits == \E d : Safe(d) /\ Commit(d)

\* Anything made from the taken draft that keeps its outcome is safe.
LEMMA TakenSafe ==
  ASSUME IInv, Ready, NEW d, Keeps(Taken, d)
  PROVE  Safe(d)
BY TakenIsDraft DEF Keeps, Derived, Safe, Ready, None

\* See TakenSafe.
LEMMA EnteredSafe ==
  ASSUME IInv, Ready, NEW d, Keeps(Entered, d)
  PROVE  Safe(d)
BY EnteredIsDraft DEF Keeps, Derived, Safe, Ready, None

\* A failing region, in a step that executes a node.
LEMMA FailedSafe ==
  ASSUME IInv, Executing, NEW region
  PROVE  Safe(completeFailedRegion(Entered, region))
<1>1. /\ IsDraft(completeFailedRegion(Entered, region))
      /\ completeFailedRegion(Entered, region).terminal \in {Entered.terminal, "failed"}
  BY EnteredIsDraft, FailedRegionSelects DEF Derived
<1> QED
  BY <1>1, EnteredIsDraft DEF Safe, Executing, Ready, None

\* Skipping a frame.
LEMMA SkipCommits ==
  ASSUME IInv, SkipFrame
  PROVE  Commits
<1> DEFINE d == [Taken EXCEPT !.valid = Head(queue) \in DOMAIN frames]
<1>1. Keeps(Taken, d)
  <2>1. IsDraft(d) /\ d.terminal = Taken.terminal /\ d.pending = Taken.pending
    BY TakenIsDraft DEF IsDraft, DraftFields
  <2> QED
    BY <2>1, TakenIsDraft DEF Keeps, Derived
<1>2. Ready /\ Commit(d)
  BY DEF SkipFrame
<1> QED
  BY <1>1, <1>2, TakenSafe DEF Commits

\* Nodes that fail before they start, and choices.
LEMMA DirectCommits ==
  ASSUME IInv, NEW n,
         RejectInput(n) \/ SelectChoice(n) \/ MissChoice(n)
  PROVE  Commits
<1>1. CASE RejectInput(n)
  <2>1. Ready /\ Commit(routeImmediateResult(Entered, Head(queue), n, "failed", Nodes[n].failed))
    BY <1>1 DEF RejectInput, AtNode, Executing
  <2>2. Keeps(Entered, routeImmediateResult(Entered, Head(queue), n, "failed", Nodes[n].failed))
    BY EnteredIsDraft, KeepsResult
  <2> QED
    BY <2>1, <2>2, EnteredSafe DEF Commits
<1>2. CASE SelectChoice(n)
  <2> DEFINE r == Head(queue)
             d == consumeRegionNode(Entered, r, n)
  <2>1. Ready /\ \E frame : Commit(Enqueue(SetFrame(d, r, frame), r))
    BY <1>2 DEF SelectChoice, AtNode, Executing
  <2>2. Keeps(Entered, d)
    BY EnteredIsDraft, KeepsResult
  <2> HIDE DEF d
  <2>3. ASSUME NEW frame
        PROVE  Keeps(Entered, Enqueue(SetFrame(d, r, frame), r))
    <3>1. Keeps(d, SetFrame(d, r, frame))
      BY <2>2, KeepsTree DEF Keeps, Derived
    <3>2. Keeps(SetFrame(d, r, frame), Enqueue(SetFrame(d, r, frame), r))
      BY <3>1, KeepsTree DEF Keeps, Derived
    <3> QED
      BY <2>2, <3>1, <3>2, KeepsTransitive
  <2> QED
    BY <2>1, <2>3, EnteredSafe DEF Commits
<1>3. CASE MissChoice(n)
  <2>1. Executing /\ Commit(completeFailedRegion(Entered, Head(queue)))
    BY <1>3 DEF MissChoice, AtNode
  <2> QED
    BY <2>1, FailedSafe DEF Commits
<1> QED
  BY <1>1, <1>2, <1>3

\* An owner enters the tree, and what it starts at once.
LEMMA KeepsAddOwner ==
  ASSUME NEW d, IsDraft(d), NEW o, NEW frame
  PROVE  /\ Keeps(d, AddOwner(d, o, frame))
         /\ Keeps(d, Enqueue(AddOwner(d, o, frame), o))
         /\ Keeps(d, refill(AddOwner(d, o, frame), o))
         /\ \A keys, regions :
              /\ Keeps(d, AddRegions(AddOwner(d, o, frame), keys, regions))
              /\ Keeps(d, Enqueue(AddRegions(AddOwner(d, o, frame), keys, regions), o))
         /\ \A k, region : Keeps(d, AddRegion(AddOwner(d, o, frame), k, region))
<1> DEFINE e == AddOwner(d, o, frame)
<1>1. Keeps(d, e)
  <2>1. Keeps(d, SetFrame(d, o, frame))
    BY KeepsTree
  <2>2. Keeps(SetFrame(d, o, frame), Charge(SetFrame(d, o, frame), 1))
    BY <2>1, KeepsUpdate DEF Keeps, Derived
  <2> QED
    BY <2>1, <2>2, KeepsTransitive, KeepsInvalid DEF AddOwner
<1> HIDE DEF e
<1>2. /\ Keeps(e, Enqueue(e, o))
      /\ Keeps(e, refill(e, o))
      /\ \A k, region : Keeps(e, AddRegion(e, k, region))
  BY <1>1, KeepsTree, KeepsRefill, KeepsAddRegion DEF Keeps, Derived
<1>3. ASSUME NEW keys, NEW regions
      PROVE  LET f == AddRegions(e, keys, regions)
             IN  Keeps(e, f) /\ Keeps(f, Enqueue(f, o))
  <2>1. Keeps(e, AddRegions(e, keys, regions))
    BY <1>1, KeepsAddRegions DEF Keeps, Derived
  <2> QED
    BY <2>1, KeepsTree DEF Keeps, Derived
<1>4. ASSUME NEW f, Keeps(e, f)
      PROVE  Keeps(d, f)
  BY <1>1, <1>4, KeepsTransitive
<1>5. \A keys, regions :
        /\ Keeps(d, AddRegions(e, keys, regions))
        /\ Keeps(d, Enqueue(AddRegions(e, keys, regions), o))
  BY <1>1, <1>3, KeepsTransitive
<1> QED
  BY <1>1, <1>2, <1>4, <1>5 DEF e

\* Starting an owner.
LEMMA OwnerCommits ==
  ASSUME IInv, NEW n,
         StartCall(n) \/ StartRepeat(n) \/ StartParallel(n) \/ StartMap(n)
  PROVE  Commits
<1> DEFINE o == Append(Head(queue), n)
           d == consumeRegionNode(Entered, Head(queue), n)
<1>1. Keeps(Entered, d)
  BY EnteredIsDraft, KeepsResult
<1>2. /\ Ready
      /\ \E e : /\ Commit(e)
              /\ \E frame :
                   \/ e = Enqueue(AddOwner(d, o, frame), o)
                   \/ e = refill(AddOwner(d, o, frame), o)
                   \/ \E keys, regions :
                        \/ e = AddRegions(AddOwner(d, o, frame), keys, regions)
                        \/ e = Enqueue(AddRegions(AddOwner(d, o, frame), keys, regions), o)
                   \/ \E k, region : e = AddRegion(AddOwner(d, o, frame), k, region)
  <2>1. CASE StartCall(n)
    BY <2>1, Zenon DEF StartCall, AtNode, Executing
  <2>2. CASE StartRepeat(n)
    BY <2>2, Zenon DEF StartRepeat, AtNode, Executing
  <2>3. CASE StartParallel(n)
    BY <2>3, Zenon DEF StartParallel, AtNode, Executing
  <2>4. CASE StartMap(n)
    BY <2>4, Zenon DEF StartMap, AtNode, Executing
  <2> QED
    BY <2>1, <2>2, <2>3, <2>4
<1>3. PICK e :
        /\ Commit(e)
        /\ \E frame :
             \/ e = Enqueue(AddOwner(d, o, frame), o)
             \/ e = refill(AddOwner(d, o, frame), o)
             \/ \E keys, regions :
                  \/ e = AddRegions(AddOwner(d, o, frame), keys, regions)
                  \/ e = Enqueue(AddRegions(AddOwner(d, o, frame), keys, regions), o)
             \/ \E k, region : e = AddRegion(AddOwner(d, o, frame), k, region)
  BY <1>2
<1> HIDE DEF d
<1>4. IsDraft(d)
  BY <1>1 DEF Keeps, Derived
<1>5. Keeps(d, e)
  BY <1>3, <1>4, KeepsAddOwner
<1>6. Safe(e)
  BY <1>1, <1>2, <1>5, KeepsTransitive, EnteredSafe
<1> QED
  BY <1>3, <1>6 DEF Commits

\* A region reaches its end.
LEMMA EndCommits ==
  ASSUME IInv, NEW n,
         \/ EndFails(n) \/ EndRoot(n) \/ EndCall(n) \/ EndBranch(n)
         \/ EndItem(n) \/ EndRepeat(n) \/ EndIteration(n)
  PROVE  Commits
<1>1. CASE EndFails(n)
  <2>1. Executing /\ Commit(completeFailedRegion(Entered, Head(queue)))
    BY <1>1 DEF EndFails, AtNode
  <2> QED
    BY <2>1, FailedSafe DEF Commits
<1>2. CASE EndRoot(n)
  <2> DEFINE d == [Entered EXCEPT !.terminal = "succeeded"]
  <2>1. Executing /\ Commit(d)
    BY <1>2 DEF EndRoot, AtNode
  <2>2. IsDraft(d) /\ d.terminal = "succeeded"
    BY EnteredIsDraft DEF IsDraft, DraftFields
  <2> QED
    BY <2>1, <2>2 DEF Commits, Safe, Executing
<1>3. CASE EndCall(n) \/ EndRepeat(n)
  <2>1. Ready /\ \E o, st, target : Commit(finishOwner(Entered, o, st, target))
    BY <1>3, Zenon DEF EndCall, EndRepeat, EndOf, AtNode, Executing
  <2> QED
    BY <2>1, EnteredIsDraft, KeepsOwner, EnteredSafe DEF Commits
<1>4. CASE EndBranch(n)
  <2>1. Ready /\ \E branch, class :
                    Commit(completeParallelBranch(Entered, branch, class, NoCleanup))
    BY <1>4, Zenon DEF EndBranch, EndOf, AtNode, Executing
  <2> QED
    BY <2>1, EnteredIsDraft, KeepsBranch, EnteredSafe DEF Commits
<1>5. CASE EndItem(n)
  <2>1. Ready /\ \E item, class : Commit(completeMapItem(Entered, item, class, NoCleanup))
    BY <1>5, Zenon DEF EndItem, EndOf, AtNode, Executing
  <2> QED
    BY <2>1, EnteredIsDraft, KeepsItem, EnteredSafe DEF Commits
<1>6. CASE EndIteration(n)
  <2>1. /\ Ready
        /\ \/ \E o, st, target : Commit(finishOwner(Entered, o, st, target))
           \/ \E body : Commit(startNextBody(Entered, body))
    BY <1>6, Zenon DEF EndIteration, EndOf, AtNode, Executing
  <2>2. ASSUME NEW body
        PROVE  Keeps(Entered, startNextBody(Entered, body))
    <3>1. ASSUME NEW o, NEW frame, NEW k, NEW region
          PROVE  Keeps(Entered, AddRegion(SetFrame(PruneTrees(Entered, {body}), o, frame), k, region))
      <4> DEFINE d == PruneTrees(Entered, {body})
                 e == SetFrame(d, o, frame)
      <4>1. Keeps(Entered, d)
        BY EnteredIsDraft, KeepsTree
      <4>2. Keeps(d, e)
        BY <4>1, KeepsTree DEF Keeps, Derived
      <4>3. Keeps(e, AddRegion(e, k, region))
        BY <4>2, KeepsAddRegion DEF Keeps, Derived
      <4> QED
        BY <4>1, <4>2, <4>3, KeepsTransitive
    <3> QED
      BY <3>1 DEF startNextBody
  <2>3. \A o, st, target : Keeps(Entered, finishOwner(Entered, o, st, target))
    BY EnteredIsDraft, KeepsOwner
  <2> QED
    BY <2>1, <2>2, <2>3, EnteredSafe DEF Commits
<1> QED
  BY <1>1, <1>2, <1>3, <1>4, <1>5, <1>6

\* An owner that is done leaves the tree with its result, or hands a
\* cancellation on.
LEMMA KeepsSettled ==
  ASSUME NEW d, IsDraft(d), NEW o, NEW region, NEW node, NEW st, NEW cleanup, NEW target
  PROVE  LET e == Without(d, o)
         IN  /\ Keeps(d, Invalid(e))
             /\ Keeps(d, routeOwnedResult(e, region, node, st, target))
             /\ Keeps(d, completeRequestedCancellation(storeOwnedResult(e, region, node, st),
                                                      region, st, cleanup))
<1> DEFINE e == Without(d, o)
           f == storeOwnedResult(e, region, node, st)
<1>1. Keeps(d, e)
  <2>1. \A x, y : Keeps(d, [d EXCEPT !.frames = x, !.work = y])
    BY DEF Keeps, Derived, IsDraft, DraftFields
  <2> QED
    BY <2>1 DEF Without
<1> HIDE DEF e
<1>2. /\ Keeps(e, Invalid(e))
      /\ Keeps(e, routeOwnedResult(e, region, node, st, target))
      /\ Keeps(e, f)
  BY <1>1, KeepsInvalid, KeepsResult DEF Keeps, Derived
<1>3. Keeps(f, completeRequestedCancellation(f, region, st, cleanup))
  BY <1>2, KeepsRequestedCancellation DEF Keeps, Derived
<1>4. Keeps(d, f)
  BY <1>1, <1>2, KeepsTransitive
<1> QED
  BY <1>1, <1>2, <1>3, <1>4, KeepsTransitive DEF e

\* The two settlements are of that form.
LEMMA KeepsFinish ==
  ASSUME NEW d, IsDraft(d), NEW o
  PROVE  Keeps(d, finishParallel(d, o)) /\ Keeps(d, finishMap(d, o))
<1> DEFINE e == Without(d, o)
           settled(f) ==
             \E region, node, st, cleanup, target :
               \/ f = Invalid(e)
               \/ f = routeOwnedResult(e, region, node, st, target)
               \/ f = completeRequestedCancellation(storeOwnedResult(e, region, node, st),
                                                    region, st, cleanup)
<1>1. settled(finishParallel(d, o))
  BY Zenon DEF finishParallel
<1>2. settled(finishMap(d, o))
  BY Zenon DEF finishMap
<1> QED
  BY <1>1, <1>2, KeepsSettled

\* Settling an owner.
LEMMA SettleCommits ==
  ASSUME IInv, SettleParallel \/ SettleMap
  PROVE  Commits
<1>1. CASE SettleParallel
  <2>1. Ready /\ \/ Commit(Taken)
                 \/ \E o : Commit(finishParallel(Taken, o))
    BY <1>1, Zenon DEF SettleParallel, Executing
  <2>2. Keeps(Taken, Taken) /\ \A o : Keeps(Taken, finishParallel(Taken, o))
    BY TakenIsDraft, KeepsItself, KeepsFinish
  <2> QED
    BY <2>1, <2>2, TakenSafe DEF Commits
<1>2. CASE SettleMap
  <2> DEFINE o == Head(queue)
             stopped(frame) == [locallyCancelIdleActive(SetFrame(Taken, o, frame), o)
                                  EXCEPT !.cancel = o]
  <2>1. Ready /\ \E owner : /\ Commit(owner) \/ Commit(finishMap(owner, o))
                           /\ \E frame : owner \in {stopped(frame), SetFrame(Taken, o, frame),
                                                   refill(Taken, o), Taken}
    BY <1>2, Zenon DEF SettleMap, Executing
  <2>2. PICK owner : /\ Commit(owner) \/ Commit(finishMap(owner, o))
                     /\ \E frame : owner \in {stopped(frame), SetFrame(Taken, o, frame),
                                             refill(Taken, o), Taken}
    BY <2>1
  <2>3. ASSUME NEW frame
        PROVE  /\ Keeps(Taken, SetFrame(Taken, o, frame))
               /\ Keeps(Taken, stopped(frame))
    <3> DEFINE d == SetFrame(Taken, o, frame)
               e == locallyCancelIdleActive(d, o)
    <3>1. Keeps(Taken, d)
      BY TakenIsDraft, KeepsTree
    <3>2. Keeps(d, e)
      BY <3>1, KeepsCancelUnstarted DEF Keeps, Derived
    <3>3. Keeps(e, [e EXCEPT !.cancel = o])
      BY <3>2, KeepsUpdate DEF Keeps, Derived
    <3> QED
      BY <3>1, <3>2, <3>3, KeepsTransitive
  <2>4. Keeps(Taken, owner)
    BY <2>2, <2>3, TakenIsDraft, KeepsItself, KeepsRefill
  <2>5. Keeps(owner, finishMap(owner, o))
    BY <2>4, KeepsFinish DEF Keeps, Derived
  <2> QED
    BY <2>1, <2>2, <2>4, <2>5, KeepsTransitive, TakenSafe DEF Commits
<1> QED
  BY <1>1, <1>2

-----------------------------------------------------------------------------
(***************************************************************************)
(* The steps that do more than commit a draft.                             *)
(***************************************************************************)
\* Dispatching an operation: it is pending from now on.
LEMMA ExternalStep ==
  ASSUME IInv, NEW n, Executing, addExternalOperation(n)
  PROVE  IInv'
<1> DEFINE op == Append(Head(queue), n)
           d == [consumeRegionNode(Entered, Head(queue), n) EXCEPT
                   !.valid = op \notin pending /\ op \notin DOMAIN resolved]
<1>1. IsDraft(d) /\ d.terminal = None
  <2>1. Keeps(Entered, consumeRegionNode(Entered, Head(queue), n))
    BY EnteredIsDraft, KeepsResult
  <2> QED
    BY <2>1, EnteredIsDraft DEF Keeps, Derived, IsDraft, DraftFields, Executing, Ready
<1>2. /\ terminal' = None
      /\ valid' \in BOOLEAN
  BY <1>1 DEF addExternalOperation, Structure, IsDraft
<1>3. UNCHANGED <<status, resolved, runCancellation, regionCancellations, fault, phase,
                  before, reply, issued, answered>>
  BY DEF addExternalOperation, history
<1>4. \/ pending' = pending /\ Dispatched' = Dispatched
      \/ pending' = pending \cup {op} /\ Dispatched' = Dispatched \cup {op}
  <2>1. CASE pending' = pending /\ commands' = commands
    BY <2>1 DEF Dispatched
  <2>2. CASE pending' = pending \cup {op} /\ commands' = commands \cup {Dispatch(op)}
    <3>1. Dispatch(op).kind = "dispatch" /\ Dispatch(op).op = op
      BY DEF Dispatch
    <3> QED
      BY <2>2, <3>1 DEF Dispatched
  <2> QED
    BY <2>1, <2>2 DEF addExternalOperation
<1>5. phase = "drain" /\ ~runCancellation.requested
  BY DEF Executing, Ready
<1>6. TypeOK'
  BY <1>2, <1>3, <1>4 DEF IInv, TypeOK, Terminal
<1>7. Ledger' /\ Resting' /\ Finished' /\ Frozen'
  BY <1>3, <1>4, <1>5 DEF IInv, Ledger, Resting, Finished, Frozen, Faulty, Terminal
<1> QED
  BY <1>6, <1>7 DEF IInv

\* What an answer does to the tree is safe: while the run is being cancelled
\* the operation is awaited, so its answer can only be stored.
LEMMA AppliedSafe ==
  ASSUME IInv, Live, NEW op \in pending, NEW a
  PROVE  Safe(applied(op, a))
<1> DEFINE d == [Draft EXCEPT !.pending = withoutOperation(op),
                              !.work = indexWork + 1 + acknowledgementWork(op)]
           run == cancellationsOf(op).run
<1>1. IsDraft(d) /\ d.terminal = None
  <2>1. terminal = None
    BY DEF IInv, Resting, Live
  <2> QED
    BY <2>1, DraftIsDraft DEF IsDraft, DraftFields
<1>2. ~Faulty
  BY DEF Faulty, IInv, Finished, Live, Terminal, None
<1>3. runCancellation.requested => run
  BY <1>2 DEF IInv, Frozen, cancellationsOf
<1>4. ASSUME NEW e, Keeps(d, e)
      PROVE  Safe(e)
  BY <1>1, <1>4 DEF Keeps, Derived, Safe
<1>5. \/ applied(op, a) = Invalid(d)
      \/ applied(op, a) = d
      \/ applied(op, a) = storeCleanupResult(d, op, a, cancellationsOf(op))
      \/ applied(op, a) = applyOrdinaryResult(d, op, a, run)
  BY Zenon DEF applied
<1> HIDE DEF d
<1>6. Keeps(d, Invalid(d)) /\ Keeps(d, d)
  BY <1>1, KeepsInvalid, KeepsItself
<1>7. ASSUME NEW cleanup
      PROVE  Keeps(d, storeCleanupResult(d, op, a, cleanup))
  <2> DEFINE e == storePendingNodeResult(d, RegionOf(op), Last(op), a.result)
             f == Charge(e, 1)
  <2>1. Keeps(d, e)
    BY <1>1, KeepsResult
  <2>2. Keeps(d, f)
    BY <2>1, KeepsUpdate, KeepsTransitive DEF Keeps, Derived
  <2>3. \A st : Keeps(f, completeRequestedCancellation(f, RegionOf(op), st, cleanup))
    BY <2>2, KeepsRequestedCancellation DEF Keeps, Derived
  <2>4. \/ storeCleanupResult(d, op, a, cleanup) = e
        \/ \E st : storeCleanupResult(d, op, a, cleanup)
                     = completeRequestedCancellation(f, RegionOf(op), st, cleanup)
    BY Zenon DEF storeCleanupResult
  <2> QED
    BY <2>1, <2>2, <2>3, <2>4, KeepsTransitive
<1>8. Safe(brokenRegion(d, op, run))
  <2>1. CASE run
    <3> DEFINE e == storePendingNodeResult(d, RegionOf(op), Last(op), "failed")
    <3>1. brokenRegion(d, op, run) = Charge(e, 1)
      BY <2>1 DEF brokenRegion
    <3>2. Keeps(d, e)
      BY <1>1, KeepsResult
    <3>3. Keeps(e, Charge(e, 1))
      BY <3>2, KeepsUpdate DEF Keeps, Derived
    <3>4. Keeps(d, Charge(e, 1))
      BY <3>2, <3>3, KeepsTransitive
    <3> QED
      BY <1>4, <3>1, <3>4
  <2>2. CASE ~run
    <3>1. brokenRegion(d, op, run) = completeFailedRegion(d, RegionOf(op))
      BY <2>2 DEF brokenRegion
    <3> QED
      BY <1>1, <1>3, <2>2, <3>1, FailedRegionSelects DEF Safe, Derived
  <2> QED
    BY <2>1, <2>2
<1>9. Safe(applyOrdinaryResult(d, op, a, run))
  <2> DEFINE e == recordPendingNodeResult(d, RegionOf(op), Last(op), a.result, a.target)
             routed == Charge(e, 1)
  <2>1. Keeps(d, e)
    BY <1>1, KeepsResult
  <2>2. Keeps(d, routed)
    BY <2>1, KeepsUpdate, KeepsTransitive DEF Keeps, Derived
  <2>3. Keeps(routed, Enqueue(routed, RegionOf(op)))
    BY <2>2, KeepsTree DEF Keeps, Derived
  <2>4. applyOrdinaryResult(d, op, a, run)
          \in {brokenRegion(d, op, run), routed, Enqueue(routed, RegionOf(op))}
    BY DEF applyOrdinaryResult
  <2> QED
    BY <1>4, <1>8, <2>2, <2>3, <2>4, KeepsTransitive
<1> QED
  BY <1>4, <1>5, <1>6, <1>7, <1>9

\* An answer: it leaves every set that awaits it.
LEMMA ApplyStep ==
  ASSUME IInv, NEW op, NEW a, ApplyEvent(op, a)
  PROVE  IInv'
<1> DEFINE d == applied(op, a)
<1>1. Live /\ op \in pending /\ Safe(d)
  BY AppliedSafe DEF ApplyEvent
<1>2. /\ pending' = pending \ {op}
      /\ answered' = answered \cup {op}
      /\ DOMAIN resolved' = DOMAIN resolved \cup {op}
      /\ DOMAIN runCancellation' = {"requested", "awaiting"}
      /\ runCancellation'.requested = runCancellation.requested
      /\ runCancellation'.awaiting = runCancellation.awaiting \ {op}
      /\ phase' = "drain" /\ reply' = "advanced" /\ before' = runCancellation
      /\ UNCHANGED <<status, fault, issued>>
  <2>1. runCancellation' = [runCancellation EXCEPT !.awaiting = @ \ {op}]
    BY DEF ApplyEvent
  <2>2. DOMAIN runCancellation = {"requested", "awaiting"}
    BY DEF IInv, TypeOK
  <2> QED
    BY <2>1, <2>2 DEF ApplyEvent, withoutOperation, With
<1>3. ~Faulty
  BY <1>1 DEF Faulty, IInv, Finished, Live, Terminal, None
<1>4. \A o \in DOMAIN acknowledged(op) :
        acknowledged(op)[o] \in (SUBSET pending') \ {{}}
  BY <1>1, <1>2 DEF IInv, TypeOK, acknowledged
<1>5. requestRegionCancellation(d.cancel, pending', acknowledged(op), {})
  BY DEF ApplyEvent
<1>6. /\ \A o \in DOMAIN regionCancellations' :
           regionCancellations'[o] \in (SUBSET pending') \ {{}}
      /\ Dispatched' = {}
  BY <1>4, <1>5, RequestKeeps DEF Dispatched
<1>7. terminal' = d.terminal /\ valid' = d.valid
  BY DEF ApplyEvent, Structure
<1>8. TypeOK'
  BY <1>1, <1>2, <1>3, <1>6, <1>7 DEF IInv, TypeOK, Safe, IsDraft, Faulty, Terminal
<1>9. Ledger'
  BY <1>1, <1>2, <1>3, <1>6 DEF IInv, Ledger, Faulty
<1>10. Resting' /\ Finished'
  BY <1>1, <1>2, <1>3 DEF IInv, Resting, Finished, Terminal, Live
<1>11. Frozen'
  BY <1>1, <1>2, <1>3, <1>6, <1>7 DEF IInv, Frozen, Faulty, Safe
<1> QED
  BY <1>8, <1>9, <1>10, <1>11 DEF IInv

\* Cancelling the run awaits what is pending and dispatches nothing.
LEMMA RequestRunStep ==
  ASSUME IInv, RequestRunCancellation
  PROVE  IInv'
<1>1. /\ runCancellation' = [requested |-> TRUE, awaiting |-> pending]
      /\ before' = runCancellation
      /\ status' = "cancelling" /\ phase' = "drain" /\ reply' = "advanced"
      /\ UNCHANGED <<pending, resolved, regionCancellations, fault, terminal, valid,
                     issued, answered>>
  BY DEF RequestRunCancellation, history
<1>2. Dispatched' = {}
  BY DEF RequestRunCancellation, Dispatched, CancelPending
<1>3. terminal = None /\ ~Faulty
  BY DEF RequestRunCancellation, Live, IInv, Resting, Finished, Faulty, Terminal, None
<1>4. fault = None
  BY DEF RequestRunCancellation, Live, IInv, Finished, Terminal
<1>5. TypeOK'
  BY <1>1, <1>3 DEF IInv, TypeOK, Faulty
<1>6. Ledger' /\ Resting' /\ Finished' /\ Frozen'
  BY <1>1, <1>2, <1>3, <1>4 DEF IInv, Ledger, Resting, Finished, Frozen, Faulty, Terminal
<1> QED
  BY <1>5, <1>6 DEF IInv

\* A replay, a rejection, a repeated cancellation and any event of a finished
\* pipeline.
LEMMA UnappliedStep ==
  ASSUME IInv, NEW verdict \in {"advanced", "rejected"}, Unapplied(verdict)
  PROVE  IInv'
<1>1. /\ reply' = verdict /\ Dispatched' = {}
      /\ UNCHANGED <<status, pending, resolved, runCancellation, regionCancellations, fault,
                     phase, terminal, valid, before, issued, answered>>
  BY DEF Unapplied, state, transition, history, Dispatched
<1>2. TypeOK'
  BY <1>1 DEF IInv, TypeOK
<1>3. Ledger' /\ Resting' /\ Finished' /\ Frozen'
  BY <1>1 DEF IInv, Ledger, Resting, Finished, Frozen, Faulty
<1> QED
  BY <1>2, <1>3 DEF IInv

\* The end of a transition.
LEMMA FinishStep ==
  ASSUME IInv, Finish
  PROVE  IInv'
<1>1. CASE FinishInvalid
  <2>1. /\ status' = "failed" /\ fault' = "INVARIANT_PROGRAM_STATE"
        /\ pending' = {} /\ resolved' = <<>> /\ regionCancellations' = <<>>
        /\ phase' = "rest" /\ terminal' = None /\ valid' = TRUE
        /\ runCancellation' = before /\ before' = NotCancelled
        /\ UNCHANGED <<reply, issued, answered>>
    BY <1>1 DEF FinishInvalid, ClearExecution, ClearTransition, history
  <2>2. TypeOK'
    BY <2>1 DEF IInv, TypeOK, Terminal, NotCancelled
  <2> QED
    BY <2>1, <2>2 DEF IInv, Ledger, Resting, Finished, Frozen, Faulty, Terminal
<1>2. CASE FinishTerminal
  <2>1. /\ status' = Outcome
        /\ fault' = IF Outcome = "failed" THEN "PIPELINE_FAILURE" ELSE None
        /\ pending' = {} /\ resolved' = <<>> /\ regionCancellations' = <<>>
        /\ phase' = "rest" /\ terminal' = None /\ valid' = TRUE
        /\ before' = NotCancelled
        /\ issued' = issued \cup Dispatched
        /\ UNCHANGED <<runCancellation, reply, answered>>
    BY <1>2 DEF FinishTerminal, ClearExecution, ClearTransition
  <2>2. /\ pending = {}
        /\ Outcome \in {"succeeded", "failed", "cancelled"}
        /\ runCancellation.requested /\ terminal = None => Outcome = "cancelled"
    BY <1>2 DEF FinishTerminal, Writable, Outcome, IInv, TypeOK, None
  <2>3. Dispatched' = Dispatched
    <3>1. \A outcome : Final(outcome).kind = outcome
      BY DEF Final
    <3>2. \E outcome \in {"complete", "fail", "cancel"} :
            commands' = commands \cup {Final(outcome)}
      BY <1>2, <2>2 DEF FinishTerminal
    <3> QED
      BY <3>1, <3>2 DEF Dispatched
  <2>4. ~Faulty
    BY <1>2 DEF FinishTerminal, Drained, IInv, Finished, Faulty, Terminal, None
  <2>5. TypeOK'
    BY <2>1, <2>2, <2>4 DEF IInv, TypeOK, Terminal, NotCancelled, Faulty
  <2>6. Ledger' /\ Resting' /\ Finished'
    BY <2>1, <2>2, <2>3, <2>4 DEF IInv, Ledger, Resting, Finished, Terminal, Faulty, None
  <2>7. Frozen'
    BY <2>1, <2>2, <2>3, <2>4 DEF IInv, Frozen, Faulty
  <2> QED
    BY <2>5, <2>6, <2>7 DEF IInv
<1>3. CASE FinishRest
  <2>1. /\ DOMAIN resolved' \subseteq DOMAIN resolved
        /\ phase' = "rest" /\ terminal' = None /\ valid' = TRUE
        /\ before' = NotCancelled
        /\ issued' = issued \cup Dispatched
        /\ UNCHANGED <<status, pending, runCancellation, regionCancellations, fault,
                       commands, reply, answered>>
    BY <1>3 DEF FinishRest, ClearTransition, pruneReceipts
  <2>2. Dispatched' = Dispatched
    BY <2>1 DEF Dispatched
  <2>3. TypeOK'
    BY <2>1 DEF IInv, TypeOK, NotCancelled, None
  <2>4. phase = "drain"
    BY <1>3 DEF FinishRest, Drained
  <2>5. Ledger' /\ Resting' /\ Finished' /\ Frozen'
    BY <2>1, <2>2, <2>4 DEF IInv, Ledger, Resting, Finished, Frozen, Faulty
  <2> QED
    BY <2>3, <2>5 DEF IInv
<1> QED
  BY <1>1, <1>2, <1>3 DEF Finish

-----------------------------------------------------------------------------
\* The first transition starts from nothing dispatched and nothing pending.
LEMMA InitIInv == Init => IInv
<1> SUFFICES ASSUME Init PROVE IInv
  OBVIOUS
<1>1. Dispatched = {}
  BY DEF Init, Dispatched
<1> QED
  BY <1>1 DEF Init, IInv, TypeOK, Ledger, Resting, Finished, Frozen, Faulty, Terminal,
              NotCancelled, None

\* The invariant is inductive.
LEMMA NextIInv == IInv /\ [Next]_vars => IInv'
<1> SUFFICES ASSUME IInv, [Next]_vars PROVE IInv'
  OBVIOUS
<1>1. ASSUME Commits, phase = "drain"
      PROVE  IInv'
  BY <1>1, CommitStep DEF Commits
<1>2. CASE SkipFrame
  BY <1>1, <1>2, SkipCommits DEF SkipFrame, Ready
<1>3. ASSUME NEW n \in DOMAIN Nodes, ExecuteNode(n)
      PROVE  IInv'
  <2>1. Executing /\ phase = "drain"
    BY <1>3 DEF ExecuteNode, AtNode, EndOf, Executing, Ready, RejectInput, StartActivity,
                StartWait, StartHumanGate, SelectChoice, MissChoice, StartCall, StartRepeat,
                StartParallel, StartMap, EndFails, EndRoot, EndCall, EndBranch, EndItem,
                EndRepeat, EndIteration
  <2>2. CASE StartActivity(n) \/ StartWait(n) \/ StartHumanGate(n)
    BY <2>1, <2>2, ExternalStep DEF StartActivity, StartWait, StartHumanGate
  <2>3. CASE RejectInput(n) \/ SelectChoice(n) \/ MissChoice(n)
    BY <1>1, <2>1, <2>3, DirectCommits
  <2>4. CASE StartCall(n) \/ StartRepeat(n) \/ StartParallel(n) \/ StartMap(n)
    BY <1>1, <2>1, <2>4, OwnerCommits
  <2>5. CASE \/ EndFails(n) \/ EndRoot(n) \/ EndCall(n) \/ EndBranch(n)
             \/ EndItem(n) \/ EndRepeat(n) \/ EndIteration(n)
    BY <1>1, <2>1, <2>5, EndCommits
  <2> QED
    BY <1>3, <2>2, <2>3, <2>4, <2>5 DEF ExecuteNode
<1>4. CASE SettleParallel \/ SettleMap
  BY <1>1, <1>4, SettleCommits DEF SettleParallel, SettleMap, Executing, Ready
<1>5. CASE Finish
  BY <1>5, FinishStep
<1>6. CASE Event
  <2>1. \A op, a : ApplyEvent(op, a) => IInv'
    BY ApplyStep
  <2>2. RequestRunCancellation => IInv'
    BY RequestRunStep
  <2>3. ASSUME \/ \E op, a : Redeliver(op, a)
               \/ \E op : RedeliverLate(op)
               \/ RejectEvent
               \/ IgnoreEvent
        PROVE  IInv'
    <3>1. \E verdict \in {"advanced", "rejected"} : Unapplied(verdict)
      BY <2>3 DEF Redeliver, RedeliverLate, RejectEvent, IgnoreEvent
    <3> QED
      BY <3>1, UnappliedStep
  <2> QED
    BY <1>6, <2>1, <2>2, <2>3 DEF Event
<1>7. CASE UNCHANGED vars
  BY <1>7 DEF vars, state, transition, history, IInv, TypeOK, Ledger, Resting, Finished,
              Frozen, Faulty, Dispatched
<1> QED
  BY <1>2, <1>3, <1>4, <1>5, <1>6, <1>7 DEF Next, Drain

\* See IInv.
LEMMA InductiveInvariant == Spec => []IInv
BY InitIInv, NextIInv, PTL DEF Spec

-----------------------------------------------------------------------------
\* The machine's variables keep their types for every program; in particular a
\* cancellation never awaits an operation that is not pending, and never nothing.
THEOREM TypeCorrect == Spec => []TypeOK
<1>1. IInv => TypeOK
  BY DEF IInv
<1> QED
  BY <1>1, InductiveInvariant, PTL

\* A pipeline that concludes, other than by an invariant fault, has an answer to
\* everything it ever dispatched, whatever its program and its cancellations.
THEOREM ConcludesWithoutDetachedWork == Spec => []NoDetachedWork
<1>1. IInv => NoDetachedWork
  BY DEF IInv, Ledger, Finished, NoDetachedWork, Faulty
<1> QED
  BY <1>1, InductiveInvariant, PTL

\* Draining decides nothing about the pipeline: outcome and history wait for the
\* end of the transition.
LEMMA DrainKeepsOutcome ==
  ASSUME IInv, Drain
  PROVE  UNCHANGED <<status, fault, issued>>
<1>1. Commits => UNCHANGED <<status, fault, issued>>
  BY DEF Commits, Commit, history
<1>2. CASE SkipFrame
  BY <1>1, <1>2, SkipCommits
<1>3. ASSUME NEW n \in DOMAIN Nodes, ExecuteNode(n)
      PROVE  UNCHANGED <<status, fault, issued>>
  <2>1. CASE StartActivity(n) \/ StartWait(n) \/ StartHumanGate(n)
    BY <2>1 DEF StartActivity, StartWait, StartHumanGate, addExternalOperation, history
  <2>2. CASE RejectInput(n) \/ SelectChoice(n) \/ MissChoice(n)
    BY <1>1, <2>2, DirectCommits
  <2>3. CASE StartCall(n) \/ StartRepeat(n) \/ StartParallel(n) \/ StartMap(n)
    BY <1>1, <2>3, OwnerCommits
  <2>4. CASE \/ EndFails(n) \/ EndRoot(n) \/ EndCall(n) \/ EndBranch(n)
             \/ EndItem(n) \/ EndRepeat(n) \/ EndIteration(n)
    BY <1>1, <2>4, EndCommits
  <2> QED
    BY <1>3, <2>1, <2>2, <2>3, <2>4 DEF ExecuteNode
<1>4. CASE SettleParallel \/ SettleMap
  BY <1>1, <1>4, SettleCommits
<1> QED
  BY <1>2, <1>3, <1>4 DEF Drain

\* Once a run is being cancelled it neither succeeds nor fails, except by an
\* invariant fault, and dispatches nothing more.
THEOREM CancelledRunStaysCancelled == Spec => RunCancellationWins
<1> DEFINE Wins == runCancellation.requested =>
                     /\ status' \in {"cancelling", "cancelled"}
                          \/ fault' = "INVARIANT_PROGRAM_STATE"
                     /\ issued' = issued
<1>1. IInv /\ IInv' /\ [Next]_vars => [Wins]_vars
  <2> SUFFICES ASSUME IInv, IInv', Next, runCancellation.requested
               PROVE  /\ status' \in {"cancelling", "cancelled"}
                           \/ fault' = "INVARIANT_PROGRAM_STATE"
                      /\ issued' = issued
    OBVIOUS
  <2>1. ~Faulty => /\ status \in {"cancelling", "cancelled"}
                   /\ Dispatched = {}
                   /\ terminal = None
    BY DEF IInv, Frozen
  <2>2. ASSUME UNCHANGED <<status, fault, issued>>
        PROVE  /\ status' \in {"cancelling", "cancelled"}
                    \/ fault' = "INVARIANT_PROGRAM_STATE"
               /\ issued' = issued
    BY <2>1, <2>2 DEF Faulty
  <2>3. CASE Drain
    BY <2>2, <2>3, DrainKeepsOutcome
  <2>4. CASE FinishInvalid
    BY <2>4 DEF FinishInvalid, history
  <2>5. CASE FinishTerminal
    <3>1. ~Faulty
      BY <2>5 DEF FinishTerminal, Drained, IInv, Finished, Faulty, Terminal, None
    <3>2. Outcome = "cancelled"
      BY <2>1, <2>5, <3>1 DEF FinishTerminal, Writable, Outcome
    <3> QED
      BY <2>1, <2>5, <3>1, <3>2 DEF FinishTerminal
  <2>6. CASE FinishRest
    <3>1. ~Faulty
      BY <2>6 DEF FinishRest, Drained, IInv, Finished, Faulty, Terminal, None
    <3> QED
      BY <2>1, <2>6, <3>1 DEF FinishRest
  <2>7. CASE Event
    <3>1. \A op, a : ApplyEvent(op, a) => UNCHANGED <<status, fault, issued>>
      BY DEF ApplyEvent
    <3>2. ~RequestRunCancellation
      BY DEF RequestRunCancellation
    <3>3. \A verdict : Unapplied(verdict) => UNCHANGED <<status, fault, issued>>
      BY DEF Unapplied, state, history
    <3>4. UNCHANGED <<status, fault, issued>>
      BY <2>7, <3>1, <3>2, <3>3 DEF Event, Redeliver, RedeliverLate, RejectEvent, IgnoreEvent
    <3> QED
      BY <2>2, <3>4
  <2> QED
    BY <2>3, <2>4, <2>5, <2>6, <2>7 DEF Next, Finish
<1> QED
  BY <1>1, InductiveInvariant, PTL DEF Spec, RunCancellationWins
=============================================================================
