------------------------------- MODULE Kernel -------------------------------
(***************************************************************************)
(* The pipeline machine: one persisted state advanced by host events.      *)
(*                                                                         *)
(* A transition (createInitialPipelineState or advancePipeline) is a       *)
(* synchronous computation.  Here it is a sequence of steps: the event is  *)
(* applied, then every queued frame is executed in FIFO order (one node of *)
(* a region, or one settlement of an owner), then the transition finishes. *)
(* Between events phase = "rest": the variables of the first group are the *)
(* state the host persists.  No event is taken while phase = "drain".      *)
(***************************************************************************)
EXTENDS Frames

CONSTANT
  Limits        \* what one transition may do and one state may hold: a record of
                \* work, frames, operations, results, memberships and slots

ASSUME LimitsAssumption ==
  \A limit \in {"work", "frames", "operations", "results", "memberships", "slots"} :
    Limits[limit] \in Nat

VARIABLES
  status,               \* of the pipeline
  frames,               \* live frames by key
  pending,              \* keys of dispatched operations without an answer
  resolved,             \* receipts: operation key -> the event that answered it
  runCancellation,      \* [requested, awaiting] of the whole run
  regionCancellations,  \* owner key -> operations its cancellation awaits
  fault,                \* why the pipeline failed, or None
  phase,                \* "rest" | "drain"
  queue, cleanups, terminal, valid, work,   \* of the transition being computed
  before,               \* runCancellation when it began
  commands,             \* returned by the last transition
  reply,                \* its verdict: "initialized" | "advanced" | "rejected"
  issued, answered      \* history: operations ever commanded, ever answered

state == <<status, frames, pending, resolved, runCancellation,
           regionCancellations, fault>>
transition == <<phase, queue, cleanups, terminal, valid, work, before>>
history == <<issued, answered>>
vars == <<state, transition, commands, reply, history>>

Terminal == {"succeeded", "failed", "cancelled"}
NotCancelled == [requested |-> FALSE, awaiting |-> {}]

-----------------------------------------------------------------------------
(***************************************************************************)
(* Commands, and the events that can answer an operation.                  *)
(***************************************************************************)
Dispatch(op) == [kind |-> "dispatch", op |-> op]
CancelPending(owner, targets) ==
  [kind |-> "cancelPending", owner |-> owner, targets |-> targets]
Final(outcome) == [kind |-> outcome]
Dispatched == {c.op : c \in {e \in commands : e.kind = "dispatch"}}

\* An event, the node result it stands for and the node it routes to.
\* Target None: the region fails instead (signal payload off its schema).
Answer(event, result, target) == [event |-> event, result |-> result, target |-> target]

activityResult(node) ==
  {Answer("succeeded", "succeeded", node.succeeded),
   Answer("mismatched", "failed", node.failed),
   Answer("failed", "failed", node.failed),
   Answer("cancelled", "cancelled", node.cancelled)}

waitResult(node) ==
  {Answer("completed", "succeeded", node.completed),
   Answer("cancelled", "cancelled", node.cancelled)}
  \cup IF node.signal THEN {Answer("mismatched", "failed", None)} ELSE {}

gateResult(node) ==
  {Answer(a, "succeeded", node.answers[a]) : a \in DOMAIN node.answers}
  \cup {Answer("cancelled", "cancelled", node.cancelled)}
  \cup IF node.deadline # None THEN {Answer("deadline", "succeeded", node.deadline)} ELSE {}

Answers(op) == CASE NodeAt(op).kind = "activity" -> activityResult(NodeAt(op))
                 [] NodeAt(op).kind = "wait" -> waitResult(NodeAt(op))
                 [] NodeAt(op).kind = "humanGate" -> gateResult(NodeAt(op))

-----------------------------------------------------------------------------
(***************************************************************************)
(* Committing a draft.                                                     *)
(***************************************************************************)
Draft == [frames |-> frames, pending |-> pending, queue |-> queue,
          cleanups |-> cleanups, terminal |-> terminal, cancel |-> NoOwner,
          valid |-> TRUE, work |-> work]

\* A mutant: only the operations of the owner's own branches or items.
descendantPendingTargetsDirect(ops, owner) ==
  {op \in ops : OwnerOf(RegionOf(op)) = owner}

descendantPendingTargets(ops, owner) == {op \in ops : IsStrictPrefix(owner, op)}

\* An owner asks once, for those of the pending `ops` below it, and not while
\* the run is being cancelled.
Asks(owner, ops, cancellations) ==
  /\ owner # NoOwner
  /\ ~runCancellation.requested
  /\ owner \notin DOMAIN cancellations
  /\ descendantPendingTargets(ops, owner) # {}

\* requestRegionCancellation; `output` are the commands of the transition so far.
requestRegionCancellation(owner, ops, cancellations, output) ==
  LET targets == descendantPendingTargets(ops, owner)
      asks == Asks(owner, ops, cancellations)
  IN  /\ regionCancellations' = IF asks THEN With(cancellations, owner, targets)
                                ELSE cancellations
      /\ commands' = IF asks THEN output \cup {CancelPending(owner, targets)}
                     ELSE output

\* draft.addRegionCancellation: one unit for the set, one for each operation it
\* awaits and one for the command.
regionCancellationWork(owner, ops, cancellations) ==
  IF Asks(owner, ops, cancellations)
  THEN 2 + Cardinality(descendantPendingTargets(ops, owner)) ELSE 0

Structure(d) ==
  /\ frames' = d.frames
  /\ queue' = d.queue
  /\ cleanups' = d.cleanups
  /\ terminal' = d.terminal
  /\ valid' = d.valid

-----------------------------------------------------------------------------
(***************************************************************************)
(* Executing a queued frame.                                               *)
(***************************************************************************)
Ready == phase = "drain" /\ valid /\ terminal = None /\ queue # <<>>
Taken == [Draft EXCEPT !.queue = Tail(@)]     \* the draft once its head is taken
Entered == Charge(Taken, 1)                  \* and a node of that region is entered
Executing == Ready /\ ~runCancellation.requested /\ Head(queue) \in DOMAIN frames

\* A step of the drain that starts no external operation.
Commit(d) ==
  /\ Structure(d)
  /\ requestRegionCancellation(d.cancel, pending, regionCancellations, commands)
  /\ work' = d.work + regionCancellationWork(d.cancel, pending, regionCancellations)
  /\ UNCHANGED <<status, pending, resolved, runCancellation, fault, phase, before, reply,
                 history>>

\* During a run cancellation nothing runs, and a region with no ready node has
\* nothing to run; a queued frame that is gone is a defect.
Idle(k) == k \in DOMAIN frames /\ IsRegion(k) /\ frames[k].ready = {}
SkipFrame ==
  /\ Ready
  /\ runCancellation.requested \/ Head(queue) \notin DOMAIN frames \/ Idle(Head(queue))
  /\ Commit([Taken EXCEPT !.valid = Head(queue) \in DOMAIN frames])

\* The node n of the region at the head of the queue is ready.
AtNode(n, kind) ==
  /\ Executing
  /\ IsRegion(Head(queue))
  /\ n \in frames[Head(queue)].ready
  /\ Nodes[n].kind = kind

\* Activity input off its schema, call module input, repeat body input, map
\* collection or item: the node fails before anything starts.
RejectInput(n) ==
  /\ \E kind \in {"activity", "call", "repeat", "map"} : AtNode(n, kind)
  /\ FALSE \in Nodes[n].inputs
  /\ Commit(routeImmediateResult(Entered, Head(queue), n, "failed", Nodes[n].failed))

addExternalOperation(n) ==
  LET op == Append(Head(queue), n)
      fresh == op \notin pending /\ op \notin DOMAIN resolved
  IN  /\ Structure([consumeRegionNode(Entered, Head(queue), n) EXCEPT !.valid = fresh])
      /\ pending' = IF fresh THEN pending \cup {op} ELSE pending
      /\ commands' = IF fresh THEN commands \cup {Dispatch(op)} ELSE commands
      /\ work' = Entered.work + 2
      /\ UNCHANGED <<status, resolved, runCancellation, regionCancellations,
                     fault, phase, before, reply, history>>

StartActivity(n) ==
  /\ AtNode(n, "activity")
  /\ TRUE \in Nodes[n].inputs
  /\ addExternalOperation(n)

StartWait(n) == AtNode(n, "wait") /\ addExternalOperation(n)

StartHumanGate(n) == AtNode(n, "humanGate") /\ addExternalOperation(n)

SelectChoice(n) ==
  /\ AtNode(n, "choice")
  /\ \E target \in Nodes[n].targets :
       LET r == Head(queue)
           d == consumeRegionNode(Entered, r, n)
       IN  Commit(Enqueue(SetFrame(d, r, [d.frames[r] EXCEPT !.ready = @ \cup {target}]), r))

\* The selector of a choice points at nothing: its region fails.
MissChoice(n) ==
  /\ AtNode(n, "choice")
  /\ Nodes[n].missing
  /\ Commit(completeFailedRegion(Entered, Head(queue)))

\* Owner frame o enters the tree; a key that is taken is refused.
AddOwner(d, o, frame) ==
  IF o \in DOMAIN d.frames THEN Invalid(d) ELSE Charge(SetFrame(d, o, frame), 1)

StartCall(n) ==
  LET o == Append(Head(queue), n)
      d == consumeRegionNode(Entered, Head(queue), n)
  IN  /\ AtNode(n, "call")
      /\ TRUE \in Nodes[n].inputs
      /\ Commit(AddRegion(AddOwner(d, o, [kind |-> "call"]),
                          Append(o, "module"), Nodes[n].region))

StartRepeat(n) ==
  LET o == Append(Head(queue), n)
      d == consumeRegionNode(Entered, Head(queue), n)
  IN  /\ AtNode(n, "repeat")
      /\ TRUE \in Nodes[n].inputs
      /\ Commit(AddRegion(AddOwner(d, o, [kind |-> "repeat", iteration |-> 0]),
                          Append(o, 0), Nodes[n].region))

\* `failures`: the branches whose input is missing or off its schema, which get
\* their result before any frame exists.
StartParallel(n) ==
  LET o == Append(Head(queue), n)
      d == consumeRegionNode(Entered, Head(queue), n)
      node == Nodes[n]
      branches == ToSet(node.order)
      failable == {b \in branches : FALSE \in node.branch[b].inputs}
      forced == {b \in branches : TRUE \notin node.branch[b].inputs}
      keys == [i \in DOMAIN node.order |-> Append(o, node.order[i])]
  IN  /\ AtNode(n, "parallel")
      /\ \E failures \in SUBSET failable :
           LET results == [b \in failures |-> "failed"]
               inputs == branches \ failures
               selected == classifyParallel(node, results, None)
               cancelled == [b \in inputs |-> "cancelled"]
               closed == [kind |-> "parallel", live |-> {}, selected |-> selected,
                          results |-> Else(results, cancelled), status |-> "completed"]
               opened == [kind |-> "parallel", live |-> inputs, selected |-> selected,
                          results |-> results,
                          status |-> IF selected = None THEN "active" ELSE "draining"]
               regions == [k \in {Append(o, b) : b \in inputs} |-> node.branch[Last(k)].region]
               started == AddRegions(AddOwner(d, o, opened), regions, keys)
           IN  /\ forced \subseteq failures
               /\ IF selected # None /\ node.remaining = "cancel"
                  THEN Commit(Enqueue(AddOwner(d, o, closed), o))
                  ELSE IF inputs = {} THEN Commit(Enqueue(started, o))
                  ELSE Commit(started)

\* The items, sorted by key; the first ones start at once.
StartMap(n) ==
  LET o == Append(Head(queue), n)
      d == consumeRegionNode(Entered, Head(queue), n)
  IN  /\ AtNode(n, "map")
      /\ \E items \in Nodes[n].collections :
           LET own == [kind |-> "map", unstarted |-> items, active |-> {},
                       completed |-> <<>>, selected |-> None, failedItem |-> None,
                       status |-> "active"]
           IN  IF items = <<>>
               THEN Commit(Enqueue(AddOwner(d, o, [own EXCEPT !.selected = "completed",
                                                              !.status = "completed"]), o))
               ELSE Commit(refill(AddOwner(d, o, own), o))

-----------------------------------------------------------------------------
(***************************************************************************)
(* Reaching the end of a region.  An output that does not resolve or is    *)
(* off its schema fails the region instead.                                *)
(***************************************************************************)
EndOf(n, kind) ==
  /\ AtNode(n, "end")
  /\ TRUE \in Nodes[n].outputs
  /\ Head(queue) # Root
  /\ NodeAt(OwnerOf(Head(queue))).kind = kind

EndFails(n) ==
  /\ AtNode(n, "end")
  /\ FALSE \in Nodes[n].outputs
  /\ Commit(completeFailedRegion(Entered, Head(queue)))

EndRoot(n) ==
  /\ AtNode(n, "end")
  /\ TRUE \in Nodes[n].outputs
  /\ Head(queue) = Root
  /\ Commit([Entered EXCEPT !.terminal = "succeeded"])

\* An outcome the caller does not route fails the call.
EndCall(n) ==
  LET o == OwnerOf(Head(queue))
  IN  /\ EndOf(n, "call")
      /\ \E fits \in NodeAt(o).outputs :
           Commit(IF fits /\ Nodes[n].outcome \in DOMAIN NodeAt(o).outcomes
                  THEN finishOwner(Entered, o, "succeeded", NodeAt(o).outcomes[Nodes[n].outcome])
                  ELSE finishOwner(Entered, o, "failed", NodeAt(o).failed))

\* Admission has every exit of a branch classified; any other would count as failed.
branchClasses(node, branch, outcome) ==
  LET exits == node.branch[branch].exits
  IN  IF outcome \in DOMAIN exits THEN exits[outcome] ELSE {"failed"}

EndBranch(n) ==
  LET branch == Head(queue)
  IN  /\ EndOf(n, "parallel")
      /\ \E class \in branchClasses(NodeAt(OwnerOf(branch)), Last(branch), Nodes[n].outcome) :
           Commit(completeParallelBranch(Entered, branch, class, NoCleanup))

EndItem(n) ==
  LET item == Head(queue)
  IN  /\ EndOf(n, "map")
      /\ Commit(completeMapItem(Entered, item, NodeAt(OwnerOf(item)).exits[Nodes[n].outcome],
                                NoCleanup))

\* A body exit that is not a value leaves the loop at once.
EndRepeat(n) ==
  LET o == OwnerOf(Head(queue))
      class == NodeAt(o).exits[Nodes[n].outcome]
  IN  /\ EndOf(n, "repeat")
      /\ class \in {"failed", "cancelled"}
      /\ Commit(finishOwner(Entered, o, class,
                            IF class = "failed" THEN NodeAt(o).failed ELSE NodeAt(o).cancelled))

\* A mutant of the next definition: the ordinal is not advanced.
startNextBodyAgain(d, body) ==
  AddRegion(PruneTrees(d, {body}), body, NodeAt(OwnerOf(body)).region)

startNextBody(d, body) ==
  LET o == OwnerOf(body)
      next == [d.frames[o] EXCEPT !.iteration = @ + 1]
  IN  AddRegion(SetFrame(PruneTrees(d, {body}), o, next),
                Append(o, next.iteration), NodeAt(o).region)

\* A value: the condition says "continue", "stop", or reads what is "missing".
\* `fits` is whether the next input (or the loop's output) meets its schema.
EndIteration(n) ==
  LET body == Head(queue)
      o == OwnerOf(body)
      node == NodeAt(o)
      again(verdict) == verdict = "continue" /\ Last(body) + 1 < node.maximumIterations
  IN  /\ EndOf(n, "repeat")
      /\ node.exits[Nodes[n].outcome] = "value"
      /\ \E verdict \in node.conditions, fits \in node.values :
           Commit(IF verdict = "missing" \/ ~fits
                  THEN finishOwner(Entered, o, "failed", node.failed)
                  ELSE IF again(verdict) THEN startNextBody(Entered, body)
                  ELSE finishOwner(Entered, o, "succeeded",
                                   IF verdict = "continue" THEN node.exhausted
                                   ELSE node.completed))

-----------------------------------------------------------------------------
(***************************************************************************)
(* Settling an owner.                                                      *)
(***************************************************************************)
Without(d, o) == [d EXCEPT !.frames = [k \in DOMAIN @ \ {o} |-> @[k]], !.work = @ + 1]
CleanupFor(o) == IF o \in DOMAIN cleanups THEN cleanups[o] ELSE NoCleanup

finishParallel(d, o) ==
  CASE Requested(CleanupFor(o)) ->
         completeRequestedCancellation(
           storeOwnedResult(Without(d, o), RegionOf(o), Last(o), "cancelled"),
           RegionOf(o), "cancelled", CleanupFor(o))
    [] ~Requested(CleanupFor(o)) /\ d.frames[o].selected = "cancelled" ->
         Invalid(Without(d, o))
    [] OTHER -> routeOwnedResult(Without(d, o), RegionOf(o), Last(o), "succeeded",
                                 NodeAt(o).next)

SettleParallel ==
  LET o == Head(queue)
      own == frames[o]
      waiting == \/ DOMAIN own.results # ToSet(NodeAt(o).order)
                 \/ own.selected = None
                 \/ o \in DOMAIN regionCancellations
  IN  /\ Executing
      /\ ~IsRegion(o)
      /\ NodeAt(o).kind = "parallel"
      /\ Commit(IF waiting THEN Taken ELSE finishParallel(Taken, o))

finishMap(d, o) ==
  LET selected == d.frames[o].selected
      st == IF selected = "failed" THEN "failed" ELSE "cancelled"
  IN  CASE Requested(CleanupFor(o)) ->
             completeRequestedCancellation(
               storeOwnedResult(Without(d, o), RegionOf(o), Last(o), st),
               RegionOf(o), st, CleanupFor(o))
        [] ~Requested(CleanupFor(o)) /\ selected = "failed" ->
             routeOwnedResult(Without(d, o), RegionOf(o), Last(o), "failed", NodeAt(o).failed)
        [] ~Requested(CleanupFor(o)) /\ selected = "cancelled" -> Invalid(Without(d, o))
        [] OTHER -> routeOwnedResult(Without(d, o), RegionOf(o), Last(o), "succeeded",
                                     NodeAt(o).completed)

\* requestRegionCancellation comes before the test on waiting, which sees the
\* cancellation it records.
SettleMap ==
  LET o == Head(queue)
      own == frames[o]
      closed == SetFrame(Taken, o, locallyCancelUnstarted(own))
      owner == CASE own.selected # None /\ own.status = "cancelling" ->
                      [locallyCancelIdleActive(closed, o) EXCEPT !.cancel = o]
                 [] own.selected # None /\ own.status # "cancelling" -> closed
                 [] own.selected = None /\ own.unstarted # <<>> -> refill(Taken, o)
                 [] OTHER -> Taken
      waiting == \/ owner.frames[o].active # {}
                 \/ owner.frames[o].unstarted # <<>>
                 \/ o \in DOMAIN regionCancellations
  IN  /\ Executing
      /\ ~IsRegion(o)
      /\ NodeAt(o).kind = "map"
      /\ Commit(IF waiting THEN owner ELSE finishMap(owner, o))

-----------------------------------------------------------------------------
(***************************************************************************)
(* Applying an event to the state at rest.                                 *)
(***************************************************************************)
Live == phase = "rest" /\ status \in {"running", "cancelling"}

\* How many operations the cancellations of the run and of regions await in all.
cancellationMemberships(cancellations, run) ==
  Cardinality(run.awaiting)
    + MapThenSumSet(LAMBDA o : Cardinality(cancellations[o]), DOMAIN cancellations)

\* createWorkBudget: what a transition is charged before it does anything, for
\* the index from operations to the cancellations that await them.
indexWork ==
  Cardinality(DOMAIN regionCancellations)
    + (IF runCancellation.requested THEN 1 ELSE 0)
    + cancellationMemberships(regionCancellations, runCancellation)

\* What it costs to take op out of every cancellation that awaits it.
acknowledgementWork(op) ==
  LET owners == {o \in DOMAIN regionCancellations : op \in regionCancellations[o]}
      emptied == {o \in owners : regionCancellations[o] = {op}}
      run == IF op \in runCancellation.awaiting THEN 1 ELSE 0
  IN  IF owners = {} /\ run = 0 THEN 0
      ELSE 1 + run + Cardinality(owners) + Cardinality(emptied)

\* Mutants: no set is told, an empty set stays.
acknowledgedNowhere(op) == regionCancellations
acknowledgedForever(op) ==
  [o \in DOMAIN regionCancellations |-> regionCancellations[o] \ {op}]

\* draft.acknowledge: the operation leaves every cancellation it belongs to; a
\* region cancellation that awaits nothing more is over.
acknowledged(op) ==
  [o \in {k \in DOMAIN regionCancellations : regionCancellations[k] # {op}}
     |-> regionCancellations[o] \ {op}]

\* Owners that were waiting for op, innermost first.
cancellationOwners(op) ==
  SetToSortSeq({o \in DOMAIN regionCancellations : op \in regionCancellations[o]},
               LAMBDA a, b : Len(a) > Len(b))

\* orderedCancellationOwners refuses an owner that is not above the operation.
Ancestral(op, owners) ==
  \A o \in ToSet(owners) : /\ IsStrictPrefix(o, op)
                           /\ o \in DOMAIN frames
                           /\ NodeAt(o).kind \in {"parallel", "map"}

\* Mutants: the operation is found by its node, or with those of its siblings.
withoutOperationOfNode(op) == {p \in pending : Last(p) # Last(op)}
withoutOperationOfOwner(op) ==
  {p \in pending : Len(p) # Len(op) \/ Front(RegionOf(p)) # Front(RegionOf(op))}

\* What is still pending once op is answered.
withoutOperation(op) == pending \ {op}

\* A mutant: the region fails also while the run is being cancelled.
brokenRegionAlways(d, op, run) == completeFailedRegion(d, RegionOf(op))

\* The answer breaks the region of op; during a run cancellation only the result
\* is kept.
brokenRegion(d, op, run) ==
  IF run THEN Charge(storePendingNodeResult(d, RegionOf(op), Last(op), "failed"), 1)
  ELSE completeFailedRegion(d, RegionOf(op))

\* Mutants: the answer of a cancelled operation is taken for an ordinary one, and
\* the owners outermost first.
cancellationsOfRun(op) == [owners |-> <<>>, run |-> op \in runCancellation.awaiting]
cancellationsOfReversed(op) ==
  [owners |-> Reverse(cancellationOwners(op)), run |-> op \in runCancellation.awaiting]

\* The cancellations op belonged to: region owners innermost first, and the run.
cancellationsOf(op) ==
  [owners |-> cancellationOwners(op), run |-> op \in runCancellation.awaiting]

\* A cancelled operation keeps its real result and hands the cancellation on.
storeCleanupResult(d, op, a, cleanup) ==
  LET stored == storePendingNodeResult(d, RegionOf(op), Last(op), a.result)
      st == IF a.result = "failed" THEN "failed" ELSE "cancelled"
  IN  IF stored.valid
      THEN completeRequestedCancellation(Charge(stored, 1), RegionOf(op), st, cleanup)
      ELSE stored

\* Any other routes to the next node, which runs unless the run is being cancelled.
applyOrdinaryResult(d, op, a, run) ==
  LET routed == Charge(recordPendingNodeResult(d, RegionOf(op), Last(op), a.result,
                                               a.target), 1)
  IN  IF a.target = None THEN brokenRegion(d, op, run)
      ELSE IF run THEN routed ELSE Enqueue(routed, RegionOf(op))

\* applyOperationEvent: what the answer a does to the frame of op, once op has
\* moved from pending to resolved and cancellations have been acknowledged.
applied(op, a) ==
  LET d == [Draft EXCEPT !.pending = withoutOperation(op),
                         !.work = indexWork + 1 + acknowledgementWork(op)]
      cleanup == cancellationsOf(op)
      sound == RegionOf(op) \in DOMAIN frames /\ Ancestral(op, cleanup.owners)
      captured == cleanup.owners # <<>>
      acknowledgedByRun == cleanup.run /\ a.event = "cancelled"
  IN  CASE ~sound -> Invalid(d)
        [] sound /\ captured -> storeCleanupResult(d, op, a, cleanup)
        [] sound /\ ~captured /\ acknowledgedByRun -> d
        [] OTHER -> applyOrdinaryResult(d, op, a, cleanup.run)

ApplyEvent(op, a) ==
  LET d == applied(op, a)
  IN  /\ Live
      /\ op \in pending
      /\ a \in Answers(op)
      /\ pending' = withoutOperation(op)
      /\ resolved' = With(resolved, op, a.event)
      /\ runCancellation' = [runCancellation EXCEPT !.awaiting = @ \ {op}]
      /\ Structure(d)
      /\ requestRegionCancellation(d.cancel, pending', acknowledged(op), {})
      /\ work' = d.work + regionCancellationWork(d.cancel, pending', acknowledged(op))
      /\ phase' = "drain"
      /\ before' = runCancellation
      /\ reply' = "advanced"
      /\ answered' = answered \cup {op}
      /\ UNCHANGED <<status, fault, issued>>

\* cancelRequested: freezes the run and asks for everything pending.
RequestRunCancellation ==
  /\ Live
  /\ ~runCancellation.requested
  /\ runCancellation' = [requested |-> TRUE, awaiting |-> pending]
  /\ status' = "cancelling"
  /\ commands' = IF pending = {} THEN {} ELSE {CancelPending(Root, pending)}
  /\ work' = indexWork + 1 + Cardinality(pending) + Cardinality(commands')
  /\ phase' = "drain"
  /\ before' = runCancellation
  /\ reply' = "advanced"
  /\ UNCHANGED <<frames, pending, resolved, regionCancellations, fault, queue,
                 cleanups, terminal, valid, history>>

\* Nothing is applied: the same state comes back, without commands.
Unapplied(verdict) ==
  /\ phase = "rest"
  /\ commands' = {}
  /\ reply' = verdict
  /\ UNCHANGED <<state, transition, history>>

\* The event that answered an operation, delivered again, is a replay; any other
\* event for it is a conflict.
Redeliver(op, a) ==
  /\ Live
  /\ op \in DOMAIN resolved
  /\ a \in Answers(op)
  /\ Unapplied(IF resolved[op] = a.event THEN "advanced" ELSE "rejected")

\* The receipt is gone with its frame: the operation is foreign by now.
RedeliverLate(op) ==
  /\ Live
  /\ op \in answered \ DOMAIN resolved
  /\ Unapplied("rejected")

\* Wrong kind, unknown signal, undeclared answer, schema or digest mismatch.
RejectEvent == Live /\ Unapplied("rejected")

\* A second cancelRequested, and any event of a finished pipeline.
IgnoreEvent ==
  /\ phase = "rest"
  /\ runCancellation.requested \/ status \in Terminal
  /\ Unapplied("advanced")

-----------------------------------------------------------------------------
(***************************************************************************)
(* Finishing the transition (finishRuntimeTransition).                     *)
(***************************************************************************)
Drained == phase = "drain" /\ (queue = <<>> \/ ~valid \/ terminal # None)

\* The terminal selected by a region, or the settled cancellation of the run.
Outcome ==
  IF terminal # None THEN terminal
  ELSE IF /\ runCancellation.requested
          /\ runCancellation.awaiting = {}
          /\ DOMAIN regionCancellations = {}
       THEN "cancelled" ELSE None

\* writeTerminalState holds back while anything is still unanswered.
Writable == Outcome # None /\ pending = {} /\ DOMAIN regionCancellations = {}

ClearTransition == /\ phase' = "rest"
                   /\ queue' = <<>>
                   /\ cleanups' = <<>>
                   /\ terminal' = None
                   /\ valid' = TRUE
                   /\ work' = 0
                   /\ before' = NotCancelled

\* A mutant: the receipts stay.
ClearExecutionPartly == /\ frames' = <<>>
                        /\ pending' = {}
                        /\ UNCHANGED resolved
                        /\ regionCancellations' = <<>>

ClearExecution == /\ frames' = <<>>
                  /\ pending' = {}
                  /\ resolved' = <<>>
                  /\ regionCancellations' = <<>>

\* A mutant: receipts go once their region has nothing of its own pending.
pruneReceiptsEarly ==
  [op \in {k \in DOMAIN resolved : \E p \in pending : RegionOf(p) = RegionOf(k)}
     |-> resolved[op]]

\* Receipts live as long as the frame of their operation.
pruneReceipts ==
  [op \in {k \in DOMAIN resolved : RegionOf(k) \in DOMAIN frames} |-> resolved[op]]

-----------------------------------------------------------------------------
(***************************************************************************)
(* The limits a transition has to keep (draft.state).                      *)
(***************************************************************************)
frameCollectionSlots(k) ==
  CASE IsRegion(k) -> Cardinality(frames[k].ready) + Cardinality(DOMAIN frames[k].results)
    [] ~IsRegion(k) /\ NodeAt(k).kind = "parallel" ->
         Cardinality(frames[k].live) + Cardinality(DOMAIN frames[k].results)
    [] ~IsRegion(k) /\ NodeAt(k).kind = "map" ->
         5 * (Len(frames[k].unstarted) + Cardinality(frames[k].active)
                + Cardinality(DOMAIN frames[k].completed)) + 3
    [] OTHER -> 0

structuralCollectionSlots(receipts) ==
  Cardinality(DOMAIN frames) + Cardinality(pending) + Cardinality(DOMAIN receipts)
    + Cardinality(DOMAIN regionCancellations)
    + cancellationMemberships(regionCancellations, runCancellation)
    + MapThenSumSet(frameCollectionSlots, DOMAIN frames)

totalNodeResults ==
  MapThenSumSet(LAMBDA k : Cardinality(DOMAIN frames[k].results),
                {k \in DOMAIN frames : IsRegion(k)})

operationsFit(receipts) ==
  Cardinality(pending) + Cardinality(DOMAIN receipts) <= Limits.operations

stateFitsMachineLimits(receipts) ==
  /\ Cardinality(DOMAIN frames) <= Limits.frames
  /\ operationsFit(receipts)
  /\ Cardinality(DOMAIN regionCancellations) <= Limits.frames
  /\ totalNodeResults <= Limits.results
  /\ cancellationMemberships(regionCancellations, runCancellation) <= Limits.memberships
  /\ structuralCollectionSlots(receipts) <= Limits.slots

\* The work of the whole transition: a terminal state clears what is left and
\* has one more command, any other drops receipts.
TotalWork ==
  IF Writable THEN work + Cardinality(DOMAIN frames) + Cardinality(DOMAIN resolved) + 1
  ELSE work + Cardinality(DOMAIN resolved) - Cardinality(DOMAIN pruneReceipts)

\* Whether the transition may be committed.
Committable ==
  /\ valid
  /\ TotalWork <= Limits.work
  /\ Writable \/ stateFitsMachineLimits(pruneReceipts)

\* failPipeline: a refused step or an exceeded limit fails the whole pipeline as
\* it was before the transition, whose commands are dropped.
FinishInvalid ==
  /\ Drained
  /\ ~Committable
  /\ ClearExecution
  /\ ClearTransition
  /\ status' = "failed"
  /\ fault' = "INVARIANT_PROGRAM_STATE"
  /\ commands' = {Final("fail")}
  /\ runCancellation' = before
  /\ UNCHANGED <<reply, history>>

FinishTerminal ==
  /\ Drained
  /\ Committable
  /\ Writable
  /\ ClearExecution
  /\ ClearTransition
  /\ status' = Outcome
  /\ fault' = IF Outcome = "failed" THEN "PIPELINE_FAILURE" ELSE None
  /\ commands' = commands \cup
       {Final(CASE Outcome = "succeeded" -> "complete"
                [] Outcome = "failed" -> "fail"
                [] Outcome = "cancelled" -> "cancel")}
  /\ issued' = issued \cup Dispatched
  /\ UNCHANGED <<runCancellation, reply, answered>>

FinishRest ==
  /\ Drained
  /\ Committable
  /\ ~Writable
  /\ resolved' = pruneReceipts
  /\ ClearTransition
  /\ issued' = issued \cup Dispatched
  /\ UNCHANGED <<status, frames, pending, runCancellation, regionCancellations,
                 fault, commands, reply, answered>>

-----------------------------------------------------------------------------
\* createInitialPipelineState with a valid program and input: the root region is
\* queued and the first transition drains.
Init ==
  /\ status = "running"
  /\ frames = [k \in {Root} |-> RegionFrame(EntryRegion)]
  /\ pending = {}
  /\ resolved = <<>>
  /\ runCancellation = NotCancelled
  /\ regionCancellations = <<>>
  /\ fault = None
  /\ phase = "drain"
  /\ queue = <<Root>>
  /\ cleanups = <<>>
  /\ terminal = None
  /\ valid = TRUE
  /\ work = 0
  /\ before = NotCancelled
  /\ commands = {}
  /\ reply = "initialized"
  /\ issued = {}
  /\ answered = {}

ExecuteNode(n) ==
  \/ RejectInput(n)
  \/ StartActivity(n)
  \/ StartWait(n)
  \/ StartHumanGate(n)
  \/ SelectChoice(n)
  \/ MissChoice(n)
  \/ StartCall(n)
  \/ StartRepeat(n)
  \/ StartParallel(n)
  \/ StartMap(n)
  \/ EndFails(n)
  \/ EndRoot(n)
  \/ EndCall(n)
  \/ EndBranch(n)
  \/ EndItem(n)
  \/ EndRepeat(n)
  \/ EndIteration(n)

Drain ==
  \/ SkipFrame
  \/ \E n \in DOMAIN Nodes : ExecuteNode(n)
  \/ SettleParallel
  \/ SettleMap

Finish == FinishInvalid \/ FinishTerminal \/ FinishRest

Event ==
  \/ \E op \in pending : \E a \in Answers(op) : ApplyEvent(op, a)
  \/ RequestRunCancellation
  \/ \E op \in DOMAIN resolved : \E a \in Answers(op) : Redeliver(op, a)
  \/ \E op \in answered : RedeliverLate(op)
  \/ RejectEvent
  \/ IgnoreEvent

Next == Drain \/ Finish \/ Event

Spec == Init /\ [][Next]_vars
=============================================================================
