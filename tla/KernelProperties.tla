-------------------------- MODULE KernelProperties --------------------------
(***************************************************************************)
(* What makes the pipeline machine correct.                                *)
(***************************************************************************)
EXTENDS Kernel

\* The variables range over what their declarations in Kernel say.
TypeOK ==
  /\ status \in {"running", "cancelling"} \cup Terminal
  /\ phase \in {"rest", "drain"}
  /\ reply \in {"initialized", "advanced", "rejected"}
  /\ valid \in BOOLEAN
  /\ terminal \in {None, "succeeded", "failed"}
  /\ fault \in {None, "PIPELINE_FAILURE", "INVARIANT_PROGRAM_STATE"}
  /\ \A c \in {runCancellation, before} :
       DOMAIN c = {"requested", "awaiting"} /\ c.requested \in BOOLEAN
  /\ fault # "INVARIANT_PROGRAM_STATE" => runCancellation.awaiting \subseteq pending
  /\ DOMAIN resolved \subseteq answered
  /\ \A o \in DOMAIN regionCancellations :
       regionCancellations[o] \in (SUBSET pending) \ {{}}

-----------------------------------------------------------------------------
Parallels == {o \in DOMAIN frames : ~IsRegion(o) /\ NodeAt(o).kind = "parallel"}
Maps == {o \in DOMAIN frames : ~IsRegion(o) /\ NodeAt(o).kind = "map"}
Regions == {r \in DOMAIN frames : IsRegion(r)}
Children(k) == {c \in DOMAIN frames \cup pending : Len(c) = Len(k) + 1 /\ IsPrefix(k, c)}

\* No step of the machine refuses: the invariant guards in the code (a result
\* stored twice, a frame that vanished, a drained owner without a policy
\* selection) are unreachable for an admitted program, and the pipeline never
\* fails with INVARIANT_PROGRAM_STATE.
NoInvariantFault == fault # "INVARIANT_PROGRAM_STATE"

\* The state returned by a transition is accepted by the next one
\* (hydratePipelineState): cancellations have a live owner that has selected,
\* their targets are pending below it, receipts and pending operations are
\* disjoint, map items are partitioned, a failed map points at a failed item,
\* and status, result and leftovers agree.
StateReadable ==
  phase = "rest" =>
    /\ \A o \in DOMAIN regionCancellations :
         /\ o \in Parallels \cup Maps
         /\ frames[o].selected # None
         /\ regionCancellations[o] \subseteq {op \in pending : IsStrictPrefix(o, op)}
    /\ DOMAIN resolved \cap pending = {}
    /\ status = "cancelling" <=> Live /\ runCancellation.requested
    /\ status \in Terminal =>
         DOMAIN frames \cup pending \cup DOMAIN resolved \cup DOMAIN regionCancellations = {}
    /\ \A o \in Maps :
         LET own == frames[o]
             parts == <<ToSet(own.unstarted), own.active, DOMAIN own.completed>>
         IN  /\ \E items \in NodeAt(o).collections :
                  UNION ToSet(parts) = ToSet(items)
             /\ \A i, j \in 1..3 : i # j => parts[i] \cap parts[j] = {}
             /\ IF own.selected = "failed" THEN own.completed[own.failedItem] = "failed"
                                           ELSE own.failedItem = None

\* At rest a running pipeline waits for the host everywhere: each region has
\* exactly one token, which sits in one pending operation or one owner frame
\* and never on a ready node nobody queued, and every owner still has a region
\* to wait for.  A lost wake-up (an owner not queued when its last branch ended)
\* would leave a frame nothing can ever move.
WaitsForHost ==
  Live /\ status = "running" =>
    /\ Root \in Regions
    /\ \A r \in Regions : frames[r].ready = {} /\ Cardinality(Children(r)) = 1
    /\ \A o \in DOMAIN frames \ Regions : Children(o) # {}
    /\ \A o \in Parallels :
         /\ Children(o) = {Append(o, b) : b \in frames[o].live}
         /\ DOMAIN frames[o].results = ToSet(NodeAt(o).order) \ frames[o].live
    /\ \A o \in Maps : Children(o) = {Append(o, i) : i \in frames[o].active}

\* Owners that have a result and do not wait for ordinary results any more: they
\* cancel their losers, or are themselves being cancelled.
Closing(o) ==
  /\ o \in Parallels \cup Maps
  /\ \/ frames[o].selected = "cancelled"
     \/ o \in Parallels /\ frames[o].selected # None /\ NodeAt(o).remaining = "cancel"
     \/ o \in Maps /\ frames[o].selected = "failed" /\ NodeAt(o).failure = "cancel"

\* A region cancellation awaits exactly the operations still pending below its
\* owner, a run cancellation every pending operation, and whatever is pending
\* below a closing owner is awaited by a cancellation: nothing keeps running
\* there without having been asked to stop.
CancellationCoversDescendants ==
  Live =>
    /\ \A o \in DOMAIN regionCancellations :
         regionCancellations[o] = {op \in pending : IsStrictPrefix(o, op)}
    /\ runCancellation.requested => runCancellation.awaiting = pending
    /\ \A o \in DOMAIN frames : \A op \in pending :
         Closing(o) /\ IsStrictPrefix(o, op)
           => \/ runCancellation.requested
              \/ \E p \in DOMAIN regionCancellations : op \in regionCancellations[p]

\* An operation is dispatched at most once in the life of the run, also after
\* its receipt was pruned with its frame.
DispatchedOnce == phase = "drain" => Dispatched \cap (issued \cup answered) = {}

\* A pipeline that concluded by itself left nothing running: everything it ever
\* dispatched has been answered.
NoDetachedWork ==
  status \in Terminal /\ fault # "INVARIANT_PROGRAM_STATE" => issued \subseteq answered

\* An operation that is neither answered nor pending is unknown: the machine
\* waits for everything it dispatched and for nothing else.
WaitsForWhatItIssued == Live => pending = issued \ answered

\* While the region of an answered operation lives, its receipt is there: the
\* same event delivered again is a replay, never EVENT_FOREIGN.
ReceiptsOutliveRegion ==
  Live => \A op \in answered : RegionOf(op) \in DOMAIN frames => op \in DOMAIN resolved

\* A parallel whose branches all settled without a failure or a cancellation
\* holds the selection that all the results together give, although it was made
\* on the results known at some earlier moment, in whatever order they came.
EarlyDecisionIsFinal ==
  \A o \in Parallels :
    LET own == frames[o]
    IN  DOMAIN own.results = ToSet(NodeAt(o).order) /\ ~Spoiled(own.results)
          => own.selected = classifyParallel(NodeAt(o), own.results, None)

\* At rest a map that selected nothing runs as many items as its concurrency
\* allows: never more, and fewer only when no item is left to start.
MapKeepsConcurrency ==
  Live /\ status = "running" =>
    \A o \in Maps :
      LET active == Cardinality(frames[o].active)
      IN  /\ active <= NodeAt(o).concurrency
          /\ frames[o].selected = None /\ frames[o].unstarted # <<>>
               => active = NodeAt(o).concurrency

-----------------------------------------------------------------------------
\* Results and selections are written once: as long as a frame lives, no later
\* event, late answer or cancellation changes a node result, a branch or item
\* result, or the selection of its owner.
ResultsAreFinal ==
  [][\A k \in DOMAIN frames \cap DOMAIN frames' :
       /\ k \in Regions => Extends(frames'[k].results, frames[k].results)
       /\ k \in Parallels => Extends(frames'[k].results, frames[k].results)
       /\ k \in Maps => Extends(frames'[k].completed, frames[k].completed)
       /\ k \in Maps /\ frames[k].failedItem # None
            => frames'[k].failedItem = frames[k].failedItem
       /\ k \in Parallels \cup Maps /\ frames[k].selected # None
            => frames'[k].selected = frames[k].selected]_vars

\* Nothing starts below an owner that decided to cancel its losers, also not
\* when a loser answers with success after all, nor after the run was cancelled.
NothingStartsOnceCancelled ==
  [][\A op \in pending' \ pending :
       /\ ~runCancellation.requested
       /\ \A o \in DOMAIN frames : IsStrictPrefix(o, op) => ~Closing(o)]_vars

\* A cancelled run stays cancelled: whatever its last operations answer, it can
\* neither succeed nor fail any more (only a refused step could), and it opens
\* nothing.
RunCancellationWins ==
  [][runCancellation.requested =>
       /\ status' \in {"cancelling", "cancelled"} \/ fault' = "INVARIANT_PROGRAM_STATE"
       /\ issued' = issued]_vars

-----------------------------------------------------------------------------
\* The machine implements what a host is promised about a run.
Run == INSTANCE PipelineRun WITH run <- status, open <- issued \ answered, closed <- answered
ImplementsRun == Run!Spec

\* The drain is synchronous code, and a host answers every operation it was
\* given and did not answer yet (at-least-once delivery of its outbox).
Fairness ==
  /\ WF_vars(Drain \/ Finish)
  /\ WF_vars(\E op \in pending : \E a \in Answers(op) : ApplyEvent(op, a))
FairSpec == Spec /\ Fairness

\* If every operation is eventually answered the run concludes.
Concludes == <>(status \in Terminal)
=============================================================================
