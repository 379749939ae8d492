# Formal model of revo-pipeline

TLA+ models of the pipeline machine of this repository, TLC configurations that
check them on small programs, and TLAPS proofs of the properties that hold for
every program. Paths below are relative to the repository; `runtime/` stands for
`src/kernel/execution/runtime/`, and `kernel/`, `compiler/`, `program/`, `analysis/` (of
`program/`), `admission/` (of `program/`) and `source/` for the directories below `src/`.

## The system

The package compiles an authored pipeline to a closed program and advances that
program as a pure state machine. It does no I/O: a host persists the state, runs
the commands and sends the events back.

| component | state it keeps | operations | how it interacts | modelled |
|---|---|---|---|---|
| source (`src/source`) | none | validation and normalisation of authored packages | read by the compiler | partly: region graphs, scopes of selectors, policies of votes |
| materialization (`src/materialization`) | none | validation of selections against slots | read by the compiler | partly: coverage, strategies, counts |
| compiler (`src/compiler`) | none between calls | linking (call graph), dataflow, activity bound, lowering, emission | emits a program bundle | linking, graphs and bounds; lowering and dataflow partly |
| program (`src/program`) | none | admission of a bundle, resource envelope, quiescence, dataflow, digest | gate in front of the kernel, called by the compiler as well | graphs, calls, scopes, dominance and envelope |
| kernel (`src/kernel`) | `PipelineState`: frames, pending operations, receipts, run and region cancellations, result or fault | `createInitialPipelineState`, `advancePipeline` | takes one host event, returns the next state and commands | yes |
| host (outside the repository, `docs/host-integration.md`) | durable state, receipts and outbox | delivers commands, returns semantic events | environment of the kernel | as environment |
| foundation (`src/foundation`) | none | portable JSON, schemas, pointers, digests, diagnostics | called by every layer | no, but for the arithmetic of bounds |

A package passes through the layers once: source validation, selections, linking
and dataflow on the source, lowering, admission of the program. Nothing is shared
but the values handed on. What makes this hard is that the same question is asked
several times by different code, of the source, of the materialized source and of the
program: is the graph of a region sound, may this selector be read, is this vote
possible, are calls too deep. The answers have to agree, and the machine has to
agree with them, since it executes a program without asking again.

### The kernel

A *frame* is a live region (root, called module, branch, loop body, map item) or
the owner of regions (call, parallel, repeat, map). Regions and owners alternate
in a tree. A region executes one node at a time; an activity, a wait or a human
gate becomes a *pending operation* until the host answers it. A *transition*
applies one event, then drains a FIFO queue of frames: each is executed once, a
region running its ready node, an owner settling if it can; completions queue
their parents. At the end the transition writes a terminal state, or prunes the
receipts of dead frames, and returns the next state.

What is hard here:

- **Overlapping cancellations.** A parallel or map may cancel its losers
  (`regionCancellations`, one set per owner), inside branches of others that do the
  same, while the whole run is being cancelled (`runCancellation`). One answer can
  belong to several sets. It has to leave all of them at once and be handed to the
  owners from the innermost outwards.
- **Late answers.** An operation asked to stop may still succeed or fail. Its
  result is kept, yet it may start nothing and change no decision.
- **Early decisions.** A parallel selects while branches are still running, in
  whatever order their results come.
- **Order inside one transition.** The queue mixes regions that are starting,
  branches that are ending and owners that are settling.
- **Keys and receipts.** Command keys are structural, so a loop must never run a
  body twice at one ordinal; receipts live as long as their frame.
- **Lost wake-ups.** A frame is only ever executed because somebody queued it.
- **Refusal.** Any broken expectation invalidates the transition and fails the
  whole pipeline with `INVARIANT_PROGRAM_STATE`.

What makes each part correct, and where it bites in the code, is the list of
hazards in `PROJECT.json`.

## The modules

The machine:

| module | what it is |
|---|---|
| `Policies` | `runtime/policies.ts`: what a parallel selects on the results so far; what admission demands of a policy |
| `Frames` | the frame tree as *drafts*, and every handler that completes something: routing of results, branches, items, owners, failing regions, the walk of a cancellation (`parent-result.ts`, `parallel-completion.ts`, `map-completion.ts`, `region-completion.ts`, `repeat-completion.ts`) |
| `Kernel` | the machine: variables, one action per execution of a queued frame, per kind of event, and per end of a transition |
| `KernelProperties` | invariants, action properties, the refinement mapping, fairness |
| `PipelineRun` | the abstract specification: what a host is promised about a run |
| `MapItems`, `MapItemsProperties` | one map with the values of its collection: preflight, the rebuilding of an item in a later transition, insertion and lookup by binary search, the failure that is reported (`map-preflight.ts`, `map-reconstruction.ts`, `map-results.ts`) |

What is computed of a program before it runs:

| module | what it is |
|---|---|
| `Envelope`, `EnvelopeProperties` | the static envelope of work and of the parts of the state (`analysis/quiescence.ts`, `analysis/resources.ts`, `analysis/cancellation-envelope.ts`), over the same program the machine runs |
| `ActivityBound` | the saturating bound on activities (`compiler/bounds/activity-bound.ts`) |
| `TopologicalOrder` | Kahn's algorithm, shared by admission and compiler (`program/topological-order.ts`) |
| `RegionFacts`, `RegionFactsProperties` | the soundness of the graph of a region and dominance with statuses (`admission/graphs.ts`, `admission/dataflow.ts`, `compiler/graph/indexed-dag.ts`), then a token that walks the region |
| `CallGraph`, `CallGraphProperties` | linking: recursion and call depth on the source; admission: order and depth on the program (`compiler/linking/call-graph.ts`, `analysis/module-graph.ts`) |
| `Scopes`, `ScopesProperties` | which sources a selector may name, by the three validations, and what `environment.ts` of the machine provides |

From a source to a program:

| module | what it is |
|---|---|
| `SourceGraph`, `SourceGraphProperties` | the analysis of the graph of a source region (`source/semantics/region-graph.ts`): two iterative depth-first searches |
| `Selections` | the selections for the agents of a source, the keys and policies of branches and participants, and the three examinations of a voting policy |
| `Lowering`, `LoweringProperties` | validation of selections, lowering node by node, pruning, provenance and requirements, the checks of emission, then a token that walks the program |
| `SourceWalk` | the abstract specification: the way a token goes by the source alone |

`MCPrograms`, `MCBounds` and `MCRegions` have the instances; the other analyses have theirs beside
their properties. `FrameTreeProofs`, `KernelProofs`, `KernelTreeProofs`, `AwakeProofs`,
`PoliciesProofs`, `RegionFactsProofs`, `CallGraphProofs` and `ActivityBoundProofs` hold the theorems.

Composition: `Kernel` is built on `Frames` and `Policies`; `Envelope` and `ActivityBound` extend
it, so that the analyses and the machine look at one program and
`EnvelopeProperties` and `MCBounds` compare what one computed with what the other does.
`RegionFacts` and `Lowering` end in a walk for the same purpose.

### State and actions

`Kernel` separates what the host persists (`status`, `frames`, `pending`,
`resolved`, `runCancellation`, `regionCancellations`, `fault`) from what lives
within a transition (`phase`, `queue`, `cleanups`, `terminal`, `valid`, `work`, `before`), what a
transition returns (`commands`, `reply`), and two history variables (`issued`,
`answered`) that only properties read. `phase = "rest"` between transitions.

- `Init` is `initializePipelineState` up to the first drain. The drain of the
  first transition is already a behaviour of the model.
- `ApplyEvent`, `RequestRunCancellation`, `Redeliver`, `RedeliverLate`,
  `RejectEvent`, `IgnoreEvent` are the exits of `advanceHydratedState`. An event is
  an answer of the kind its operation admits (`Answers`); everything else the host
  may send is refused or ignored without effect.
- `SkipFrame`, `ExecuteNode` and `SettleParallel`, `SettleMap` are one turn of
  `drainRuntimeQueue`. The action runs the whole handler: all its calls that change
  frames, queue and cancellations.
- `FinishInvalid`, `FinishTerminal`, `FinishRest` are `finishRuntimeTransition`
  with `failPipeline`, `writeTerminalState` and `pruneReceipts`.

A handler is an operator from a draft to a draft, as in the code. A refusal
(`context.invalidate`, a `false` or `null` that its caller turns into one) is
`valid = FALSE`; nothing else of the transition matters after it, because the
pipeline is rebuilt as it was and failed.

A frame key is the path of nodes, branch keys, item keys and ordinals from the
root. The code hashes the same coordinates.

### What is abstracted

- **Data** (in the machine; `MapItems` and `Scopes` have the values they are about). Inputs, outputs, selectors, mappings and schemas are the sets of outcomes
  a node may have (`inputs`, `outputs`, `exits`, `conditions`, `values`, `missing`): a model-checked
  program contains every outcome of its data. Outputs themselves are left out;
  results are classes and statuses.
- **Digests.** Distinct coordinates have distinct keys. The order of digests, by which the code
  sorts arrays, has no influence on what is modelled; it is replaced by innermost
  first where the code reorders by ancestry, and by no order elsewhere.
- **Limits.** The work budget of a transition and the limits of the state are checked where
  the code does; their maxima are the parameter `Limits` (`Ample` where a run is not about
  them). The two limits on JSON values are left out, as is
  `createInitialPipelineState` on an invalid program or input.
- **Marks without effect.** `markCancellation(..., 'isolated')` is written and never
  changes a decision. A call whose region reports "cancelled" without a cleanup does not exist.
- **Choice without `otherwise`.** Admission refuses it unless the cases are
  exhaustive (`src/program/admission/dataflow.ts`); a choice has a target
  for each of its values, or its selector is missing.
- **Commands.** Three kinds that start an operation are one `Dispatch`.
- `discard` removes a frame from the queue. In the code it marks the entry and
  `take` drops it; the two differ only for a key that is created again, and a
  pruned key never is.

### The analyses

An analysis in the code is one synchronous function. Where it is an algorithm with a
work list, a step of the model is one turn of its loop, and what it has found so far are
variables (`SourceGraph`, `TopologicalOrder`, `RegionFacts`, `CallGraph`). Where it is
an evaluation over a finished order, it is a recursive function over the program
(`Envelope`, `ActivityBound`). Reachability (`visitFrom` and its likes) is its result, a
closure, in one step. When the analysis is over the model goes on with
whatever relies on it: the machine, a token in a region, the admission of what was linked.

- Where the code takes the first or the last of the ready nodes, `TopologicalOrder` and
  `CallGraph` take any; so the facts do not depend on the order of a list.
- `RegionFacts` records for a token the status it left each node with, as the machine does in the
  results of a region; selectors read exactly that.
- `Scopes` describes a place by the kinds of the regions around it. What a source gives
  names the region it belongs to, which stands for its schema.
- `Lowering` has ids as the triples that are hashed (path, role, ordinal). Selectors, mappings
  and schemas are carried along by the code without being looked at, and left out. Branches have
  keys: the sources of its run are written with keys in any order, some of them twice, and are what
  `normalizeParallel` and `normalizeConsensus` make of those they accept. Admission checks that the
  keys are strictly sorted, the policy fits their number, and a participant's activity requires its
  binding; a missing sort, an unnoticed duplicate or a misjudged policy is a refusal there.
- `MapItems` has the part of a map that depends on values and on the end of a transition;
  `Kernel` has the part that depends on other frames. `completeMapItem` and `refill`
  occur in both.

## The runs and what they show

The runs of the machine take it whole: every outcome of the data, every order of
answers, and a run cancellation at any moment. Some programs start with a choice, so that one
run covers several. The runs of the analyses take every input of a small size.

| run | instance | states | shows |
|---|---|---|---|
| `owners` | two nested parallels (any, cancel), or a fail-fast map of 3 items, 2 at a time, racing a collecting map of 0 or 2 items, or a map whose items may end in the drain that starts them | 10175 | no refused step, coverage, no detached work, no lost wake-up, concurrency, results written once, the state reads back and stays within the envelope; refinement of `PipelineRun` |
| `loops` | a loop of at most 3 bodies with a choice, a call that waits for a signal and an activity, beside a human gate with a deadline, then a signal | 2331 | each operation is dispatched once, receipts, nothing starts below a closing owner, a cancelled run stays cancelled; if the host answers, the run concludes |
| `mixed` | a loop of calls, maps and votes; or the race of the finding below; or a unanimous, a quorum and a threshold vote over 3 reviewers, one of whom may have no input | 19461 | early decisions agree with all the votes; a refused step leaves a consistent failed state; no run starts more activities than were proved |
| `regions` | every region of up to 3 nodes, with cycles, dangling routes and missing entries; every acyclic one of 4 | 36210 | the order is topological; a region is admitted exactly if every node is on a way from the entry to an end and no way goes in circles; results promised to a node are there, and none that always is there is refused; a token arrives |
| `calls` | every sequence of up to 4 calls between 3 modules, also to a missing one, some of them not lowered | 184750 | recursion and excessive depth are found exactly; what links is admitted, and the reverse; the calls of an admitted program descend |
| `scopes` | five regions inside each other, of any kinds | 2591 | the three validations agree; what the machine provides is what they say, for the region of the selector and the body or item of its node |
| `items` | every collection of up to 3 items, with any keys and values, or no collection | 271293 | keys are partitioned, items get their own input, results are complete, the first failure is reported |
| `cycles` | every graph of 4 nodes with up to 2 routes each, some with dangling routes | 150576 | nodes on cycles are found exactly; the verdict on a source is that on a program |
| `lowered` | two nodes of any pair of kinds, parallels and votes with every policy at its boundary, agents with both strategies, a nested agent, and every kind of wrong selections | 130996 | validated selections compile, statuses are kept; refinement of `SourceWalk` |
| `race_coverage`, `admitted_receipts`, `scopes_inherited` | | | the findings |

**Bounds.** A program bounds everything: no constraint cuts a state space; each run
visits all reachable states. The sizes are the smallest at which the cases of interest occur.

- Two nested owners give overlapping cancellation sets. Two bodies give a
  re-run, and the third its exhaustion. Three items at concurrency two give an item that never
  started beside two that did, and three voters the cases where one is undecided between two.
- Four nodes are the least in which two ways part and join again and a third avoids the
  join; three in which a cycle is entered from outside; two routes give both statuses to one target.
- Three modules are the least with a module reached at two depths, and `CallDepth = 1` the
  least that a chain of three exceeds.
- Five regions are the root and every sequence of four kinds: each kind inside each other,
  directly or with one or two between, a call among them.
- Two branches are the least that can be out of order or have one key, and a threshold of two or
  three is accepted or refused for them; up to three participants of an agent do the same for votes.
- A map whose items may end in the drain that starts them has several of them end before it is
  refilled.
- Three sorted keys have a first, a middle and a last: every way through the binary searches.

**Deadlock.** The machine never stops: a concluded pipeline ignores events, and
redelivery remains possible. Runs of analyses end with their verdict and
say `CHECK_DEADLOCK FALSE` (`regions`, `calls`, `items`, `cycles`, `lowered`).

**Mutants.** For each property of each passing run one definition of the model has
a variant, a plausible error in the code it stands for, under which the run fails
(for instance `becameReadyEarly`: a node is ordered as soon as one of its routes is).
They are the operators commented "A mutant".

**Fairness.** `FairSpec` of the machine assumes that a transition, being synchronous code, runs to
its end (`WF(Drain \/ Finish)`), and that the host, while anything is pending,
eventually answers some operation: its outbox is delivered at least once
and it owns timeouts and retries (`docs/host-integration.md`). No fairness is
asked of cancellation, nor of any particular operation. `FairSpec` of `RegionFacts` assumes that
an analysis, being synchronous code, goes on, and that a token which can move does.

**Refinement.** `ImplementsRun` maps `open` to `issued \ answered`. A dispatch counts
as issued when the transition that made it returns; `Drain` steps are stutters.
`PipelineRun` allows one conclusion, no opening after a cancellation, no answer twice, and a
conclusion only when nothing is open. `FollowsSource` maps the token of a program to the source node
the program node was made for: a vote is a parallel and a choice
behind it, and the step between the two is a stutter.

## Findings

### A cancellation that does not cover what starts later (`race_coverage`)

`requestRegionCancellation` (`runtime/cancellation.ts:105-124`) records the pending
operations below an owner when the owner decides, and returns at once when the
owner has a set already. The specification says that the owner "creates or updates
exactly one `regionCancellation` keyed by its owning frame and containing all pending
descendants" (`docs/specs/pipeline-machine-v1.spec.md:677-678`). The two differ if
the decision falls in a drain whose queue still holds a region below the owner:

    outer (any, cancel)   a: inner (all, drain)  x: activity x
                                                 y: choice -> activity y
                          b: choice -> end

1. Branch `b` ends in the first drain, after `x` was dispatched and before the
   region of `y` reached its activity. The set of `outer` is `{x}`.
2. `y` is dispatched afterwards. No cancellation awaits it, and the host is never
   asked to stop it (a trace of ten states).
3. When `x` is acknowledged `inner` is selected "cancelled" while `y` is live. The
   ordinary answer of `y` then settles `inner` without the cleanup of
   step 3, which `settleParallelOwner` refuses (`parallel-completion.ts:286`): the
   pipeline fails with `INVARIANT_PROGRAM_STATE`. `mixed` contains the program and reaches this state.

`NoInvariantFault` and `NothingStartsOnceCancelled` fail on this program for the same
reason. They hold on the others, where no branch can end while a sibling is starting.

### Receipts that admission does not count (`admitted_receipts`)

The machine holds pending plus resolved operations to `liveOperations`
(`kernel/state/bounds.ts:52`); the analysis counts what is pending at once
(`analysis/resources.ts:147,231`). ADR 0010 has "The compiler cannot publish a bundle that the
kernel rejects for the same fixed caps" (line 55). A chain of two activities in
one region, with the limit at exactly what the analysis computed, is admitted and fails when the second
starts. With the real limits it takes a map of 1,024 concurrent items over a chain of 17 activities.

### Scopes that are admitted and not there (`scopes_inherited`)

All three validations let a nested region read the scope of the loops and maps around it;
`selectorEnvironmentFor` (`runtime/environment.ts:50`) gives a frame the scope of its own
kind only. A selector of `repeat.iteration` inside a branch of a parallel in a loop body passes all of them and
fails at run time with `DATA_POINTER_MISSING`. `AnalysesAgree` shows that the validations are of one mind,
`ProvidedAsAdmitted` that nothing else is missing.

### Further disagreements

Three configurations that are no part of the runs have a counterexample each:

- `tlc -config admitted_work.cfg MCPrograms`: the analysis takes the maximum of the work of a transition and
  of the work on its cancellations (`analysis/analyze.ts:70-75`); a transition pays for both
  (`runtime/draft.ts:66`). Nested parallels with the budget at exactly the maximum are admitted and fail.
- `tlc -config admitted_memberships.cfg MCPrograms`: the machine counts what a run cancellation awaits among the
  memberships (`kernel/state/bounds.ts:31-36`); the analysis counts region cancellations only.
- `tlc -config scopes_first_body.cfg ScopesProperties`: the first body of a loop has `null` for its previous
  output (`runtime/owner-frames.ts:60`); admission gives it the schema of the output
  (`admission/dataflow.ts:587`).

A smaller observation: `failPipeline` keeps the `runCancellation` of the state it
fails, while hydration expects none in a failed state
(`state/hydration.ts:169-189`). It has no consequence, since a terminal state is
returned before it would be hydrated.

## What is proved

### The machine: operations and outcome (`KernelProofs`)

For every program, that is for every value of `Nodes`, `Initial`, `EntryRegion` and `Limits`, with
no assumption on them that the proofs use:

- `TypeCorrect`: `Spec => []TypeOK`. The part that matters is that a region
  cancellation never awaits nothing, nor an operation that is not pending.
- `ConcludesWithoutDetachedWork`: `Spec => []NoDetachedWork`.
- `CancelledRunStaysCancelled`: `Spec => RunCancellationWins`.

None of them is inductive. `IInv` (`KernelProofs`) adds a ledger (what was ever dispatched
is pending or answered), that only a running transition carries an
outcome, that a finished pipeline is at rest with nothing pending, and what a
run cancellation freezes: it awaits everything pending, nothing is being
dispatched and no outcome is selected. The last is what makes the third theorem go through:
once frozen, `FinishTerminal` can only find the settled cancellation. It
is preserved because a drain step executes no frame while the run is being cancelled, and
because `brokenRegion` keeps a failing answer from failing its region.

The handlers enter through `FrameTreeProofs` only. Each maps a draft to a draft and keeps
the outcome (`Keeps`), except that a failing root region selects "failed". So the
proof of a step looks at what the step does to `pending`, `commands` and the
cancellations, and never into the frame tree. Both of the invariant's uses of a
refused step are explicit: a fault is an exception to the last two theorems, since
`failPipeline` forgets what is pending.

### The machine: the tree of frames (`KernelTreeProofs`, `FrameTreeProofs`)

For every program whose regions have no cycles (`Acyclic`: its nodes can be numbered so that
every route goes up, `Ordered`), whose collections have distinct keys (`CollectionsAssumption`) and
whose maps and parallels are admitted (`OwnersAssumption`: maps run something, the branches of a
parallel are distinct and its exits classified, and its policy fits their number). Admission refuses any other program
(`admission/graphs.ts`, `admission/structured.ts`), and the preflight of a map any other collection
(`runtime/map-preflight.ts`). That a numbering exists is what `OrderingIsTopological` shows of
the sort admission uses; the model-checked programs satisfy it (`ProgramsAreOrdered`).

- `OperationsAreDispatchedOnce`: `Spec => []DispatchedOnce`.
- `PendingIsWhatWasIssued`: `Spec => []WaitsForWhatItIssued`.
- `ReceiptsLiveWithTheirRegion`: `Spec => []ReceiptsOutliveRegion`.
- `EarlyDecisionsAreFinal`: `Spec => []EarlyDecisionIsFinal`.
- `StateIsReadable`: `Spec => []StateReadable`.
- `ResultsNeverChange`: `Spec => ResultsAreFinal`.
- `MachineImplementsRun`: `Spec /\ []NoInvariantFault => ImplementsRun`. The condition is needed: a
  refused transition forgets its operations, which `PipelineRun` does not allow.

That an operation is dispatched once is not a matter of `pending` and `resolved`, which the code
looks at: both forget. It holds because no *key* is ever used again, and that is a property of the
whole tree. `Tree` says, of the live frames, the pending operations and the keys ever answered:

- a region holds one token. It has at most one ready node, none while anything is live below it,
  and every node it was ever in comes before the ready one, and before or at the live one, in the order
  of the program (`RegionFits`). Since every route goes up the order, a node is entered once;
- the bodies of a loop have ordinals up to its iteration (`RepeatFits`);
- only live branches of a parallel have anything below them, every other branch has a result, and
  the selection is what `classifyParallel` gives on all results so far, unless one of
  them is a failure or a cancellation (`ParallelFits`);
- unstarted, active and completed items partition the collection, only active ones have anything
  below, nothing was ever below an unstarted one, and the failed item is one that failed (`MapFits`);
- every ancestor of what is live is a live frame, and nothing is below a pending operation.

`Evolves` relates two trees: a frame is one that was there and has kept its results and selections,
or its key is no prefix of a key ever used. So what is gone never comes back, which is what
receipts and `ResultsAreFinal` need. For each handler of `Frames` there is a lemma that it leads from a
tree to a tree and evolves the frames: `Grows` if it opens nothing, `Develops` if it may. A
handler that routes a result needs its region to be `Vacant`: the token was just taken from
it. The proof of `ParallelFits` at the end of a branch is where the theorems on policies are used.

`TreeInv` joins the tree with `IInv`, the receipts (`Receipts`), the history (`Counted`), the
cancellations (`Cancels`: their owners live and have selected, what they await is below) and what is left
at the end (`Concluded`). `NextTreeInv` shows it inductive, one lemma per action; the
theorems follow from it.

### The machine: no lost wake-up (`AwakeProofs`)

Under the same assumptions:

- `HostIsAwaited`: `Spec => []WaitsForHost`.
- `MapsKeepBusy`: `Spec => []MapKeepsConcurrency`.

The tree alone allows a frame that nothing will ever move: an empty region is a tree, and so is a
parallel all of whose branches are gone. What excludes them is the queue, so `WakeInv` joins
`TreeInv` with `Wakeful`: as long as the run goes on and the transition is neither refused nor
concluded, its draft is `Awake`, that is, every live frame is `Served`:

- a region has its token below it, or is queued with a ready node;
- a call or a loop has something below it;
- a parallel has its live branches below it and is queued once none is left; a failed or cancelled
  branch has made it select (`Minded`);
- a map has its active items below it, and is queued while none is active or while it could start one
  more (`Lagging`).

At rest the queue is empty, so each frame is served by what lives below it, and `Tree` makes
that exactly one thing for a region and exactly the live branches or active items for an owner.

A handler breaks this in the middle and repairs it before it returns: pruning a branch leaves its owner
unserved, storing a result leaves a region without a token. So `Awake(d, X)` excepts the frames in `X`, and
the lemmas follow a handler from the frame it consumes to the one it wakes. Four points are not local to one
handler:

- a parallel settled while its last branch ended must not wait on: it selects once every branch has a result
  (`AllDecided`, from `GenericResultsDecide` and `VoteResultsDecide`), or its cancellation still awaits an
  operation below it (`CancelsBelow`);
- a cancellation handed on by a late answer has to reach the innermost parallel or map, past the calls and
  loops it ends (`AwakeCancellation`, `CancellationTop`);
- a frame leaves the queue unexecuted only once it is gone itself (`AwakeDiscard`);
- a transition that selects the outcome of the run leaves nothing pending (`FailedEnds`): the root fails or
  ends where its token is, so `FinishRest` never drops a selected outcome.

`Wakeful` says nothing while the run is being cancelled: no frame is executed then, and what the
run waits for is in `runCancellation` (`Frozen`).

### Policies (`PoliciesProofs`)

For any number of branches a policy never selects early
what later results could overturn, and always selects once every branch has a
result (`GenericSelectionIsStable`, `GenericSelectionIsTotal`, and the same for
votes); `GenericDecisionIsFinal` and `VoteDecisionIsFinal` say it of the results
themselves, as `classifyGenericParallel` and `classifyVoteParallel` are called.
For two independent thresholds this needs what admission demands, that their sum exceeds the number of
votes: then both cannot be reached.

`AllowedPolicyIsSupported`, `SelectedPolicyIsAdmitted`: the policy a source may state for a
range of participants is supported for every number in it, and what the selections accept the
program accepts. So a policy that passed once is never refused later, for any numbers.

### Regions (`RegionFactsProofs`)

For every region, of any size, with the only assumption that it is finite and that its
routes start at its nodes (`RegionsAssumption`):

- `OrderingIsTopological`: `Spec => []OrderIsTopological`. The invariant `SortInv` says that the
  indegree of a node is the number of routes into it from nodes that are not ordered, so
  a node that becomes ready has none left; the lemmas count routes, since several may lead from one node
  to another.
- `PromisedResultsAreThere`: `Spec => []PromisesAreKept`. `PromisesAreKept` speaks of one
  moment of the walk, `statusDominates` of all ways. `FactsInv` joins them:
  the dominators of a node, as far as they are computed, dominate through each of its
  counting predecessors (`DominatedUpTo`); what can be reached is closed backwards along
  the order (`ReachedFrom`); and the token has left every other dominator of where it is
  with the status of some route that leads on to where it is (`Passed`). A step keeps `Passed` because
  a dominator of the next node dominates this one, or is this one. The proof does not need the order to be
  complete, nor the region to be admitted.

### Calls (`CallGraphProofs`)

- `AdmittedCallsEnd`: `Spec => []AdmittedCallsDescend`, for every package of finitely many modules.
  The depth that admission measures is itself the ranking
  that excludes recursion. `OrderInv` bounds depths by the number of ordered modules, which
  is what makes the maximum in `depthOf` exist; `MaxIsGreatest` gets it
  from the well-foundedness of strict inclusion between finite sets.

### Numbers (`ActivityBoundProofs`)

- `BoundsAreExact`: sums and products of the activity bound are exact within the largest integer
  and reported beyond it; the comparison with a quotient, by which the code avoids computing the
  product, decides the same.

### Only model-checked

- `NoInvariantFault`, `CancellationCoversDescendants` and `NothingStartsOnceCancelled`: false in
  general, as the finding shows.
- `StateWithinEnvelope` and `ActivitiesWithinBound`: they relate a recursive function over the
  program to the tree of frames, by induction over data.
- `AdmittedIffSound`, `PromisesAreComplete`, `RecursionIsFound`, `DepthIsExact`,
  `LinkingAgreesWithAdmission`, `CyclesAreFound`, `VerdictOfAdmission`: their references are
  recursive functions (walks, chains, closures) whose values for every input need induction with an operator.
  So do the binary searches of `MapItems`, and with them its properties.
- `Scopes`: recursive over the chain of regions, likewise. `Lowering` uses recursive operators.
- `Concludes` and `AdmittedRegionsEnd`: liveness under fairness is outside what the prover handles.

## Not modelled

- The foundation layer, but for the arithmetic of bounds: conversions of data with neither state nor interaction.
- Digests and derived schemas of programs, the comparison of schemas in both dataflow
  validations, and the weights of JSON values in the envelope: functions of data that no
  other part branches on.
- Of the source layer, the normalisation of each kind of node beyond its routes, regions and policies.
- `createInitialPipelineState` on an invalid program or input, which returns diagnostics and no state.
- The host's durable transaction (receipt, state and outbox committed together). It is described in
  `docs/host-integration.md` and there is no code for it in the repository; what the kernel
  relies on is its events, and those are modelled, redelivered and late ones included.

## What could come next

1. The comparison of schemas over small schemas, with `Scopes`, for the types of selected values.
2. The references of `RegionFacts` and `CallGraph` (walks, closures) stated by well-founded recursion on
   finite sets, so that first-order induction through a minimal element could reach
   `PromisesAreComplete` and `DepthIsExact`, as it does for `MaxIsGreatest`.
