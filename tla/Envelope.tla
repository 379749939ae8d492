------------------------------ MODULE Envelope ------------------------------
(***************************************************************************)
(* What admission computes of a program before it may run: how many frames,*)
(* operations, results and collection slots its state can hold at once     *)
(* (resources), and how much work one transition can do (work).  The kernel*)
(* holds every transition to the same limits while it runs.                *)
(***************************************************************************)
EXTENDS Kernel

-----------------------------------------------------------------------------
(***************************************************************************)
(* The program as a graph, whose edges are the localTargets of Frames.     *)
(***************************************************************************)
\* The nodes reached from ns in at most steps steps.
ReachedIn(ns) ==
  LET reached[steps \in 0..Cardinality(DOMAIN Nodes)] ==
        IF steps = 0 THEN ns
        ELSE LET earlier == reached[steps - 1]
             IN  earlier \cup UNION {localTargets(n) : n \in earlier}
  IN  reached[Cardinality(DOMAIN Nodes)]
RegionNodes(region) == ReachedIn({Initial[region]})

Modules == {EntryRegion} \cup {Nodes[n].region : n \in {c \in DOMAIN Nodes : Nodes[c].kind = "call"}}

\* The largest collection the preflight of a map lets through.
maximumItems(node) == Max({Len(items) : items \in node.collections})
liveItems(node) == Min({maximumItems(node), node.concurrency})

Highest(envelopes, field) == Max({0} \cup {e[field] : e \in envelopes})
Total(envelopeOf, keys, field) == MapThenSumSet(LAMBDA k : envelopeOf[k][field], keys)

-----------------------------------------------------------------------------
(***************************************************************************)
(* Overlapping cancellations: at most how many sets, how many memberships  *)
(* in all, and in how many sets one operation can be.                      *)
(***************************************************************************)
EMPTY_CANCELLATION_ENVELOPE == [sets |-> 0, memberships |-> 0, degree |-> 0]

alternativeCancellation(envelopes) ==
  [sets |-> Highest(envelopes, "sets"), memberships |-> Highest(envelopes, "memberships"),
   degree |-> Highest(envelopes, "degree")]

\* Of regions that live side by side: envelopeOf[k] for each k of keys.
disjointCancellation(envelopeOf, keys) ==
  [sets |-> Total(envelopeOf, keys, "sets"),
   memberships |-> Total(envelopeOf, keys, "memberships"),
   degree |-> Highest({envelopeOf[k] : k \in keys}, "degree")]

overlayCancellation(envelope, targets) ==
  LET sets == envelope.sets + 1
      memberships == envelope.memberships + targets
  IN  IF targets = 0 THEN envelope
      ELSE [sets |-> sets, memberships |-> memberships,
            degree |-> Min({sets, memberships, envelope.degree + 1})]

reverseIndexWork(envelope) == envelope.sets + envelope.memberships
acknowledgementEnvelope(envelope) == 1 + 2 * envelope.degree

-----------------------------------------------------------------------------
(***************************************************************************)
(* Resources.                                                              *)
(***************************************************************************)
NoResources == [frames |-> 0, operations |-> 0, results |-> 0, slots |-> 0,
                cancellation |-> EMPTY_CANCELLATION_ENVELOPE]

maximum(envelopes) ==
  [frames |-> Highest(envelopes, "frames"), operations |-> Highest(envelopes, "operations"),
   results |-> Highest(envelopes, "results"), slots |-> Highest(envelopes, "slots"),
   cancellation |-> alternativeCancellation({e.cancellation : e \in envelopes})]

\* A mutant: regions side by side are measured as alternatives.
concurrentLargest(envelopeOf, keys) == maximum({envelopeOf[k] : k \in keys})

concurrent(envelopeOf, keys) ==
  [frames |-> Total(envelopeOf, keys, "frames"),
   operations |-> Total(envelopeOf, keys, "operations"),
   results |-> Total(envelopeOf, keys, "results"), slots |-> Total(envelopeOf, keys, "slots"),
   cancellation |-> disjointCancellation([k \in keys |-> envelopeOf[k].cancellation], keys)]

\* A mutant: the frame of the owner itself is forgotten.
OwningBare(child, slots, cancels) ==
  [child EXCEPT !.slots = @ + slots,
                !.cancellation = IF cancels THEN overlayCancellation(@, child.operations) ELSE @]

\* The envelope of an owner: its frame and slots on top of those of its regions,
\* and one more cancellation over their operations when it cancels its losers.
Owning(child, slots, cancels) ==
  [child EXCEPT !.frames = @ + 1,
                !.slots = @ + slots,
                !.cancellation = IF cancels THEN overlayCancellation(@, child.operations) ELSE @]

\* regionOf: the envelopes of the regions n owns.
nodeResources(n, regionOf) ==
  LET node == Nodes[n]
  IN  CASE node.kind \in OperationKinds -> [NoResources EXCEPT !.operations = 1, !.slots = 2]
        [] node.kind \in {"call", "repeat"} -> Owning(regionOf[node.region], 3, FALSE)
        [] node.kind = "parallel" ->
             Owning(concurrent([b \in DOMAIN node.branch |-> regionOf[node.branch[b].region]],
                               DOMAIN node.branch),
                    2 * Cardinality(DOMAIN node.branch) + 3, node.remaining = "cancel")
        [] node.kind = "map" ->
             Owning(concurrent([i \in 1..liveItems(node) |-> regionOf[node.region]],
                               1..liveItems(node)),
                    5 * maximumItems(node) + 4, node.failure = "cancel")
        [] OTHER -> NoResources

OwnedRegions(n) ==
  CASE Nodes[n].kind \in {"call", "repeat", "map"} -> {Nodes[n].region}
    [] Nodes[n].kind = "parallel" -> {Nodes[n].branch[b].region : b \in DOMAIN Nodes[n].branch}
    [] OTHER -> {}

regionEnvelope(child, nodes) ==
  [child EXCEPT !.frames = @ + 1, !.results = @ + nodes, !.slots = @ + 2 * nodes + 1]

regionResources[region \in DOMAIN Initial] ==
  LET nodes == RegionNodes(region)
      of(n) == nodeResources(n, [r \in OwnedRegions(n) |-> regionResources[r]])
  IN  regionEnvelope(maximum({of(n) : n \in nodes}), Cardinality(nodes))

measureProgramResources == maximum({regionResources[m] : m \in Modules})

-----------------------------------------------------------------------------
(***************************************************************************)
(* Work: of the transition that starts a region, of one that resumes it    *)
(* with an answer, and of one that cancels it; how many operations it can  *)
(* wait for; and the work of a region that never waits, Waits for one that *)
(* can (null in the code).                                                 *)
(***************************************************************************)
Waits == -1
emptyEnvelope == [start |-> 0, resume |-> 0, cancel |-> 0, tokens |-> 0, synchronous |-> 0]

\* The sum of the work of parts, which waits as soon as one of them does.
Synchronous(parts) == IF Waits \in Image(parts) THEN Waits ELSE FoldSeq(+, 0, parts)

maximumEnvelope(envelopes) ==
  IF envelopes = {} THEN emptyEnvelope
  ELSE [start |-> Highest(envelopes, "start"), resume |-> Highest(envelopes, "resume"),
        cancel |-> Highest(envelopes, "cancel"), tokens |-> Highest(envelopes, "tokens"),
        synchronous |-> IF \E e \in envelopes : e.synchronous = Waits THEN Waits
                        ELSE Highest(envelopes, "synchronous")]

externalNode(next) ==
  [start |-> 3, resume |-> 2 + next.start, cancel |-> 2 + next.cancel,
   tokens |-> Max({1, next.tokens}), synchronous |-> Waits]

choiceNode(next) ==
  [next EXCEPT !.start = @ + 1, !.synchronous = Synchronous(<<1, @>>)]

callNode(called, next) ==
  [start |-> 3 + called.start, resume |-> called.resume + 4 + next.start,
   cancel |-> called.cancel + 4, tokens |-> Max({called.tokens, next.tokens}),
   synchronous |-> Synchronous(<<3, called.synchronous, 4 + next.start>>)]

CancelOverlay(cancels, tokens) == IF cancels THEN 2 + 2 * tokens ELSE 0

\* branches: the envelope of each branch.
parallelNode(node, branches, next) ==
  LET keys == DOMAIN branches
      all == Image(branches)
      tokens == Total(branches, keys, "tokens")
      synchronous ==
        IF \E e \in all : e.synchronous = Waits THEN Waits
        ELSE 2 + 3 * Cardinality(keys) + Total(branches, keys, "synchronous") + next.start
  IN  [start |-> Max({2 + Cardinality(keys) + Total(branches, keys, "start"), synchronous}),
       resume |-> Highest(all, "resume") + 4 + next.start,
       cancel |-> CancelOverlay(node.remaining = "cancel", tokens) + Highest(all, "cancel") + 4,
       tokens |-> tokens, synchronous |-> synchronous]

repeatNode(node, body, next) ==
  LET synchronous ==
        IF body.synchronous = Waits THEN Waits
        ELSE 2 + (3 + body.synchronous) * node.maximumIterations + next.start
  IN  [start |-> Max({2 + body.start, synchronous}),
       resume |-> body.resume + 4 + body.start + next.start,
       cancel |-> body.cancel + 4, tokens |-> Max({body.tokens, next.tokens}),
       synchronous |-> synchronous]

mapNode(node, body, next) ==
  LET items == maximumItems(node)
      live == liveItems(node)
      tokens == live * Max({1, body.tokens})
      totalize == items - live + 2
      synchronous == IF body.synchronous = Waits THEN Waits
                     ELSE 2 + items + (4 + body.synchronous) * items + next.start
  IN  [start |-> Max({2 + items + (1 + body.start) * live, synchronous}),
       resume |-> body.resume + 4 + body.start + totalize + next.start,
       cancel |-> body.cancel + CancelOverlay(node.failure = "cancel", tokens) + totalize + 4,
       tokens |-> tokens, synchronous |-> synchronous]

nodeEnvelope[n \in DOMAIN Nodes] ==
  LET node == Nodes[n]
      next == maximumEnvelope({nodeEnvelope[t] : t \in localTargets(n)})
      region(r) == nodeEnvelope[Initial[r]]
  IN  CASE node.kind \in OperationKinds -> externalNode(next)
        [] node.kind = "choice" -> choiceNode(next)
        [] node.kind = "call" -> callNode(region(node.region), next)
        [] node.kind = "parallel" ->
             parallelNode(node, [b \in DOMAIN node.branch |-> region(node.branch[b].region)], next)
        [] node.kind = "repeat" -> repeatNode(node, region(node.region), next)
        [] node.kind = "map" -> mapNode(node, region(node.region), next)
        [] node.kind = "end" -> [emptyEnvelope EXCEPT !.start = 2, !.synchronous = 2]

measureWork == maximumEnvelope({nodeEnvelope[Initial[m]] : m \in Modules})

\* What admission holds against the limit of one transition.
synchronousWork ==
  Max({measureWork.start, measureWork.resume, measureWork.cancel,
       reverseIndexWork(measureProgramResources.cancellation)
         + acknowledgementEnvelope(measureProgramResources.cancellation)})

\* analyzeProgram accepts the program under the limits the kernel applies to it.
Admissible ==
  /\ synchronousWork <= Limits.work
  /\ measureProgramResources.frames <= Limits.frames
  /\ measureProgramResources.operations <= Limits.operations
  /\ measureProgramResources.results <= Limits.results
  /\ measureProgramResources.slots <= Limits.slots
  /\ measureProgramResources.cancellation.memberships <= Limits.memberships
=============================================================================
