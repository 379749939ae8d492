------------------------- MODULE EnvelopeProperties -------------------------
(***************************************************************************)
(* The static analysis of a program and what the machine does with it.     *)
(***************************************************************************)
EXTENDS KernelProperties, Envelope

\* Between transitions no run of the program holds more frames, unanswered
\* operations, node results, slots or region cancellations than the analysis computed
\* before it started, nor is an operation in more cancellations than that.
StateWithinEnvelope ==
  LET envelope == measureProgramResources
  IN  Live =>
        /\ Cardinality(DOMAIN frames) <= envelope.frames
        /\ Cardinality(pending) <= envelope.operations
        /\ totalNodeResults <= envelope.results
        /\ structuralCollectionSlots(resolved) <= envelope.slots
        /\ Cardinality(DOMAIN regionCancellations) <= envelope.cancellation.sets
        /\ cancellationMemberships(regionCancellations, NotCancelled)
             <= envelope.cancellation.memberships
        /\ \A op \in pending :
             Cardinality({o \in DOMAIN regionCancellations : op \in regionCancellations[o]})
               <= envelope.cancellation.degree

\* A program that admission accepts runs within the limits: no transition of it
\* is refused for its size.
AdmissionSuffices == Admissible => NoInvariantFault
=============================================================================
