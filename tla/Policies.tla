------------------------------ MODULE Policies ------------------------------
(***************************************************************************)
(* The completion policies of a structured parallel node: when the results *)
(* of some of its branches already decide the node, and what they decide.  *)
(* A policy looks at branch results only through their counts, so the      *)
(* selections below are functions of natural numbers.                      *)
(***************************************************************************)
EXTENDS Integers, FiniteSets

\* "No selection yet" (null in the code).
None == "none"

GenericSelection == {"completed", "impossible", "failed", "cancelled"}
VoteSelection ==
  {"approved", "rejected", "inconclusive", "participantFailed", "cancelled"}

\* What a settled branch counts as.
GenericClass == {"qualifies", "doesNotQualify", "failed", "cancelled"}
VoteClass == {"approve", "reject", "abstain", "failed", "cancelled"}

-----------------------------------------------------------------------------
\* all, any, threshold: `qualified` and `unqualified` branches out of `total`.
selectGenericPolicy(policy, qualified, unqualified, total) ==
  LET pending == total - qualified - unqualified
  IN  CASE policy.kind = "all" ->
             IF unqualified > 0 THEN "impossible"
             ELSE IF pending = 0 THEN "completed" ELSE None
        [] policy.kind = "any" ->
             IF qualified > 0 THEN "completed"
             ELSE IF pending = 0 THEN "impossible" ELSE None
        [] policy.kind = "threshold" ->
             IF qualified >= policy.count THEN "completed"
             ELSE IF qualified + pending < policy.count THEN "impossible"
             ELSE None

\* A single reject decides; the rest waits for every participant.
selectUnanimous(reject, abstain, pending) ==
  IF reject > 0 THEN "rejected"
  ELSE IF pending > 0 THEN None
  ELSE IF abstain > 0 THEN "inconclusive" ELSE "approved"

\* Abstentions do not participate; nothing is decided before the last vote.
selectQuorum(policy, approve, reject, pending) ==
  IF pending > 0 THEN None
  ELSE IF approve + reject < policy.minimumParticipation \/ approve = reject
       THEN "inconclusive"
  ELSE IF approve > reject THEN "approved" ELSE "rejected"

\* A mutant: off by one, a threshold that can still be reached is given up.
selectIndependentThresholdEarly(policy, approve, reject, pending) ==
  IF approve >= policy.approveThreshold THEN "approved"
  ELSE IF reject >= policy.rejectThreshold THEN "rejected"
  ELSE IF \/ approve + pending > policy.approveThreshold
          \/ reject + pending > policy.rejectThreshold
       THEN None ELSE "inconclusive"

\* Two independent thresholds, tested in this order.
selectIndependentThreshold(policy, approve, reject, pending) ==
  IF approve >= policy.approveThreshold THEN "approved"
  ELSE IF reject >= policy.rejectThreshold THEN "rejected"
  ELSE IF \/ approve + pending >= policy.approveThreshold
          \/ reject + pending >= policy.rejectThreshold
       THEN None ELSE "inconclusive"

\* The three vote policies, given how many of `total` voted which way.
selectVotePolicy(policy, approve, reject, abstain, total) ==
  LET pending == total - approve - reject - abstain
  IN  CASE policy.kind = "unanimous" -> selectUnanimous(reject, abstain, pending)
        [] policy.kind = "quorum" -> selectQuorum(policy, approve, reject, pending)
        [] policy.kind = "independentThreshold" ->
             selectIndependentThreshold(policy, approve, reject, pending)

-----------------------------------------------------------------------------
\* `results` maps the keys of the settled branches to their classes.
CountOf(results, class) == Cardinality({b \in DOMAIN results : results[b] = class})

Spoiled(results) ==
  \E b \in DOMAIN results : results[b] \in {"failed", "cancelled"}

\* A selection once made is never reconsidered.
classifyGenericParallel(policy, results, total, selected) ==
  IF selected # None THEN selected
  ELSE IF Spoiled(results) THEN "failed"
  ELSE selectGenericPolicy(policy, CountOf(results, "qualifies"),
                           CountOf(results, "doesNotQualify"), total)

classifyVoteParallel(policy, results, total, selected) ==
  IF selected # None THEN selected
  ELSE IF Spoiled(results) THEN "participantFailed"
  ELSE selectVotePolicy(policy, CountOf(results, "approve"),
                        CountOf(results, "reject"), CountOf(results, "abstain"),
                        total)

-----------------------------------------------------------------------------
(***************************************************************************)
(* What program admission accepts of a policy over `total` branches.       *)
(***************************************************************************)
AdmittedGeneric(policy, total) ==
  /\ policy.kind \in {"all", "any", "threshold"}
  /\ policy.kind = "threshold" => policy.count \in 1..total

AdmittedVote(policy, total) ==
  /\ policy.kind \in {"unanimous", "quorum", "independentThreshold"}
  /\ policy.kind = "quorum" => policy.minimumParticipation \in 1..total
  /\ policy.kind = "independentThreshold" =>
       /\ policy.approveThreshold \in 1..total
       /\ policy.rejectThreshold \in 1..total
       /\ policy.approveThreshold + policy.rejectThreshold > total
=============================================================================
