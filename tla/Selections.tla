----------------------------- MODULE Selections -----------------------------
(***************************************************************************)
(* The selections submitted for the agents of a source: one strategy for   *)
(* each, with its participants (validatePipelineSelections).  The policy   *)
(* of a vote is examined three times: in the source, against the range of  *)
(* participants it allows; in the selections, and in the program, against  *)
(* their actual number.                                                    *)
(***************************************************************************)
EXTENDS Integers, Sequences, FiniteSets, SequencesExt

Policy ==
  [kind : {"unanimous"}]
  \cup [kind : {"quorum"}, minimumParticipation : Nat \ {0}]
  \cup [kind : {"independentThreshold"},
        approveThreshold : Nat \ {0}, rejectThreshold : Nat \ {0}]

\* A source may only state a policy that makes sense for every number it allows.
normalizePolicy(policy, participantMinimum, participantMaximum) ==
  /\ policy.kind = "quorum" => policy.minimumParticipation <= participantMinimum
  /\ policy.kind = "independentThreshold" =>
       /\ policy.approveThreshold <= participantMinimum
       /\ policy.rejectThreshold <= participantMinimum
       /\ policy.approveThreshold + policy.rejectThreshold > participantMaximum

normalizeAgentStrategy(strategy) ==
  /\ strategy.minimumParticipants <= strategy.maximumParticipants
  /\ normalizePolicy(strategy.policy, strategy.minimumParticipants, strategy.maximumParticipants)

policySupportsCount(strategy, count) ==
  LET policy == strategy.policy
  IN  /\ count \in strategy.minimumParticipants..strategy.maximumParticipants
      /\ policy.kind = "quorum" => policy.minimumParticipation <= count
      /\ policy.kind = "independentThreshold" =>
           /\ policy.approveThreshold <= count /\ policy.rejectThreshold <= count
           /\ policy.approveThreshold + policy.rejectThreshold > count

\* Branches and participants of a source have keys of their own and are kept in the
\* order of the keys.
keysAreUnique(values) ==
  \A i, j \in DOMAIN values : values[i].key = values[j].key => i = j
sortedByKey(values) == SortSeq(values, LAMBDA left, right : left.key < right.key)

normalizeParallel(branches, policy) ==
  /\ keysAreUnique(branches)
  /\ policy.kind = "threshold" => policy.count <= Len(branches)

normalizeConsensus(participants, policy) ==
  /\ keysAreUnique(participants)
  /\ normalizePolicy(policy, Len(participants), Len(participants))

\* What the admission of a program asks of the policy of a vote.
validPolicy(policy, count) ==
  \/ policy.kind = "unanimous"
  \/ policy.kind = "quorum" /\ policy.minimumParticipation <= count
  \/ /\ policy.kind = "independentThreshold"
     /\ policy.approveThreshold <= count /\ policy.rejectThreshold <= count
     /\ policy.approveThreshold + policy.rejectThreshold > count

-----------------------------------------------------------------------------
(***************************************************************************)
(* agents: slot -> the strategies of the agent, by kind.  submitted: slot  *)
(* -> [strategy, participants], a participant being [key, bindingKey].     *)
(***************************************************************************)
comesBefore(left, right) ==
  \/ left.key < right.key
  \/ left.key = right.key /\ left.bindingKey < right.bindingKey
sortedParticipants(participants) == SortSeq(participants, comesBefore)

\* A mutant: a participant counts as known only with the same binding.
participantsAreUniqueByBinding(participants) == IsInjective(participants)

participantsAreUnique(participants) == keysAreUnique(participants)

validateSelectionAgainstAgent(selection, strategies) ==
  /\ selection.strategy \in DOMAIN strategies
  /\ selection.strategy = "consensus" =>
       policySupportsCount(strategies["consensus"], Len(selection.participants))

\* Nothing missing and nothing extra.
validateCoverage(submitted, agents) ==
  /\ DOMAIN submitted = DOMAIN agents
  /\ \A slot \in DOMAIN agents : validateSelectionAgainstAgent(submitted[slot], agents[slot])

validatePipelineSelections(submitted, agents) ==
  /\ validateCoverage(submitted, agents)
  /\ \A slot \in DOMAIN submitted : participantsAreUnique(submitted[slot].participants)

materialize(submitted) ==
  [slot \in DOMAIN submitted |->
     [submitted[slot] EXCEPT !.participants = sortedParticipants(@)]]
=============================================================================
