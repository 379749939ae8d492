--------------------------- MODULE PoliciesProofs ---------------------------
(***************************************************************************)
(* A policy decides on the results known so far.  What must hold for every *)
(* number of branches and every admitted policy: a decision once made is   *)
(* the decision that all the results together would give, whatever the     *)
(* branches still running turn out to be (they are cancelled or drained,   *)
(* and their results no longer count); and the last result always decides. *)
(* Branches that fail or are cancelled are classified before the policy is *)
(* asked and are not counted here.                                         *)
(* The policy itself is examined three times before a run; that the three  *)
(* examinations agree is at the end.                                       *)
(***************************************************************************)
EXTENDS Policies, Selections, FiniteSetTheorems, TLAPS

\* `q` qualified and `u` unqualified results out of `total` branches.
GenericCounts(q, u, total) ==
  /\ total \in Nat
  /\ q \in Nat
  /\ u \in Nat
  /\ q + u <= total

\* (q2, u2) are counts that (q, u) can grow into.
GenericGrows(q, u, q2, u2) == q <= q2 /\ u <= u2

\* What selectGenericPolicy is for each kind of policy.
LEMMA AllSelection ==
  ASSUME NEW policy, NEW q, NEW u, NEW total, policy.kind = "all"
  PROVE  selectGenericPolicy(policy, q, u, total) =
           IF u > 0 THEN "impossible"
           ELSE IF total - q - u = 0 THEN "completed" ELSE None
BY DEF selectGenericPolicy

\* See AllSelection.
LEMMA AnySelection ==
  ASSUME NEW policy, NEW q, NEW u, NEW total, policy.kind = "any"
  PROVE  selectGenericPolicy(policy, q, u, total) =
           IF q > 0 THEN "completed"
           ELSE IF total - q - u = 0 THEN "impossible" ELSE None
BY DEF selectGenericPolicy

\* See AllSelection.
LEMMA ThresholdSelection ==
  ASSUME NEW policy, NEW q, NEW u, NEW total, policy.kind = "threshold"
  PROVE  selectGenericPolicy(policy, q, u, total) =
           IF q >= policy.count THEN "completed"
           ELSE IF q + (total - q - u) < policy.count THEN "impossible" ELSE None
BY DEF selectGenericPolicy

\* all, any and threshold never select early what the remaining branches could
\* overturn (selectGenericPolicy, asked after every branch completion).
THEOREM GenericSelectionIsStable ==
  ASSUME NEW policy, NEW total, NEW q, NEW u, NEW q2, NEW u2,
         AdmittedGeneric(policy, total),
         GenericCounts(q, u, total), GenericCounts(q2, u2, total),
         GenericGrows(q, u, q2, u2),
         selectGenericPolicy(policy, q, u, total) # None
  PROVE  selectGenericPolicy(policy, q2, u2, total)
           = selectGenericPolicy(policy, q, u, total)
<1>1. CASE policy.kind = "all"
  <2>1. selectGenericPolicy(policy, q, u, total) =
             IF u > 0 THEN "impossible"
             ELSE IF total - q - u = 0 THEN "completed" ELSE None
    BY <1>1, AllSelection
  <2>2. selectGenericPolicy(policy, q2, u2, total) =
             IF u2 > 0 THEN "impossible"
             ELSE IF total - q2 - u2 = 0 THEN "completed" ELSE None
    BY <1>1, AllSelection
  <2> QED
    BY <2>1, <2>2 DEF GenericCounts, GenericGrows, None
<1>2. CASE policy.kind = "any"
  <2>1. selectGenericPolicy(policy, q, u, total) =
             IF q > 0 THEN "completed"
             ELSE IF total - q - u = 0 THEN "impossible" ELSE None
    BY <1>2, AnySelection
  <2>2. selectGenericPolicy(policy, q2, u2, total) =
             IF q2 > 0 THEN "completed"
             ELSE IF total - q2 - u2 = 0 THEN "impossible" ELSE None
    BY <1>2, AnySelection
  <2> QED
    BY <2>1, <2>2 DEF GenericCounts, GenericGrows, None
<1>3. CASE policy.kind = "threshold"
  <2>1. policy.count \in 1..total
    BY <1>3 DEF AdmittedGeneric
  <2>2. selectGenericPolicy(policy, q, u, total) =
             IF q >= policy.count THEN "completed"
             ELSE IF q + (total - q - u) < policy.count THEN "impossible" ELSE None
    BY <1>3, ThresholdSelection
  <2>3. selectGenericPolicy(policy, q2, u2, total) =
             IF q2 >= policy.count THEN "completed"
             ELSE IF q2 + (total - q2 - u2) < policy.count THEN "impossible" ELSE None
    BY <1>3, ThresholdSelection
  <2> QED
    BY <2>1, <2>2, <2>3 DEF GenericCounts, GenericGrows, None
<1> QED
  BY <1>1, <1>2, <1>3 DEF AdmittedGeneric

\* The last branch always decides: no parallel node waits for a branch that is
\* not there.
THEOREM GenericSelectionIsTotal ==
  ASSUME NEW policy, NEW total, NEW q, NEW u,
         AdmittedGeneric(policy, total),
         GenericCounts(q, u, total),
         q + u = total
  PROVE  selectGenericPolicy(policy, q, u, total) \in {"completed", "impossible"}
<1>1. CASE policy.kind = "all"
  <2>1. selectGenericPolicy(policy, q, u, total) =
             IF u > 0 THEN "impossible"
             ELSE IF total - q - u = 0 THEN "completed" ELSE None
    BY <1>1, AllSelection
  <2> QED
    BY <2>1 DEF GenericCounts
<1>2. CASE policy.kind = "any"
  <2>1. selectGenericPolicy(policy, q, u, total) =
             IF q > 0 THEN "completed"
             ELSE IF total - q - u = 0 THEN "impossible" ELSE None
    BY <1>2, AnySelection
  <2> QED
    BY <2>1 DEF GenericCounts
<1>3. CASE policy.kind = "threshold"
  <2>1. policy.count \in 1..total
    BY <1>3 DEF AdmittedGeneric
  <2>2. selectGenericPolicy(policy, q, u, total) =
             IF q >= policy.count THEN "completed"
             ELSE IF q + (total - q - u) < policy.count THEN "impossible" ELSE None
    BY <1>3, ThresholdSelection
  <2> QED
    BY <2>1, <2>2 DEF GenericCounts
<1> QED
  BY <1>1, <1>2, <1>3 DEF AdmittedGeneric

-----------------------------------------------------------------------------
\* `a` approvals, `r` rejections and `b` abstentions out of `total` votes.
VoteCounts(a, r, b, total) ==
  /\ total \in Nat
  /\ a \in Nat
  /\ r \in Nat
  /\ b \in Nat
  /\ a + r + b <= total

VoteGrows(a, r, b, a2, r2, b2) == a <= a2 /\ r <= r2 /\ b <= b2

\* What selectVotePolicy is for each kind of policy.
LEMMA UnanimousSelection ==
  ASSUME NEW policy, NEW a, NEW r, NEW b, NEW total, policy.kind = "unanimous"
  PROVE  selectVotePolicy(policy, a, r, b, total) = selectUnanimous(r, b, total - a - r - b)
BY DEF selectVotePolicy

\* See UnanimousSelection.
LEMMA QuorumSelection ==
  ASSUME NEW policy, NEW a, NEW r, NEW b, NEW total, policy.kind = "quorum"
  PROVE  selectVotePolicy(policy, a, r, b, total) = selectQuorum(policy, a, r, total - a - r - b)
BY DEF selectVotePolicy

\* See UnanimousSelection.
LEMMA ThresholdsSelection ==
  ASSUME NEW policy, NEW a, NEW r, NEW b, NEW total, policy.kind = "independentThreshold"
  PROVE  selectVotePolicy(policy, a, r, b, total)
           = selectIndependentThreshold(policy, a, r, total - a - r - b)
BY DEF selectVotePolicy

\* The same for votes.  Two independent thresholds whose sum exceeds the number
\* of votes (what admission requires) can never both be reached, so testing one
\* before the other does not matter.
THEOREM VoteSelectionIsStable ==
  ASSUME NEW policy, NEW total,
         NEW a, NEW r, NEW b, NEW a2, NEW r2, NEW b2,
         AdmittedVote(policy, total),
         VoteCounts(a, r, b, total), VoteCounts(a2, r2, b2, total),
         VoteGrows(a, r, b, a2, r2, b2),
         selectVotePolicy(policy, a, r, b, total) # None
  PROVE  selectVotePolicy(policy, a2, r2, b2, total)
           = selectVotePolicy(policy, a, r, b, total)
<1>1. CASE policy.kind = "unanimous"
  BY <1>1, UnanimousSelection DEF selectUnanimous, VoteCounts, VoteGrows, None
<1>2. CASE policy.kind = "quorum"
  <2>1. total - a - r - b = 0
    BY <1>2, QuorumSelection DEF selectQuorum, VoteCounts, None
  <2>2. a2 = a /\ r2 = r /\ b2 = b
    BY <2>1 DEF VoteCounts, VoteGrows
  <2> QED
    BY <2>2
<1>3. CASE policy.kind = "independentThreshold"
  <2>1. /\ policy.approveThreshold \in 1..total
        /\ policy.rejectThreshold \in 1..total
        /\ policy.approveThreshold + policy.rejectThreshold > total
    BY <1>3 DEF AdmittedVote
  <2> QED
    BY <1>3, <2>1, ThresholdsSelection DEF selectIndependentThreshold,
                      VoteCounts, VoteGrows, None
<1> QED
  BY <1>1, <1>2, <1>3 DEF AdmittedVote

\* The last vote always decides.
THEOREM VoteSelectionIsTotal ==
  ASSUME NEW policy, NEW total, NEW a, NEW r, NEW b,
         AdmittedVote(policy, total),
         VoteCounts(a, r, b, total),
         a + r + b = total
  PROVE  selectVotePolicy(policy, a, r, b, total)
           \in {"approved", "rejected", "inconclusive"}
<1>1. CASE policy.kind = "unanimous"
  BY <1>1, UnanimousSelection DEF selectUnanimous, VoteCounts
<1>2. CASE policy.kind = "quorum"
  BY <1>2, QuorumSelection DEF selectQuorum, VoteCounts
<1>3. CASE policy.kind = "independentThreshold"
  <2>1. /\ policy.approveThreshold \in 1..total
        /\ policy.rejectThreshold \in 1..total
    BY <1>3 DEF AdmittedVote
  <2> QED
    BY <1>3, <2>1, ThresholdsSelection DEF selectIndependentThreshold, VoteCounts
<1> QED
  BY <1>1, <1>2, <1>3 DEF AdmittedVote

-----------------------------------------------------------------------------
(***************************************************************************)
(* The same for the results themselves, from which the code counts.        *)
(***************************************************************************)
\* Results of up to `total` branches, and a later collection of them.
Results(results, total) ==
  /\ total \in Nat
  /\ IsFiniteSet(DOMAIN results)
  /\ Cardinality(DOMAIN results) <= total

ResultsGrow(results, later) ==
  /\ DOMAIN results \subseteq DOMAIN later
  /\ \A b \in DOMAIN results : later[b] = results[b]

\* A count is a number and only grows.
LEMMA CountGrows ==
  ASSUME NEW results, NEW later, NEW class,
         IsFiniteSet(DOMAIN later), ResultsGrow(results, later)
  PROVE  /\ CountOf(results, class) \in Nat
         /\ CountOf(later, class) \in Nat
         /\ CountOf(results, class) <= CountOf(later, class)
<1> DEFINE early == {b \in DOMAIN results : results[b] = class}
           late == {b \in DOMAIN later : later[b] = class}
<1>1. IsFiniteSet(late)
  BY FS_Subset
<1>2. early \subseteq late
  BY DEF ResultsGrow
<1>3. IsFiniteSet(early) /\ Cardinality(early) <= Cardinality(late)
  BY <1>1, <1>2, FS_Subset
<1> QED
  BY <1>1, <1>3, FS_CardinalityType DEF CountOf

\* Three disjoint parts of a finite set.
LEMMA PartsAddUp ==
  ASSUME NEW S, IsFiniteSet(S), NEW X \in SUBSET S, NEW Y \in SUBSET S, NEW Z \in SUBSET S,
         X \cap Y = {}, (X \cup Y) \cap Z = {}
  PROVE  Cardinality(X) + Cardinality(Y) + Cardinality(Z) <= Cardinality(S)
<1>1. /\ IsFiniteSet(X) /\ Cardinality(X) \in Nat
      /\ IsFiniteSet(Y) /\ Cardinality(Y) \in Nat
      /\ IsFiniteSet(Z) /\ Cardinality(Z) \in Nat
      /\ Cardinality(S) \in Nat
  BY FS_Subset, FS_CardinalityType
<1>2. Cardinality({}) = 0
  BY FS_EmptySet
<1>3. /\ IsFiniteSet(X \cup Y)
      /\ Cardinality(X \cup Y) = Cardinality(X) + Cardinality(Y)
  <2>1. Cardinality(X \cup Y) = Cardinality(X) + Cardinality(Y) - Cardinality(X \cap Y)
    BY <1>1, FS_Union
  <2>2. Cardinality(X \cap Y) = 0
    BY <1>2, Zenon
  <2>3. IsFiniteSet(X \cup Y)
    BY <1>1, FS_Union
  <2> QED
    BY <1>1, <2>1, <2>2, <2>3
<1>4. Cardinality((X \cup Y) \cup Z) = Cardinality(X) + Cardinality(Y) + Cardinality(Z)
  <2>1. Cardinality((X \cup Y) \cup Z)
          = Cardinality(X \cup Y) + Cardinality(Z) - Cardinality((X \cup Y) \cap Z)
    BY <1>1, <1>3, FS_Union
  <2>2. Cardinality((X \cup Y) \cap Z) = 0
    BY <1>2, Zenon
  <2> QED
    BY <1>1, <1>3, <2>1, <2>2
<1>5. Cardinality((X \cup Y) \cup Z) <= Cardinality(S)
  BY FS_Subset
<1> QED
  BY <1>4, <1>5

\* A branch counts in one class only.
LEMMA CountsAddUp ==
  ASSUME NEW results, NEW total, Results(results, total),
         NEW x, NEW y, NEW z, x # y, y # z, x # z
  PROVE  CountOf(results, x) + CountOf(results, y) + CountOf(results, z)
           <= Cardinality(DOMAIN results)
<1> DEFINE X == {b \in DOMAIN results : results[b] = x}
           Y == {b \in DOMAIN results : results[b] = y}
           Z == {b \in DOMAIN results : results[b] = z}
<1>1. X \cap Y = {} /\ (X \cup Y) \cap Z = {}
  OBVIOUS
<1>2. Cardinality(X) + Cardinality(Y) + Cardinality(Z) <= Cardinality(DOMAIN results)
  BY <1>1, PartsAddUp DEF Results
<1> QED
  BY <1>2 DEF CountOf

\* A generic parallel that selected on the results it had (classifyGenericParallel
\* after some branch) selected what all of them give, unless a later branch fails
\* or is cancelled.
THEOREM GenericDecisionIsFinal ==
  ASSUME NEW policy, NEW total, NEW results, NEW later,
         AdmittedGeneric(policy, total), Results(later, total),
         ResultsGrow(results, later), ~Spoiled(later),
         classifyGenericParallel(policy, results, total, None) # None
  PROVE  classifyGenericParallel(policy, later, total, None)
           = classifyGenericParallel(policy, results, total, None)
<1> DEFINE q(r) == CountOf(r, "qualifies")
           u(r) == CountOf(r, "doesNotQualify")
<1>1. ~Spoiled(results)
  BY DEF Spoiled, ResultsGrow
<1>2. GenericGrows(q(results), u(results), q(later), u(later))
  BY CountGrows DEF GenericGrows, Results
<1>3. GenericCounts(q(later), u(later), total)
  <2>1. q(later) + u(later) + CountOf(later, "failed") <= Cardinality(DOMAIN later)
    BY CountsAddUp
  <2>2. ResultsGrow(later, later)
    BY DEF ResultsGrow
  <2>3. /\ q(later) \in Nat /\ u(later) \in Nat
        /\ CountOf(later, "failed") \in Nat
    BY <2>2, CountGrows DEF Results
  <2>4. Cardinality(DOMAIN later) \in Nat
    BY FS_CardinalityType DEF Results
  <2> QED
    BY <2>1, <2>3, <2>4 DEF GenericCounts, Results
<1>4. GenericCounts(q(results), u(results), total)
  <2>1. q(results) \in Nat /\ u(results) \in Nat
    BY CountGrows DEF Results
  <2> QED
    BY <1>2, <1>3, <2>1 DEF GenericCounts, GenericGrows
<1>5. selectGenericPolicy(policy, q(results), u(results), total) # None
  BY <1>1 DEF classifyGenericParallel
<1>6. selectGenericPolicy(policy, q(later), u(later), total)
        = selectGenericPolicy(policy, q(results), u(results), total)
  BY <1>2, <1>3, <1>4, <1>5, GenericSelectionIsStable
<1> QED
  BY <1>1, <1>6 DEF classifyGenericParallel

\* The same for a vote parallel (classifyVoteParallel).
THEOREM VoteDecisionIsFinal ==
  ASSUME NEW policy, NEW total, NEW results, NEW later,
         AdmittedVote(policy, total), Results(later, total),
         ResultsGrow(results, later), ~Spoiled(later),
         classifyVoteParallel(policy, results, total, None) # None
  PROVE  classifyVoteParallel(policy, later, total, None)
           = classifyVoteParallel(policy, results, total, None)
<1> DEFINE a(v) == CountOf(v, "approve")
           r(v) == CountOf(v, "reject")
           b(v) == CountOf(v, "abstain")
<1>1. ~Spoiled(results)
  BY DEF Spoiled, ResultsGrow
<1>2. VoteGrows(a(results), r(results), b(results), a(later), r(later), b(later))
  BY CountGrows DEF VoteGrows, Results
<1>3. VoteCounts(a(later), r(later), b(later), total)
  <2>1. a(later) + r(later) + b(later) <= Cardinality(DOMAIN later)
    BY CountsAddUp
  <2>2. ResultsGrow(later, later)
    BY DEF ResultsGrow
  <2>3. a(later) \in Nat /\ r(later) \in Nat /\ b(later) \in Nat
    BY <2>2, CountGrows DEF Results
  <2>4. Cardinality(DOMAIN later) \in Nat
    BY FS_CardinalityType DEF Results
  <2> QED
    BY <2>1, <2>3, <2>4 DEF VoteCounts, Results
<1>4. VoteCounts(a(results), r(results), b(results), total)
  <2>1. a(results) \in Nat /\ r(results) \in Nat /\ b(results) \in Nat
    BY CountGrows DEF Results
  <2> QED
    BY <1>2, <1>3, <2>1 DEF VoteCounts, VoteGrows
<1>5. selectVotePolicy(policy, a(results), r(results), b(results), total) # None
  BY <1>1 DEF classifyVoteParallel
<1>6. selectVotePolicy(policy, a(later), r(later), b(later), total)
        = selectVotePolicy(policy, a(results), r(results), b(results), total)
  BY <1>2, <1>3, <1>4, <1>5, VoteSelectionIsStable
<1> QED
  BY <1>1, <1>6 DEF classifyVoteParallel

\* The results of all branches always decide a generic parallel.
LEMMA GenericResultsDecide ==
  ASSUME NEW policy, NEW total, AdmittedGeneric(policy, total), NEW results,
         IsFiniteSet(DOMAIN results), Cardinality(DOMAIN results) = total,
         \A b \in DOMAIN results : results[b] \in GenericClass
  PROVE  classifyGenericParallel(policy, results, total, None) # None
<1> DEFINE X == {b \in DOMAIN results : results[b] = "qualifies"}
           Y == {b \in DOMAIN results : results[b] = "doesNotQualify"}
<1>1. CASE Spoiled(results)
  BY <1>1 DEF classifyGenericParallel, None
<1>2. CASE ~Spoiled(results)
  <2>1. X \cup Y = DOMAIN results /\ X \cap Y = {}
    BY <1>2 DEF Spoiled, GenericClass
  <2>2. IsFiniteSet(X) /\ IsFiniteSet(Y) /\ Cardinality(X) \in Nat /\ Cardinality(Y) \in Nat
    BY FS_Subset, FS_CardinalityType
  <2> HIDE DEF X, Y
  <2>3. Cardinality(X \cup Y) = Cardinality(X) + Cardinality(Y) - Cardinality(X \cap Y)
    BY <2>2, FS_Union
  <2>4. Cardinality(X \cap Y) = 0
    BY <2>1, FS_EmptySet, Zenon
  <2>5. Cardinality(X) + Cardinality(Y) = total
    BY <2>1, <2>2, <2>3, <2>4
  <2>6. GenericCounts(Cardinality(X), Cardinality(Y), total)
    BY <2>2, <2>5 DEF GenericCounts
  <2>7. selectGenericPolicy(policy, Cardinality(X), Cardinality(Y), total)
          \in {"completed", "impossible"}
    BY <2>5, <2>6, GenericSelectionIsTotal
  <2>8. CountOf(results, "qualifies") = Cardinality(X)
        /\ CountOf(results, "doesNotQualify") = Cardinality(Y)
    BY DEF CountOf, X, Y
  <2> QED
    BY <1>2, <2>7, <2>8 DEF classifyGenericParallel, None
<1> QED
  BY <1>1, <1>2

\* The same for a vote parallel.
LEMMA VoteResultsDecide ==
  ASSUME NEW policy, NEW total, AdmittedVote(policy, total), NEW results,
         IsFiniteSet(DOMAIN results), Cardinality(DOMAIN results) = total,
         \A b \in DOMAIN results : results[b] \in VoteClass
  PROVE  classifyVoteParallel(policy, results, total, None) # None
<1> DEFINE X == {b \in DOMAIN results : results[b] = "approve"}
           Y == {b \in DOMAIN results : results[b] = "reject"}
           Z == {b \in DOMAIN results : results[b] = "abstain"}
<1>1. CASE Spoiled(results)
  BY <1>1 DEF classifyVoteParallel, None
<1>2. CASE ~Spoiled(results)
  <2>1. (X \cup Y) \cup Z = DOMAIN results /\ X \cap Y = {} /\ (X \cup Y) \cap Z = {}
    BY <1>2 DEF Spoiled, VoteClass
  <2>2. /\ IsFiniteSet(X) /\ IsFiniteSet(Y) /\ IsFiniteSet(Z)
        /\ Cardinality(X) \in Nat /\ Cardinality(Y) \in Nat /\ Cardinality(Z) \in Nat
    BY FS_Subset, FS_CardinalityType
  <2> HIDE DEF X, Y, Z
  <2>3. /\ Cardinality(X \cup Y) = Cardinality(X) + Cardinality(Y) - Cardinality(X \cap Y)
        /\ IsFiniteSet(X \cup Y)
    BY <2>2, FS_Union
  <2>4. Cardinality((X \cup Y) \cup Z)
          = Cardinality(X \cup Y) + Cardinality(Z) - Cardinality((X \cup Y) \cap Z)
    BY <2>2, <2>3, FS_Union
  <2>5. Cardinality(X \cap Y) = 0 /\ Cardinality((X \cup Y) \cap Z) = 0
    BY <2>1, FS_EmptySet, Zenon
  <2>6. Cardinality(X) + Cardinality(Y) + Cardinality(Z) = total
    BY <2>1, <2>2, <2>3, <2>4, <2>5
  <2>7. VoteCounts(Cardinality(X), Cardinality(Y), Cardinality(Z), total)
    BY <2>2, <2>6 DEF VoteCounts
  <2>8. selectVotePolicy(policy, Cardinality(X), Cardinality(Y), Cardinality(Z), total)
          \in {"approved", "rejected", "inconclusive"}
    BY <2>6, <2>7, VoteSelectionIsTotal
  <2>9. /\ CountOf(results, "approve") = Cardinality(X)
        /\ CountOf(results, "reject") = Cardinality(Y)
        /\ CountOf(results, "abstain") = Cardinality(Z)
    BY DEF CountOf, X, Y, Z
  <2> QED
    BY <1>2, <2>8, <2>9 DEF classifyVoteParallel, None
<1> QED
  BY <1>1, <1>2

-----------------------------------------------------------------------------
(***************************************************************************)
(* The three examinations of a voting policy agree, for any numbers.       *)
(***************************************************************************)
\* A policy that a source may state for a range of participants is supported for every
\* number in the range, by the selections (policySupportsCount) and by the program.
THEOREM AllowedPolicyIsSupported ==
  ASSUME NEW minimum \in Nat, NEW maximum \in Nat, NEW policy \in Policy,
         NEW strategy, strategy.policy = policy,
         strategy.minimumParticipants = minimum, strategy.maximumParticipants = maximum,
         normalizeAgentStrategy(strategy)
  PROVE  \A count \in minimum..maximum :
           policySupportsCount(strategy, count) /\ validPolicy(policy, count)
<1> SUFFICES ASSUME NEW count \in minimum..maximum
             PROVE  policySupportsCount(strategy, count) /\ validPolicy(policy, count)
  OBVIOUS
<1>1. count \in Nat /\ minimum <= count /\ count <= maximum
  OBVIOUS
<1>2. normalizePolicy(policy, minimum, maximum)
  BY DEF normalizeAgentStrategy
<1>3. CASE policy.kind = "unanimous"
  BY <1>1, <1>3 DEF policySupportsCount, validPolicy
<1>4. CASE policy.kind = "quorum"
  <2>1. policy.minimumParticipation \in Nat /\ policy.minimumParticipation <= minimum
    BY <1>2, <1>4 DEF normalizePolicy, Policy
  <2> QED
    BY <1>1, <1>4, <2>1 DEF policySupportsCount, validPolicy
<1>5. CASE policy.kind = "independentThreshold"
  <2>1. /\ policy.approveThreshold \in Nat /\ policy.rejectThreshold \in Nat
        /\ policy.approveThreshold <= minimum /\ policy.rejectThreshold <= minimum
        /\ policy.approveThreshold + policy.rejectThreshold > maximum
    BY <1>2, <1>5 DEF normalizePolicy, Policy
  <2> QED
    BY <1>1, <1>5, <2>1 DEF policySupportsCount, validPolicy
<1> QED
  BY <1>3, <1>4, <1>5 DEF Policy

\* And whatever the selections accept, the admission of the program accepts.
THEOREM SelectedPolicyIsAdmitted ==
  ASSUME NEW strategy, NEW count, strategy.policy \in Policy,
         policySupportsCount(strategy, count)
  PROVE  validPolicy(strategy.policy, count)
  BY DEF policySupportsCount, validPolicy, Policy
=============================================================================
