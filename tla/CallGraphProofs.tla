--------------------------- MODULE CallGraphProofs ---------------------------
(***************************************************************************)
(* For every package: a program whose calls are admitted has no recursion, *)
(* and its calls nest no deeper than allowed.  The depth that admission    *)
(* measures is the proof: it is smaller for a module than for whoever      *)
(* calls it.                                                               *)
(***************************************************************************)
EXTENDS CallGraphProperties, FiniteSetTheorems, WellFoundedInduction, TLAPS

\* Modules are ordered after all they call, and no depth exceeds their number.
OrderInv ==
  /\ source \in Sources
  /\ ordered \subseteq Modules
  /\ depths \in [Modules -> Nat]
  /\ \A m \in Modules : depths[m] <= Cardinality(ordered)
  /\ \A m \in ordered : \A n \in known(m) : n \in ordered /\ depths[n] < depths[m]

\* A set of numbers with an upper bound, if it is not empty, has a greatest one: a
\* number above which there are the fewest.
LEMMA MaxIsGreatest ==
  ASSUME NEW S \in SUBSET Nat, S # {}, NEW bound \in Nat, \A s \in S : s <= bound
  PROVE  Max(S) \in S /\ \A s \in S : s <= Max(S)
<1> DEFINE Above(s) == {t \in S : t > s}
           Aboves == {Above(s) : s \in S}
<1>1. IsWellFoundedOn(StrictSubsetOrdering(S), SUBSET S)
  <2>1. IsFiniteSet(S)
    BY FS_BoundedSetOfNaturals
  <2> QED
    BY <2>1, FS_FiniteSubsetsOfFinite, FS_StrictSubsetOrderingWellFounded
<1>2. PICK U \in Aboves : \A V \in Aboves : <<V, U>> \notin StrictSubsetOrdering(S)
  <2>1. Aboves \subseteq SUBSET S /\ Aboves # {}
    OBVIOUS
  <2> HIDE DEF Aboves
  <2> QED
    BY <1>1, <2>1, WFMin
<1>3. PICK m \in S : U = Above(m)
  BY <1>2
<1>4. \A s \in S : m >= s
  <2> SUFFICES ASSUME NEW s \in S, s > m
               PROVE  FALSE
    OBVIOUS
  <2>1. s \in Above(m) /\ s \notin Above(s) /\ Above(s) \subseteq Above(m)
    <3>1. m \in Nat /\ s \in Nat /\ \A t \in S : t \in Nat
      OBVIOUS
    <3>2. ~(s > s) /\ \A t \in S : t > s => t > m
      BY <3>1
    <3> QED
      BY <3>2
  <2>2. Above(s) \in Aboves /\ Above(s) \in SUBSET S /\ Above(m) \in SUBSET S
    OBVIOUS
  <2> HIDE DEF Above, Aboves
  <2>3. <<Above(s), Above(m)>> \in StrictSubsetOrdering(S)
    BY <2>1, <2>2 DEF StrictSubsetOrdering
  <2> QED
    BY <1>2, <1>3, <2>2, <2>3
<1>5. Max(S) \in S /\ \A s \in S : Max(S) >= s
  BY <1>4 DEF Max
<1> QED
  BY <1>5

LEMMA InitOrders ==
  ASSUME Init
  PROVE  OrderInv
<1>1. Cardinality({}) = 0
  BY FS_EmptySet
<1> QED
  BY <1>1 DEF Init, OrderInv

\* The next module is deeper than all it calls, which have their depth already.
LEMMA OrderOrders ==
  ASSUME OrderInv, Order
  PROVE  OrderInv'
<1>1. PICK m \in Modules \ ordered :
        /\ known(m) \subseteq ordered
        /\ ordered' = ordered \cup {m}
        /\ depths' = [depths EXCEPT ![m] = depthOf(m)]
  BY DEF Order
<1>2. source' = source /\ source \in Sources
  BY DEF Order, OrderInv
<1>3. \A n \in Modules : known(n)' = known(n)
  BY <1>2 DEF known, dependencies, Calls
<1>4. /\ IsFiniteSet(ordered)
      /\ Cardinality(ordered) \in Nat
      /\ Cardinality(ordered') = Cardinality(ordered) + 1
  <2>1. IsFiniteSet(ordered)
    BY SourcesAssumption, FS_Subset DEF OrderInv
  <2> QED
    BY <2>1, <1>1, FS_AddElement, FS_CardinalityType
<1> DEFINE Depths == {0} \cup {IF n \in Modules THEN depths[n] + 1 ELSE 1 : n \in dependencies[m]}
<1>5. /\ Depths \in SUBSET Nat /\ Depths # {}
      /\ \A d \in Depths : d <= Cardinality(ordered) + 1
  <2>1. \A n \in Modules : depths[n] \in Nat /\ depths[n] <= Cardinality(ordered)
    BY DEF OrderInv
  <2> QED
    BY <2>1, <1>4
<1>6. /\ depthOf(m) \in Nat
      /\ depthOf(m) <= Cardinality(ordered) + 1
      /\ \A d \in Depths : d <= depthOf(m)
  <2>1. depthOf(m) = Max(Depths)
    BY DEF depthOf
  <2>2. Cardinality(ordered) + 1 \in Nat
    BY <1>4
  <2> HIDE DEF Depths
  <2>3. Max(Depths) \in Depths /\ \A d \in Depths : d <= Max(Depths)
    BY <1>5, <2>2, MaxIsGreatest
  <2> QED
    BY <1>5, <2>1, <2>3
<1>7. \A n \in known(m) : n \in ordered /\ depths[n] < depthOf(m)
  <2> SUFFICES ASSUME NEW n \in known(m)
               PROVE  n \in ordered /\ depths[n] < depthOf(m)
    OBVIOUS
  <2>1. n \in Modules /\ n \in dependencies[m] /\ n \in ordered
    BY <1>1 DEF known
  <2>2. depths[n] + 1 \in Depths
    BY <2>1
  <2>3. depths[n] \in Nat
    BY <2>1 DEF OrderInv
  <2> QED
    BY <1>6, <2>1, <2>2, <2>3
<1>8. /\ ordered' \subseteq Modules
      /\ depths' \in [Modules -> Nat]
      /\ depths'[m] = depthOf(m)
      /\ \A n \in Modules \ {m} : depths'[n] = depths[n]
  BY <1>1, <1>6 DEF OrderInv
<1>9. \A n \in Modules : depths'[n] <= Cardinality(ordered')
  BY <1>4, <1>6, <1>8 DEF OrderInv
<1>10. \A k \in ordered' : \A n \in known(k)' : n \in ordered' /\ depths'[n] < depths'[k]
  <2> SUFFICES ASSUME NEW k \in ordered', NEW n \in known(k)
               PROVE  n \in ordered' /\ depths'[n] < depths'[k]
    BY <1>3, <1>8
  <2>1. CASE k = m
    BY <2>1, <1>1, <1>7, <1>8 DEF OrderInv
  <2>2. CASE k # m
    BY <2>2, <1>1, <1>8 DEF OrderInv
  <2> QED
    BY <2>1, <2>2
<1> QED
  BY <1>2, <1>8, <1>9, <1>10 DEF OrderInv

\* No other step touches what is measured.
LEMMA NextOrders ==
  ASSUME OrderInv, [Next]_vars
  PROVE  OrderInv'
<1>1. CASE Order
  BY <1>1, OrderOrders
<1>2. CASE UNCHANGED <<source, measure>>
  BY <1>2 DEF measure, OrderInv, known, dependencies, Calls
<1>3. CASE Link \/ Linked
  BY <1>2, <1>3 DEF Link, Linked
<1>4. CASE VisitNext \/ Follow \/ Return \/ Searched
  BY <1>2, <1>4 DEF VisitNext, Follow, Return, Searched
<1>5. CASE Deepen \/ Deepened \/ Measured
  BY <1>2, <1>5 DEF Deepen, Deepened, Measured
<1>6. CASE UNCHANGED vars
  BY <1>2, <1>6 DEF vars
<1> QED
  BY <1>1, <1>3, <1>4, <1>5, <1>6 DEF Next

LEMMA OrderedDescends ==
  ASSUME OrderInv
  PROVE  AdmittedCallsDescend
<1> SUFFICES ASSUME AdmittedCalls, NEW call \in Calls
             PROVE  /\ call.to \in Modules
                    /\ depths[call.to] < depths[call.from]
                    /\ depths[call.from] <= CallDepth
  BY DEF AdmittedCallsDescend
<1>1. call.from \in Modules /\ call.to \in Modules /\ ordered = Modules
  BY SourcesAssumption DEF OrderInv, Calls, AdmittedCalls, hasValidCallGraph
<1>2. call.to \in known(call.from)
  BY <1>1 DEF known, dependencies
<1>3. depths[call.to] < depths[call.from]
  BY <1>1, <1>2 DEF OrderInv
<1> DEFINE Depths == {depths[m] : m \in Modules}
<1>4. Depths \in SUBSET Nat /\ Depths # {} /\ depths[call.from] \in Depths
  BY <1>1 DEF OrderInv
<1>5. Cardinality(ordered) \in Nat /\ \A d \in Depths : d <= Cardinality(ordered)
  BY <1>1, SourcesAssumption, FS_CardinalityType DEF OrderInv
<1>6. maximumCallDepth = Max(Depths) /\ maximumCallDepth <= CallDepth
  BY DEF maximumCallDepth, AdmittedCalls
<1> HIDE DEF Depths
<1>7. Max(Depths) \in Depths /\ depths[call.from] <= Max(Depths)
  BY <1>4, <1>5, MaxIsGreatest
<1>8. Max(Depths) \in Nat /\ depths[call.from] \in Nat /\ CallDepth \in Nat
  BY <1>4, <1>7, SourcesAssumption
<1> QED
  BY <1>1, <1>3, <1>6, <1>7, <1>8

\* In every package, whatever calls are kept, the calls of an admitted program descend
\* in depth and stay within the limit (admission/graphs.ts, analysis/module-graph.ts).
THEOREM AdmittedCallsEnd == Spec => []AdmittedCallsDescend
<1>1. Init => OrderInv
  BY InitOrders
<1>2. OrderInv /\ [Next]_vars => OrderInv'
  BY NextOrders
<1>3. OrderInv => AdmittedCallsDescend
  BY OrderedDescends
<1> QED
  BY <1>1, <1>2, <1>3, PTL DEF Spec
=============================================================================
