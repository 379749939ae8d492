------------------------- MODULE ActivityBoundProofs -------------------------
(***************************************************************************)
(* The arithmetic of the activity bound is exact, whatever the largest     *)
(* integer is: it gives a result or reports that there is none in range,   *)
(* and never computes with a number out of range.                          *)
(***************************************************************************)
EXTENDS ActivityBound, TLAPS

Bound == 0..MaxSafeInteger

\* A quotient times its divisor is at most the dividend, by less than the divisor.
LEMMA Quotient ==
  ASSUME NEW n \in Nat, NEW d \in Nat \ {0}
  PROVE  /\ n \div d \in Nat
         /\ d * (n \div d) <= n
         /\ n < d * (n \div d) + d
<1>1. n \div d \in Int /\ n % d \in 0..(d - 1) /\ n = d * (n \div d) + (n % d)
  OBVIOUS
<1>2. n \div d \in Nat
  OBVIOUS
<1> QED
  BY <1>1, <1>2

\* Comparing with a quotient is comparing the product, without computing it.
LEMMA QuotientDecides ==
  ASSUME NEW n \in Nat, NEW d \in Nat \ {0}, NEW k \in Nat
  PROVE  k > n \div d <=> d * k > n
<1> DEFINE q == n \div d
<1>1. q \in Nat /\ d * q <= n /\ n < d * q + d
  BY Quotient
<1> HIDE DEF q
<1>2. ASSUME k > q
      PROVE  d * k > n
  <2>1. PICK j \in Nat : k = q + 1 + j
    <3>1. k - q - 1 \in Nat /\ k = q + 1 + (k - q - 1)
      BY <1>1, <1>2
    <3> QED
      BY <3>1
  <2>2. d * k = d * q + d + d * j /\ d * j \in Nat /\ d * q \in Nat
    BY <1>1, <2>1
  <2> QED
    BY <1>1, <2>2
<1>3. ASSUME k <= q
      PROVE  d * k <= n
  <2>1. PICK j \in Nat : q = k + j
    <3>1. q - k \in Nat /\ q = k + (q - k)
      BY <1>1, <1>3
    <3> QED
      BY <3>1
  <2>2. d * q = d * k + d * j /\ d * j \in Nat /\ d * k \in Nat
    BY <2>1
  <2> QED
    BY <1>1, <2>2
<1>4. d * k \in Nat
  OBVIOUS
<1> QED
  BY <1>1, <1>2, <1>3, <1>4 DEF q

\* Sums and products within the limit are exact, and what leaves it is reported and
\* stays reported (foundation's addWithinLimit and multiplyWithinLimit, safeAdd and
\* safeMultiply of bounds/activity-bound.ts).
THEOREM BoundsAreExact ==
  ASSUME NEW left \in Bound \cup {Overflow}, NEW right \in Bound
  PROVE  /\ addWithinLimit(left, right) =
              IF left = Overflow \/ left + right > MaxSafeInteger THEN Overflow ELSE left + right
         /\ multiplyWithinLimit(left, right) =
              IF left = Overflow \/ left * right > MaxSafeInteger THEN Overflow ELSE left * right
         /\ addWithinLimit(left, right) \in Bound \cup {Overflow}
         /\ multiplyWithinLimit(left, right) \in Bound \cup {Overflow}
<1>1. MaxSafeInteger \in Nat /\ right \in Nat /\ right <= MaxSafeInteger /\ right # Overflow
  BY BoundAssumption DEF Bound, Overflow
<1>2. CASE left = Overflow
  BY <1>2 DEF addWithinLimit, multiplyWithinLimit
<1>3. CASE left \in Bound
  <2>1. left \in Nat /\ left # Overflow /\ left <= MaxSafeInteger
    BY <1>1, <1>3 DEF Bound, Overflow
  <2>2. left > MaxSafeInteger - right <=> left + right > MaxSafeInteger
    BY <1>1, <2>1
  <2>3. left # 0 => (right > MaxSafeInteger \div left <=> left * right > MaxSafeInteger)
    BY <1>1, <2>1, QuotientDecides
  <2>4. left = 0 => left * right = 0
    BY <1>1
  <2>5. left + right \in Nat /\ left * right \in Nat
    BY <1>1, <2>1
  <2>6. addWithinLimit(left, right) =
          IF left + right > MaxSafeInteger THEN Overflow ELSE left + right
    BY <1>1, <2>1, <2>2 DEF addWithinLimit
  <2>7. multiplyWithinLimit(left, right) =
          IF left * right > MaxSafeInteger THEN Overflow ELSE left * right
    BY <1>1, <2>1, <2>3, <2>4, <2>5 DEF multiplyWithinLimit
  <2> QED
    BY <1>1, <2>1, <2>5, <2>6, <2>7 DEF Bound
<1> QED
  BY <1>2, <1>3
=============================================================================
