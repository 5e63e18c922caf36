------------------------------ MODULE TreeProofs ------------------------------
(***************************************************************************)
(* What the proofs about a directory tree share: induction over the        *)
(* natural numbers in a form without an operator (a property P is used     *)
(* through the set {n \in Nat : P(n)}), and that Reachable is the least    *)
(* set with the starting points that is closed under the steps.            *)
(***************************************************************************)
EXTENDS Tree, WellFoundedInduction, FiniteSetTheorems, TLAPS

Less == {p \in Nat \X Nat : p[1] < p[2]}

LEMMA LessWellFounded == IsWellFoundedOn(Less, Nat)
<1>1. Less = OpToRel(<, Nat)
  BY DEF Less, OpToRel
<1> QED BY <1>1, NatLessThanWellFounded

\* Otherwise the least number outside S would have no predecessor.
LEMMA NatSets ==
  ASSUME NEW S, 0 \in S, \A n \in Nat : n \in S => n + 1 \in S
  PROVE  Nat \subseteq S
<1> DEFINE T == Nat \ S
<1> SUFFICES ASSUME T # {} PROVE FALSE
  OBVIOUS
<1>0. T \subseteq Nat
  OBVIOUS
<1>1. PICK x \in T : \A y \in T : ~(<<y, x>> \in Less)
  <2> HIDE DEF T
  <2> QED BY <1>0, LessWellFounded, WFMin
<1>2. x \in Nat /\ x # 0 /\ x - 1 \in Nat
  BY <1>1
<1>3. <<x - 1, x>> \in Less
  BY <1>2 DEF Less
<1>4. x - 1 \in S
  BY <1>1, <1>2, <1>3
<1> QED BY <1>1, <1>2, <1>4

-----------------------------------------------------------------------------
(* Reachable *)

\* One step more.
Further(S, next, R) == S \cup UNION {next[d] : d \in Dirs \cap R}

\* A table of what is reached from S within k steps, up to n.
Steps(f, S, next, n) == f = [k \in 0..n |-> IF k = 0 THEN S ELSE Further(S, next, f[k - 1])]

LEMMA StepsExist ==
  ASSUME NEW S, NEW next, NEW n \in Nat
  PROVE  \E f : Steps(f, S, next, n)
<1> DEFINE M == {m \in Nat : \E f : Steps(f, S, next, m)}
<1>1. 0 \in M
  <2> DEFINE f == [k \in 0..0 |-> S]
  <2>1. f = [k \in 0..0 |-> IF k = 0 THEN S ELSE Further(S, next, f[k - 1])]
    OBVIOUS
  <2>2. Steps(f, S, next, 0)
    BY <2>1 DEF Steps
  <2> QED BY <2>2
<1>2. ASSUME NEW m \in Nat, m \in M PROVE m + 1 \in M
  <2>1. PICK f : Steps(f, S, next, m)
    BY <1>2
  <2>2. /\ f = [k \in 0..m |-> f[k]] /\ DOMAIN f = 0..m
        /\ \A k \in 0..m : f[k] = IF k = 0 THEN S ELSE Further(S, next, f[k - 1])
    BY <2>1 DEF Steps
  <2> DEFINE last == Further(S, next, f[m])
             g == [k \in 0..(m + 1) |-> IF k = m + 1 THEN last ELSE f[k]]
  <2>3. ASSUME NEW k \in 0..(m + 1)
        PROVE  g[k] = IF k = 0 THEN S ELSE Further(S, next, g[k - 1])
    <3>1. CASE k = m + 1
      <4>1. k # 0 /\ k - 1 = m /\ m \in 0..(m + 1) /\ m # m + 1
        BY <3>1
      <4>2. g[k] = last /\ g[k - 1] = f[m]
        BY <3>1, <4>1
      <4> QED BY <3>1, <4>1, <4>2
    <3>2. CASE k # m + 1 /\ k # 0
      <4>1. k \in 0..m /\ k - 1 \in 0..(m + 1) /\ k - 1 # m + 1
        BY <3>2
      <4>2. g[k] = f[k] /\ g[k - 1] = f[k - 1]
        BY <3>2, <4>1
      <4> HIDE DEF g
      <4> QED BY <2>2, <3>2, <4>1, <4>2
    <3>3. CASE k = 0
      <4>1. g[k] = f[0] /\ 0 \in 0..m
        BY <3>3
      <4> QED BY <2>2, <3>3, <4>1
    <3> QED BY <3>1, <3>2, <3>3
  <2>4. g = [k \in 0..(m + 1) |-> g[k]]
    OBVIOUS
  <2> HIDE DEF g
  <2>5. g = [k \in 0..(m + 1) |-> IF k = 0 THEN S ELSE Further(S, next, g[k - 1])]
    BY <2>3, <2>4
  <2>6. Steps(g, S, next, m + 1)
    BY <2>5 DEF Steps
  <2> QED BY <2>6
<1> HIDE DEF M
<1>3. n \in M
  BY <1>1, <1>2, NatSets
<1> QED BY <1>3 DEF M

LEMMA ReachableSteps ==
  ASSUME IsFiniteSet(Dirs), NEW S, NEW next
  PROVE  \E f : /\ Reachable(S, next) = f[Cardinality(Dirs)] /\ f[0] = S
                /\ \A k \in 1..Cardinality(Dirs) : f[k] = Further(S, next, f[k - 1])
<1> DEFINE n == Cardinality(Dirs)
           f == CHOOSE f : Steps(f, S, next, n)
<1>1. n \in Nat
  BY FS_CardinalityType
<1>2. Steps(f, S, next, n)
  BY <1>1, StepsExist
<1>3. Reachable(S, next) = f[n]
  BY DEF Reachable, Steps, Further
<1> HIDE DEF f
<1>4. \A k \in 0..n : f[k] = IF k = 0 THEN S ELSE Further(S, next, f[k - 1])
  BY <1>2 DEF Steps
<1> QED BY <1>1, <1>3, <1>4

\* Reachable is in every set with the starting points that is closed under the steps.
LEMMA ReachableLeast ==
  ASSUME IsFiniteSet(Dirs), NEW S, NEW next, NEW C,
         S \subseteq C, \A d \in Dirs \cap C : next[d] \subseteq C
  PROVE  Reachable(S, next) \subseteq C
<1> DEFINE n == Cardinality(Dirs)
<1>1. n \in Nat
  BY FS_CardinalityType
<1>2. PICK f : /\ Reachable(S, next) = f[n] /\ f[0] = S
               /\ \A k \in 1..n : f[k] = Further(S, next, f[k - 1])
  BY ReachableSteps
<1> DEFINE M == {m \in Nat : m <= n => f[m] \subseteq C}
<1>3. 0 \in M
  BY <1>2
<1>4. ASSUME NEW m \in Nat, m \in M PROVE m + 1 \in M
  <2> SUFFICES ASSUME m + 1 <= n PROVE f[m + 1] \subseteq C
    OBVIOUS
  <2>1. m + 1 \in 1..n /\ (m + 1) - 1 = m
    BY <1>1
  <2>2. PICK R : R = f[m]
    OBVIOUS
  <2>3. f[m + 1] = Further(S, next, R) /\ R \subseteq C
    BY <1>1, <1>2, <1>4, <2>1, <2>2
  <2> QED BY <2>3 DEF Further
<1> HIDE DEF M
<1>5. n \in M
  BY <1>1, <1>3, <1>4, NatSets
<1> QED BY <1>1, <1>2, <1>5 DEF M

LEMMA FurtherGrows ==
  ASSUME NEW S, NEW next, NEW Q, NEW R, Q \subseteq R
  PROVE  S \subseteq Further(S, next, Q) /\ Further(S, next, Q) \subseteq Further(S, next, R)
BY DEF Further

\* It has the starting points and is itself closed: each of the first steps meets a
\* directory more, until no step does.
LEMMA ReachableClosed ==
  ASSUME IsFiniteSet(Dirs), Dirs # {}, NEW S, NEW next
  PROVE  /\ S \subseteq Reachable(S, next)
         /\ \A d \in Dirs \cap Reachable(S, next) : next[d] \subseteq Reachable(S, next)
<1> DEFINE n == Cardinality(Dirs)
<1>1. n \in Nat /\ n # 0
  BY FS_CardinalityType, FS_EmptySet
<1>2. PICK f : /\ Reachable(S, next) = f[n] /\ f[0] = S
               /\ \A k \in 1..n : f[k] = Further(S, next, f[k - 1])
  BY ReachableSteps
<1> DEFINE D(k) == Dirs \cap f[k]
           M == {m \in Nat : m < n => f[m] \subseteq f[m + 1] /\ (D(m) = D(m + 1) \/ Cardinality(D(m)) > m)}
<1>a. \A k \in Nat : IsFiniteSet(D(k)) /\ Cardinality(D(k)) \in Nat
  <2> SUFFICES ASSUME NEW k \in Nat PROVE IsFiniteSet(D(k)) /\ Cardinality(D(k)) \in Nat
    OBVIOUS
  <2>1. D(k) \subseteq Dirs
    OBVIOUS
  <2> HIDE DEF D
  <2> QED BY <2>1, FS_Subset, FS_CardinalityType
<1>3. 0 \in M
  <2> SUFFICES ASSUME 0 < n PROVE f[0] \subseteq f[1] /\ (D(0) = D(1) \/ Cardinality(D(0)) > 0)
    OBVIOUS
  <2>1. f[1] = Further(S, next, f[0])
    <3>1. 1 \in 1..n /\ 1 - 1 = 0
      BY <1>1
    <3> QED BY <1>2, <3>1
  <2>2. f[0] \subseteq f[1]
    BY <1>2, <2>1 DEF Further
  <2>3. CASE D(0) = {}
    <3>1. f[1] = S
      BY <1>2, <2>1, <2>3 DEF Further
    <3> QED BY <1>2, <2>2, <3>1
  <2>4. CASE D(0) # {}
    <3> HIDE DEF D
    <3>1. Cardinality(D(0)) # 0 /\ Cardinality(D(0)) \in Nat
      BY <1>a, <2>4, FS_EmptySet
    <3> QED BY <2>2, <3>1
  <2> QED BY <2>3, <2>4
<1>4. ASSUME NEW m \in Nat, m \in M PROVE m + 1 \in M
  <2> SUFFICES ASSUME m + 1 < n
               PROVE  /\ f[m + 1] \subseteq f[m + 2]
                      /\ D(m + 1) = D(m + 2) \/ Cardinality(D(m + 1)) > m + 1
    <3>1. (m + 1) + 1 = m + 2
      OBVIOUS
    <3> QED BY <3>1
  <2>1. m + 1 \in 1..n /\ (m + 1) - 1 = m /\ m + 2 \in 1..n /\ (m + 2) - 1 = m + 1 /\ m < n
    BY <1>1
  <2>2. f[m + 1] = Further(S, next, f[m]) /\ f[m + 2] = Further(S, next, f[m + 1])
    BY <1>2, <2>1
  <2>3. f[m] \subseteq f[m + 1] /\ (D(m) = D(m + 1) \/ Cardinality(D(m)) > m)
    BY <1>4, <2>1
  <2>4. f[m + 1] \subseteq f[m + 2]
    BY <2>2, <2>3, FurtherGrows
  <2>5. CASE D(m) = D(m + 1)
    <3>1. f[m + 1] = f[m + 2]
      BY <2>2, <2>5 DEF Further
    <3> QED BY <3>1
  <2>6. CASE D(m) # D(m + 1) /\ Cardinality(D(m)) > m
    <3>1. D(m) \subseteq D(m + 1)
      BY <2>3
    <3> HIDE DEF D
    <3>2. IsFiniteSet(D(m + 1)) /\ Cardinality(D(m)) \in Nat /\ Cardinality(D(m + 1)) \in Nat
      <4>1. m + 1 \in Nat
        OBVIOUS
      <4> QED BY <1>a, <4>1
    <3>3. Cardinality(D(m)) < Cardinality(D(m + 1))
      BY <2>6, <3>1, <3>2, FS_Subset
    <3> QED BY <2>4, <2>6, <3>2, <3>3
  <2> QED BY <2>3, <2>4, <2>5, <2>6
<1> HIDE DEF M
<1>5. PICK k \in Nat : k + 1 = n
  <2>1. n - 1 \in Nat /\ (n - 1) + 1 = n
    BY <1>1
  <2> QED BY <2>1
<1>6. k \in M
  BY <1>3, <1>4, NatSets
<1>7. f[k] \subseteq f[n] /\ (D(k) = D(n) \/ Cardinality(D(k)) > k)
  BY <1>1, <1>5, <1>6 DEF M
<1>8. D(k) = D(n)
  <2>1. CASE Cardinality(D(k)) > k
    <3>1. D(k) \subseteq Dirs /\ Cardinality(D(k)) \in Nat
      BY <1>a
    <3> HIDE DEF D
    <3>2. Cardinality(D(k)) >= n
      BY <1>1, <1>5, <2>1, <3>1
    <3>3. D(k) = Dirs
      BY <3>1, <3>2, <1>1, FS_Subset
    <3> QED BY <1>7, <3>3 DEF D
  <2> QED BY <1>7, <2>1
<1>9. f[n] = Further(S, next, f[k])
  <2>1. n \in 1..n /\ n - 1 = k
    BY <1>1, <1>5
  <2> QED BY <1>2, <2>1
<1>10. f[n] = Further(S, next, f[n])
  BY <1>8, <1>9 DEF Further
<1> QED BY <1>2, <1>10 DEF Further
===============================================================================
