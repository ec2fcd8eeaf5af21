------------------------ MODULE ComputedPartsProofs -------------------------
(***************************************************************************)
(* Proofs about the parts that compute one output from one input: the      *)
(* checks of a capacity, the credentials file and the precedence of its    *)
(* values, the lists of the data sources, and coverage-check.              *)
(*                                                                         *)
(* A capacity, a file and an answer may be of any length, so what is       *)
(* computed by going through them is a fold, and what holds of it holds by *)
(* induction.  First comes induction, over the naturals and over the       *)
(* subsets of a finite set, each as a fact about a set; then that a fold   *)
(* has a value and that a fold over a sequence goes step by step; then a   *)
(* section for each part, and from its last lemma its theorems.            *)
(***************************************************************************)
EXTENDS ComputedParts, FiniteSetTheorems, WellFoundedInduction, TLAPS

-----------------------------------------------------------------------------
(* Induction.                                                              *)

\* A set that has 0, and the successor of each of its naturals, has every natural.
LEMMA NatSetInduction ==
  ASSUME NEW T, 0 \in T, \A n \in Nat : n \in T => n + 1 \in T
  PROVE  Nat \subseteq T
<1> DEFINE D == Nat \ T
<1>1. SUFFICES ASSUME D # {} PROVE FALSE
  OBVIOUS
<1>2. D \subseteq Nat
  OBVIOUS
<1> HIDE DEF D
<1>3. PICK x \in D : \A y \in D : ~(<<y, x>> \in OpToRel(<, Nat))
  BY <1>1, <1>2, NatLessThanWellFounded, WFMin
<1>4. x \in Nat /\ x # 0 /\ x - 1 \in Nat
  BY DEF D
<1>5. <<x - 1, x>> \in OpToRel(<, Nat)
  BY <1>4 DEF OpToRel
<1>6. x - 1 \in T
  BY <1>3, <1>4, <1>5 DEF D
<1>7. (x - 1) + 1 \in T
  BY <1>4, <1>6
<1> QED
  BY <1>4, <1>7 DEF D

\* Removing an element of a subset of a finite set leaves one of one less.
LEMMA Removed ==
  ASSUME NEW S, IsFiniteSet(S), NEW s \in SUBSET S, NEW x \in s
  PROVE  /\ s \ {x} \in SUBSET S
         /\ Cardinality(s) \in Nat \ {0}
         /\ Cardinality(s \ {x}) = Cardinality(s) - 1
         /\ Cardinality(s \ {x}) \in Nat
<1>1. IsFiniteSet(s)
  BY FS_Subset
<1>2. IsFiniteSet(s \ {x}) /\ Cardinality(s \ {x}) = Cardinality(s) - 1
  BY <1>1, FS_RemoveElement
<1>3. Cardinality(s) \in Nat /\ Cardinality(s \ {x}) \in Nat
  BY <1>1, <1>2, FS_CardinalityType
<1> QED
  BY <1>2, <1>3

\* c picks an element of every subset that has one.
IsChoice(c, S) == \A s \in SUBSET S : s # {} => c[s] \in s

\* The empty set is in W, and a set is if it is without the element picked.
IsClosed(W, c, S) ==
  /\ {} \in W
  /\ \A s \in SUBSET S : s # {} /\ s \ {c[s]} \in W => s \in W

\* Then every subset of a finite set is in W.
LEMMA SubsetInduction ==
  ASSUME NEW S, IsFiniteSet(S), NEW c, IsChoice(c, S),
         NEW W, IsClosed(W, c, S)
  PROVE  \A s \in SUBSET S : s \in W
<1> DEFINE Small(n) == \A s \in SUBSET S : Cardinality(s) <= n => s \in W
           T == {n \in Nat : Small(n)}
<1>0. ASSUME NEW s \in SUBSET S
      PROVE  /\ Cardinality(s) \in Nat
             /\ Cardinality(s) = 0 <=> s = {}
             /\ Cardinality(s) <= Cardinality(S)
  BY FS_Subset, FS_CardinalityType, FS_EmptySet
<1>1. Small(0)
  <2> SUFFICES ASSUME NEW s \in SUBSET S, Cardinality(s) <= 0 PROVE s \in W
    OBVIOUS
  <2>1. s = {}
    BY <1>0
  <2> QED
    BY <2>1 DEF IsClosed
<1>2. ASSUME NEW n \in Nat, Small(n) PROVE Small(n + 1)
  <2> SUFFICES ASSUME NEW s \in SUBSET S, Cardinality(s) <= n + 1 PROVE s \in W
    OBVIOUS
  <2>1. CASE s = {}
    BY <2>1 DEF IsClosed
  <2>2. CASE s # {}
    <3>1. s \ {c[s]} \in SUBSET S /\ Cardinality(s \ {c[s]}) <= n
      BY <2>2, Removed DEF IsChoice
    <3>2. s \ {c[s]} \in W
      BY <1>2, <3>1
    <3> QED
      BY <2>2, <3>2 DEF IsClosed
  <2> QED
    BY <2>1, <2>2
<1>3. Nat \subseteq T
  <2>1. 0 \in T /\ \A n \in Nat : n \in T => n + 1 \in T
    <3> HIDE DEF Small
    <3> QED
      BY <1>1, <1>2
  <2> HIDE DEF T
  <2> QED
    BY <2>1, NatSetInduction
<1>4. Small(Cardinality(S))
  <2> HIDE DEF Small
  <2> QED
    BY <1>3, FS_CardinalityType
<1> QED
  <2> SUFFICES ASSUME NEW s \in SUBSET S PROVE s \in W
    OBVIOUS
  <2>1. Cardinality(s) <= Cardinality(S)
    BY <1>0
  <2> QED
    BY <1>4, <2>1

\* A set of naturals that is not empty has a least element.
LEMMA LeastExists ==
  ASSUME NEW S \in SUBSET Nat, S # {}
  PROVE  \E x \in S : \A y \in S : x <= y
<1>1. PICK x \in S : \A y \in S : ~(<<y, x>> \in OpToRel(<, Nat))
  BY NatLessThanWellFounded, WFMin
<1>2. ASSUME NEW y \in S PROVE x <= y
  <2>1. ~(y < x)
    BY <1>1 DEF OpToRel
  <2> QED
    BY <2>1
<1> QED
  BY <1>2

\* A set of positions that is not empty has a greatest one, and Max is it.
LEMMA MaxExists ==
  ASSUME NEW n \in Nat, NEW s \in SUBSET (1..n), s # {}
  PROVE  Max(s) \in s /\ \A y \in s : Max(s) >= y
<1> DEFINE Has(r) == \E x \in r : \A y \in r : x >= y
           All(m) == \A r \in SUBSET (1..m) : r # {} => Has(r)
           T == {m \in Nat : All(m)}
<1>1. All(0)
  <2>1. 1..0 = {}
    OBVIOUS
  <2> QED
    BY <2>1
<1>2. ASSUME NEW m \in Nat, All(m) PROVE All(m + 1)
  <2> SUFFICES ASSUME NEW r \in SUBSET (1..(m + 1)), r # {} PROVE Has(r)
    OBVIOUS
  <2>1. CASE m + 1 \in r
    BY <2>1
  <2>2. CASE m + 1 \notin r
    <3>1. r \in SUBSET (1..m)
      BY <2>2
    <3> QED
      BY <1>2, <3>1
  <2> QED
    BY <2>1, <2>2
<1>3. Nat \subseteq T
  <2>1. 0 \in T /\ \A m \in Nat : m \in T => m + 1 \in T
    <3> HIDE DEF All
    <3> QED
      BY <1>1, <1>2
  <2> HIDE DEF T
  <2> QED
    BY <2>1, NatSetInduction
<1>4. All(n)
  <2> HIDE DEF All
  <2> QED
    BY <1>3
<1> QED
  BY <1>4 DEF Max

\* The last position of a prefix, and the prefix without it.
LEMMA MaxOfPrefix ==
  ASSUME NEW n \in Nat, n # 0
  PROVE  Max(1..n) = n /\ (1..n) \ {n} = 1..(n - 1)
<1>1. 1..n \in SUBSET (1..n) /\ 1..n # {}
  OBVIOUS
<1>2. Max(1..n) \in 1..n /\ Max(1..n) >= n
  <2> DEFINE s == 1..n
  <2>1. s \in SUBSET (1..n) /\ s # {} /\ n \in s
    OBVIOUS
  <2> HIDE DEF s
  <2>2. Max(s) \in s /\ Max(s) >= n
    BY <2>1, MaxExists
  <2> QED
    BY <2>2 DEF s
<1> QED
  BY <1>2

-----------------------------------------------------------------------------
(* Folds.                                                                  *)

\* g is the fold of op over every subset of S, in the order in which c picks.
IsFold(g, S, V, base, c, op) ==
  /\ g \in [SUBSET S -> V]
  /\ \A s \in SUBSET S : g[s] = IF s = {} THEN base ELSE op[<<c[s], g[s \ {c[s]}]>>]

\* Such a fold there is: the definitions of the library choose one.
LEMMA FoldExists ==
  ASSUME NEW S, IsFiniteSet(S), NEW V, NEW base \in V,
         NEW c, IsChoice(c, S),
         NEW op \in [S \X V -> V]
  PROVE  \E g : IsFold(g, S, V, base, c, op)
<1> DEFINE Holds(g, s) == g[s] = IF s = {} THEN base ELSE op[<<c[s], g[s \ {c[s]}]>>]
           T == {n \in Nat : \E g \in [SUBSET S -> V] :
                   \A s \in SUBSET S : Cardinality(s) <= n => Holds(g, s)}
<1>0. \A s \in SUBSET S : IsFiniteSet(s) /\ Cardinality(s) \in Nat /\ (Cardinality(s) = 0 <=> s = {})
  BY FS_Subset, FS_CardinalityType, FS_EmptySet
<1>1. 0 \in T
  <2> DEFINE g == [s \in SUBSET S |-> base]
  <2>1. g \in [SUBSET S -> V]
    OBVIOUS
  <2>2. \A s \in SUBSET S : Cardinality(s) <= 0 => Holds(g, s)
    BY <1>0
  <2> HIDE DEF g, Holds
  <2> QED
    BY <2>1, <2>2
<1>2. ASSUME NEW n \in Nat, n \in T PROVE n + 1 \in T
  <2>1. PICK h \in [SUBSET S -> V] : \A s \in SUBSET S : Cardinality(s) <= n => Holds(h, s)
    BY <1>2
  <2> DEFINE g == [s \in SUBSET S |->
                     IF s = {} THEN base ELSE op[<<c[s], h[s \ {c[s]}]>>]]
  <2>2. g \in [SUBSET S -> V]
    <3> SUFFICES ASSUME NEW s \in SUBSET S, s # {}
                 PROVE  op[<<c[s], h[s \ {c[s]}]>>] \in V
      OBVIOUS
    <3>1. c[s] \in S /\ s \ {c[s]} \in SUBSET S
      BY DEF IsChoice
    <3>2. h[s \ {c[s]}] \in V
      BY <3>1
    <3> QED
      BY <3>1, <3>2
  <2>3. ASSUME NEW s \in SUBSET S, Cardinality(s) <= n + 1 PROVE Holds(g, s)
    <3>1. CASE s = {}
      BY <3>1
    <3>2. CASE s # {}
      <4> DEFINE r == s \ {c[s]}
      <4>1. r \in SUBSET S /\ Cardinality(r) <= n
        BY <2>3, <3>2, Removed DEF IsChoice
      <4>2. Holds(h, r)
        BY <2>1, <4>1
      <4>3. h[r] = g[r]
        BY <4>1, <4>2
      <4>4. g[s] = op[<<c[s], h[r]>>]
        BY <3>2
      <4> QED
        BY <3>2, <4>3, <4>4
    <3> QED
      BY <3>1, <3>2
  <2> HIDE DEF g, Holds
  <2> QED
    BY <2>2, <2>3
<1>3. Cardinality(S) \in T
  <2> HIDE DEF T
  <2> QED
    BY <1>1, <1>2, NatSetInduction, FS_CardinalityType
<1>4. \A s \in SUBSET S : Cardinality(s) <= Cardinality(S)
  BY FS_Subset
<1> QED
  BY <1>3, <1>4 DEF IsFold

\* The same over the positions up to n, from the first to the last.
IsLeftFold(g, n, V, base, op) ==
  /\ g \in [SUBSET (1..n) -> V]
  /\ g[{}] = base
  /\ \A s \in SUBSET (1..n) : s # {} => g[s] = op[<<Max(s), g[s \ {Max(s)}]>>]

\* There is one from the first to the last.
LEMMA LeftFoldExists ==
  ASSUME NEW n \in Nat, NEW V, NEW base \in V, NEW op \in [(1..n) \X V -> V]
  PROVE  \E g : IsLeftFold(g, n, V, base, op)
<1> DEFINE D == 1..n
           c == [s \in SUBSET D |-> Max(s)]
<1>1. IsFiniteSet(D)
  BY FS_Interval
<1>2. IsChoice(c, D)
  BY MaxExists DEF IsChoice
<1>3. op \in [D \X V -> V]
  OBVIOUS
<1> HIDE DEF D
<1>4. PICK g : IsFold(g, D, V, base, c, op)
  <2> HIDE DEF c
  <2> QED
    BY <1>1, <1>2, <1>3, FoldExists
<1>5. ASSUME NEW s \in SUBSET D
      PROVE  g[s] = IF s = {} THEN base ELSE op[<<Max(s), g[s \ {Max(s)}]>>]
  <2>1. c[s] = Max(s)
    OBVIOUS
  <2> HIDE DEF c
  <2> QED
    BY <1>4, <2>1 DEF IsFold
<1>6. g[{}] = base
  BY <1>5
<1> QED
  BY <1>4, <1>5, <1>6 DEF D, IsFold, IsLeftFold

\* Each of its values is in V when one more position keeps it there.
LEMMA LeftFoldTyped ==
  ASSUME NEW n \in Nat, NEW V, NEW iter, iter[{}] \in V,
         \A s \in SUBSET (1..n) : s # {} /\ iter[s \ {Max(s)}] \in V => iter[s] \in V
  PROVE  \A s \in SUBSET (1..n) : iter[s] \in V
<1> DEFINE D == 1..n
           c == [s \in SUBSET D |-> Max(s)]
           W == {s \in SUBSET D : iter[s] \in V}
<1>1. IsFiniteSet(D)
  BY FS_Interval
<1>2. IsChoice(c, D)
  BY MaxExists DEF IsChoice
<1>3. IsClosed(W, c, D)
  <2>1. ASSUME NEW s \in SUBSET D, s # {}, s \ {c[s]} \in W PROVE s \in W
    BY <2>1
  <2> HIDE DEF c
  <2> QED
    BY <2>1 DEF IsClosed
<1>4. \A s \in SUBSET D : s \in W
  <2> HIDE DEF c, D, W
  <2> QED
    BY <1>1, <1>2, <1>3, SubsetInduction
<1> QED
  BY <1>4

\* F has the values of a fold, all in V, after each of n steps, and total at the end.
Stepwise(F, n, V, base, op, total) ==
  /\ \A i \in Nat : F[i] \in V
  /\ F[0] = base
  /\ \A i \in 1..n : F[i] = op[<<i, F[i - 1]>>]
  /\ total = F[n]

\* iter takes the values of V one position further by op.
Continues(iter, n, V, base, op) ==
  /\ iter[{}] = base
  /\ \A s \in SUBSET (1..n) : s # {} /\ iter[s \ {Max(s)}] \in V =>
        iter[s] = op[<<Max(s), iter[s \ {Max(s)}]>>]

\* What is defined as a fold over n positions is reached in n steps.
LEMMA LeftFoldSteps ==
  ASSUME NEW n \in Nat, NEW V, NEW base \in V, NEW op \in [(1..n) \X V -> V],
         NEW iter, Continues(iter, n, V, base, op)
  PROVE  \E F : Stepwise(F, n, V, base, op, iter[1..n])
<1>1. iter[{}] \in V
  BY DEF Continues
<1>2. ASSUME NEW s \in SUBSET (1..n), s # {}, iter[s \ {Max(s)}] \in V PROVE iter[s] \in V
  <2>1. iter[s] = op[<<Max(s), iter[s \ {Max(s)}]>>]
    BY <1>2 DEF Continues
  <2>2. Max(s) \in 1..n
    BY <1>2, MaxExists
  <2> QED
    BY <1>2, <2>1, <2>2
<1>3. \A s \in SUBSET (1..n) : iter[s] \in V
  BY <1>1, <1>2, LeftFoldTyped
<1> DEFINE F == [i \in Nat |-> IF i <= n THEN iter[1..i] ELSE base]
<1>4. \A i \in Nat : F[i] \in V
  <2>1. ASSUME NEW i \in Nat, i <= n PROVE iter[1..i] \in V
    <3>1. 1..i \in SUBSET (1..n)
      BY <2>1
    <3> QED
      BY <1>3, <3>1
  <2> QED
    BY <2>1
<1>5. F[0] = base
  <2>1. 1..0 = {} /\ 0 <= n
    OBVIOUS
  <2> QED
    BY <2>1 DEF Continues
<1>6. ASSUME NEW i \in 1..n PROVE F[i] = op[<<i, F[i - 1]>>]
  <2>1. i \in Nat /\ i # 0 /\ i - 1 \in Nat /\ i - 1 <= n
    OBVIOUS
  <2>2. Max(1..i) = i /\ (1..i) \ {i} = 1..(i - 1) /\ 1..i # {}
    BY <2>1, MaxOfPrefix
  <2>3. 1..i \in SUBSET (1..n) /\ 1..(i - 1) \in SUBSET (1..n)
    OBVIOUS
  <2>4. iter[1..i] = op[<<i, iter[1..(i - 1)]>>]
    BY <1>3, <2>2, <2>3 DEF Continues
  <2> QED
    BY <2>1, <2>4
<1>7. iter[1..n] = F[n]
  OBVIOUS
<1> HIDE DEF F
<1> QED
  BY <1>4, <1>5, <1>6, <1>7 DEF Stepwise

-----------------------------------------------------------------------------
(* The checks of a capacity.                                               *)

\* The elements of a capacity.
LEMMA ElementsOf ==
  ASSUME NEW capacity \in Seq(Element), NEW kind
  PROVE  /\ IsFiniteSet(Of(capacity, kind))
         /\ \A i \in Of(capacity, kind) : capacity[i].n \in Int
         /\ \A i \in DOMAIN capacity : capacity[i].n \in Int
<1>1. \A e \in Element : e.n \in Int
  BY DEF Element
<1>3. /\ Len(capacity) \in Nat
      /\ DOMAIN capacity = 1..Len(capacity)
      /\ \A i \in DOMAIN capacity : capacity[i] \in Element
  OBVIOUS
<1>4. Of(capacity, kind) \in SUBSET (1..Len(capacity))
  BY <1>3 DEF Of
<1>5. IsFiniteSet(1..Len(capacity))
  BY <1>3, FS_Interval
<1>6. IsFiniteSet(Of(capacity, kind))
  BY <1>4, <1>5, FS_Subset
<1> QED
  BY <1>1, <1>3, <1>4, <1>6

\* The sum of the host counts is a natural when each is positive, and 0 only if
\* there is none.
LEMMA TotalCounts ==
  ASSUME NEW capacity \in Seq(Element),
         \A i \in Of(capacity, "number") : capacity[i].n >= 1
  PROVE  /\ Total(capacity) \in Nat
         /\ Total(capacity) = 0 <=> Of(capacity, "number") = {}
<1> DEFINE N == Of(capacity, "number")
           c == [s \in SUBSET N |-> CHOOSE x \in s : TRUE]
           op == [p \in N \X Nat |-> capacity[p[1]].n + p[2]]
           P(g) == g = [s \in SUBSET N |->
                          IF s = {} THEN 0
                          ELSE capacity[CHOOSE x \in s : TRUE].n + g[s \ {CHOOSE x \in s : TRUE}]]
           sum == CHOOSE g : P(g)
<1>1. Total(capacity) = sum[N]
  BY DEF Total, MapThenSumSet, MapThenFoldSet
<1>2. IsFiniteSet(N)
  BY ElementsOf
<1>3. \A i \in N : capacity[i].n \in Nat \ {0}
  BY ElementsOf
<1> HIDE DEF N
<1>4. IsChoice(c, N)
  BY DEF IsChoice
<1>5. op \in [N \X Nat -> Nat]
  BY <1>3
<1>6. PICK g : IsFold(g, N, Nat, 0, c, op)
  <2>1. 0 \in Nat
    OBVIOUS
  <2> HIDE DEF c, op
  <2> QED
    BY <1>2, <1>4, <1>5, <2>1, FoldExists
<1>7. P(g)
  <2>1. ASSUME NEW s \in SUBSET N
        PROVE  g[s] = IF s = {} THEN 0 ELSE capacity[c[s]].n + g[s \ {c[s]}]
    <3>1. CASE s = {}
      BY <1>6, <3>1 DEF IsFold
    <3>2. CASE s # {}
      <4>1. c[s] \in N /\ s \ {c[s]} \in SUBSET N
        BY <1>4, <3>2 DEF IsChoice
      <4>2. g[s] = op[<<c[s], g[s \ {c[s]}]>>] /\ g[s \ {c[s]}] \in Nat
        BY <1>6, <3>2, <4>1 DEF IsFold
      <4> HIDE DEF c
      <4> QED
        BY <3>2, <4>1, <4>2
    <3> QED
      BY <3>1, <3>2
  <2> QED
    BY <1>6, <2>1 DEF IsFold
<1>8. P(sum)
  <2> HIDE DEF P
  <2> QED
    BY <1>7, Zenon
<1> HIDE DEF sum
<1>9. \A s \in SUBSET N :
        sum[s] = IF s = {} THEN 0 ELSE capacity[c[s]].n + sum[s \ {c[s]}]
  BY <1>8
<1> DEFINE W == {s \in SUBSET N : sum[s] \in Nat /\ (sum[s] = 0 <=> s = {})}
<1>10. {} \in W
  <2>1. {} \in SUBSET N
    OBVIOUS
  <2>2. sum[{}] = 0
    BY <1>9, <2>1
  <2> HIDE DEF c
  <2> QED
    BY <2>1, <2>2
<1>11. ASSUME NEW s \in SUBSET N, s # {}, s \ {c[s]} \in W PROVE s \in W
  <2>1. capacity[c[s]].n \in Nat \ {0} /\ sum[s \ {c[s]}] \in Nat
    BY <1>3, <1>4, <1>11 DEF IsChoice
  <2>2. sum[s] = capacity[c[s]].n + sum[s \ {c[s]}]
    BY <1>9, <1>11
  <2> HIDE DEF c
  <2> QED
    BY <1>11, <2>1, <2>2
<1>12. N \in W
  <2> HIDE DEF W, c
  <2>1. IsClosed(W, c, N)
    BY <1>10, <1>11 DEF IsClosed
  <2> QED
    BY <1>2, <1>4, <2>1, SubsetInduction
<1> QED
  BY <1>1, <1>12 DEF N

\* What is wrong with an element whatever the others are.
Fits(cloud, capacity) ==
  \A i \in DOMAIN capacity :
    /\ capacity[i].hosts # "text"
    /\ capacity[i].hosts = "number" => capacity[i].n > 0
    /\ cloud = "azure" => capacity[i].type \in {"AN36P", "AN64", "missing", "unknown"}

\* A capacity of any length has an error exactly when an element of it is wrong,
\* or its sum is while every count is known.
LEMMA CapacityErrors ==
  ASSUME NEW cloud, NEW capacity \in Seq(Element)
  PROVE  Validate(cloud, capacity) = {} <=>
           /\ Fits(cloud, capacity)
           /\ Of(capacity, "unknown") # {} \/ Total(capacity) \in {0, 1} \cup 3..28
<1> DEFINE numbers == Of(capacity, "number")
           unknown == Of(capacity, "unknown")
           text == Of(capacity, "text")
           low == {i \in numbers : capacity[i].n < 1}
           total == Total(capacity)
           fits == \A i \in DOMAIN capacity :
                     /\ capacity[i].hosts # "text"
                     /\ capacity[i].hosts = "number" => capacity[i].n > 0
           hosts == HostCountErrors(capacity)
<1>1. \A i \in DOMAIN capacity : capacity[i].n \in Int
  BY ElementsOf
<1>2. (text \cup low = {}) = fits
  <2>1. fits = \A i \in DOMAIN capacity : i \notin text /\ i \notin low
    BY <1>1 DEF Of
  <2>2. text \cup low \subseteq DOMAIN capacity
    BY DEF Of
  <2> HIDE DEF text, low, fits
  <2> QED
    BY <2>1, <2>2
<1>3. ASSUME fits, numbers # {}, unknown = {}
      PROVE  IsAllowedClusterHostCount(total) <=> total \in {0, 1} \cup 3..28
  <2>1. total \in Nat \ {0}
    <3>1. \A i \in numbers : capacity[i].n >= 1
      BY <1>1, <1>3 DEF Of
    <3> QED
      BY <1>3, <3>1, TotalCounts
  <2> HIDE DEF total
  <2>2. IsAllowedClusterHostCount(total) <=> total = 1 \/ (3 <= total /\ total <= 28)
    BY DEF IsAllowedClusterHostCount, MinClusterHosts, MinProductionClusterHosts,
           MaxClusterHosts
  <2> QED
    BY <2>1, <2>2
<1>4. ASSUME numbers = {} PROVE total = 0
  BY <1>4, TotalCounts
<1>5. (hosts = {}) = (fits /\ (unknown # {} \/ total \in {0, 1} \cup 3..28))
  <2> HIDE DEF fits
  <2> QED
    BY <1>2, <1>3, <1>4 DEF HostCountErrors
<1>6. CASE cloud = "azure"
  <2>1. (HostTypeErrors(capacity) = {}) =
          \A i \in DOMAIN capacity :
            capacity[i].type \in {"AN36P", "AN64", "missing", "unknown"}
    BY DEF HostTypeErrors, AllowedHostTypes
  <2> QED
    BY <1>5, <1>6, <2>1 DEF Fits, Validate
<1>7. CASE cloud # "azure"
  BY <1>5, <1>7 DEF Fits, Validate
<1> QED
  BY <1>6, <1>7

\* No counts save a capacity that is refused.
LEMMA CapacityRefusal ==
  ASSUME NEW cloud, NEW capacity \in Seq(Element)
  PROVE  HopelessIfRefused(cloud, capacity, Validate(cloud, capacity))
<1> DEFINE unknown == Of(capacity, "unknown")
           sumFits == Total(capacity) \in {0, 1} \cup 3..28
           errors == Validate(cloud, capacity)
<1>1. errors = {} <=> Fits(cloud, capacity) /\ (unknown # {} \/ sumFits)
  BY CapacityErrors
<1>2. Taken(cloud, capacity) <=> Fits(cloud, capacity) /\ sumFits
  BY DEF Taken, Fits
<1> HIDE DEF errors, sumFits
<1>3. ASSUME errors # {}, NEW counts \in [unknown -> 1..28]
      PROVE  ~Taken(cloud, Completed(capacity, counts))
  <2> DEFINE completed == Completed(capacity, counts)
  <2>1. DOMAIN completed = DOMAIN capacity /\ DOMAIN counts = unknown
    BY DEF Completed
  <2>2. ASSUME NEW i \in DOMAIN capacity, i \notin unknown PROVE completed[i] = capacity[i]
    BY <2>1, <2>2 DEF Completed
  <2>3. ASSUME NEW i \in unknown PROVE completed[i].type = capacity[i].type
    <3>1. i \in DOMAIN capacity /\ capacity[i] \in Element
      BY ElementsOf DEF Of
    <3> QED
      BY <2>1, <3>1 DEF Completed, Element
  <2>4. CASE ~Fits(cloud, capacity)
    <3>1. PICK i \in DOMAIN capacity :
            \/ capacity[i].hosts = "text"
            \/ capacity[i].hosts = "number" /\ ~(capacity[i].n > 0)
            \/ cloud = "azure" /\ capacity[i].type \notin {"AN36P", "AN64", "missing", "unknown"}
      BY <2>4 DEF Fits
    <3>2. i \in unknown => capacity[i].hosts = "unknown"
      BY DEF Of
    <3> HIDE DEF completed, unknown
    <3>3. CASE i \in unknown
      BY <2>1, <2>3, <3>1, <3>2, <3>3 DEF Taken, completed
    <3>4. CASE i \notin unknown
      BY <2>1, <2>2, <3>1, <3>4 DEF Taken, completed
    <3> QED
      BY <3>3, <3>4
  <2>5. CASE Fits(cloud, capacity)
    <3>1. unknown = {} /\ ~sumFits
      BY <1>1, <1>3, <2>5
    <3>2. completed = capacity
      <4>1. completed = [i \in DOMAIN capacity |-> capacity[i]]
        BY <2>1, <3>1 DEF Completed
      <4> QED
        BY <4>1
    <3> QED
      BY <1>2, <3>1, <3>2
  <2> QED
    BY <2>4, <2>5
<1>4. ASSUME errors = {}, unknown = {} PROVE Taken(cloud, capacity)
  BY <1>1, <1>2, <1>4
<1> QED
  BY <1>3, <1>4 DEF HopelessIfRefused, errors, unknown

-----------------------------------------------------------------------------
(* The credentials file.                                                   *)

\* What is known of a file when some of its lines are read.
File(texts) == [current : texts, profiles : [Profiles -> [Keys -> texts]], error : BOOLEAN]

\* The same before the first line.
Start == [current |-> "default", profiles |-> Nobody, error |-> FALSE]

\* The name of the default profile is not empty.
LEMMA UnsetIsNotDefault == Unset # "default"
  BY Zenon DEF Unset

\* Before the first line the state is well formed.
LEMMA StartType ==
  ASSUME NEW texts, Unset \in texts, "default" \in texts
  PROVE  Start \in File(texts)
<1>1. Nobody \in [Profiles -> [Keys -> texts]]
  BY DEF Nobody
<1> QED
  BY <1>1 DEF Start, File

\* A line leaves the state well formed.
LEMMA NextLineType ==
  ASSUME NEW texts, NEW file \in File(texts), NEW line \in Line(texts)
  PROVE  NextLine(file, line) \in File(texts)
<1>1. CASE file.error \/ line.is = "skipped"
  BY <1>1 DEF NextLine
<1>2. CASE ~file.error /\ line.is = "section"
  <2>1. line.name \in texts
    BY <1>2 DEF Line
  <2>2. NextLine(file, line) = [file EXCEPT !.current = line.name, !.error = (line.name = Unset)]
    BY <1>2 DEF NextLine
  <2> QED
    BY <2>1, <2>2 DEF File
<1>3. CASE ~file.error /\ line.is = "setting"
  <2>1. line.key \in Keys /\ line.value \in texts
    BY <1>3 DEF Line
  <2>2. NextLine(file, line) =
          [file EXCEPT !.profiles = [file.profiles EXCEPT ![file.current] =
             [file.profiles[file.current] EXCEPT ![line.key] = line.value]]]
    BY <1>3 DEF NextLine
  <2>3. file.profiles \in [Profiles -> [Keys -> texts]]
    BY DEF File
  <2>4. [file.profiles EXCEPT ![file.current] =
             [file.profiles[file.current] EXCEPT ![line.key] = line.value]]
          \in [Profiles -> [Keys -> texts]]
    BY <2>1, <2>3
  <2> QED
    BY <2>2, <2>4 DEF File
<1>4. line.is \in {"section", "setting", "skipped"}
  BY DEF Line
<1> QED
  BY <1>1, <1>2, <1>3, <1>4

\* parseINI goes through the lines one after the other.
LEMMA ParseSteps ==
  ASSUME NEW texts, Unset \in texts, "default" \in texts, NEW lines \in Seq(Line(texts))
  PROVE  \E F :
           /\ \A i \in Nat : F[i] \in File(texts)
           /\ F[0] = Start
           /\ \A i \in 1..Len(lines) : F[i] = NextLine(F[i - 1], lines[i])
           /\ ParseINI(lines) = F[Len(lines)]
<1> DEFINE n == Len(lines)
           V == File(texts)
           op == [p \in (1..n) \X V |-> NextLine(p[2], lines[p[1]])]
           P(g) == g = [s \in SUBSET (DOMAIN lines) |->
                          IF s = {} THEN Start ELSE NextLine(g[s \ {Max(s)}], lines[Max(s)])]
           iter == CHOOSE g : P(g)
<1>1. ParseINI(lines) = iter[DOMAIN lines]
  BY DEF ParseINI, FoldLeft, MapThenFoldSet, Start
<1>2. n \in Nat /\ DOMAIN lines = 1..n /\ \A i \in 1..n : lines[i] \in Line(texts)
  OBVIOUS
<1> HIDE DEF n
<1>3. op \in [(1..n) \X V -> V]
  BY <1>2, NextLineType
<1>4. PICK g : IsLeftFold(g, n, V, Start, op)
  <2>1. Start \in V
    BY StartType
  <2> HIDE DEF op, V
  <2> QED
    BY <1>2, <1>3, <2>1, LeftFoldExists
<1>5. P(g)
  <2>1. ASSUME NEW s \in SUBSET (1..n), s # {}
        PROVE  g[s] = NextLine(g[s \ {Max(s)}], lines[Max(s)])
    <3>1. Max(s) \in 1..n /\ g[s \ {Max(s)}] \in V
      BY <1>2, <1>4, <2>1, MaxExists DEF IsLeftFold
    <3>2. g[s] = op[<<Max(s), g[s \ {Max(s)}]>>]
      BY <1>4, <2>1 DEF IsLeftFold
    <3> QED
      BY <3>1, <3>2
  <2> HIDE DEF op
  <2> QED
    BY <1>2, <1>4, <2>1 DEF IsLeftFold
<1>6. P(iter)
  <2> HIDE DEF P
  <2> QED
    BY <1>5, Zenon
<1> HIDE DEF iter
<1>7. Continues(iter, n, V, Start, op)
  <2>1. ASSUME NEW s \in SUBSET (1..n), s # {}, iter[s \ {Max(s)}] \in V
        PROVE  iter[s] = op[<<Max(s), iter[s \ {Max(s)}]>>]
    <3>1. Max(s) \in 1..n
      BY <1>2, <2>1, MaxExists
    <3>2. iter[s] = NextLine(iter[s \ {Max(s)}], lines[Max(s)])
      BY <1>2, <1>6, <2>1
    <3> QED
      BY <2>1, <3>1, <3>2
  <2>2. iter[{}] = Start
    BY <1>2, <1>6
  <2> HIDE DEF op, P
  <2> QED
    BY <2>1, <2>2 DEF Continues
<1>8. PICK F : Stepwise(F, n, V, Start, op, iter[1..n])
  <2>1. Start \in V
    BY StartType
  <2>2. n \in Nat
    BY <1>2
  <2> HIDE DEF op, V
  <2> QED
    BY <1>3, <1>7, <2>1, <2>2, LeftFoldSteps
<1>9. ASSUME NEW i \in 1..n PROVE F[i] = NextLine(F[i - 1], lines[i])
  <2>1. F[i - 1] \in V
    <3>1. i - 1 \in Nat
      BY <1>2
    <3> QED
      BY <1>8, <3>1 DEF Stepwise
  <2>2. F[i] = op[<<i, F[i - 1]>>]
    BY <1>8 DEF Stepwise
  <2> QED
    BY <2>1, <2>2
<1> HIDE DEF op
<1> QED
  BY <1>1, <1>2, <1>8, <1>9 DEF Stepwise, n

\* The line that makes a file unreadable.
Unnamed == [is |-> "section", name |-> Unset]

\* The profile that line n of a file is about, in the words of SettingsOf.
Under(lines, n, p) ==
  \/ /\ p = "default"
     /\ \A h \in 1..n : lines[h].is # "section"
  \/ \E h \in 1..n :
       /\ lines[h] = [is |-> "section", name |-> p]
       /\ \A m \in (h + 1)..n : lines[m].is # "section"

\* The lines up to n that set key k of profile p.
Given(lines, n, p, k) ==
  {i \in 1..n : lines[i].is = "setting" /\ Under(lines, i, p) /\ lines[i].key = k}

\* The value that the last of some lines sets.
LastOf(lines, all) ==
  IF all = {} THEN Unset ELSE lines[CHOOSE i \in all : \A m \in all : m <= i].value

\* The invariant of parseINI: f is what the first n lines say.
ReadSoFar(lines, n, f) ==
  /\ f.error <=> \E i \in 1..n : lines[i] = Unnamed
  /\ ~f.error => \A p : Under(lines, n, p) <=> p = f.current
  /\ ~f.error => \A p \in Profiles, k \in Keys :
                   f.profiles[p][k] = LastOf(lines, Given(lines, n, p, k))

\* A line is of one of three kinds, and has the fields of its kind.
LEMMA LineKinds ==
  ASSUME NEW texts, NEW line \in Line(texts)
  PROVE  /\ line.is \in {"section", "setting", "skipped"}
         /\ line.is = "section" => line = [is |-> "section", name |-> line.name]
         /\ line.is = "setting" => line.key \in Keys /\ line.value \in texts
         /\ \A x : line = [is |-> "section", name |-> x] <=> line.is = "section" /\ line.name = x
<1>1. line.is \in {"section", "setting", "skipped"}
  BY DEF Line
<1>2. line.is = "section" => line = [is |-> "section", name |-> line.name]
  BY DEF Line
<1>3. line.is = "setting" => line.key \in Keys /\ line.value \in texts
  BY DEF Line
<1> QED
  BY <1>1, <1>2, <1>3

\* A section is what the file is about from its own line on.
LEMMA SectionStarts ==
  ASSUME NEW texts, NEW lines \in Seq(Line(texts)), NEW n \in Nat, n + 1 \in DOMAIN lines,
         lines[n + 1].is = "section"
  PROVE  \A p : Under(lines, n + 1, p) <=> p = lines[n + 1].name
<1> DEFINE line == lines[n + 1]
<1>1. line = [is |-> "section", name |-> line.name]
  BY LineKinds
<1>2. n + 1 \in 1..(n + 1) /\ ((n + 1) + 1)..(n + 1) = {}
  OBVIOUS
<1>3. ASSUME NEW p, Under(lines, n + 1, p) PROVE p = line.name
  <2>1. PICK h \in 1..(n + 1) : /\ lines[h] = [is |-> "section", name |-> p]
                                /\ \A m \in (h + 1)..(n + 1) : lines[m].is # "section"
    BY <1>2, <1>3 DEF Under
  <2>2. h = n + 1
    <3>1. h < n + 1 => n + 1 \in (h + 1)..(n + 1)
      OBVIOUS
    <3> QED
      BY <2>1, <3>1
  <2> QED
    BY <2>1, <2>2
<1>4. Under(lines, n + 1, line.name)
  BY <1>1, <1>2 DEF Under
<1> QED
  BY <1>3, <1>4

\* Any other line leaves the file about what it was about.
LEMMA SectionGoesOn ==
  ASSUME NEW lines, NEW n \in Nat, lines[n + 1].is # "section"
  PROVE  \A p : Under(lines, n + 1, p) <=> Under(lines, n, p)
<1> SUFFICES ASSUME NEW p PROVE Under(lines, n + 1, p) <=> Under(lines, n, p)
  OBVIOUS
<1>1. (\A h \in 1..(n + 1) : lines[h].is # "section") <=> \A h \in 1..n : lines[h].is # "section"
  <2>1. 1..(n + 1) = (1..n) \cup {n + 1}
    OBVIOUS
  <2> QED
    BY <2>1
<1>2. ASSUME NEW h \in 1..n
      PROVE  (\A m \in (h + 1)..(n + 1) : lines[m].is # "section")
               <=> \A m \in (h + 1)..n : lines[m].is # "section"
  <2>1. (h + 1)..(n + 1) = ((h + 1)..n) \cup {n + 1}
    OBVIOUS
  <2> QED
    BY <2>1
<1>3. \A h \in 1..(n + 1) : lines[h] = [is |-> "section", name |-> p] => h \in 1..n
  <2> SUFFICES ASSUME NEW h \in 1..(n + 1), lines[h] = [is |-> "section", name |-> p]
               PROVE  h # n + 1
    OBVIOUS
  <2> QED
    OBVIOUS
<1>4. 1..n \subseteq 1..(n + 1)
  OBVIOUS
<1> QED
  BY <1>1, <1>2, <1>3, <1>4 DEF Under

\* The last of some lines and a later one is the later one.
LEMMA LastAdded ==
  ASSUME NEW lines, NEW n \in Nat, NEW all, all \subseteq 1..n
  PROVE  LastOf(lines, all \cup {n + 1}) = lines[n + 1].value
<1> DEFINE more == all \cup {n + 1}
           i == CHOOSE i \in more : \A m \in more : m <= i
<1>1. n + 1 \in more /\ \A m \in more : m \in Nat /\ m <= n + 1
  OBVIOUS
<1>2. i \in more /\ \A m \in more : m <= i
  BY <1>1
<1>3. i = n + 1
  <2> HIDE DEF i, more
  <2> QED
    BY <1>1, <1>2
<1> QED
  BY <1>1, <1>3 DEF LastOf

\* One more line keeps the invariant.
LEMMA OneLineMore ==
  ASSUME NEW texts, NEW lines \in Seq(Line(texts)), NEW n \in Nat, n + 1 \in DOMAIN lines,
         NEW f \in File(texts), ReadSoFar(lines, n, f)
  PROVE  ReadSoFar(lines, n + 1, NextLine(f, lines[n + 1]))
<1> DEFINE line == lines[n + 1]
           next == NextLine(f, line)
           Was == \E i \in 1..n : lines[i] = Unnamed
<1>1. line \in Line(texts)
  OBVIOUS
<1>2. (\E i \in 1..(n + 1) : lines[i] = Unnamed) <=> Was \/ line = Unnamed
  <2>1. 1..(n + 1) = (1..n) \cup {n + 1}
    OBVIOUS
  <2> HIDE DEF Unnamed
  <2> QED
    BY <2>1
<1>3. f.error <=> Was
  BY DEF ReadSoFar
<1>4. line = Unnamed <=> line.is = "section" /\ line.name = Unset
  BY <1>1, LineKinds DEF Unnamed
<1>5. CASE f.error
  <2>1. next = f
    BY <1>5 DEF NextLine
  <2> QED
    BY <1>2, <1>3, <1>5, <2>1 DEF ReadSoFar
<1>6. CASE ~f.error /\ line.is = "section"
  <2>1. next = [f EXCEPT !.current = line.name, !.error = (line.name = Unset)]
    BY <1>6 DEF NextLine
  <2>2. next.current = line.name /\ next.profiles = f.profiles /\ next.error = (line.name = Unset)
    BY <2>1 DEF File
  <2>3. next.error <=> \E i \in 1..(n + 1) : lines[i] = Unnamed
    BY <1>2, <1>3, <1>4, <1>6, <2>2
  <2>4. \A p : Under(lines, n + 1, p) <=> p = next.current
    BY <1>6, <2>2, SectionStarts
  <2>5. \A p \in Profiles, k \in Keys : Given(lines, n + 1, p, k) = Given(lines, n, p, k)
    BY <1>6 DEF Given
  <2>6. \A p \in Profiles, k \in Keys :
          next.profiles[p][k] = LastOf(lines, Given(lines, n + 1, p, k))
    BY <1>6, <2>2, <2>5 DEF ReadSoFar
  <2> QED
    BY <2>3, <2>4, <2>6 DEF ReadSoFar
<1>7. CASE ~f.error /\ line.is = "skipped"
  <2>1. next = f
    BY <1>7 DEF NextLine
  <2>2. next.error <=> \E i \in 1..(n + 1) : lines[i] = Unnamed
    BY <1>2, <1>3, <1>4, <1>7, <2>1
  <2>3. \A p : Under(lines, n + 1, p) <=> p = next.current
    BY <1>7, <2>1, SectionGoesOn DEF ReadSoFar
  <2>4. \A p \in Profiles, k \in Keys : Given(lines, n + 1, p, k) = Given(lines, n, p, k)
    BY <1>7 DEF Given
  <2> QED
    BY <1>7, <2>1, <2>2, <2>3, <2>4 DEF ReadSoFar
<1>8. CASE ~f.error /\ line.is = "setting"
  <2>1. line.key \in Keys /\ line.value \in texts
    BY <1>1, <1>8, LineKinds
  <2>2. next = [f EXCEPT !.profiles = [f.profiles EXCEPT ![f.current] =
                  [f.profiles[f.current] EXCEPT ![line.key] = line.value]]]
    BY <1>8 DEF NextLine
  <2>3. /\ next.error = f.error
        /\ next.current = f.current
        /\ next.profiles = [f.profiles EXCEPT ![f.current] =
                              [f.profiles[f.current] EXCEPT ![line.key] = line.value]]
    BY <2>2 DEF File
  <2>4. next.error <=> \E i \in 1..(n + 1) : lines[i] = Unnamed
    BY <1>2, <1>3, <1>4, <1>8, <2>3
  <2>5. \A p : Under(lines, n + 1, p) <=> p = next.current
    BY <1>8, <2>3, SectionGoesOn DEF ReadSoFar
  <2>6. ASSUME NEW p \in Profiles, NEW k \in Keys
        PROVE  next.profiles[p][k] = LastOf(lines, Given(lines, n + 1, p, k))
    <3>1. f.profiles[p][k] = LastOf(lines, Given(lines, n, p, k))
      BY <1>8 DEF ReadSoFar
    <3>2. CASE p = f.current /\ k = line.key
      <4>1. Given(lines, n + 1, p, k) = Given(lines, n, p, k) \cup {n + 1}
        <5>1. Under(lines, n + 1, p)
          BY <2>3, <2>5, <3>2
        <5>2. 1..(n + 1) = (1..n) \cup {n + 1}
          OBVIOUS
        <5> QED
          BY <1>8, <3>2, <5>1, <5>2 DEF Given
      <4>2. Given(lines, n, p, k) \subseteq 1..n
        BY DEF Given
      <4>3. LastOf(lines, Given(lines, n + 1, p, k)) = line.value
        BY <4>1, <4>2, LastAdded
      <4>4. next.profiles[p][k] = line.value
        BY <2>3, <3>2 DEF File
      <4> QED
        BY <4>3, <4>4
    <3>3. CASE ~(p = f.current /\ k = line.key)
      <4>1. Given(lines, n + 1, p, k) = Given(lines, n, p, k)
        <5>1. p = f.current <=> Under(lines, n + 1, p)
          BY <2>3, <2>5
        <5>2. 1..(n + 1) = (1..n) \cup {n + 1}
          OBVIOUS
        <5> QED
          BY <3>3, <5>1, <5>2 DEF Given
      <4>2. next.profiles[p][k] = f.profiles[p][k]
        BY <2>3, <3>3 DEF File
      <4> QED
        BY <3>1, <4>1, <4>2
    <3> QED
      BY <3>2, <3>3
  <2> QED
    BY <2>4, <2>5, <2>6 DEF ReadSoFar
<1> QED
  BY <1>1, <1>5, <1>6, <1>7, <1>8, LineKinds

\* The same after the last line, in the words of ReadAsWritten.
LEMMA FileReadAsWritten ==
  ASSUME NEW texts, Unset \in texts, "default" \in texts, NEW lines \in Seq(Line(texts))
  PROVE  ReadAsWritten(lines)
<1>1. PICK F :
        /\ \A i \in Nat : F[i] \in File(texts)
        /\ F[0] = Start
        /\ \A i \in 1..Len(lines) : F[i] = NextLine(F[i - 1], lines[i])
        /\ ParseINI(lines) = F[Len(lines)]
  BY ParseSteps
<1>2. Len(lines) \in Nat /\ DOMAIN lines = 1..Len(lines)
  OBVIOUS
<1> DEFINE T == {n \in Nat : n <= Len(lines) => ReadSoFar(lines, n, F[n])}
<1>3. 0 \in T
  <2>1. 1..0 = {}
    OBVIOUS
  <2>2. F[0].error = FALSE /\ F[0].current = "default" /\ F[0].profiles = Nobody
    BY <1>1 DEF Start
  <2>3. \A p : Under(lines, 0, p) <=> p = "default"
    BY <2>1 DEF Under
  <2>4. \A p \in Profiles, k \in Keys : LastOf(lines, Given(lines, 0, p, k)) = Unset
    BY <2>1 DEF LastOf, Given
  <2>5. \A p \in Profiles, k \in Keys : F[0].profiles[p][k] = Unset
    BY <2>2 DEF Nobody
  <2> QED
    BY <2>1, <2>2, <2>3, <2>4, <2>5 DEF ReadSoFar
<1>4. ASSUME NEW n \in Nat, n \in T PROVE n + 1 \in T
  <2> SUFFICES ASSUME n + 1 <= Len(lines) PROVE ReadSoFar(lines, n + 1, F[n + 1])
    OBVIOUS
  <2>1. n + 1 \in 1..Len(lines) /\ (n + 1) - 1 = n /\ n <= Len(lines)
    BY <1>2
  <2>2. F[n + 1] = NextLine(F[n], lines[n + 1]) /\ F[n] \in File(texts)
    BY <1>1, <2>1
  <2>3. ReadSoFar(lines, n, F[n])
    BY <1>4, <2>1
  <2> QED
    BY <1>2, <2>1, <2>2, <2>3, OneLineMore
<1>5. ReadSoFar(lines, Len(lines), ParseINI(lines))
  <2>1. Len(lines) \in T
    <3> HIDE DEF T
    <3> QED
      BY <1>2, <1>3, <1>4, NatSetInduction
  <2> QED
    BY <1>1, <1>2, <2>1
<1>6. ParseINI(lines).error = \E i \in DOMAIN lines : lines[i] = Unnamed
  <2>1. ParseINI(lines).error \in BOOLEAN
    BY <1>1, <1>2 DEF File
  <2>2. ParseINI(lines).error <=> \E i \in DOMAIN lines : lines[i] = Unnamed
    BY <1>2, <1>5 DEF ReadSoFar
  <2> QED
    BY <2>1, <2>2
<1>7. ASSUME NEW p \in Profiles, NEW k \in Keys
      PROVE  LastOf(lines, Given(lines, Len(lines), p, k)) = Assigned(lines, p, k)
  <2>1. Given(lines, Len(lines), p, k) = {i \in SettingsOf(lines, p) : lines[i].key = k}
    BY <1>2 DEF Given, SettingsOf, Under
  <2> QED
    BY <2>1 DEF LastOf, Assigned
<1> QED
  BY <1>5, <1>6, <1>7 DEF ReadAsWritten, ReadSoFar, Unnamed

-----------------------------------------------------------------------------
(* The configuration of the provider.                                      *)

\* What firstNonEmpty takes of three values.
LEMMA FirstOfThree ==
  ASSUME NEW a, NEW b, NEW c
  PROVE  FirstNonEmpty(<<a, b, c>>) = IF a # Unset THEN a ELSE IF b # Unset THEN b ELSE c
<1> DEFINE values == <<a, b, c>>
           given == {i \in 1..3 : values[i] # Unset}
           i == Min(given)
<1>1. FirstNonEmpty(values) = IF given = {} THEN Unset ELSE values[i]
  BY DEF FirstNonEmpty
<1>2. values[1] = a /\ values[2] = b /\ values[3] = c
  OBVIOUS
<1>3. given = {} <=> a = Unset /\ b = Unset /\ c = Unset
  BY <1>2
<1>4. CASE given # {}
  <2>1. \E x \in given : \A y \in given : x <= y
    <3>1. CASE a # Unset
      BY <1>2, <3>1
    <3>2. CASE a = Unset /\ b # Unset
      BY <1>2, <3>2
    <3>3. CASE a = Unset /\ b = Unset
      BY <1>2, <1>4, <3>3
    <3> QED
      BY <3>1, <3>2, <3>3
  <2>2. i \in given /\ \A y \in given : i <= y
    <3> HIDE DEF given
    <3> QED
      BY <2>1 DEF Min
  <2> HIDE DEF i
  <2>3. i \in 1..3 /\ values[i] # Unset /\ \A y \in 1..3 : values[y] # Unset => i <= y
    BY <2>2
  <2> HIDE DEF values
  <2>4. values[i] = IF a # Unset THEN a ELSE IF b # Unset THEN b ELSE c
    BY <1>2, <2>3
  <2> QED
    BY <1>1, <1>4, <2>4 DEF values
<1>5. CASE given = {}
  BY <1>1, <1>3, <1>5
<1> QED
  BY <1>4, <1>5 DEF values

\* What pick takes of the block, the environment and the file, and which of the
\* others it tells are different.
LEMMA Picked ==
  ASSUME NEW a, NEW b, NEW c
  PROVE  LET picked == Pick([block |-> a, env |-> b, file |-> c])
         IN /\ picked.value = IF a # Unset THEN a ELSE IF b # Unset THEN b ELSE c
            /\ "env" \in picked.conflict <=> b \notin {Unset, picked.value}
            /\ "file" \in picked.conflict <=> c \notin {Unset, picked.value}
            /\ picked.conflict \subseteq {"block", "env", "file"}
<1> DEFINE supplied == [block |-> a, env |-> b, file |-> c]
           values == [i \in DOMAIN Precedence |-> supplied[Precedence[i]]]
<1>1. values = <<a, b, c>>
  <2>1. /\ DOMAIN Precedence = 1..3
        /\ Precedence[1] = "block" /\ Precedence[2] = "env" /\ Precedence[3] = "file"
    BY DEF Precedence
  <2>2. values[1] = a /\ values[2] = b /\ values[3] = c
    BY <2>1
  <2>3. values = [i \in 1..3 |-> <<a, b, c>>[i]]
    BY <2>1
  <2> QED
    BY <2>3
<1>2. Pick(supplied).value = IF a # Unset THEN a ELSE IF b # Unset THEN b ELSE c
  BY <1>1, FirstOfThree DEF Pick
<1>3. Pick(supplied).conflict =
        {s \in {"block", "env", "file"} : supplied[s] \notin {Unset, Pick(supplied).value}}
  BY DEF Pick
<1> QED
  BY <1>2, <1>3

\* What Configure picks of the block, the environment and a file of any length.
LEMMA ConfigurePrecedence ==
  ASSUME NEW texts, Unset \in texts, "default" \in texts, "default" \in Profiles,
         NEW given \in ConfigureInputs(texts)
  PROVE  FollowsPrecedence(given, Configure(given))
<1> DEFINE block == [a \in DOMAIN given.block |-> ValueString(given.block[a])]
           env == given.env
           file == ReadFile(FirstNonEmpty(<<block["credentials_file"], env["credentials_file"]>>),
                            given.onDisk)
           profile == FirstNonEmpty(<<block["profile"], env["profile"], "default">>)
           asked == IF given.block["profile"] \notin {Unset, NotKnown} THEN given.block["profile"]
                    ELSE IF given.env["profile"] # Unset THEN given.env["profile"]
                    ELSE "default"
           fromFile(k) == IF given.onDisk.readable THEN Assigned(given.onDisk.lines, asked, k)
                          ELSE Unset
           picked == [k \in Keys |-> Pick([block |-> block[k], env |-> env[k],
                                           file |-> file.profiles[profile][k]])]
           result == Configure(given)
<1>1. SUFFICES ASSUME result.ok PROVE FollowsPrecedence(given, result)
  BY DEF FollowsPrecedence
<1>2. /\ ~file.error
      /\ \A k \in Keys : picked[k].value # Unset
      /\ result = [ok |-> TRUE, picked |-> picked]
  <2>1. result \in {Refused, Resolve(block, env, file)}
    BY DEF Configure
  <2> QED
    BY <1>1, <2>1 DEF Configure, Resolve, Refused
<1>3. \A a \in Attributes :
        block[a] = IF given.block[a] \in {Unset, NotKnown} THEN Unset ELSE given.block[a]
  BY DEF ConfigureInputs, ValueString
<1>4. profile = asked
  BY <1>3, FirstOfThree, UnsetIsNotDefault DEF Attributes
<1>5. asked \in Profiles
  BY DEF ConfigureInputs
<1>6. ASSUME NEW k \in Keys PROVE file.profiles[asked][k] = fromFile(k)
  <2>1. CASE given.onDisk.readable
    <3>1. ReadAsWritten(given.onDisk.lines)
      BY FileReadAsWritten DEF ConfigureInputs
    <3>2. file = ParseINI(given.onDisk.lines)
      BY <2>1 DEF ReadFile
    <3> QED
      BY <1>2, <1>5, <2>1, <3>1, <3>2 DEF ReadAsWritten
  <2>2. CASE ~given.onDisk.readable
    <3>1. file.profiles = Nobody
      BY <2>2 DEF ReadFile
    <3> QED
      BY <1>5, <2>2, <3>1 DEF Nobody
  <2> QED
    BY <2>1, <2>2 DEF ConfigureInputs
<1>7. ASSUME NEW k \in Keys
      PROVE  LET used == result.picked[k].value
                 b == given.block[k]
                 e == given.env[k]
             IN /\ used # Unset
                /\ b \notin {Unset, NotKnown} => used = b
                /\ b \in {Unset, NotKnown} /\ e # Unset => used = e
                /\ b \in {Unset, NotKnown} /\ e = Unset => used = fromFile(k)
                /\ ("env" \in result.picked[k].conflict) = (e \notin {Unset, used})
                /\ ("file" \in result.picked[k].conflict) = (fromFile(k) \notin {Unset, used})
  <2> DEFINE b == block[k]
             e == given.env[k]
             f == fromFile(k)
             one == Pick([block |-> b, env |-> e, file |-> f])
  <2>1. result.picked[k] = one
    <3>1. file.profiles[profile][k] = f
      BY <1>4, <1>6
    <3>2. result.picked = picked
      <4> HIDE DEF picked, result
      <4> QED
        BY <1>2
    <3> HIDE DEF block, file, profile, f, result
    <3>3. picked[k] = one
      BY <3>1
    <3> HIDE DEF picked, one
    <3> QED
      BY <3>2, <3>3
  <2>2. b = IF given.block[k] \in {Unset, NotKnown} THEN Unset ELSE given.block[k]
    BY <1>3 DEF Attributes
  <2>3. one.value # Unset
    <3> HIDE DEF picked, one, result
    <3> QED
      BY <1>2, <2>1
  <2> HIDE DEF b, e, f, result
  <2>4. /\ one.value = IF b # Unset THEN b ELSE IF e # Unset THEN e ELSE f
        /\ "env" \in one.conflict <=> e \notin {Unset, one.value}
        /\ "file" \in one.conflict <=> f \notin {Unset, one.value}
    BY Picked
  <2> HIDE DEF one
  <2>5. /\ given.block[k] \notin {Unset, NotKnown} => one.value = given.block[k]
        /\ given.block[k] \in {Unset, NotKnown} /\ e # Unset => one.value = e
        /\ given.block[k] \in {Unset, NotKnown} /\ e = Unset => one.value = f
    BY <2>2, <2>4
  <2> QED
    BY <2>1, <2>3, <2>4, <2>5 DEF e, f
<1> QED
  BY <1>7 DEF FollowsPrecedence

-----------------------------------------------------------------------------
(* The lists of the data sources.                                          *)

\* Every element of S once.
Lists(s, n, S) ==
  /\ s \in [1..n -> S]
  /\ \A i, j \in 1..n : s[i] = s[j] => i = j
  /\ \A x \in S : \E i \in 1..n : s[i] = x

\* The objects among the first n items of an answer.
ObjectsOf(answer, n) == {answer[i] : i \in {i \in 1..n : answer[i].object}}

\* out lists the objects among the first n items of the answer, each once.
ExtractedSoFar(answer, n, out) ==
  /\ Len(out) \in Nat
  /\ Lists(out, Len(out), ObjectsOf(answer, n))

\* A list has as many elements as the set has.
LEMMA ListsCount ==
  ASSUME NEW n \in Nat, NEW S, NEW s, Lists(s, n, S)
  PROVE  IsFiniteSet(S) /\ Cardinality(S) = n
<1>1. s \in Bijection(1..n, S)
  BY DEF Lists, Bijection, Injection, Surjection, IsInjective
<1>2. ExistsBijection(1..n, S)
  BY <1>1 DEF ExistsBijection
<1> QED
  BY <1>2, FS_CountingElements, FS_NatBijection

\* In a list in the order of distinct ids, an element is where as many ids are
\* not greater than its own.
LEMMA Rank ==
  ASSUME NEW n \in Nat, NEW S, NEW s, Lists(s, n, S),
         \A x \in S : x.id \in Nat,
         \A x, y \in S : x # y => x.id # y.id,
         \A i \in 1..(n - 1) : s[i].id <= s[i + 1].id,
         NEW k \in 1..n
  PROVE  Cardinality({x \in S : x.id <= s[k].id}) = k
<1> DEFINE id(i) == s[i].id
           T == {d \in Nat : \A i \in 1..n : i + d <= n => id(i) <= id(i + d)}
<1>1. \A i \in 1..n : s[i] \in S /\ id(i) \in Nat
  BY DEF Lists
<1>2. 0 \in T
  BY <1>1
<1>3. ASSUME NEW d \in Nat, d \in T PROVE d + 1 \in T
  <2> SUFFICES ASSUME NEW i \in 1..n, i + (d + 1) <= n PROVE id(i) <= id(i + (d + 1))
    OBVIOUS
  <2>1. id(i) <= id(i + d)
    BY <1>3
  <2>2. i + d \in 1..(n - 1) /\ (i + d) + 1 = i + (d + 1)
    OBVIOUS
  <2>3. id(i + d) <= id((i + d) + 1)
    BY <2>2
  <2>4. id(i) \in Nat /\ id(i + d) \in Nat /\ id((i + d) + 1) \in Nat
    BY <1>1, <2>2
  <2> HIDE DEF id
  <2> QED
    BY <2>1, <2>2, <2>3, <2>4
<1>4. \A d \in Nat : d \in T
  <2> HIDE DEF T
  <2>1. Nat \subseteq T
    BY <1>2, <1>3, NatSetInduction
  <2> QED
    BY <2>1
<1>5. ASSUME NEW i \in 1..n, NEW j \in 1..n, i <= j PROVE id(i) <= id(j)
  <2>1. j - i \in Nat /\ i + (j - i) = j
    BY <1>5
  <2>2. j - i \in T
    BY <1>4, <2>1
  <2> HIDE DEF id
  <2> QED
    BY <2>1, <2>2
<1>6. ASSUME NEW i \in 1..n PROVE id(i) <= id(k) <=> i <= k
  <2>1. CASE i <= k
    BY <1>5, <2>1
  <2>2. CASE k < i
    <3>1. id(k) <= id(i) /\ id(k) # id(i)
      <4>1. s[k] # s[i]
        BY <2>2 DEF Lists
      <4> QED
        BY <1>1, <1>5, <2>2, <4>1
    <3> QED
      BY <1>1, <2>2, <3>1
  <2> QED
    BY <2>1, <2>2
<1> DEFINE L == {x \in S : x.id <= s[k].id}
           t == [i \in 1..k |-> s[i]]
<1>7. Lists(t, k, L)
  <2>1. t \in [1..k -> L]
    BY <1>1, <1>6
  <2>2. \A i, j \in 1..k : t[i] = t[j] => i = j
    BY DEF Lists
  <2>3. ASSUME NEW x \in L PROVE \E i \in 1..k : t[i] = x
    <3>1. PICK i \in 1..n : s[i] = x
      BY DEF Lists
    <3>2. i <= k
      BY <1>6, <3>1
    <3> QED
      BY <3>1, <3>2
  <2> HIDE DEF t, L
  <2> QED
    BY <2>1, <2>2, <2>3 DEF Lists
<1> HIDE DEF L, t
<1>8. Cardinality(L) = k
  BY <1>7, ListsCount
<1> QED
  BY <1>8 DEF L

\* What the library makes of a set are its lists.
LEMMA SetToSeqsLists ==
  ASSUME NEW S, IsFiniteSet(S), NEW s \in SetToSeqs(S)
  PROVE  /\ Cardinality(S) \in Nat
         /\ Lists(s, Cardinality(S), S)
<1> DEFINE n == Cardinality(S)
<1>1. n \in Nat
  BY FS_CardinalityType
<1>2. s \in [1..n -> S] /\ \A i, j \in 1..n : s[i] = s[j] => i = j
  BY DEF SetToSeqs
<1>3. IsFiniteSet(1..n) /\ Cardinality(1..n) = n
  BY <1>1, FS_Interval
<1>4. s \in Injection(1..n, S)
  BY <1>2 DEF Injection, IsInjective
<1>5. s \in Surjection(1..n, S)
  BY <1>3, <1>4, FS_Injection
<1> QED
  BY <1>1, <1>2, <1>5 DEF Surjection, Lists

\* Sorting a list of a set gives a list of it in the order of the ids.
LEMMA Sorted ==
  ASSUME NEW S, NEW items \in Seq(S), NEW L, Lists(items, Len(items), L),
         NEW sorted \in SortByID(items)
  PROVE  /\ Lists(sorted, Len(items), L)
         /\ \A i \in 1..(Len(items) - 1) : sorted[i].id <= sorted[i + 1].id
<1> DEFINE n == Len(items)
<1>1. n \in Nat
  OBVIOUS
<1>2. PICK p \in [1..n -> 1..n] :
        /\ \A i, j \in 1..n : i # j => p[i] # p[j]
        /\ \A i \in 1..(n - 1) : items[p[i]].id <= items[p[i + 1]].id
        /\ sorted = [i \in 1..n |-> items[p[i]]]
  BY DEF SortByID
<1> HIDE DEF n
<1>3. IsFiniteSet(1..n) /\ Cardinality(1..n) = n
  BY <1>1, FS_Interval
<1>4. p \in Injection(1..n, 1..n)
  BY <1>2 DEF Injection, IsInjective
<1>5. p \in Surjection(1..n, 1..n)
  BY <1>3, <1>4, FS_Injection
<1>6. Lists(items, n, L)
  BY DEF n
<1>7. sorted \in [1..n -> L]
  BY <1>2, <1>6 DEF Lists
<1>8. ASSUME NEW i \in 1..n, NEW j \in 1..n, sorted[i] = sorted[j] PROVE i = j
  <2>1. p[i] \in 1..n /\ p[j] \in 1..n /\ items[p[i]] = items[p[j]]
    BY <1>2, <1>8
  <2>2. p[i] = p[j]
    BY <1>6, <2>1 DEF Lists
  <2> QED
    BY <1>2, <2>2
<1>9. ASSUME NEW x \in L PROVE \E i \in 1..n : sorted[i] = x
  <2>1. PICK j \in 1..n : items[j] = x
    BY <1>6 DEF Lists
  <2>2. PICK i \in 1..n : p[i] = j
    BY <1>5 DEF Surjection
  <2> QED
    BY <1>2, <2>1, <2>2
<1>10. \A i \in 1..(n - 1) : sorted[i].id <= sorted[i + 1].id
  <2> SUFFICES ASSUME NEW i \in 1..(n - 1) PROVE sorted[i].id <= sorted[i + 1].id
    OBVIOUS
  <2>1. i \in 1..n /\ i + 1 \in 1..n
    BY <1>1
  <2> QED
    BY <1>2, <2>1
<1> QED
  BY <1>7, <1>8, <1>9, <1>10 DEF Lists, n

\* ExtractList goes through the answer one item after the other.
LEMMA ExtractSteps ==
  ASSUME NEW A, \A x \in A : x.object \in BOOLEAN, NEW answer \in Seq(A)
  PROVE  \E F :
           /\ \A i \in Nat : F[i] \in Seq(A)
           /\ F[0] = <<>>
           /\ \A i \in 1..Len(answer) :
                F[i] = IF answer[i].object THEN Append(F[i - 1], answer[i]) ELSE F[i - 1]
           /\ ExtractList(answer) = F[Len(answer)]
<1> DEFINE n == Len(answer)
           V == Seq(A)
           Step(out, item) == IF item.object THEN Append(out, item) ELSE out
           op == [p \in (1..n) \X V |-> Step(p[2], answer[p[1]])]
           P(g) == g = [s \in SUBSET (DOMAIN answer) |->
                          IF s = {} THEN <<>> ELSE Step(g[s \ {Max(s)}], answer[Max(s)])]
           iter == CHOOSE g : P(g)
<1>1. ExtractList(answer) = iter[DOMAIN answer]
  BY DEF ExtractList, FoldLeft, MapThenFoldSet
<1>2. n \in Nat /\ DOMAIN answer = 1..n /\ \A i \in 1..n : answer[i] \in A
  OBVIOUS
<1> HIDE DEF n
<1>3. op \in [(1..n) \X V -> V]
  BY <1>2
<1>4. <<>> \in V
  OBVIOUS
<1>5. PICK g : IsLeftFold(g, n, V, <<>>, op)
  <2> HIDE DEF op, V
  <2> QED
    BY <1>2, <1>3, <1>4, LeftFoldExists
<1>6. P(g)
  <2>1. ASSUME NEW s \in SUBSET (1..n), s # {}
        PROVE  g[s] = Step(g[s \ {Max(s)}], answer[Max(s)])
    <3>1. Max(s) \in 1..n /\ g[s \ {Max(s)}] \in V
      BY <1>2, <1>5, <2>1, MaxExists DEF IsLeftFold
    <3>2. g[s] = op[<<Max(s), g[s \ {Max(s)}]>>]
      BY <1>5, <2>1 DEF IsLeftFold
    <3> HIDE DEF Step
    <3> QED
      BY <3>1, <3>2
  <2> HIDE DEF op, Step
  <2> QED
    BY <1>2, <1>5, <2>1 DEF IsLeftFold
<1>7. P(iter)
  <2> HIDE DEF P
  <2> QED
    BY <1>6, Zenon
<1> HIDE DEF iter
<1>8. Continues(iter, n, V, <<>>, op)
  <2>1. ASSUME NEW s \in SUBSET (1..n), s # {}, iter[s \ {Max(s)}] \in V
        PROVE  iter[s] = op[<<Max(s), iter[s \ {Max(s)}]>>]
    <3>1. Max(s) \in 1..n
      BY <1>2, <2>1, MaxExists
    <3> HIDE DEF Step
    <3>2. iter[s] = Step(iter[s \ {Max(s)}], answer[Max(s)])
      BY <1>2, <1>7, <2>1
    <3> QED
      BY <2>1, <3>1, <3>2
  <2>2. iter[{}] = <<>>
    BY <1>2, <1>7
  <2> HIDE DEF op, P
  <2> QED
    BY <2>1, <2>2 DEF Continues
<1>9. PICK F : Stepwise(F, n, V, <<>>, op, iter[1..n])
  <2>1. n \in Nat
    BY <1>2
  <2> HIDE DEF op, V, P
  <2> QED
    BY <1>3, <1>4, <1>8, <2>1, LeftFoldSteps
<1>10. ASSUME NEW i \in 1..n PROVE F[i] = Step(F[i - 1], answer[i])
  <2>1. F[i - 1] \in V
    <3>1. i - 1 \in Nat
      BY <1>2
    <3> QED
      BY <1>9, <3>1 DEF Stepwise
  <2>2. F[i] = op[<<i, F[i - 1]>>]
    BY <1>9 DEF Stepwise
  <2> HIDE DEF Step
  <2> QED
    BY <2>1, <2>2
<1>11. /\ \A i \in Nat : F[i] \in Seq(A)
       /\ F[0] = <<>>
       /\ ExtractList(answer) = F[Len(answer)]
  <2> HIDE DEF op
  <2> QED
    BY <1>1, <1>2, <1>9 DEF Stepwise, n
<1> HIDE DEF op, P
<1> QED
  BY <1>10, <1>11 DEF n

\* What one more item adds.
LEMMA OneItemMore ==
  ASSUME NEW A, NEW answer \in Seq(A), NEW n \in Nat, n + 1 \in 1..Len(answer),
         \A i, j \in 1..Len(answer) : answer[i] = answer[j] => i = j,
         answer[n + 1].object \in BOOLEAN,
         NEW out \in Seq(A), ExtractedSoFar(answer, n, out)
  PROVE  ExtractedSoFar(answer, n + 1,
           IF answer[n + 1].object THEN Append(out, answer[n + 1]) ELSE out)
<1> DEFINE x == answer[n + 1]
           S == ObjectsOf(answer, n)
<1>1. 1..(n + 1) = (1..n) \cup {n + 1}
  OBVIOUS
<1>2. x \in A /\ Len(out) \in Nat
  OBVIOUS
<1>3. CASE x.object
  <2> DEFINE more == Append(out, x)
             m == Len(out)
  <2>1. /\ Len(more) = m + 1
        /\ more \in [1..(m + 1) -> A]
        /\ \A i \in 1..m : more[i] = out[i]
        /\ more[m + 1] = x
    <3>1. m \in Nat /\ out \in [1..m -> A]
      OBVIOUS
    <3>2. /\ more \in Seq(A) /\ Len(more) = m + 1
          /\ \A i \in 1..m : more[i] = out[i]
          /\ more[m + 1] = x
      BY <1>2
    <3>3. more \in [1..(m + 1) -> A]
      <4> HIDE DEF more, m
      <4> QED
        BY <3>2
    <3> QED
      BY <3>2, <3>3
  <2>2. ObjectsOf(answer, n + 1) = S \cup {x}
    BY <1>1, <1>3 DEF ObjectsOf
  <2>3. x \notin S
    <3> SUFFICES ASSUME NEW i \in 1..n PROVE answer[i] # x
      BY DEF ObjectsOf
    <3>1. i \in 1..Len(answer) /\ i # n + 1
      OBVIOUS
    <3> QED
      BY <3>1
  <2>4. Lists(out, m, S)
    BY DEF ExtractedSoFar
  <2> HIDE DEF more, x, S, m
  <2>5. m \in Nat /\ 1..(m + 1) = (1..m) \cup {m + 1} /\ m + 1 \notin 1..m
    BY <1>2 DEF m
  <2>6. more \in [1..(m + 1) -> S \cup {x}]
    <3>1. \A i \in 1..(m + 1) : more[i] \in S \cup {x}
      BY <2>1, <2>4, <2>5 DEF Lists
    <3> QED
      BY <2>1, <3>1
  <2>7. ASSUME NEW i \in 1..(m + 1), NEW j \in 1..(m + 1), more[i] = more[j] PROVE i = j
    BY <2>1, <2>3, <2>4, <2>5, <2>7 DEF Lists
  <2>8. ASSUME NEW y \in S \cup {x} PROVE \E i \in 1..(m + 1) : more[i] = y
    BY <2>1, <2>4, <2>5 DEF Lists
  <2>9. Lists(more, m + 1, S \cup {x})
    BY <2>6, <2>7, <2>8 DEF Lists
  <2>10. ExtractedSoFar(answer, n + 1, more)
    <3>1. Len(more) = m + 1 /\ Len(more) \in Nat
      BY <2>1, <2>5
    <3>2. Lists(more, Len(more), ObjectsOf(answer, n + 1))
      BY <2>2, <2>9, <3>1
    <3> QED
      BY <3>1, <3>2 DEF ExtractedSoFar
  <2> QED
    BY <1>3, <2>10 DEF more, x
<1>4. CASE ~x.object
  <2>1. ObjectsOf(answer, n + 1) = S
    BY <1>1, <1>4 DEF ObjectsOf
  <2> QED
    BY <1>4, <2>1 DEF ExtractedSoFar
<1> QED
  BY <1>3, <1>4

\* ExtractList keeps the objects of an answer, each once.
LEMMA Extracted ==
  ASSUME NEW A, \A x \in A : x.object \in BOOLEAN, NEW answer \in Seq(A),
         \A i, j \in 1..Len(answer) : answer[i] = answer[j] => i = j
  PROVE  /\ ExtractList(answer) \in Seq(A)
         /\ ExtractedSoFar(answer, Len(answer), ExtractList(answer))
<1>1. PICK F :
        /\ \A i \in Nat : F[i] \in Seq(A)
        /\ F[0] = <<>>
        /\ \A i \in 1..Len(answer) :
             F[i] = IF answer[i].object THEN Append(F[i - 1], answer[i]) ELSE F[i - 1]
        /\ ExtractList(answer) = F[Len(answer)]
  BY ExtractSteps
<1>2. Len(answer) \in Nat
  OBVIOUS
<1> DEFINE T == {n \in Nat : n <= Len(answer) => ExtractedSoFar(answer, n, F[n])}
<1>3. 0 \in T
  <2>1. Len(<<>>) = 0 /\ 1..0 = {} /\ <<>> \in [1..0 -> {}]
    OBVIOUS
  <2>2. ObjectsOf(answer, 0) = {}
    BY <2>1 DEF ObjectsOf
  <2>3. Lists(<<>>, 0, {})
    BY <2>1 DEF Lists
  <2>4. ExtractedSoFar(answer, 0, <<>>)
    BY <2>1, <2>2, <2>3 DEF ExtractedSoFar
  <2> QED
    BY <1>1, <2>4
<1>4. ASSUME NEW n \in Nat, n \in T PROVE n + 1 \in T
  <2> SUFFICES ASSUME n + 1 <= Len(answer) PROVE ExtractedSoFar(answer, n + 1, F[n + 1])
    OBVIOUS
  <2>1. n + 1 \in 1..Len(answer) /\ (n + 1) - 1 = n /\ n <= Len(answer)
    BY <1>2
  <2>2. F[n + 1] = IF answer[n + 1].object THEN Append(F[n], answer[n + 1]) ELSE F[n]
    BY <1>1, <2>1
  <2>3. ExtractedSoFar(answer, n, F[n]) /\ F[n] \in Seq(A)
    BY <1>1, <1>4, <2>1
  <2>4. answer[n + 1] \in A
    BY <2>1
  <2>5. answer[n + 1].object \in BOOLEAN
    BY <2>4
  <2> QED
    BY <2>1, <2>2, <2>3, <2>5, OneItemMore
<1>5. Len(answer) \in T
  <2> HIDE DEF T
  <2> QED
    BY <1>2, <1>3, <1>4, NatSetInduction
<1> QED
  BY <1>1, <1>2, <1>5

\* What a list shows are the objects under its arguments, in the order of their ids.
LEMMA ListsInOrder ==
  ASSUME NEW source, NEW items \in SUBSET Item, IsFiniteSet(items),
         NEW shown \in Shown(source, items)
  PROVE  ListedInOrder(source, items, shown)
<1> DEFINE answered == {i \in items : i.object /\ source.under # {} => i.under}
           listed == {i \in items : i.object /\ (source.under # {} => i.under)}
<1> SUFFICES ASSUME source.form = "list", shown.ok,
                    \A i, j \in listed : i # j => i.id # j.id
             PROVE  /\ Len(shown.rows) = Cardinality(listed)
                    /\ \A i \in listed :
                         shown.rows[Cardinality({j \in listed : j.id <= i.id})] = Row(source, i)
  BY DEF ListedInOrder
<1>1. \A i \in items : i.object \in BOOLEAN /\ (i.object => i.id \in Nat)
  BY DEF Item
<1>2. shown # Failed
  BY DEF Failed
<1>3. PICK answer \in Answers(source, items) : shown \in ReadList(source, answer)
  BY <1>2 DEF Shown
<1>4. IsFiniteSet(answered)
  BY FS_Subset
<1>5. answer \in SetToSeqs(answered)
  BY <1>3 DEF Answers
<1> DEFINE n == Cardinality(answered)
<1> HIDE DEF answered
<1>6. n \in Nat /\ Lists(answer, n, answered)
  BY <1>4, <1>5, SetToSeqsLists
<1> HIDE DEF n
<1>7. answer \in Seq(answered) /\ Len(answer) = n
  BY <1>6 DEF Lists
<1> DEFINE out == ExtractList(answer)
<1>8. out \in Seq(answered) /\ ExtractedSoFar(answer, Len(answer), out)
  <2>1. \A i, j \in 1..Len(answer) : answer[i] = answer[j] => i = j
    BY <1>6, <1>7 DEF Lists
  <2>2. \A x \in answered : x.object \in BOOLEAN
    BY <1>1 DEF answered
  <2> HIDE DEF out
  <2> QED
    BY <1>7, <2>1, <2>2, Extracted DEF out
<1>9. ObjectsOf(answer, Len(answer)) = listed
  <2>1. listed = {x \in answered : x.object}
    BY <1>1 DEF answered
  <2> HIDE DEF listed
  <2>2. ObjectsOf(answer, n) \subseteq listed
    BY <1>6, <2>1 DEF ObjectsOf, Lists
  <2>3. listed \subseteq ObjectsOf(answer, n)
    BY <1>6, <2>1 DEF ObjectsOf, Lists
  <2> QED
    BY <1>7, <2>2, <2>3
<1> DEFINE m == Len(out)
<1>10. m \in Nat /\ Lists(out, m, listed)
  BY <1>8, <1>9 DEF ExtractedSoFar
<1>11. PICK sorted \in SortByID(out) :
         shown = [ok |-> TRUE, rows |-> [i \in DOMAIN sorted |-> Row(source, sorted[i])]]
  BY <1>3 DEF ReadList
<1> HIDE DEF out
<1>12. /\ Lists(sorted, m, listed)
       /\ \A i \in 1..(m - 1) : sorted[i].id <= sorted[i + 1].id
  <2> HIDE DEF listed
  <2> QED
    BY <1>8, <1>10, <1>11, Sorted
<1>13. \A x \in listed : x.id \in Nat
  BY <1>1
<1> HIDE DEF m, listed
<1>14. shown.rows = [i \in 1..m |-> Row(source, sorted[i])]
  BY <1>11, <1>12 DEF Lists
<1>15. Len(shown.rows) = Cardinality(listed)
  <2>1. Cardinality(listed) = m
    BY <1>10, ListsCount
  <2>2. Len(shown.rows) = m
    BY <1>10, <1>14
  <2> QED
    BY <2>1, <2>2
<1>16. ASSUME NEW x \in listed
       PROVE  shown.rows[Cardinality({j \in listed : j.id <= x.id})] = Row(source, x)
  <2>1. PICK k \in 1..m : sorted[k] = x
    BY <1>12 DEF Lists
  <2>2. Cardinality({j \in listed : j.id <= sorted[k].id}) = k
    <3>1. \A y, z \in listed : y # z => y.id # z.id
      BY DEF listed
    <3> QED
      BY <1>10, <1>12, <1>13, <3>1, Rank
  <2> QED
    BY <1>14, <2>1, <2>2
<1> QED
  BY <1>15, <1>16

-----------------------------------------------------------------------------
(* coverage-check.                                                         *)

\* The mapping pinned for an operation is one of the operation's, of the first
\* of their files.
LEMMA PinnedIsFirst ==
  ASSUME NEW matches, Ordered(matches), matches # {}
  PROVE  /\ Pinned(matches) \in matches
         /\ \A n \in matches : Pinned(matches).file <= n.file
<1> DEFINE First(m) == \A n \in matches : m.file < n.file \/ (m.file = n.file /\ m.rank <= n.rank)
           inFiles == {m.file : m \in matches}
<1>1. PICK f \in inFiles : \A g \in inFiles : f <= g
  <2>1. inFiles \in SUBSET Nat /\ inFiles # {}
    BY DEF Ordered
  <2> QED
    BY <2>1, LeastExists
<1> DEFINE ranks == {m.rank : m \in {m \in matches : m.file = f}}
<1>2. PICK r \in ranks : \A s \in ranks : r <= s
  <2>1. ranks \in SUBSET Nat /\ ranks # {}
    BY DEF Ordered
  <2> QED
    BY <2>1, LeastExists
<1>3. PICK m \in matches : m.file = f /\ m.rank = r
  BY <1>2
<1>4. First(m)
  <2> SUFFICES ASSUME NEW n \in matches
               PROVE  m.file < n.file \/ (m.file = n.file /\ m.rank <= n.rank)
    OBVIOUS
  <2>1. m.file <= n.file
    BY <1>1, <1>3
  <2>2. n.file = f => m.rank <= n.rank
    BY <1>2, <1>3
  <2> QED
    BY <1>3, <2>1, <2>2 DEF Ordered
<1>5. \E x \in matches : First(x)
  BY <1>4
<1>6. Pinned(matches) = CHOOSE x \in matches : First(x)
  BY DEF Pinned
<1>7. \A x \in matches : First(x) => \A n \in matches : x.file <= n.file
  BY DEF Ordered
<1> HIDE DEF First
<1> QED
  BY <1>5, <1>6, <1>7

\* The exit code and the report of coverage-check, over any document and tree.
LEMMA CoverageAccounts ==
  ASSUME NEW document, IsFiniteSet(document), NEW tree, Ordered(tree.rows)
  PROVE  CoverageHolds(document, tree, CoverageCheck(document, tree))
<1> DEFINE operations == LoadOperations(document)
           mappings == ScanMappings(tree)
           Matches(o) == {m \in mappings : m.id = o.id}
           covered == {o \in operations : Matches(o) # {}}
           result == CoverageCheck(document, tree)
           report == result.report
           Named(r) == r.id # "" /\ r.op # ""
           Called(o) == \E m \in Default(tree) : m.id = o.id
<1>1. operations = {o \in document : o.method # "other" /\ o.object}
  BY DEF LoadOperations
<1>2. \A m : m \in mappings <=> m \in tree.rows /\ m.file \in tree.seen /\ m.literal /\ Named(m)
  BY Zenon DEF ScanMappings, ExtractMapping
<1>3. \A o : Called(o) <=> \E r \in tree.rows : r.file \in tree.registers /\ Named(r) /\ r.id = o.id
  <2> DEFINE named == {r \in {r \in tree.rows : r.file \in tree.registers} : Named(r)}
  <2>1. Default(tree) = {[id |-> r.id, op |-> r.op] : r \in named}
    BY Zenon DEF Default, Register
  <2>2. \A r : r \in named <=> r \in tree.rows /\ r.file \in tree.registers /\ Named(r)
    BY Zenon
  <2> HIDE DEF named, Named
  <2> SUFFICES ASSUME NEW o
               PROVE  Called(o) <=> \E r \in tree.rows :
                                      r.file \in tree.registers /\ Named(r) /\ r.id = o.id
    OBVIOUS
  <2>3. ASSUME NEW m \in Default(tree), m.id = o.id
        PROVE  \E r \in named : r.id = o.id
    <3>1. PICK r \in named : m = [id |-> r.id, op |-> r.op]
      BY <2>1, <2>3
    <3>2. m.id = r.id
      BY <3>1
    <3> QED
      BY <2>3, <3>1, <3>2
  <2>4. ASSUME NEW r \in named, r.id = o.id PROVE \E m \in Default(tree) : m.id = o.id
    <3> DEFINE m == [id |-> r.id, op |-> r.op]
    <3>1. m \in Default(tree) /\ m.id = o.id
      BY <2>1, <2>4
    <3> QED
      BY <3>1
  <2> QED
    BY <2>2, <2>3, <2>4
<1> HIDE DEF operations, mappings, Named, Called
<1>4. /\ report.uncovered = operations \ covered
      /\ report.covered = Cardinality(covered)
      /\ report.pairs = [o \in operations |-> IF o \in covered THEN Pinned(Matches(o)) ELSE None]
      /\ result.exit = IF report.uncovered = {} THEN 0 ELSE 1
  BY DEF CoverageCheck, BuildReport, operations, mappings
<1> HIDE DEF result
<1>5. ASSUME Conventional(tree)
      PROVE  (result.exit = 0) <=> \A o \in operations : Called(o)
  <2>1. \A o \in operations : o \in covered <=> Called(o)
    BY <1>2, <1>3, <1>5 DEF Conventional
  <2> QED
    BY <1>4, <2>1
<1>6. ASSUME NEW o \in operations \ report.uncovered, ~Called(o)
      PROVE  \E r \in tree.rows : r.id = o.id /\ r.file \notin tree.registers
  BY <1>2, <1>3, <1>4, <1>6
<1>7. ASSUME NEW o \in report.uncovered, Called(o)
      PROVE  \E r \in tree.rows : r.id = o.id /\ (r.file \notin tree.seen \/ ~r.literal)
  BY <1>2, <1>3, <1>4, <1>7
<1>8. report.covered + Cardinality(report.uncovered) = Cardinality(operations)
  <2>1. IsFiniteSet(operations)
    BY <1>1, FS_Subset
  <2> HIDE DEF covered
  <2>2. covered \subseteq operations
    BY DEF covered
  <2>3. Cardinality(operations \ covered) = Cardinality(operations) - Cardinality(covered)
    <3>1. operations \cap covered = covered
      BY <2>2
    <3> QED
      BY <2>1, <3>1, FS_Difference
  <2>4. Cardinality(operations) \in Nat /\ Cardinality(covered) \in Nat
    BY <2>1, <2>2, FS_Subset, FS_CardinalityType
  <2> QED
    BY <1>4, <2>3, <2>4
<1>9. ASSUME NEW o \in operations \ report.uncovered
      PROVE  /\ report.pairs[o] \in tree.rows
             /\ report.pairs[o].id = o.id
             /\ \A r \in mappings : r.id = o.id => report.pairs[o].file <= r.file
  <2>1. o \in covered /\ report.pairs[o] = Pinned(Matches(o))
    BY <1>4, <1>9
  <2>2. Matches(o) # {} /\ Ordered(Matches(o))
    BY <1>2, <2>1 DEF Ordered
  <2> DEFINE first == Pinned(Matches(o))
  <2>3. first \in Matches(o) /\ \A n \in Matches(o) : first.file <= n.file
    BY <2>2, PinnedIsFirst
  <2> HIDE DEF first
  <2> QED
    BY <1>2, <2>1, <2>3 DEF first
<1> HIDE DEF Matches, covered
<1>10. ToolAgrees(document, tree, result)
  BY <1>1, <1>5, <1>6, <1>7 DEF ToolAgrees, Called
<1>11. ReportAccounts(document, tree, report)
  BY <1>1, <1>8, <1>9 DEF ReportAccounts, mappings
<1> QED
  BY <1>10, <1>11 DEF CoverageHolds, result

-----------------------------------------------------------------------------
(* The theorems.                                                           *)

\* What each part is given.
GivenInv ==
  /\ computation = "data_sources" => IsFiniteSet(input.items) /\ input.items \subseteq Item
  /\ computation = "capacity" => input.capacity \in Seq(Element)
  /\ computation = "provider" => input \in ConfigureInputs(Texts)
  /\ computation = "coverage" => IsFiniteSet(input.document) /\ Ordered(input.tree.rows)

\* An output is what its part makes of its input.
MadeInv ==
  output # Nothing =>
    /\ computation = "data_sources" => output.result \in Shown(input.source, input.items)
    /\ computation = "capacity" => output.result = Validate(input.cloud, input.capacity)
    /\ computation = "provider" => output.result = Configure(input)
    /\ computation = "coverage" => output.result = CoverageCheck(input.document, input.tree)

\* Every output is what its part makes of an input it may be given.
THEOREM ComputedInvariant == ComputedSpec => [](GivenInv /\ MadeInv)
<1>1. ComputedInit => GivenInv /\ MadeInv
  <2> SUFFICES ASSUME ComputedInit PROVE GivenInv /\ MadeInv
    OBVIOUS
  <2>1. MadeInv
    BY DEF ComputedInit, MadeInv
  <2>2. computation = "data_sources" => IsFiniteSet(input.items) /\ input.items \subseteq Item
    BY ComputedAssumption DEF ComputedInit
  <2>3. computation = "capacity" => input.capacity \in Seq(Element)
    <3> SUFFICES ASSUME computation = "capacity" PROVE input.capacity \in Seq(Element)
      OBVIOUS
    <3>1. input \in [cloud : {"aws", "azure"}, capacity : Capacities]
      BY DEF ComputedInit
    <3>2. Capacities \subseteq Seq(Element)
      BY ComputedAssumption
    <3> QED
      BY <3>1, <3>2
  <2>4. computation = "provider" => input \in ConfigureInputs(Texts)
    BY ComputedAssumption DEF ComputedInit
  <2>5. computation = "coverage" => IsFiniteSet(input.document) /\ Ordered(input.tree.rows)
    BY ComputedAssumption DEF ComputedInit
  <2> QED
    BY <2>1, <2>2, <2>3, <2>4, <2>5 DEF GivenInv
<1>2. GivenInv /\ MadeInv /\ [ComputedNext]_computedVars => GivenInv' /\ MadeInv'
  <2> SUFFICES ASSUME GivenInv, MadeInv, [ComputedNext]_computedVars PROVE GivenInv' /\ MadeInv'
    OBVIOUS
  <2>1. computation' = computation /\ input' = input
    BY DEF ComputedNext, computedVars
  <2>2. GivenInv'
    BY <2>1 DEF GivenInv
  <2>3. ASSUME ReadDataSource PROVE MadeInv'
    BY <2>1, <2>3 DEF ReadDataSource, MadeInv
  <2>4. ASSUME ValidateCapacity PROVE MadeInv'
    BY <2>1, <2>4 DEF ValidateCapacity, MadeInv
  <2>5. ASSUME ConfigureProvider PROVE MadeInv'
    BY <2>1, <2>5 DEF ConfigureProvider, MadeInv
  <2>6. ASSUME CheckCoverage PROVE MadeInv'
    BY <2>1, <2>6 DEF CheckCoverage, MadeInv
  <2>7. ASSUME UNCHANGED computedVars PROVE MadeInv'
    BY <2>7 DEF MadeInv, computedVars
  <2> QED
    BY <2>2, <2>3, <2>4, <2>5, <2>6, <2>7 DEF ComputedNext
<1> QED
  BY <1>1, <1>2, PTL DEF ComputedSpec

\* spec.md:208 (FR-015): whatever the order of the answer, a list of any length
\* shows each object under its arguments once, at the place its id has.
THEOREM ListsAreStable == ComputedSpec => []StableOrder
<1>1. GivenInv /\ MadeInv => StableOrder
  <2> SUFFICES ASSUME GivenInv, MadeInv, computation = "data_sources", output # Nothing
               PROVE  ListedInOrder(input.source, input.items, output.result)
    BY DEF StableOrder
  <2> QED
    BY ListsInOrder DEF GivenInv, MadeInv
<1> QED
  BY <1>1, ComputedInvariant, PTL

\* ValidateCapacityHostCount and validateCapacityHostTypes (validate.go): a
\* capacity of any length is refused only if it is refused with any counts in
\* the place of the unknown ones, and always if its counts are known and wrong.
THEOREM CapacityRefused == ComputedSpec => []RefusedOnlyIfHopeless
<1>1. GivenInv /\ MadeInv => RefusedOnlyIfHopeless
  BY CapacityRefusal DEF GivenInv, MadeInv, RefusedOnlyIfHopeless
<1> QED
  BY <1>1, ComputedInvariant, PTL

\* parseINI (config.go): of a file of any length, read without an error, each key
\* of each profile has the value that its last assignment gives it, and the error
\* is that of a section without a name.
THEOREM FileAssignments == ComputedSpec => []LastAssignmentWins
<1>1. GivenInv => LastAssignmentWins
  <2> SUFFICES ASSUME GivenInv, computation = "provider" PROVE ReadAsWritten(input.onDisk.lines)
    BY DEF LastAssignmentWins
  <2>1. input.onDisk.lines \in Seq(Line(Texts))
    BY DEF GivenInv, ConfigureInputs
  <2> QED
    BY <2>1, ComputedAssumption, FileReadAsWritten
<1> QED
  BY <1>1, ComputedInvariant, PTL

\* spec.md (FR-001a): the provider runs with the value of the block, then with
\* that of the environment, then with that of the asked profile of the file, and
\* a conflict names every other source that has a different one.
THEOREM CredentialsPrecedence == ComputedSpec => []PrecedenceHolds
<1>1. GivenInv /\ MadeInv => PrecedenceHolds
  <2> SUFFICES ASSUME GivenInv, MadeInv, computation = "provider", output # Nothing
               PROVE  FollowsPrecedence(input, output.result)
    BY DEF PrecedenceHolds
  <2>1. input \in ConfigureInputs(Texts) /\ output.result = Configure(input)
    BY DEF GivenInv, MadeInv
  <2> QED
    BY <2>1, ComputedAssumption, ConfigurePrecedence
<1> QED
  BY <1>1, ComputedInvariant, PTL

\* FR-021 (coverage-check, main.go, and Register, mapping.go): over any document
\* and any source tree, what the tool finds by parsing and what the packages
\* register differ only by what breaks the convention they share, a tree that
\* keeps it passes exactly when the registry has every operation, and the report
\* accounts for each operation.
THEOREM CoverageComplete == ComputedSpec => []CoverageAccountsForAll
<1>1. GivenInv /\ MadeInv => CoverageAccountsForAll
  BY CoverageAccounts DEF GivenInv, MadeInv, CoverageAccountsForAll
<1> QED
  BY <1>1, ComputedInvariant, PTL

=============================================================================
