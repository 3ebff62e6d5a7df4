---------------------------- MODULE QueueProofs ----------------------------
(***************************************************************************)
(* What the operators of Queue return, for every queue and every table     *)
(* size.  The induction these facts need is the least-number principle:    *)
(* every nonempty set of naturals has a least element.                     *)
(*                                                                         *)
(* Beside them the facts about minima, division and products that the      *)
(* proofs of several modules share.                                        *)
(***************************************************************************)
EXTENDS Queue, TLAPS, FiniteSetTheorems, SequenceTheorems,
        WellFoundedInduction

\* The order on the naturals as a relation.
Below == {ss \in Nat \X Nat : ss[1] < ss[2]}

\* A nonempty set of naturals has a least element: the slot, position or
\* priority at which a search loop stops exists.
LEMMA LeastExists ==
  ASSUME NEW T, T \subseteq Nat, T # {}
  PROVE  \E x \in T : \A y \in T : x <= y
<1>1. OpToRel(<, Nat) = Below
  BY Zenon DEF OpToRel, Below
<1>2. IsWellFoundedOn(Below, Nat)
  BY Zenon, <1>1, NatLessThanWellFounded
<1>3. PICK x \in T : \A y \in T : ~ (<<y, x>> \in Below)
  BY Zenon, <1>2, WFMin
<1>4. \A y \in T : (y < x) => <<y, x>> \in Below
  BY DEF Below
<1>5. \A y \in T : ~ (y < x)
  BY Zenon, <1>3, <1>4
<1>6. ASSUME NEW y \in T PROVE x <= y
  <2>1. x \in Nat /\ y \in Nat
    OBVIOUS
  <2> QED BY <1>5, <2>1
<1> QED BY <1>6

\* Min of a nonempty set of naturals is its least element (the slot searches
\* of syscall_fork, run_program and syscall_wait).
LEMMA MinIsLeast ==
  ASSUME NEW T, T \subseteq Nat, T # {}
  PROVE  Min(T) \in T /\ \A y \in T : Min(T) <= y
BY LeastExists, Zenon DEF Min

\* Max of a nonempty set of naturals below a bound is its greatest element
\* (the loop over the priorities of select_new_process).
LEMMA MaxIsGreatest ==
  ASSUME NEW n \in Nat, NEW T, T \subseteq 0..n, T # {}
  PROVE  Max(T) \in T /\ \A y \in T : Max(T) >= y
<1> DEFINE D == {n - y : y \in T}
<1>0. \A y \in T : y \in Int /\ 0 <= y /\ y <= n
  OBVIOUS
<1>1. D \subseteq Nat /\ D # {}
  <2>1. \A y \in T : n - y \in Nat
    BY <1>0
  <2> QED BY <2>1
<1>2. PICK d \in D : \A e \in D : d <= e
  BY <1>1, LeastExists
<1>3. PICK x \in T : d = n - x
  OBVIOUS
<1>4. ASSUME NEW y \in T PROVE x >= y
  <2>1. n - x <= n - y
    BY <1>2, <1>3
  <2>2. x \in Int /\ y \in Int
    OBVIOUS
  <2> QED BY <2>1, <2>2
<1>5. \E z \in T : \A y \in T : z >= y
  BY <1>4
<1> QED BY <1>5, Zenon DEF Max

\* Division with remainder, for a divisor that is a constant of the model.
LEMMA DivMod ==
  ASSUME NEW a \in Int, NEW k \in Nat \ {0}
  PROVE  \E q \in Int, r \in 0..(k - 1) :
           q = a \div k /\ r = a % k /\ a = k * q + r
<1>0. k \in Nat /\ k > 0
  OBVIOUS
<1>1. PICK q \in Int : q = a \div k
  BY <1>0
<1>2. PICK r \in Int : r = a % k
  BY <1>0
<1>3. 0 <= r /\ r < k
  BY <1>0, <1>2
<1>4. a = k * q + r
  BY <1>0, <1>1, <1>2
<1> QED BY <1>0, <1>1, <1>2, <1>3, <1>4

\* A multiple of k strictly between -k and k is 0.
LEMMA MultipleIsZero ==
  ASSUME NEW k \in Nat \ {0}, NEW d \in Int, 0 - k < k * d, k * d < k
  PROVE  d = 0
<1>1. CASE d >= 1
  <2>1. k * d >= k
     BY <1>1
  <2> QED BY <2>1
<1>2. CASE d <= 0 - 1
  <2>1. k * (0 - d) >= k
     BY <1>2
  <2>2. k * (0-d) = 0 - k * d
     OBVIOUS
  <2> QED BY <2>1, <2>2
<1> QED BY <1>1, <1>2

\* Quotient and remainder are unique.
LEMMA ModUnique ==
  ASSUME NEW k \in Nat \ {0}, NEW q \in Int, NEW r \in 0..(k - 1), NEW a \in Int, a = k * q + r
  PROVE  a % k = r /\ a \div k = q
<1>1. PICK p \in Int, s \in 0..(k - 1) :
        p = a \div k /\ s = a % k /\ a = k * p + s
  BY DivMod
<1>2. k * (q - p) = k * q - k * p
  BY <1>1
<1>3. q - p = 0
  <2>1. q - p \in Int /\ 0 - k < k * (q - p) /\ k * (q - p) < k
    BY <1>1, <1>2
  <2> QED BY <2>1, MultipleIsZero
<1>4. q = p /\ r = s
  BY <1>1, <1>3
<1> QED BY <1>1, <1>4

\* Products of naturals grow with their factors.
LEMMA Grows ==
  ASSUME NEW d \in Nat, NEW x \in Nat, NEW y \in Nat, x <= y
  PROVE  d * x \in Nat /\ d * x <= d * y
<1> DEFINE e == y - x
<1>1. e \in Nat /\ y = x + e
  OBVIOUS
<1> HIDE DEF e
<1>2. d * y = d * x + d * e
  BY <1>1
<1>3. d * e \in Nat /\ d * x \in Nat
  BY <1>1
<1> QED BY <1>2, <1>3

\* A set that has 0, and each number up to n if it has the one before, has n.
LEMMA Climb ==
  ASSUME NEW n \in Nat, NEW T, 0 \in T, \A i \in 1..n : i - 1 \in T => i \in T
  PROVE  n \in T
<1> DEFINE Bad == {i \in 0..n : i \notin T}
<1> SUFFICES ASSUME Bad # {} PROVE FALSE
  OBVIOUS
<1>1. PICK i \in Bad : \A y \in Bad : i <= y
  <2>1. Bad \subseteq Nat
    OBVIOUS
  <2> HIDE DEF Bad
  <2> QED BY <2>1, LeastExists
<1>2. i \in 1..n /\ i - 1 \in 0..n /\ ~(i <= i - 1)
  OBVIOUS
<1>3. i - 1 \in T
  BY <1>1, <1>2
<1> QED BY <1>2, <1>3

\* How many elements of S are at most i.
Rank(S, i) == Cardinality({j \in S : j <= i})

\* Rank grows by one at each element of S and nowhere else.
LEMMA RankStep ==
  ASSUME NEW n \in Nat, NEW S, S \subseteq 0..n
  PROVE  /\ \A i \in Int : Rank(S, i) \in Nat /\ Rank(S, i) <= Cardinality(S)
         /\ \A i \in Int : i + 1 \in S => Rank(S, i + 1) = Rank(S, i) + 1
         /\ \A i \in Int : i + 1 \notin S => Rank(S, i + 1) = Rank(S, i)
         /\ Rank(S, -1) = 0
         /\ Rank(S, n) = Cardinality(S)
         /\ Cardinality(S) \in Nat
         /\ \A i, k \in S : i < k => Rank(S, i) < Rank(S, k)
<1>0. \A j \in S : j \in Int /\ 0 <= j /\ j <= n
  OBVIOUS
<1>1. IsFiniteSet(S)
  <2>1. S \in SUBSET (0..n) /\ IsFiniteSet(0..n)
    BY FS_Interval
  <2> QED BY <2>1, FS_Subset
<1>2. Cardinality(S) \in Nat
  BY <1>1, FS_CardinalityType
<1>3. ASSUME NEW i \in Int
      PROVE  /\ IsFiniteSet({j \in S : j <= i})
             /\ Rank(S, i) \in Nat /\ Rank(S, i) <= Cardinality(S)
  <2>1. {j \in S : j <= i} \in SUBSET S
    OBVIOUS
  <2>2. IsFiniteSet({j \in S : j <= i})
        /\ Cardinality({j \in S : j <= i}) <= Cardinality(S)
    BY <1>1, <2>1, FS_Subset
  <2> QED BY <2>2, FS_CardinalityType DEF Rank
<1>4. ASSUME NEW i \in Int, i + 1 \in S
      PROVE  Rank(S, i + 1) = Rank(S, i) + 1
  <2>0. \A j \in S : j <= i + 1 <=> j <= i \/ j = i + 1
    BY <1>0
  <2>1. {j \in S : j <= i + 1} = {j \in S : j <= i} \cup {i + 1}
    BY <1>4, <2>0, Zenon
  <2>2. i + 1 \notin {j \in S : j <= i}
    OBVIOUS
  <2> QED BY <1>3, <2>1, <2>2, FS_AddElement DEF Rank
<1>5. ASSUME NEW i \in Int, i + 1 \notin S
      PROVE  Rank(S, i + 1) = Rank(S, i)
  <2>0. \A j \in S : j <= i + 1 <=> j <= i
    <3>1. \A j \in S : j # i + 1
      BY <1>5
    <3> QED BY <1>0, <3>1
  <2>1. {j \in S : j <= i + 1} = {j \in S : j <= i}
    BY <2>0, Zenon
  <2> QED BY <2>1 DEF Rank
<1>6. Rank(S, -1) = 0
  <2>0. \A j \in S : ~ (j <= -1)
    BY <1>0
  <2>1. {j \in S : j <= -1} = {}
    BY <2>0, Zenon
  <2> QED BY <2>1, FS_EmptySet DEF Rank
<1>7. Rank(S, n) = Cardinality(S)
  <2>1. {j \in S : j <= n} = S
    BY <1>0
  <2> QED BY <2>1 DEF Rank
<1>8. ASSUME NEW i \in S, NEW k \in S, i < k
      PROVE  Rank(S, i) < Rank(S, k)
  <2>1. i \in Int /\ k \in Int
    OBVIOUS
  <2> DEFINE A == {j \in S : j <= i}
             B == {j \in S : j <= k}
  <2>0. /\ \A j \in S : j <= i => j <= k
        /\ k <= k /\ ~ (k <= i)
    BY <1>0, <1>8, <2>1
  <2>2. A \cup {k} \in SUBSET B /\ k \notin A
    BY <2>0
  <2>3. IsFiniteSet(A) /\ IsFiniteSet(B)
    BY <1>3, <2>1
  <2>4. IsFiniteSet(A \cup {k}) /\ Cardinality(A \cup {k}) = Cardinality(A) + 1
    BY <2>2, <2>3, FS_AddElement
  <2>5. Cardinality(A \cup {k}) <= Cardinality(B)
    BY <2>2, <2>3, FS_Subset
  <2>6. Cardinality(A) \in Nat /\ Cardinality(B) \in Nat
    BY <2>3, FS_CardinalityType
  <2> QED BY <2>4, <2>5, <2>6 DEF Rank
<1> QED BY <1>2, <1>3, <1>4, <1>5, <1>6, <1>7, <1>8

\* Every rank up to the number of elements is the rank of some element.
LEMMA RankReached ==
  ASSUME NEW n \in Nat, NEW S, S \subseteq 0..n, NEW k \in 1..Cardinality(S)
  PROVE  \E i \in S : Rank(S, i) = k
<1> DEFINE T == {i \in Nat : Rank(S, i) >= k}
<1>1. Cardinality(S) \in Nat /\ Rank(S, n) = Cardinality(S)
  BY RankStep
<1>2. n \in T
  BY <1>1
<1>3. PICK m \in T : \A y \in T : m <= y
  BY <1>2, LeastExists
<1>4. m \in Nat /\ Rank(S, m) >= k
  OBVIOUS
<1>5. Rank(S, m - 1) \in Nat /\ Rank(S, m - 1) < k
  <2>1. m - 1 \in Int
    BY <1>4
  <2>2. Rank(S, m - 1) \in Nat
    BY <2>1, RankStep
  <2>3. CASE m = 0
    <3>1. m - 1 = -1
      BY <2>3
    <3>2. Rank(S, m - 1) = 0
      BY <3>1, RankStep
    <3>3. k \in Int /\ k >= 1
      BY <1>1
    <3> QED BY <3>2, <3>3
  <2>4. CASE m # 0
    <3>1. m - 1 \in Nat /\ ~ (m <= m - 1)
      BY <1>4, <2>4
    <3>2. m - 1 \notin T
      BY <1>3, <3>1
    <3>3. ~ (Rank(S, m - 1) >= k)
      BY <3>1, <3>2
    <3> QED BY <2>2, <3>3
  <2> QED BY <2>3, <2>4
<1>6. Rank(S, (m - 1) + 1) = Rank(S, m)
  <2>1. (m - 1) + 1 = m
    BY <1>4
  <2> QED BY <2>1
<1>7. m \in S /\ Rank(S, m) = k
  <2>1. m - 1 \in Int /\ (m - 1) + 1 = m
    BY <1>4
  <2>2. m \notin S => Rank(S, m) = Rank(S, m - 1)
    BY <2>1, RankStep
  <2>3. m \in S => Rank(S, m) = Rank(S, m - 1) + 1
    BY <2>1, RankStep
  <2> QED BY <1>4, <1>5, <2>2, <2>3
<1> QED BY <1>7

\* Ascending(S) lists the elements of S, each once, in increasing order.
LEMMA AscendingProperties ==
  ASSUME NEW n \in Nat, NEW S, S \subseteq 0..n
  PROVE  /\ Cardinality(S) \in Nat
         /\ Ascending(S) \in Seq(S)
         /\ Len(Ascending(S)) = Cardinality(S)
         /\ IsInjective(Ascending(S))
         /\ Range(Ascending(S)) = S
         /\ \A k \in 1..Cardinality(S) : Rank(S, Ascending(S)[k]) = k
<1> DEFINE c == Cardinality(S)
           a == Ascending(S)
<1>1. c \in Nat
  BY RankStep
<1>2. ASSUME NEW k \in 1..c PROVE a[k] \in S /\ Rank(S, a[k]) = k
  <2>1. \E i \in S : Rank(S, i) = k
    BY RankReached
  <2>2. a[k] = CHOOSE i \in S : Rank(S, i) = k
    BY DEF Ascending, Rank
  <2> QED BY <2>1, <2>2, Zenon
<1>3. a \in [1..c -> S]
  <2>1. a = [k \in 1..c |-> a[k]]
    BY DEF Ascending
  <2> HIDE DEF a
  <2> QED BY <1>2, <2>1
<1>4. a \in Seq(S) /\ Len(a) = c /\ DOMAIN a = 1..c
  BY <1>1, <1>3, SeqDef
<1>5. IsInjective(a)
  <2> SUFFICES ASSUME NEW k \in 1..c, NEW l \in 1..c, a[k] = a[l] PROVE k = l
    BY <1>4 DEF IsInjective
  <2> QED BY <1>2
<1>6. ASSUME NEW i \in S PROVE \E k \in 1..c : a[k] = i
  <2>1. i \in Int
    OBVIOUS
  <2> DEFINE k == Rank(S, i)
  <2>2. k \in Nat /\ k <= c
    BY <2>1, RankStep
  <2>3. k >= 1
    <3>1. i - 1 \in Int /\ (i - 1) + 1 = i
      BY <2>1
    <3>2. Rank(S, i) = Rank(S, i - 1) + 1 /\ Rank(S, i - 1) \in Nat
      BY <3>1, RankStep
    <3> QED BY <3>2
  <2>4. k \in 1..c
    BY <1>1, <2>2, <2>3
  <2>5. a[k] \in S /\ Rank(S, a[k]) = Rank(S, i)
    BY <1>2, <2>4
  <2>6. ~ (a[k] < i) /\ ~ (i < a[k])
    <3>1. Rank(S, a[k]) \in Nat /\ Rank(S, i) \in Nat
      BY <2>2, <2>5
    <3>2. a[k] < i => Rank(S, a[k]) < Rank(S, i)
      BY <2>5, RankStep
    <3>3. i < a[k] => Rank(S, i) < Rank(S, a[k])
      BY <2>5, RankStep
    <3> QED BY <2>5, <3>1, <3>2, <3>3
  <2>7. a[k] \in Int
    <3>1. \A j \in S : j \in Int
      OBVIOUS
    <3> HIDE DEF a, k
    <3> QED BY <2>5, <3>1
  <2>8. a[k] = i
    BY <2>1, <2>6, <2>7
  <2> QED BY <2>4, <2>8
<1>7. Range(a) = S
  <2> HIDE DEF a
  <2>1. \A k \in DOMAIN a : a[k] \in S
    BY <1>2, <1>4
  <2>2. \A i \in S : \E k \in DOMAIN a : i = a[k]
    BY <1>4, <1>6
  <2> QED BY <2>1, <2>2 DEF Range
<1> QED BY <1>1, <1>2, <1>4, <1>5, <1>7

\* Without(q, S) keeps exactly the elements of q outside S, each as often as
\* before if that was once.
LEMMA WithoutProperties ==
  ASSUME NEW T, NEW q \in Seq(T), NEW S
  PROVE  /\ Without(q, S) \in Seq(T)
         /\ Range(Without(q, S)) = Range(q) \ S
         /\ IsInjective(q) => IsInjective(Without(q, S))
<1> DEFINE P == {i \in DOMAIN q : q[i] \notin S}
           a == Ascending(P)
           c == Cardinality(P)
           w == Without(q, S)
<1>1. Len(q) \in Nat /\ DOMAIN q = 1..Len(q)
  OBVIOUS
<1>2. P \subseteq 0..Len(q)
  BY <1>1
<1>3. /\ c \in Nat /\ a \in Seq(P) /\ Len(a) = c
      /\ IsInjective(a) /\ Range(a) = P
  <2> HIDE DEF P
  <2> QED BY <1>1, <1>2, AscendingProperties
<1>4. DOMAIN a = 1..c /\ a \in [1..c -> P]
  <2> HIDE DEF P, a, c
  <2> QED BY <1>3, LenProperties
<1>5. w = [k \in 1..c |-> q[a[k]]]
  <2>1. w = [k \in DOMAIN a |-> q[a[k]]]
    BY DEF Without
  <2> QED BY <1>4, <2>1
<1>6. \A i \in P : i \in DOMAIN q /\ q[i] \in T /\ q[i] \notin S
  BY <1>1
<1>7. w \in [1..c -> T]
  <2> HIDE DEF P, a, c, w
  <2> QED BY <1>4, <1>5, <1>6
<1>8. w \in Seq(T) /\ DOMAIN w = 1..c
  <2> HIDE DEF P, a, c, w
  <2> QED BY <1>3, <1>7, SeqDef
<1>9. Range(w) = Range(q) \ S
  <2>1. ASSUME NEW k \in 1..c PROVE w[k] \in Range(q) \ S
    <3> HIDE DEF P, a, c, w
    <3>1. w[k] = q[a[k]] /\ a[k] \in P
      BY <1>4, <1>5
    <3> QED BY <1>6, <3>1 DEF Range
  <2>2. ASSUME NEW x \in Range(q) \ S PROVE \E k \in 1..c : w[k] = x
    <3>1. PICK i \in DOMAIN q : x = q[i]
      BY DEF Range
    <3>2. i \in P
      BY <3>1
    <3> HIDE DEF P, a, c, w
    <3>3. PICK k \in 1..c : a[k] = i
      BY <1>3, <1>4, <3>2 DEF Range
    <3> QED BY <1>5, <3>1, <3>3
  <2> HIDE DEF P, a, c, w
  <2> QED BY <1>8, <2>1, <2>2 DEF Range
<1>10. ASSUME IsInjective(q) PROVE IsInjective(w)
  <2> HIDE DEF P, a, c, w
  <2> SUFFICES ASSUME NEW k \in 1..c, NEW l \in 1..c, w[k] = w[l] PROVE k = l
    BY <1>8 DEF IsInjective
  <2>1. q[a[k]] = q[a[l]] /\ a[k] \in P /\ a[l] \in P
    BY <1>4, <1>5
  <2>2. a[k] = a[l]
    BY <1>6, <1>10, <2>1 DEF IsInjective
  <2> QED BY <1>3, <1>4, <2>2 DEF IsInjective
<1> QED BY <1>8, <1>9, <1>10

\* Moving the first k elements of a queue behind the others neither loses
\* nor repeats one (the requeueing loop of select_new_process).
LEMMA RotateProperties ==
  ASSUME NEW T, NEW q \in Seq(T), NEW k \in 1..Len(q)
  PROVE  /\ Rotate(q, k) \in Seq(T)
         /\ Range(Rotate(q, k)) = Range(q)
         /\ IsInjective(q) => IsInjective(Rotate(q, k))
<1> DEFINE n == Len(q)
           r == Rotate(q, k)
<1>1. n \in Nat /\ DOMAIN q = 1..n /\ k \in 1..n
  OBVIOUS
<1>2. /\ r \in Seq(T) /\ Len(r) = n /\ DOMAIN r = 1..n
      /\ \A i \in 1..n : r[i] = IF i <= n - k THEN q[k + i] ELSE q[i - (n - k)]
  BY DEF Rotate
<1> HIDE DEF r, n
<1>3. ASSUME NEW i \in 1..n PROVE r[i] \in Range(q)
  <2>1. CASE i <= n - k
    <3>1. r[i] = q[k + i] /\ k + i \in 1..n
      BY <1>1, <1>2, <2>1
    <3> QED BY <1>1, <3>1 DEF Range
  <2>2. CASE ~ (i <= n - k)
    <3>1. r[i] = q[i - (n - k)] /\ i - (n - k) \in 1..n
      BY <1>1, <1>2, <2>2
    <3> QED BY <1>1, <3>1 DEF Range
  <2> QED BY <2>1, <2>2
<1>4. ASSUME NEW j \in 1..n PROVE \E i \in 1..n : r[i] = q[j]
  <2>1. CASE j <= k
    <3>1. j + (n - k) \in 1..n /\ ~ (j + (n - k) <= n - k)
          /\ (j + (n - k)) - (n - k) = j
      BY <1>1, <2>1
    <3> QED BY <1>2, <3>1
  <2>2. CASE ~ (j <= k)
    <3>1. j - k \in 1..n /\ j - k <= n - k /\ k + (j - k) = j
      BY <1>1, <2>2
    <3> QED BY <1>2, <3>1
  <2> QED BY <2>1, <2>2
<1>5. Range(r) = Range(q)
  <2>1. \A i \in DOMAIN r : r[i] \in Range(q)
    BY <1>2, <1>3
  <2>2. ASSUME NEW x \in Range(q) PROVE \E i \in DOMAIN r : x = r[i]
    <3>1. PICK j \in 1..n : x = q[j]
      BY <1>1 DEF Range
    <3>2. PICK i \in 1..n : r[i] = q[j]
      BY <1>4
    <3>3. i \in DOMAIN r
      BY <1>2
    <3> QED BY <3>1, <3>2, <3>3
  <2> QED BY <2>1, <2>2 DEF Range
<1>6. ASSUME IsInjective(q) PROVE IsInjective(r)
  <2> SUFFICES ASSUME NEW i \in 1..n, NEW j \in 1..n, r[i] = r[j] PROVE i = j
    BY <1>2 DEF IsInjective
  <2> DEFINE at(x) == IF x <= n - k THEN k + x ELSE x - (n - k)
  <2>1. r[i] = q[at(i)] /\ r[j] = q[at(j)] /\ at(i) \in 1..n /\ at(j) \in 1..n
    BY <1>1, <1>2
  <2>2. at(i) = at(j)
    <3> HIDE DEF at
    <3> QED BY <1>1, <1>6, <2>1 DEF IsInjective
  <2> QED BY <1>1, <2>2
<1> QED BY <1>2, <1>5, <1>6 DEF r

\* Enqueuing several pids that are not in the queue.
LEMMA EnqueueAllProperties ==
  ASSUME NEW T, NEW q \in Seq(T), NEW v \in Seq(T)
  PROVE  /\ EnqueueAll(q, v) \in Seq(T)
         /\ Range(EnqueueAll(q, v)) = Range(q) \cup Range(v)
         /\ IsInjective(q) /\ IsInjective(v) /\ Range(q) \cap Range(v) = {}
              => IsInjective(EnqueueAll(q, v))
<1> DEFINE n == Len(q)
           m == Len(v)
           r == EnqueueAll(q, v)
<1>1. n \in Nat /\ DOMAIN q = 1..n /\ m \in Nat /\ DOMAIN v = 1..m
  OBVIOUS
<1>2. /\ r \in Seq(T) /\ DOMAIN r = 1..(n + m)
      /\ \A i \in 1..(n + m) : r[i] = IF i <= n THEN q[i] ELSE v[i - n]
  BY DEF EnqueueAll
<1> HIDE DEF r, n, m
<1>3. \A i \in 1..(n + m) : r[i] \in Range(q) \cup Range(v)
  <2> SUFFICES ASSUME NEW i \in 1..(n + m) PROVE r[i] \in Range(q) \cup Range(v)
    OBVIOUS
  <2>1. CASE i <= n
    <3>1. i \in 1..n /\ r[i] = q[i]
      BY <1>1, <1>2, <2>1
    <3> QED BY <1>1, <3>1 DEF Range
  <2>2. CASE ~ (i <= n)
    <3>1. i - n \in 1..m /\ r[i] = v[i - n]
      BY <1>1, <1>2, <2>2
    <3> QED BY <1>1, <3>1 DEF Range
  <2> QED BY <2>1, <2>2
<1>4. \A j \in 1..n : j \in 1..(n + m) /\ r[j] = q[j]
  BY <1>1, <1>2
<1>5. \A j \in 1..m : j + n \in 1..(n + m) /\ r[j + n] = v[j]
  <2> SUFFICES ASSUME NEW j \in 1..m PROVE j + n \in 1..(n + m) /\ r[j + n] = v[j]
    OBVIOUS
  <2>1. j + n \in 1..(n + m) /\ ~ (j + n <= n) /\ (j + n) - n = j
    BY <1>1
  <2> QED BY <1>2, <2>1
<1>6. Range(r) = Range(q) \cup Range(v)
  <2>1. \A x \in Range(q) : \E i \in DOMAIN r : x = r[i]
    BY <1>1, <1>2, <1>4 DEF Range
  <2>2. \A x \in Range(v) : \E i \in DOMAIN r : x = r[i]
    BY <1>1, <1>2, <1>5 DEF Range
  <2> QED BY <1>2, <1>3, <2>1, <2>2 DEF Range
<1>7. ASSUME IsInjective(q), IsInjective(v), Range(q) \cap Range(v) = {}
      PROVE  IsInjective(r)
  <2> SUFFICES ASSUME NEW i \in 1..(n + m), NEW j \in 1..(n + m), r[i] = r[j]
               PROVE  i = j
    BY <1>2 DEF IsInjective
  <2>0. i \in Int /\ j \in Int
    BY <1>1
  <2>1. CASE i <= n /\ j <= n
    <3>1. i \in DOMAIN q /\ j \in DOMAIN q /\ r[i] = q[i] /\ r[j] = q[j]
      BY <1>1, <1>2, <2>1
    <3> QED BY <1>7, <3>1 DEF IsInjective
  <2>2. CASE ~ (i <= n) /\ ~ (j <= n)
    <3>1. i - n \in DOMAIN v /\ j - n \in DOMAIN v
          /\ r[i] = v[i - n] /\ r[j] = v[j - n]
      BY <1>1, <1>2, <2>2
    <3>2. i - n = j - n
      BY <1>7, <3>1 DEF IsInjective
    <3> QED BY <1>1, <2>0, <3>2
  <2>3. CASE i <= n /\ ~ (j <= n)
    <3>1. i \in DOMAIN q /\ j - n \in DOMAIN v /\ r[i] = q[i] /\ r[j] = v[j - n]
      BY <1>1, <1>2, <2>3
    <3> QED BY <1>7, <3>1 DEF Range
  <2>4. CASE ~ (i <= n) /\ j <= n
    <3>1. j \in DOMAIN q /\ i - n \in DOMAIN v /\ r[j] = q[j] /\ r[i] = v[i - n]
      BY <1>1, <1>2, <2>4
    <3> QED BY <1>7, <3>1 DEF Range
  <2> QED BY <2>1, <2>2, <2>3, <2>4
<1> QED BY <1>2, <1>6, <1>7 DEF r

\* Enqueuing one pid that is not in the queue.
LEMMA EnqueueProperties ==
  ASSUME NEW T, NEW q \in Seq(T), NEW x \in T
  PROVE  /\ Enqueue(q, x) \in Seq(T)
         /\ Range(Enqueue(q, x)) = Range(q) \cup {x}
         /\ IsInjective(q) /\ x \notin Range(q) => IsInjective(Enqueue(q, x))
<1>1. Enqueue(q, x) = EnqueueAll(q, <<x>>)
  BY DEF Enqueue, EnqueueAll
<1>2. <<x>> \in Seq(T) /\ DOMAIN <<x>> = {1} /\ <<x>>[1] = x
  OBVIOUS
<1>3. IsInjective(<<x>>) /\ Range(<<x>>) = {x}
  BY <1>2 DEF IsInjective, Range
<1>4. /\ EnqueueAll(q, <<x>>) \in Seq(T)
      /\ Range(EnqueueAll(q, <<x>>)) = Range(q) \cup {x}
      /\ IsInjective(q) /\ Range(q) \cap {x} = {}
           => IsInjective(EnqueueAll(q, <<x>>))
  <2> DEFINE v == <<x>>
  <2>1. v \in Seq(T) /\ IsInjective(v) /\ Range(v) = {x}
    BY <1>2, <1>3
  <2> HIDE DEF v
  <2>2. /\ EnqueueAll(q, v) \in Seq(T)
        /\ Range(EnqueueAll(q, v)) = Range(q) \cup {x}
        /\ IsInjective(q) /\ Range(q) \cap {x} = {}
             => IsInjective(EnqueueAll(q, v))
    BY <2>1, EnqueueAllProperties
  <2> QED BY <2>2 DEF v
<1>5. x \notin Range(q) => Range(q) \cap {x} = {}
  OBVIOUS
<1> QED BY <1>1, <1>4, <1>5, Zenon

\* Pushing every element of a sequence on the empty list.
LEMMA PushAllProperties ==
  ASSUME NEW T, NEW v \in Seq(T)
  PROVE  /\ PushAll(<<>>, v) \in Seq(T)
         /\ Range(PushAll(<<>>, v)) = Range(v)
         /\ IsInjective(v) => IsInjective(PushAll(<<>>, v))
<1> DEFINE m == Len(v)
           r == [k \in DOMAIN v |-> v[Len(v) + 1 - k]]
<1>1. m \in Nat /\ DOMAIN v = 1..m /\ v \in [1..m -> T]
  OBVIOUS
<1>2. \A k \in 1..m : (m + 1) - k \in 1..m /\ (m + 1) - ((m + 1) - k) = k
  BY <1>1
<1>3. r = [k \in 1..m |-> v[(m + 1) - k]]
  BY <1>1
<1>4. r \in [1..m -> T]
  <2> HIDE DEF m, r
  <2> QED BY <1>1, <1>2, <1>3
<1>5. r \in Seq(T) /\ DOMAIN r = 1..m
  <2> HIDE DEF m, r
  <2> QED BY <1>1, <1>4, SeqDef
<1>6. PushAll(<<>>, v) = r
  <2>1. r \in Seq(T)
    BY <1>5
  <2>2. PushAll(<<>>, v) = r \o <<>>
    BY DEF PushAll
  <2> HIDE DEF r
  <2> QED BY <2>1, <2>2, ConcatEmptySeq
<1> HIDE DEF m, r
<1>7. Range(r) = Range(v)
  <2>1. \A k \in 1..m : r[k] \in Range(v)
    BY <1>1, <1>2, <1>3 DEF Range
  <2>2. ASSUME NEW k \in 1..m PROVE \E l \in 1..m : r[l] = v[k]
    <3>1. (m + 1) - k \in 1..m /\ r[(m + 1) - k] = v[k]
      BY <1>2, <1>3
    <3> QED BY <3>1
  <2> QED BY <1>1, <1>5, <2>1, <2>2 DEF Range
<1>8. ASSUME IsInjective(v) PROVE IsInjective(r)
  <2> SUFFICES ASSUME NEW k \in 1..m, NEW l \in 1..m, r[k] = r[l] PROVE k = l
    BY <1>5 DEF IsInjective
  <2>1. (m + 1) - k = (m + 1) - l
    BY <1>1, <1>2, <1>3, <1>8 DEF IsInjective
  <2> QED BY <1>1, <2>1
<1> QED BY <1>5, <1>6, <1>7, <1>8
=============================================================================
