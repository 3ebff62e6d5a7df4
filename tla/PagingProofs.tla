---------------------------- MODULE PagingProofs ----------------------------
(***************************************************************************)
(* The invariants of Paging for every number of frames, pages and slots:   *)
(* memory is private, marked and never lost, and the kernel heap is        *)
(* accounted for, as long as no request runs out of memory half-way.       *)
(***************************************************************************)
EXTENDS Paging, QueueProofs, FunctionTheorems

-----------------------------------------------------------------------------
\* Requests.

\* Step i of a request takes a frame.
Takes(steps, i) == steps[i] # CHUNK \/ ChunkNo(steps, i) > kspare

\* A request maps each page at most once.
Request(steps) ==
  /\ steps \in Seq({CHUNK} \cup Page)
  /\ \A i, j \in 1..Len(steps) :
       steps[i] = steps[j] /\ steps[i] # CHUNK => i = j

\* The pages a request is to map.
PagesAsked(steps) == {v \in Page : \E i \in 1..Len(steps) : steps[i] = v}

\* The pages a request has mapped when it ends or fails, and their frames.
PagesDone(steps) == {v \in Page : \E i \in 1..Done(steps) : steps[i] = v}

PageFrame(steps, v) == FrameOf(steps, CHOOSE i \in 1..Done(steps) : steps[i] = v)

\* What the assumptions on the constants give.
LEMMA ConstFacts ==
  /\ NUM_FRAMES \in Nat /\ NUM_FRAMES - 1 \in Nat
  /\ Frame \subseteq Nat /\ 0 \in Frame /\ IsFiniteSet(Frame)
  /\ BootFrames \subseteq Frame /\ 0 \in BootFrames
  /\ Page \subseteq Nat /\ CHUNK \notin Page /\ 1 \in Page /\ TopPage \subseteq Page
  /\ 1 \notin TopPage /\ 2 \in Page
  /\ HEAP_PAGES \in Nat /\ TOP_PAGES \in Nat
  /\ \A v \in Page : v \in TopPage <=> v > HEAP_PAGES
  /\ Page \subseteq 0..(HEAP_PAGES + TOP_PAGES) /\ HEAP_PAGES + TOP_PAGES \in Nat
  /\ IsFiniteSet(Slots)
<1>1. IsFiniteSet(0..(NUM_FRAMES - 1))
  BY MemoryAssumption, FS_Interval
<1> QED BY <1>1, MemoryAssumption DEF Frame, BootFrames, Page, TopPage, CHUNK

\* Max({0, x}), the way the bounds of Paging are written.
LEMMA MaxZero ==
  ASSUME NEW x \in Int
  PROVE  Max({0, x}) = IF x > 0 THEN x ELSE 0
<1> DEFINE T == {0, x}
           m == IF x > 0 THEN x ELSE 0
<1>1. m \in T /\ \A y \in T : m >= y
  OBVIOUS
<1>2. \A z \in T : (\A y \in T : z >= y) => z = m
  OBVIOUS
<1>3. Max(T) \in T /\ \A y \in T : Max(T) >= y
  <2> HIDE DEF T, m
  <2> QED BY <1>1, Zenon DEF Max
<1> QED BY <1>2, <1>3

\* How the number of chunks grows along a request.
LEMMA ChunkStep ==
  ASSUME NEW s \in Seq(Nat)
  PROVE  /\ \A i \in 0..Len(s) : ChunkNo(s, i) \in Nat
         /\ ChunkNo(s, 0) = 0
         /\ \A i \in 1..Len(s) : ChunkNo(s, i) =
              ChunkNo(s, i - 1) + (IF s[i] = CHUNK THEN 1 ELSE 0)
         /\ \A i, j \in 0..Len(s) : i <= j =>
              /\ ChunkNo(s, i) <= ChunkNo(s, j)
              /\ ChunkNo(s, j) <= ChunkNo(s, i) + (j - i)
         /\ \A k \in 1..ChunkNo(s, Len(s)) : \E i \in 1..Len(s) :
              s[i] = CHUNK /\ ChunkNo(s, i) = k
<1> DEFINE n == Len(s)
           S == {j \in 1..n : s[j] = CHUNK}
           upto(i) == {j \in 1..i : s[j] = CHUNK}
<1>1. n \in Nat /\ S \subseteq 0..n
  OBVIOUS
<1>2. ASSUME NEW i \in 0..n PROVE ChunkNo(s, i) = Rank(S, i)
  <2>1. {j \in 1..i : s[j] = CHUNK} = {j \in S : j <= i}
    BY <1>1
  <2> QED BY <2>1 DEF ChunkNo, Rank
<1>3. /\ \A i \in Int : Rank(S, i) \in Nat
      /\ \A i \in Int : i + 1 \in S => Rank(S, i + 1) = Rank(S, i) + 1
      /\ \A i \in Int : i + 1 \notin S => Rank(S, i + 1) = Rank(S, i)
      /\ Rank(S, -1) = 0 /\ Rank(S, n) = Cardinality(S)
  <2> HIDE DEF S, n
  <2> QED BY <1>1, RankStep
<1>4. ASSUME NEW i \in 0..n PROVE ChunkNo(s, i) \in Nat
  <2>1. i \in Int
    BY <1>1
  <2> HIDE DEF S, n
  <2> QED BY <1>2, <1>3, <2>1
<1>5. ChunkNo(s, 0) = 0
  <2>1. 0 \notin S /\ -1 + 1 = 0 /\ -1 \in Int
    OBVIOUS
  <2>2. Rank(S, 0) = 0
    <3> HIDE DEF S
    <3> QED BY <1>3, <2>1
  <2> QED BY <1>1, <1>2, <2>2
<1>6. ASSUME NEW i \in 1..n
      PROVE  ChunkNo(s, i) = ChunkNo(s, i - 1) + (IF s[i] = CHUNK THEN 1 ELSE 0)
  <2>1. /\ i - 1 \in Int /\ (i - 1) + 1 = i /\ i - 1 \in 0..n /\ i \in 0..n
        /\ i \in S <=> s[i] = CHUNK
    BY <1>1
  <2> HIDE DEF S, n
  <2>2. Rank(S, i) = Rank(S, i - 1) + (IF i \in S THEN 1 ELSE 0)
    BY <1>3, <2>1, SMTT(30)
  <2>3. ChunkNo(s, i) = Rank(S, i) /\ ChunkNo(s, i - 1) = Rank(S, i - 1)
    BY <1>2, <2>1
  <2> QED BY <2>1, <2>2, <2>3
<1>7. ASSUME NEW i \in 0..n, NEW j \in 0..n, i <= j
      PROVE  /\ ChunkNo(s, i) <= ChunkNo(s, j)
             /\ ChunkNo(s, j) <= ChunkNo(s, i) + (j - i)
  <2> DEFINE new == (i + 1)..j
             both == upto(i) \cup new
  <2>1. /\ IsFiniteSet(new) /\ Cardinality(new) = j - i
    <3>1. i + 1 \in Int /\ j \in Int
      BY <1>1
    <3>2. /\ IsFiniteSet(new)
          /\ Cardinality(new) = IF i + 1 > j THEN 0 ELSE j - (i + 1) + 1
      BY <3>1, FS_Interval
    <3> QED BY <1>7, <3>2
  <2>2. IsFiniteSet(upto(i)) /\ IsFiniteSet(upto(j))
    <3>1. IsFiniteSet(1..i) /\ IsFiniteSet(1..j)
      BY <1>1, FS_Interval
    <3> QED BY <3>1, FS_Subset
  <2>3. upto(i) \subseteq upto(j) /\ upto(j) \subseteq both /\ upto(i) \cap new = {}
    BY <1>7
  <2> HIDE DEF upto, new
  <2>4. Cardinality(upto(i)) <= Cardinality(upto(j))
    BY <2>2, <2>3, FS_Subset
  <2>5. /\ IsFiniteSet(both)
        /\ Cardinality(both) = Cardinality(upto(i)) + Cardinality(new) - 0
    <3>1. Cardinality({}) = 0
      BY FS_EmptySet
    <3> QED BY <2>1, <2>2, <2>3, <3>1, FS_Union
  <2>6. Cardinality(upto(j)) <= Cardinality(both)
    BY <2>3, <2>5, FS_Subset
  <2>7. /\ ChunkNo(s, i) = Cardinality(upto(i))
        /\ ChunkNo(s, j) = Cardinality(upto(j))
    BY DEF ChunkNo, upto
  <2>8. Cardinality(upto(i)) \in Nat /\ Cardinality(upto(j)) \in Nat
    BY <2>2, FS_CardinalityType
  <2> QED BY <2>1, <2>4, <2>5, <2>6, <2>7, <2>8
<1>8. ASSUME NEW k \in 1..ChunkNo(s, n)
      PROVE  \E i \in 1..n : s[i] = CHUNK /\ ChunkNo(s, i) = k
  <2>1. k \in 1..Cardinality(S)
    BY <1>1, <1>2, <1>3
  <2>2. PICK i \in S : Rank(S, i) = k
    <3> HIDE DEF S, n
    <3> QED BY <1>1, <2>1, RankReached
  <2> QED BY <1>2, <2>2
<1> QED BY <1>4, <1>5, <1>6, <1>7, <1>8

\* A request takes a frame at exactly the steps that need one.
LEMMA TakenStep ==
  ASSUME NEW s \in Seq(Nat), kspare \in Nat
  PROVE  /\ \A i \in 0..Len(s) : FramesTaken(s, i) \in Nat
         /\ FramesTaken(s, 0) = 0
         /\ \A i \in 1..Len(s) : FramesTaken(s, i) =
              FramesTaken(s, i - 1) + (IF Takes(s, i) THEN 1 ELSE 0)
         /\ \A i, j \in 0..Len(s) : i <= j =>
              FramesTaken(s, i) <= FramesTaken(s, j)
<1> DEFINE n == Len(s)
           c(i) == ChunkNo(s, i)
           extra(i) == IF c(i) - kspare > 0 THEN c(i) - kspare ELSE 0
<1>0. n \in Nat /\ \A i \in 0..n : c(i) \in Nat
  BY ChunkStep
<1>1. /\ n \in Nat
      /\ c(0) = 0
      /\ \A i \in 1..n : c(i) = c(i - 1) + (IF s[i] = CHUNK THEN 1 ELSE 0)
      /\ \A i, j \in 0..n : i <= j => c(i) <= c(j) /\ c(j) <= c(i) + (j - i)
  BY ChunkStep
<1> HIDE DEF c, n
<1>t. ASSUME NEW i \in 0..n
      PROVE  i \in Nat /\ c(i) \in Nat /\ c(i) - kspare \in Int
  <2>1. i \in Nat /\ c(i) \in Nat
    BY <1>0
  <2> QED BY <2>1
<1>2. ASSUME NEW i \in 0..n PROVE FramesTaken(s, i) = i - c(i) + extra(i)
  <2>1. c(i) - kspare \in Int
    BY <1>t
  <2>2. Max({0, c(i) - kspare}) = extra(i)
    BY <2>1, MaxZero
  <2> QED BY <2>2 DEF FramesTaken, c
<1>3. \A i \in 0..n : i - c(i) >= 0
  <2> SUFFICES ASSUME NEW i \in 0..n PROVE c(i) <= i
    BY <1>1, <1>t
  <2>1. 0 \in 0..n /\ 0 <= i
    BY <1>1
  <2>2. c(i) <= c(0) + (i - 0)
    BY <1>1, <2>1
  <2> QED BY <1>1, <2>2
<1>4. ASSUME NEW i \in 0..n PROVE FramesTaken(s, i) \in Nat
  <2>1. /\ i \in Nat /\ c(i) \in Nat /\ i - c(i) >= 0
        /\ FramesTaken(s, i) = i - c(i) + extra(i)
    BY <1>t, <1>2, <1>3
  <2> QED BY <2>1
<1>5. FramesTaken(s, 0) = 0
  BY <1>1, <1>2
<1>6. ASSUME NEW i \in 1..n
      PROVE  FramesTaken(s, i) =
               FramesTaken(s, i - 1) + (IF Takes(s, i) THEN 1 ELSE 0)
  <2>0. i \in 0..n /\ i - 1 \in 0..n /\ i \in Nat
    BY <1>1
  <2>1. c(i) \in Nat /\ c(i - 1) \in Nat
    BY <1>t, <2>0
  <2>2. Takes(s, i) <=> s[i] # CHUNK \/ c(i) > kspare
    BY DEF Takes, c
  <2>3. c(i) = c(i - 1) + (IF s[i] = CHUNK THEN 1 ELSE 0)
    BY <1>1
  <2>4. FramesTaken(s, i) = i - c(i) + extra(i)
    BY <1>2, <2>0
  <2>5. FramesTaken(s, i - 1) = (i - 1) - c(i - 1) + extra(i - 1)
    BY <1>2, <2>0
  <2> QED BY <2>0, <2>1, <2>2, <2>3, <2>4, <2>5
<1>7. ASSUME NEW i \in 0..n, NEW j \in 0..n, i <= j
      PROVE  FramesTaken(s, i) <= FramesTaken(s, j)
  <2>0. i \in Nat /\ j \in Nat /\ c(i) \in Nat /\ c(j) \in Nat
    BY <1>t
  <2>1. c(i) <= c(j) /\ c(j) <= c(i) + (j - i)
    BY <1>1, <1>7
  <2>2. extra(i) <= extra(j) /\ i - c(i) <= j - c(j)
    BY <2>0, <2>1
  <2>3. /\ FramesTaken(s, i) = i - c(i) + extra(i)
        /\ FramesTaken(s, j) = j - c(j) + extra(j)
    BY <1>2
  <2>4. extra(i) \in Int /\ extra(j) \in Int
    BY <2>0
  <2> HIDE DEF extra
  <2>5. i - c(i) \in Int /\ j - c(j) \in Int
    BY <2>0
  <2>6. \A a, b, x, y \in Int : a <= b /\ x <= y => a + x <= b + y
    OBVIOUS
  <2> QED BY <2>2, <2>3, <2>4, <2>5, <2>6
<1> QED BY <1>4, <1>5, <1>6, <1>7 DEF n

\* The free frames, each once.
LEMMA FreeFramesFacts ==
  ASSUME frames \subseteq Frame
  PROVE  /\ Len(FreeFrames) \in Nat
         /\ \A k \in 1..Len(FreeFrames) : FreeFrames[k] \in Frame \ frames
         /\ \A k, l \in 1..Len(FreeFrames) : FreeFrames[k] = FreeFrames[l] => k = l
<1> DEFINE F == Frame \ frames
<1>1. F \subseteq 0..(NUM_FRAMES - 1) /\ NUM_FRAMES - 1 \in Nat
  BY ConstFacts DEF Frame
<1>2. FreeFrames = Ascending(F)
  BY DEF FreeFrames
<1> HIDE DEF F
<1>3. Ascending(F) \in Seq(F) /\ IsInjective(Ascending(F))
  BY <1>1, AscendingProperties
<1>4. FreeFrames \in Seq(F) /\ IsInjective(FreeFrames)
  BY <1>2, <1>3
<1>5. DOMAIN FreeFrames = 1..Len(FreeFrames) /\ Len(FreeFrames) \in Nat
      /\ \A k \in 1..Len(FreeFrames) : FreeFrames[k] \in F
  BY <1>4
<1> QED BY <1>4, <1>5 DEF F, IsInjective

\* The steps that succeed, and the frames they take.
LEMMA DoneFacts ==
  ASSUME NEW s \in Seq(Nat), kspare \in Nat, frames \subseteq Frame
  PROVE  /\ Done(s) \in 0..Len(s)
         /\ FramesTaken(s, Done(s)) \in 0..Len(FreeFrames)
<1> DEFINE T == {i \in 0..Len(s) : FramesTaken(s, i) <= Len(FreeFrames)}
<1>1. 0 \in T /\ T \subseteq 0..Len(s) /\ Len(s) \in Nat
  BY TakenStep, FreeFramesFacts
<1>2. Done(s) = Max(T)
  BY DEF Done
<1>3. Done(s) \in T
  <2> HIDE DEF T
  <2> QED BY <1>1, <1>2, MaxIsGreatest
<1> QED BY <1>3, TakenStep, FreeFramesFacts

\* Each step that takes a frame gets a free one, no two steps the same one,
\* and the frames of these steps are the frames taken.
LEMMA StepFrames ==
  ASSUME NEW s \in Seq(Nat), kspare \in Nat, frames \subseteq Frame
  PROVE  /\ \A i \in 1..Done(s) : Takes(s, i) =>
              FrameOf(s, i) \in TakenFrames(s)
         /\ TakenFrames(s) \subseteq Frame \ frames
         /\ \A i, j \in 1..Done(s) :
              Takes(s, i) /\ Takes(s, j) /\ FrameOf(s, i) = FrameOf(s, j) => i = j
         /\ \A f \in TakenFrames(s) : \E i \in 1..Done(s) :
              Takes(s, i) /\ f = FrameOf(s, i)
<1> DEFINE d == Done(s)
           t(i) == FramesTaken(s, i)
           n == Len(s)
           m == Len(FreeFrames)
<1>1. n \in Nat /\ m \in Nat /\ d \in 0..n /\ t(d) \in 0..m
  BY DoneFacts, FreeFramesFacts
<1>2. /\ \A i \in 0..n : t(i) \in Nat
      /\ t(0) = 0
      /\ \A i \in 1..n : t(i) = t(i - 1) + (IF Takes(s, i) THEN 1 ELSE 0)
      /\ \A i, j \in 0..n : i <= j => t(i) <= t(j)
  BY TakenStep
<1>3. \A k, l \in 1..m : FreeFrames[k] = FreeFrames[l] => k = l
  BY FreeFramesFacts
<1>4. TakenFrames(s) = {FreeFrames[k] : k \in 1..t(d)}
  BY DEF TakenFrames
<1>5. \A i : FrameOf(s, i) = FreeFrames[t(i)]
  BY DEF FrameOf
<1> HIDE DEF d, t, n, m
<1>6. ASSUME NEW i \in 1..d, Takes(s, i)
      PROVE  t(i) \in 1..t(d) /\ t(i) = t(i - 1) + 1
  <2>1. i \in 1..n /\ i \in 0..n /\ i - 1 \in 0..n /\ i <= d /\ d \in 0..n
    BY <1>1
  <2>2. t(i) = t(i - 1) + 1 /\ t(i - 1) \in Nat /\ t(i) <= t(d) /\ t(d) \in Nat
    BY <1>2, <1>6, <2>1
  <2> QED BY <2>2
<1>7. \A i \in 1..d : Takes(s, i) => FrameOf(s, i) \in TakenFrames(s)
  BY <1>4, <1>5, <1>6
<1>8. TakenFrames(s) \subseteq Frame \ frames
  <2> SUFFICES ASSUME NEW k \in 1..t(d) PROVE FreeFrames[k] \in Frame \ frames
    BY <1>4
  <2>1. k \in 1..m
    BY <1>1
  <2> QED BY <2>1, FreeFramesFacts DEF m
<1>9. ASSUME NEW i \in 1..d, NEW j \in 1..d, Takes(s, i), Takes(s, j),
             FrameOf(s, i) = FrameOf(s, j), i < j
      PROVE  FALSE
  <2>1. t(i) \in 1..t(d) /\ t(j) \in 1..t(d) /\ t(j) = t(j - 1) + 1
    BY <1>6, <1>9
  <2>2. t(i) \in 1..m /\ t(j) \in 1..m
    BY <1>1, <2>1
  <2>3. t(i) = t(j)
    BY <1>3, <1>5, <1>9, <2>2
  <2>4. i \in 0..n /\ j - 1 \in 0..n /\ i <= j - 1
    BY <1>1, <1>9
  <2>5. t(i) <= t(j - 1) /\ t(j - 1) \in Nat
    BY <1>2, <2>4
  <2> QED BY <2>1, <2>3, <2>5
<1>10. ASSUME NEW i \in 1..d, NEW j \in 1..d, Takes(s, i), Takes(s, j),
              FrameOf(s, i) = FrameOf(s, j)
       PROVE  i = j
  <2>1. i \in Int /\ j \in Int
    BY <1>1
  <2> QED BY <1>9, <1>10, <2>1
<1>11. ASSUME NEW k \in 1..t(d)
       PROVE  \E i \in 1..d : Takes(s, i) /\ t(i) = k
  <2> DEFINE T == {i \in Nat : i <= d /\ t(i) >= k}
  <2>1. d \in T /\ T \subseteq Nat
    BY <1>1
  <2>2. PICK i \in T : \A y \in T : i <= y
    <3> HIDE DEF T
    <3> QED BY <2>1, LeastExists
  <2>3. i \in Nat /\ i <= d /\ t(i) >= k /\ k \in Nat /\ k >= 1
    BY <1>1, <2>2
  <2>4. i # 0
    BY <1>2, <2>3
  <2>5. i \in 1..n /\ i - 1 \in 0..n /\ i - 1 \in Nat /\ i - 1 <= d
    BY <1>1, <2>3, <2>4
  <2>6. i - 1 \notin T
    BY <2>2, <2>3
  <2>7. t(i - 1) \in Nat /\ t(i - 1) < k
    BY <1>2, <2>3, <2>5, <2>6
  <2>8. t(i) = t(i - 1) + (IF Takes(s, i) THEN 1 ELSE 0)
    BY <1>2, <2>5
  <2>9. Takes(s, i) /\ t(i) = k
    BY <2>3, <2>7, <2>8
  <2>10. i \in 1..d
    BY <1>1, <2>3, <2>4
  <2> QED BY <2>9, <2>10
<1>12. \A f \in TakenFrames(s) : \E i \in 1..d : Takes(s, i) /\ f = FrameOf(s, i)
  <2> SUFFICES ASSUME NEW k \in 1..t(d)
               PROVE  \E i \in 1..d : Takes(s, i) /\ FreeFrames[k] = FrameOf(s, i)
    BY <1>4
  <2>1. PICK i \in 1..d : Takes(s, i) /\ t(i) = k
    BY <1>11
  <2> QED BY <1>5, <2>1
<1> QED BY <1>7, <1>8, <1>10, <1>12 DEF d

\* The number of elements is kept by a one-to-one map onto a set.
LEMMA SameSize ==
  ASSUME NEW S, NEW T, IsFiniteSet(S), NEW f \in [S -> T],
         \A x, y \in S : f[x] = f[y] => x = y,
         \A y \in T : \E x \in S : f[x] = y
  PROVE  IsFiniteSet(T) /\ Cardinality(T) = Cardinality(S)
<1>1. f \in Bijection(S, T)
  BY Fun_IsBij
<1>2. ExistsBijection(S, T)
  BY <1>1, Fun_ExistsBij
<1> QED BY <1>2, FS_Bijection

\* The frames that extend the kernel heap: one for each chunk behind the spare
\* ones.
LEMMA ChunkFramesCount ==
  ASSUME NEW s \in Seq(Nat), kspare \in Nat, frames \subseteq Frame
  PROVE  /\ ChunksTaken(s) \in Nat
         /\ IsFiniteSet(ChunkFrames(s))
         /\ Cardinality(ChunkFrames(s)) =
              IF ChunksTaken(s) > kspare THEN ChunksTaken(s) - kspare ELSE 0
<1> DEFINE d == Done(s)
           n == Len(s)
           c(i) == ChunkNo(s, i)
           J == {j \in 1..d : s[j] = CHUNK /\ c(j) > kspare}
           K == (kspare + 1)..c(d)
<1>1. n \in Nat /\ d \in 0..n
  BY DoneFacts
<1>2. \A i \in 0..n : c(i) \in Nat
  BY ChunkStep
<1>3. \A i \in 1..n : s[i] = CHUNK => c(i) = c(i - 1) + 1
  BY ChunkStep
<1>4. \A i, j \in 0..n : i <= j => c(i) <= c(j)
  BY ChunkStep
<1>5. \A k \in 1..c(n) : \E i \in 1..n : s[i] = CHUNK /\ c(i) = k
  BY ChunkStep
<1>6. ChunksTaken(s) = c(d)
  BY DEF ChunksTaken
<1>7. ChunkFrames(s) = {FrameOf(s, i) : i \in J}
  BY DEF ChunkFrames
<1>8. \A j \in J : j \in 1..d /\ Takes(s, j)
  BY DEF Takes
<1> HIDE DEF c, n
<1>9. ASSUME NEW i \in 1..n, NEW j \in 1..n, s[j] = CHUNK, i < j PROVE c(i) < c(j)
  <2>1. i \in 0..n /\ j - 1 \in 0..n /\ i <= j - 1
    BY <1>1, <1>9
  <2>2. c(i) <= c(j - 1) /\ c(i) \in Nat /\ c(j - 1) \in Nat
    BY <1>2, <1>4, <2>1
  <2>3. c(j) = c(j - 1) + 1
    BY <1>3, <1>9
  <2> QED BY <2>2, <2>3
<1>10. c(d) \in Nat /\ kspare + 1 \in Int
  BY <1>1, <1>2
<1>11. ASSUME NEW j \in J PROVE c(j) \in K
  <2>1. j \in 0..n /\ d \in 0..n /\ j <= d
    BY <1>1
  <2>2. c(j) \in Nat /\ c(j) <= c(d)
    BY <1>2, <1>4, <2>1
  <2> QED BY <1>10, <2>2
<1>12. ASSUME NEW k \in K PROVE \E j \in J : c(j) = k
  <2>1. k \in Nat /\ k >= 1 /\ k > kspare /\ k <= c(d)
    BY <1>10
  <2>2. c(d) <= c(n) /\ c(n) \in Nat
    BY <1>1, <1>2, <1>4
  <2>3. k \in 1..c(n)
    BY <1>10, <2>1, <2>2
  <2>4. PICK i \in 1..n : s[i] = CHUNK /\ c(i) = k
    BY <1>5, <2>3
  <2>5. i <= d
    <3>1. CASE d = 0
      <4>1. CASE d < i
        <5>1. d \in 0..n /\ i - 1 \in 0..n /\ d <= i - 1
          BY <1>1, <4>1
        <5>2. c(d) <= c(i - 1) /\ c(i - 1) \in Nat /\ c(i) = c(i - 1) + 1
          BY <1>2, <1>3, <1>4, <2>4, <5>1
        <5> QED BY <1>10, <2>1, <2>4, <5>2
      <4> QED BY <1>1, <4>1
    <3>2. CASE d # 0 /\ d < i
      <4>1. d \in 1..n
        BY <1>1, <3>2
      <4>2. c(d) < c(i)
        BY <1>9, <2>4, <3>2, <4>1
      <4> QED BY <1>10, <2>1, <2>4, <4>2
    <3> QED BY <1>1, <3>1, <3>2
  <2> QED BY <1>1, <2>1, <2>4, <2>5
<1>13. \A i, j \in J : c(i) = c(j) => i = j
  <2> SUFFICES ASSUME NEW i \in J, NEW j \in J, c(i) = c(j), i # j PROVE FALSE
    OBVIOUS
  <2>1. i \in 1..n /\ j \in 1..n /\ s[i] = CHUNK /\ s[j] = CHUNK
    BY <1>1
  <2>2. c(i) \in Nat /\ c(j) \in Nat
    BY <1>1, <1>2, <2>1
  <2>3. i < j \/ j < i
    BY <2>1
  <2> QED BY <1>9, <2>1, <2>2, <2>3
<1>14. IsFiniteSet(J)
  <2>1. IsFiniteSet(1..d)
    BY <1>1, FS_Interval
  <2> QED BY <2>1, FS_Subset
<1> HIDE DEF J, K
<1>15. Cardinality(K) = Cardinality(J)
  <2> DEFINE f == [j \in J |-> c(j)]
  <2>1. /\ f \in [J -> K]
        /\ \A x, y \in J : f[x] = f[y] => x = y
        /\ \A y \in K : \E x \in J : f[x] = y
    BY <1>11, <1>12, <1>13
  <2> HIDE DEF f
  <2> QED BY <1>14, <2>1, SameSize
<1>16. IsFiniteSet(ChunkFrames(s)) /\ Cardinality(ChunkFrames(s)) = Cardinality(J)
  <2> DEFINE f == [j \in J |-> FrameOf(s, j)]
  <2>1. /\ f \in [J -> ChunkFrames(s)]
        /\ \A y \in ChunkFrames(s) : \E x \in J : f[x] = y
    BY <1>7
  <2>2. \A x, y \in J : f[x] = f[y] => x = y
    BY <1>8, StepFrames
  <2> HIDE DEF f
  <2> QED BY <1>14, <2>1, <2>2, SameSize
<1>17. Cardinality(K) = IF kspare + 1 > c(d) THEN 0 ELSE c(d) - (kspare + 1) + 1
  <2>1. c(d) \in Int
    BY <1>10
  <2> QED BY <1>10, <2>1, FS_Interval DEF K
<1> QED BY <1>6, <1>10, <1>15, <1>16, <1>17

\* What a request leaves: its pages have frames of their own, which are not
\* those of its chunks, and these are all the frames it took.
LEMMA RequestFrames ==
  ASSUME NEW s, Request(s), kspare \in Nat, frames \subseteq Frame
  PROVE  /\ s \in Seq(Nat)
         /\ \A v \in PagesDone(s) :
              PageFrame(s, v) \in TakenFrames(s) \ ChunkFrames(s)
         /\ \A v, w \in PagesDone(s) : PageFrame(s, v) = PageFrame(s, w) => v = w
         /\ TakenFrames(s) \subseteq Frame \ frames
         /\ ChunkFrames(s) \subseteq TakenFrames(s)
         /\ \A f \in TakenFrames(s) \ ChunkFrames(s) :
              \E v \in PagesDone(s) : f = PageFrame(s, v)
<1> DEFINE d == Done(s)
           at(v) == CHOOSE i \in 1..d : s[i] = v
<1>1. s \in Seq(Nat) /\ Len(s) \in Nat /\ DOMAIN s = 1..Len(s)
      /\ \A i \in 1..Len(s) : s[i] \in {CHUNK} \cup Page
  <2>1. s \in Seq({CHUNK} \cup Page)
    BY DEF Request
  <2>2. {CHUNK} \cup Page \subseteq Nat
    BY ConstFacts DEF CHUNK
  <2>3. s \in Seq(Nat)
    BY <2>1, <2>2, SeqMonotonic
  <2> QED BY <2>1, <2>3
<1>2. d \in 0..Len(s) /\ \A i \in 1..d : i \in 1..Len(s)
  <2>1. d \in 0..Len(s)
    BY <1>1, DoneFacts
  <2> QED BY <1>1, <2>1
<1>3. \A i \in 1..d : Takes(s, i) => FrameOf(s, i) \in TakenFrames(s)
  BY <1>1, StepFrames
<1>4. TakenFrames(s) \subseteq Frame \ frames
  BY <1>1, StepFrames
<1>5. \A i, j \in 1..d :
        Takes(s, i) /\ Takes(s, j) /\ FrameOf(s, i) = FrameOf(s, j) => i = j
  BY <1>1, StepFrames
<1>6. \A f \in TakenFrames(s) : \E i \in 1..d : Takes(s, i) /\ f = FrameOf(s, i)
  BY <1>1, StepFrames
<1>7. \A i \in 1..d : i \in {j \in 1..d : s[j] = CHUNK /\ ChunkNo(s, j) > kspare}
                        <=> Takes(s, i) /\ s[i] = CHUNK
  BY DEF Takes
<1>8. ChunkFrames(s) = {FrameOf(s, i) : i \in {j \in 1..d :
                          s[j] = CHUNK /\ ChunkNo(s, j) > kspare}}
  BY DEF ChunkFrames
<1>9. /\ \A f \in ChunkFrames(s) : \E i \in 1..d :
           Takes(s, i) /\ s[i] = CHUNK /\ f = FrameOf(s, i)
      /\ \A i \in 1..d : Takes(s, i) /\ s[i] = CHUNK => FrameOf(s, i) \in ChunkFrames(s)
  BY <1>7, <1>8
<1>10. ASSUME NEW v \in PagesDone(s)
       PROVE  /\ at(v) \in 1..d /\ s[at(v)] = v /\ v \in Page
              /\ Takes(s, at(v)) /\ PageFrame(s, v) = FrameOf(s, at(v))
  <2>1. v \in Page /\ \E i \in 1..d : s[i] = v
    BY DEF PagesDone
  <2>2. at(v) \in 1..d /\ s[at(v)] = v
    BY <2>1, Zenon
  <2>3. v # CHUNK
    BY <2>1, ConstFacts
  <2> QED BY <2>1, <2>2, <2>3 DEF Takes, PageFrame
<1> HIDE DEF d, at
<1>11. ASSUME NEW v \in PagesDone(s)
       PROVE  PageFrame(s, v) \in TakenFrames(s) \ ChunkFrames(s)
  <2>1. PageFrame(s, v) \in TakenFrames(s)
    BY <1>3, <1>10
  <2>2. ASSUME PageFrame(s, v) \in ChunkFrames(s) PROVE FALSE
    <3>1. PICK i \in 1..d :
            Takes(s, i) /\ s[i] = CHUNK /\ PageFrame(s, v) = FrameOf(s, i)
      BY <1>9, <2>2
    <3>2. i = at(v)
      BY <1>5, <1>10, <3>1
    <3> QED BY <1>10, <3>1, <3>2, ConstFacts
  <2> QED BY <2>1, <2>2
<1>12. ASSUME NEW v \in PagesDone(s), NEW w \in PagesDone(s),
              PageFrame(s, v) = PageFrame(s, w)
       PROVE  v = w
  <2>1. at(v) = at(w)
    BY <1>5, <1>10, <1>12
  <2> QED BY <1>10, <2>1
<1>13. ASSUME NEW f \in TakenFrames(s) \ ChunkFrames(s)
       PROVE  \E v \in PagesDone(s) : f = PageFrame(s, v)
  <2>1. PICK i \in 1..d : Takes(s, i) /\ f = FrameOf(s, i)
    BY <1>6
  <2>2. s[i] # CHUNK
    BY <1>9, <2>1
  <2>3. i \in 1..Len(s) /\ s[i] \in Page
    BY <1>1, <1>2, <2>2
  <2>4. s[i] \in PagesDone(s)
    BY <2>3 DEF PagesDone, d
  <2>5. at(s[i]) = i
    <3>1. at(s[i]) \in 1..Len(s) /\ s[at(s[i])] = s[i]
      BY <1>2, <1>10, <2>4
    <3>2. \A x, y \in 1..Len(s) : s[x] = s[y] /\ s[x] # CHUNK => x = y
      BY DEF Request
    <3> QED BY <2>2, <2>3, <3>1, <3>2
  <2> QED BY <1>10, <2>1, <2>4, <2>5
<1>14. ChunkFrames(s) \subseteq TakenFrames(s)
  BY <1>3, <1>9
<1> QED BY <1>1, <1>4, <1>11, <1>12, <1>13, <1>14

\* The directory a request leaves.
LEMMA MappedFacts ==
  ASSUME NEW s, Request(s), kspare \in Nat, frames \subseteq Frame, NEW e \in Dirs
  PROVE  /\ Mapped(e, s) \in Dirs
         /\ \A v \in PagesDone(s) : /\ Mapped(e, s)[v].present
                                    /\ Mapped(e, s)[v].address = PageFrame(s, v)
         /\ \A v \in Page \ PagesDone(s) : Mapped(e, s)[v] = e[v]
<1>1. \A v \in Page : Mapped(e, s)[v] =
        IF v \in PagesDone(s)
        THEN [present |-> TRUE, address |-> PageFrame(s, v)] ELSE e[v]
  BY DEF Mapped, PagesDone, PageFrame
<1>2. \A v \in PagesDone(s) : v \in Page /\ PageFrame(s, v) \in Frame
  BY RequestFrames DEF PagesDone
<1>3. \A v \in Page : e[v] \in [present : BOOLEAN, address : Frame]
  BY DEF Dirs
<1>4. ASSUME NEW v \in Page
      PROVE  Mapped(e, s)[v] \in [present : BOOLEAN, address : Frame]
  <2>1. CASE v \in PagesDone(s)
    <3>1. Mapped(e, s)[v] = [present |-> TRUE, address |-> PageFrame(s, v)]
      BY <1>1, <2>1
    <3> QED BY <1>2, <2>1, <3>1
  <2>2. CASE v \notin PagesDone(s)
    BY <1>1, <1>3, <2>2
  <2> QED BY <2>1, <2>2
<1>5. Mapped(e, s) = [v \in Page |-> Mapped(e, s)[v]]
  BY DEF Mapped
<1>6. Mapped(e, s) \in Dirs
  BY <1>4, <1>5 DEF Dirs
<1>7. ASSUME NEW v \in PagesDone(s)
      PROVE  /\ Mapped(e, s)[v].present
             /\ Mapped(e, s)[v].address = PageFrame(s, v)
  <2>1. Mapped(e, s)[v] = [present |-> TRUE, address |-> PageFrame(s, v)]
    BY <1>1, <1>2
  <2> QED BY <2>1
<1> QED BY <1>1, <1>6, <1>7

-----------------------------------------------------------------------------
\* The requests of run, of the growth of a heap and of fork.

\* Directory and first table, the pages of A, the second table, those of B.
TwoTables(A, B) == <<CHUNK, CHUNK>> \o A \o <<CHUNK>> \o B

LEMMA TwoTablesAt ==
  ASSUME NEW A \in Seq(Page), NEW B \in Seq(Page)
  PROVE  LET s == TwoTables(A, B)
         IN  /\ s \in Seq({CHUNK} \cup Page)
             /\ Len(s) = Len(A) + Len(B) + 3
             /\ \A i \in 1..Len(s) : s[i] =
                  IF i <= 2 \/ i = Len(A) + 3 THEN CHUNK
                  ELSE IF i <= Len(A) + 2 THEN A[i - 2] ELSE B[i - (Len(A) + 3)]
<1> DEFINE E == {CHUNK} \cup Page
           s1 == <<CHUNK, CHUNK>>
           s2 == s1 \o A
           s3 == s2 \o <<CHUNK>>
           s == s3 \o B
           a == Len(A)
           b == Len(B)
<1>1. a \in Nat /\ b \in Nat /\ A \in Seq(E) /\ B \in Seq(E)
  OBVIOUS
<1>2. /\ s2 \in Seq(E) /\ Len(s2) = a + 2
      /\ \A i \in 1..Len(s2) : s2[i] = IF i <= 2 THEN CHUNK ELSE A[i - 2]
  BY <1>1
<1> HIDE DEF s2, a, b, E
<1>3. /\ s3 \in Seq(E) /\ Len(s3) = a + 3
      /\ \A i \in 1..Len(s3) : s3[i] = IF i <= a + 2 THEN s2[i] ELSE CHUNK
  <2>1. <<CHUNK>> \in Seq(E)
    BY DEF E
  <2> QED BY <1>1, <1>2, <2>1
<1> HIDE DEF s3
<1>4. /\ s \in Seq(E) /\ Len(s) = a + 3 + b
      /\ \A i \in 1..Len(s) : s[i] = IF i <= a + 3 THEN s3[i] ELSE B[i - (a + 3)]
  BY <1>1, <1>3 DEF b
<1>5. s = TwoTables(A, B)
  BY DEF TwoTables, s3, s2
<1> HIDE DEF s
<1>6. ASSUME NEW i \in 1..Len(s)
      PROVE  s[i] = IF i <= 2 \/ i = a + 3 THEN CHUNK
                    ELSE IF i <= a + 2 THEN A[i - 2] ELSE B[i - (a + 3)]
  <2>1. i \in Nat /\ i >= 1
    BY <1>1, <1>4
  <2>2. CASE i <= a + 2
    <3>0. i \in 1..Len(s2) /\ i \in 1..Len(s3) /\ i <= a + 3
      BY <1>1, <1>2, <1>3, <2>1, <2>2
    <3>1. s[i] = s3[i] /\ s3[i] = s2[i]
      BY <1>3, <1>4, <2>2, <3>0
    <3>2. s2[i] = IF i <= 2 THEN CHUNK ELSE A[i - 2]
      BY <1>2, <3>0
    <3> QED BY <1>1, <2>1, <2>2, <3>1, <3>2
  <2>3. CASE i = a + 3
    <3>1. s[i] = s3[i] /\ s3[i] = CHUNK
      BY <1>1, <1>3, <1>4, <2>1, <2>3
    <3> QED BY <2>3, <3>1
  <2>4. CASE i > a + 3
    <3>1. s[i] = B[i - (a + 3)]
      BY <1>1, <1>4, <2>1, <2>4
    <3> QED BY <1>1, <2>1, <2>4, <3>1
  <2> QED BY <1>1, <2>1, <2>2, <2>3, <2>4
<1> QED BY <1>1, <1>4, <1>5, <1>6 DEF E, a, b

\* Such a request has three chunks; the pages of A come behind two of them,
\* those of B behind all three.
LEMMA TwoTablesRequest ==
  ASSUME NEW A \in Seq(Page), NEW B \in Seq(Page), IsInjective(A), IsInjective(B),
         Range(A) \cap Range(B) = {}, NEW s, s = TwoTables(A, B)
  PROVE  /\ Request(s)
         /\ s \in Seq(Nat) /\ Len(s) \in Nat
         /\ ChunkNo(s, Len(s)) = 3
         /\ PagesAsked(s) = Range(A) \cup Range(B)
         /\ \A i \in 1..Len(s) : s[i] \in Range(A) => ChunkNo(s, i) >= 2
         /\ \A i \in 1..Len(s) : s[i] \in Range(B) => ChunkNo(s, i) >= 3
<1> DEFINE n == Len(s)
           a == Len(A)
           b == Len(B)
           c(i) == ChunkNo(s, i)
<1>1. /\ s \in Seq({CHUNK} \cup Page) /\ n = a + b + 3
      /\ \A i \in 1..n : s[i] =
           IF i <= 2 \/ i = a + 3 THEN CHUNK
           ELSE IF i <= a + 2 THEN A[i - 2] ELSE B[i - (a + 3)]
  BY TwoTablesAt
<1>2. /\ a \in Nat /\ b \in Nat /\ DOMAIN A = 1..a /\ DOMAIN B = 1..b
      /\ \A i \in 1..a : A[i] \in Page
      /\ \A i \in 1..b : B[i] \in Page
  OBVIOUS
<1>3. CHUNK \notin Page
  BY ConstFacts
<1>4. s \in Seq(Nat)
  <2>1. {CHUNK} \cup Page \subseteq Nat
    BY ConstFacts DEF CHUNK
  <2> QED BY <1>1, <2>1, SeqMonotonic
<1>5. /\ n \in Nat /\ \A i \in 0..n : c(i) \in Nat
      /\ c(0) = 0
      /\ \A i \in 1..n : c(i) = c(i - 1) + (IF s[i] = CHUNK THEN 1 ELSE 0)
  BY <1>4, ChunkStep
<1>6. \A i, j \in 0..n : i <= j => c(i) <= c(j)
  BY <1>4, ChunkStep
<1>7. /\ \A x, y \in 1..a : A[x] = A[y] => x = y
      /\ \A x, y \in 1..b : B[x] = B[y] => x = y
      /\ \A x \in 1..a : A[x] \in Range(A)
      /\ \A x \in 1..b : B[x] \in Range(B)
      /\ \A v \in Range(A) : v \in Page /\ \E x \in 1..a : A[x] = v
      /\ \A v \in Range(B) : v \in Page /\ \E x \in 1..b : B[x] = v
  BY <1>2 DEF IsInjective, Range
<1> HIDE DEF n, a, b, c
\* Where each element comes from.
<1>8. ASSUME NEW i \in 1..n
      PROVE  \/ i \in {1, 2, a + 3} /\ s[i] = CHUNK
             \/ /\ i - 2 \in 1..a /\ s[i] = A[i - 2]
                /\ s[i] \in Range(A) /\ s[i] \in Page
             \/ /\ i - (a + 3) \in 1..b /\ s[i] = B[i - (a + 3)]
                /\ s[i] \in Range(B) /\ s[i] \in Page
  <2>1. i \in Nat /\ i >= 1 /\ i <= a + b + 3
    BY <1>1, <1>2
  <2>0. s[i] = IF i <= 2 \/ i = a + 3 THEN CHUNK
               ELSE IF i <= a + 2 THEN A[i - 2] ELSE B[i - (a + 3)]
    BY <1>1
  <2>2. CASE i <= 2 \/ i = a + 3
    <3>1. i \in {1, 2, a + 3}
      BY <1>2, <2>1, <2>2
    <3> QED BY <2>0, <2>2, <3>1
  <2>3. CASE i > 2 /\ i <= a + 2
    <3>1. i - 2 \in 1..a /\ s[i] = A[i - 2]
      BY <1>2, <2>0, <2>1, <2>3
    <3> QED BY <1>7, <3>1
  <2>4. CASE i > a + 3
    <3>1. i - (a + 3) \in 1..b /\ s[i] = B[i - (a + 3)]
      BY <1>2, <2>0, <2>1, <2>4
    <3> QED BY <1>7, <3>1
  <2> QED BY <1>2, <2>1, <2>2, <2>3, <2>4
<1>9. ASSUME NEW i \in 1..n, NEW j \in 1..n, s[i] = s[j], s[i] # CHUNK
      PROVE  i = j
  <2>1. i \in Nat /\ j \in Nat
    BY <1>5
  <2>2. CASE s[i] \in Range(A)
    <3>1. i - 2 \in 1..a /\ s[i] = A[i - 2]
      BY <1>8, <1>9, <2>2
    <3>2. j - 2 \in 1..a /\ s[j] = A[j - 2]
      BY <1>8, <1>9, <2>2
    <3>3. i - 2 = j - 2
      BY <1>7, <1>9, <3>1, <3>2
    <3> QED BY <2>1, <3>3
  <2>3. CASE s[i] \in Range(B)
    <3>1. i - (a + 3) \in 1..b /\ s[i] = B[i - (a + 3)]
      BY <1>8, <1>9, <2>3
    <3>2. j - (a + 3) \in 1..b /\ s[j] = B[j - (a + 3)]
      BY <1>8, <1>9, <2>3
    <3>3. i - (a + 3) = j - (a + 3)
      BY <1>7, <1>9, <3>1, <3>2
    <3> QED BY <1>2, <2>1, <3>3
  <2> QED BY <1>8, <1>9, <2>2, <2>3
<1>10. Request(s)
  BY <1>1, <1>9 DEF Request, n
<1>11. ASSUME NEW v \in Range(A) \cup Range(B)
       PROVE  \E i \in 1..n : s[i] = v
  <2>1. CASE v \in Range(A)
    <3>1. PICK x \in 1..a : A[x] = v
      BY <1>7, <2>1
    <3>2. x \in Nat /\ x >= 1 /\ x <= a
      BY <1>2
    <3>3. x + 2 \in 1..n /\ x + 2 > 2 /\ x + 2 # a + 3 /\ x + 2 <= a + 2
      BY <1>1, <1>2, <3>2
    <3>4. s[x + 2] = A[(x + 2) - 2] /\ (x + 2) - 2 = x
      BY <1>1, <3>2, <3>3
    <3> QED BY <3>1, <3>3, <3>4
  <2>2. CASE v \in Range(B)
    <3>1. PICK x \in 1..b : B[x] = v
      BY <1>7, <2>2
    <3>2. x \in Nat /\ x >= 1 /\ x <= b
      BY <1>2
    <3> DEFINE k == x + (a + 3)
    <3>3. /\ k \in 1..n /\ ~ (k <= 2 \/ k = a + 3) /\ ~ (k <= a + 2)
          /\ k - (a + 3) = x
      BY <1>1, <1>2, <3>2
    <3> HIDE DEF k
    <3>4. s[k] = B[k - (a + 3)]
      BY <1>1, <3>3
    <3> QED BY <3>1, <3>3, <3>4
  <2> QED BY <2>1, <2>2
<1>12. {v \in Page : \E i \in 1..n : s[i] = v} = Range(A) \cup Range(B)
  <2>1. \A i \in 1..n : s[i] \in Page => s[i] \in Range(A) \cup Range(B)
    BY <1>3, <1>8
  <2>2. Range(A) \cup Range(B) \subseteq Page
    BY <1>7
  <2> QED BY <1>11, <2>1, <2>2
<1>13. /\ 1 \in 1..n /\ 2 \in 1..n /\ a + 3 \in 1..n /\ a + 2 \in 0..n
       /\ s[1] = CHUNK /\ s[2] = CHUNK /\ s[a + 3] = CHUNK
  BY <1>1, <1>2
<1>14. c(2) = 2
  <2>1. c(1) = c(1 - 1) + 1 /\ c(2) = c(2 - 1) + 1
    BY <1>5, <1>13
  <2> QED BY <1>5, <2>1
<1>15. c(a + 3) >= 3
  <2>1. c(a + 3) = c((a + 3) - 1) + 1 /\ (a + 3) - 1 = a + 2
    BY <1>2, <1>5, <1>13
  <2>2. 2 \in 0..n /\ 2 <= a + 2
    BY <1>2, <1>13
  <2>3. c(2) <= c(a + 2) /\ c(a + 2) \in Nat
    BY <1>5, <1>6, <1>13, <2>2
  <2> QED BY <1>14, <2>1, <2>3
<1>16. ASSUME NEW i \in 1..n, s[i] \in Range(A) PROVE c(i) >= 2
  <2>1. i - 2 \in 1..a
    BY <1>3, <1>7, <1>8, <1>16
  <2>2. 2 \in 0..n /\ i \in 0..n /\ 2 <= i
    BY <1>2, <1>5, <1>13, <2>1
  <2> QED BY <1>6, <1>14, <2>2
<1>17. ASSUME NEW i \in 1..n, s[i] \in Range(B) PROVE c(i) >= 3
  <2>1. i - (a + 3) \in 1..b
    BY <1>3, <1>7, <1>8, <1>17
  <2>2. a + 3 \in 0..n /\ i \in 0..n /\ a + 3 <= i
    BY <1>2, <1>5, <1>13, <2>1
  <2>3. c(a + 3) <= c(i) /\ c(a + 3) \in Nat /\ c(i) \in Nat
    BY <1>5, <1>6, <2>2
  <2> QED BY <1>15, <2>3
<1>18. c(n) = 3
  <2> DEFINE S == {j \in 1..n : s[j] = CHUNK}
             T == {1, 2, a + 3}
  <2>1. S = T
    BY <1>3, <1>8, <1>13
  <2>2. Cardinality(T) = 3
    <3> DEFINE T1 == {1}
               T2 == T1 \cup {2}
               third == a + 3
    <3>1. IsFiniteSet(T1) /\ Cardinality(T1) = 1
      BY FS_Singleton
    <3>2. 2 \notin T1 /\ third \notin T2
      BY <1>2
    <3> HIDE DEF T1
    <3>3. IsFiniteSet(T2) /\ Cardinality(T2) = 2
      BY <3>1, <3>2, FS_AddElement
    <3> HIDE DEF T2, third
    <3>4. Cardinality(T2 \cup {third}) = 3
      <4>1. IsFiniteSet(T2 \cup {third}) /\ Cardinality(T2 \cup {third}) =
              IF third \in T2 THEN Cardinality(T2) ELSE Cardinality(T2) + 1
        BY <3>3, FS_AddElement, Zenon
      <4>2. third \notin T2
        BY <3>2
      <4> QED BY <3>3, <4>1, <4>2
    <3>5. T = T2 \cup {third}
      BY DEF T1, T2, third
    <3> QED BY <3>4, <3>5
  <2> QED BY <2>1, <2>2 DEF c, ChunkNo
<1> QED BY <1>4, <1>5, <1>10, <1>12, <1>16, <1>17, <1>18 DEF n, c, PagesAsked

\* How far such a request comes.
LEMMA TwoTablesDone ==
  ASSUME NEW A \in Seq(Page), NEW B \in Seq(Page), IsInjective(A), IsInjective(B),
         Range(A) \cap Range(B) = {}, NEW s, s = TwoTables(A, B),
         kspare \in Nat, frames \subseteq Frame
  PROVE  /\ Request(s)
         /\ ChunksTaken(s) \in Nat
         /\ PagesDone(s) \subseteq Range(A) \cup Range(B)
         /\ Succeeds(s) => /\ PagesDone(s) = Range(A) \cup Range(B)
                           /\ ChunksTaken(s) = 3
         /\ \A v \in PagesDone(s) : v \in Range(A) => ChunksTaken(s) >= 2
         /\ \A v \in PagesDone(s) : v \in Range(B) => ChunksTaken(s) >= 3
<1> DEFINE n == Len(s)
           d == Done(s)
           R == Range(A)
           Q == Range(B)
<1>1. Request(s) /\ s \in Seq(Nat) /\ n \in Nat
  BY TwoTablesRequest
<1>2. ChunkNo(s, n) = 3
  BY TwoTablesRequest
<1>3. {v \in Page : \E i \in 1..n : s[i] = v} = R \cup Q
  <2>1. PagesAsked(s) = Range(A) \cup Range(B)
    BY TwoTablesRequest
  <2> QED BY <2>1 DEF PagesAsked
<1>4. /\ \A i \in 1..n : s[i] \in R => ChunkNo(s, i) >= 2
      /\ \A i \in 1..n : s[i] \in Q => ChunkNo(s, i) >= 3
  BY TwoTablesRequest
<1>5. d \in 0..n
  BY <1>1, DoneFacts
<1>6. \A i \in 0..n : ChunkNo(s, i) \in Nat
  BY <1>1, ChunkStep
<1>7. \A i, j \in 0..n : i <= j => ChunkNo(s, i) <= ChunkNo(s, j)
  BY <1>1, ChunkStep
<1>8. \A i \in 1..d : i \in 1..n /\ i \in 0..n /\ i <= d
  BY <1>1, <1>5
<1>9. R \subseteq Page /\ Q \subseteq Page
  BY DEF Range
<1>10. /\ ChunksTaken(s) = ChunkNo(s, d)
       /\ PagesDone(s) = {v \in Page : \E i \in 1..d : s[i] = v}
       /\ Succeeds(s) => d = n
  BY DEF ChunksTaken, PagesDone, Succeeds
<1> HIDE DEF n, d, R, Q
<1>11. ChunksTaken(s) \in Nat
  BY <1>5, <1>6, <1>10
<1>12. PagesDone(s) \subseteq R \cup Q
  BY <1>3, <1>8, <1>10
<1>13. ASSUME Succeeds(s)
       PROVE  PagesDone(s) = R \cup Q /\ ChunksTaken(s) = 3
  BY <1>2, <1>3, <1>9, <1>10, <1>13
<1>14. ASSUME NEW v \in PagesDone(s)
       PROVE  /\ v \in R => ChunksTaken(s) >= 2
              /\ v \in Q => ChunksTaken(s) >= 3
  <2>1. PICK i \in 1..d : s[i] = v
    BY <1>10
  <2>2. i \in 1..n /\ i \in 0..n /\ i <= d
    BY <1>8
  <2>3. /\ ChunkNo(s, i) <= ChunkNo(s, d)
        /\ ChunkNo(s, i) \in Nat /\ ChunkNo(s, d) \in Nat
    BY <1>5, <1>6, <1>7, <2>2
  <2>4. /\ v \in R => ChunkNo(s, i) >= 2
        /\ v \in Q => ChunkNo(s, i) >= 3
    BY <1>4, <2>1, <2>2
  <2> QED BY <1>10, <2>3, <2>4
<1> QED BY <1>1, <1>11, <1>12, <1>13, <1>14 DEF R, Q

\* The pages of a set of pages in ascending order.
LEMMA AscendingPages ==
  ASSUME NEW S, S \subseteq Page
  PROVE  /\ Ascending(S) \in Seq(Page) /\ IsInjective(Ascending(S))
         /\ Range(Ascending(S)) = S
<1> DEFINE m == HEAP_PAGES + TOP_PAGES
<1>1. m \in Nat /\ S \subseteq 0..m
  BY ConstFacts
<1> HIDE DEF m
<1>2. /\ Ascending(S) \in Seq(S) /\ IsInjective(Ascending(S))
      /\ Range(Ascending(S)) = S
  BY <1>1, AscendingProperties
<1>3. Ascending(S) \in Seq(Page)
  BY <1>2, SeqMonotonic
<1> QED BY <1>2, <1>3

\* new_page_dir maps the top pages and the first page of the heap.
LEMMA NewDirFacts ==
  ASSUME kspare \in Nat, frames \subseteq Frame
  PROVE  /\ Request(NewDirSteps)
         /\ Succeeds(NewDirSteps) => /\ PagesDone(NewDirSteps) = TopPage \cup {1}
                                     /\ ChunksTaken(NewDirSteps) = 3
<1> DEFINE T == Ascending(TopPage)
           B == T \o <<1>>
           E == <<>>
<1>1. T \in Seq(Page) /\ IsInjective(T) /\ Range(T) = TopPage
  BY ConstFacts, AscendingPages
<1>2. <<1>> \in Seq(Page) /\ 1 \notin TopPage
  BY ConstFacts
<1> HIDE DEF T
<1>3. /\ B \in Seq(Page) /\ Len(B) = Len(T) + 1
      /\ \A i \in 1..Len(B) : B[i] = IF i <= Len(T) THEN T[i] ELSE 1
  BY <1>1, <1>2
<1>4. /\ Len(T) \in Nat /\ DOMAIN T = 1..Len(T) /\ DOMAIN B = 1..Len(B)
  BY <1>1, <1>3
<1> HIDE DEF B
<1>5. IsInjective(B)
  <2> SUFFICES ASSUME NEW i \in 1..Len(B), NEW j \in 1..Len(B), B[i] = B[j]
               PROVE  i = j
    BY <1>4 DEF IsInjective
  <2>1. \A k \in 1..Len(T) : T[k] # 1
    BY <1>1, <1>2, <1>4 DEF Range
  <2>2. \A k, l \in 1..Len(T) : T[k] = T[l] => k = l
    BY <1>1, <1>4 DEF IsInjective
  <2>3. /\ i \in 1..Len(T) \/ i = Len(T) + 1
        /\ j \in 1..Len(T) \/ j = Len(T) + 1
    BY <1>3, <1>4
  <2>4. /\ i \in 1..Len(T) => B[i] = T[i]
        /\ j \in 1..Len(T) => B[j] = T[j]
        /\ i = Len(T) + 1 => B[i] = 1
        /\ j = Len(T) + 1 => B[j] = 1
    BY <1>3, <1>4
  <2> QED BY <2>1, <2>2, <2>3, <2>4
<1>6. Range(B) = TopPage \cup {1}
  <2>1. ASSUME NEW v \in Range(B) PROVE v \in TopPage \cup {1}
    <3>1. PICK i \in 1..Len(B) : B[i] = v
      BY <1>4 DEF Range
    <3>2. i \in 1..Len(T) \/ B[i] = 1
      BY <1>3, <1>4
    <3>3. i \in 1..Len(T) => B[i] = T[i] /\ T[i] \in TopPage
      BY <1>1, <1>3, <1>4 DEF Range
    <3> QED BY <3>1, <3>2, <3>3
  <2>2. ASSUME NEW v \in TopPage PROVE v \in Range(B)
    <3>1. PICK i \in 1..Len(T) : T[i] = v
      BY <1>1, <1>4 DEF Range
    <3>2. i \in 1..Len(B) /\ B[i] = v
      BY <1>3, <1>4, <3>1
    <3> QED BY <1>4, <3>2 DEF Range
  <2>3. 1 \in Range(B)
    <3>1. Len(T) + 1 \in 1..Len(B) /\ B[Len(T) + 1] = 1
      BY <1>3, <1>4
    <3> QED BY <1>4, <3>1 DEF Range
  <2> QED BY <2>1, <2>2, <2>3
<1>7. E \in Seq(Page) /\ IsInjective(E) /\ Range(E) = {}
  BY DEF IsInjective, Range
<1>8. NewDirSteps = TwoTables(E, B)
  <2> DEFINE C1 == <<CHUNK>>
             C2 == <<CHUNK, CHUNK>>
             C3 == <<CHUNK, CHUNK, CHUNK>>
  <2>a. CHUNK \in Nat
    BY DEF CHUNK
  <2>b. C1 \in Seq(Nat) /\ C2 \in Seq(Nat) /\ C3 \in Seq(Nat)
    BY <2>a
  <2>c. C2 \o E = C2
    BY <2>b, ConcatEmptySeq
  <2>d. C2 \o C1 = C3
    <3>1. /\ C2 \o C1 \in Seq(Nat) /\ Len(C2 \o C1) = 3 /\ Len(C3) = 3
          /\ \A i \in 1..3 : (C2 \o C1)[i] = CHUNK /\ C3[i] = CHUNK
      BY <2>a
    <3> QED BY <2>b, <3>1, SeqEqual
  <2>1. C2 \o E = C2 /\ C2 \o C1 = C3 /\ C3 \in Seq(Nat)
    BY <2>b, <2>c, <2>d
  <2>e. T \in Seq(Nat)
    BY <1>1, ConstFacts, SeqMonotonic
  <2>2. T \in Seq(Nat) /\ <<1>> \in Seq(Nat)
    BY <2>e
  <2>3. (C3 \o T) \o <<1>> = C3 \o (T \o <<1>>)
    <3> HIDE DEF C3
    <3> QED BY <2>1, <2>2, ConcatAssociative
  <2> QED BY <2>1, <2>3 DEF NewDirSteps, TwoTables, T, B
<1> HIDE DEF E
<1>9. /\ Request(NewDirSteps)
      /\ Succeeds(NewDirSteps) => /\ PagesDone(NewDirSteps) = {} \cup Range(B)
                                  /\ ChunksTaken(NewDirSteps) = 3
  <2>1. Range(E) \cap Range(B) = {}
    BY <1>7
  <2> QED BY <1>3, <1>5, <1>7, <1>8, <2>1, TwoTablesDone
<1> QED BY <1>6, <1>9

\* fork_page_dir copies the pages of the parent, those of the heap first; each
\* page copied is in a table that is made.
LEMMA ForkFacts ==
  ASSUME NEW p, kspare \in Nat, frames \subseteq Frame
  PROVE  /\ Request(ForkSteps(p))
         /\ PagesDone(ForkSteps(p)) \subseteq Present(p) \cap TablesMade(p)
         /\ TablesMade(p) \subseteq Page
         /\ Succeeds(ForkSteps(p)) => /\ PagesDone(ForkSteps(p)) = Present(p)
                                      /\ ChunksTaken(ForkSteps(p)) = 3
<1> DEFINE R == Present(p) \ TopPage
           Q == Present(p) \cap TopPage
           A == Ascending(R)
           B == Ascending(Q)
           s == ForkSteps(p)
<1>1. R \subseteq Page /\ Q \subseteq Page /\ R \cap Q = {} /\ R \cup Q = Present(p)
      /\ R \subseteq Page \ TopPage
  BY DEF Present
<1> HIDE DEF R, Q
<1>2. /\ A \in Seq(Page) /\ IsInjective(A) /\ Range(A) = R
      /\ B \in Seq(Page) /\ IsInjective(B) /\ Range(B) = Q
  BY <1>1, AscendingPages
<1>3. s = TwoTables(A, B)
  BY DEF ForkSteps, TwoTables, R, Q
<1> HIDE DEF A, B, s
<1>4. /\ Request(s)
      /\ ChunksTaken(s) \in Nat
      /\ PagesDone(s) \subseteq Range(A) \cup Range(B)
      /\ Succeeds(s) => /\ PagesDone(s) = Range(A) \cup Range(B)
                        /\ ChunksTaken(s) = 3
      /\ \A v \in PagesDone(s) : v \in Range(A) => ChunksTaken(s) >= 2
      /\ \A v \in PagesDone(s) : v \in Range(B) => ChunksTaken(s) >= 3
  <2>1. Range(A) \cap Range(B) = {}
    BY <1>1, <1>2
  <2> QED BY <1>2, <1>3, <2>1, TwoTablesDone
<1>5. TablesMade(p) = IF ChunksTaken(s) <= 1 THEN {}
                      ELSE IF ChunksTaken(s) = 2 THEN Page \ TopPage ELSE Page
  BY <1>4 DEF TablesMade, s
<1>6. ASSUME NEW v \in PagesDone(s) PROVE v \in Present(p) \cap TablesMade(p)
  <2>1. CASE v \in R
    <3>1. ChunksTaken(s) >= 2
      BY <1>2, <1>4, <2>1
    <3> QED BY <1>1, <1>4, <1>5, <2>1, <3>1
  <2>2. CASE v \in Q
    <3>1. ChunksTaken(s) >= 3
      BY <1>2, <1>4, <2>2
    <3> QED BY <1>1, <1>4, <1>5, <2>2, <3>1
  <2> QED BY <1>2, <1>4, <2>1, <2>2
<1>7. TablesMade(p) \subseteq Page
  BY <1>5
<1> QED BY <1>1, <1>2, <1>4, <1>6, <1>7 DEF s

\* The extension of a heap maps the pages behind it and takes no chunk.
LEMMA GrowFacts ==
  ASSUME NEW p, NEW n \in Nat, um[p] \in Nat, um[p] + n <= HEAP_PAGES,
         kspare \in Nat, frames \subseteq Frame
  PROVE  /\ Request(GrowSteps(p, n))
         /\ ChunkFrames(GrowSteps(p, n)) = {}
         /\ PagesDone(GrowSteps(p, n)) \subseteq (um[p] + 1)..(um[p] + n)
         /\ Range(GrowSteps(p, n)) = (um[p] + 1)..(um[p] + n)
         /\ (um[p] + 1)..(um[p] + n) \subseteq Page \ TopPage
         /\ Succeeds(GrowSteps(p, n)) =>
              PagesDone(GrowSteps(p, n)) = (um[p] + 1)..(um[p] + n)
         /\ Done(GrowSteps(p, n)) \in Nat
         /\ Done(GrowSteps(p, n)) = 0 => PagesDone(GrowSteps(p, n)) = {}
<1> DEFINE s == GrowSteps(p, n)
           u == um[p]
           G == (u + 1)..(u + n)
           d == Done(s)
<1>1. u \in Nat /\ u + n <= HEAP_PAGES
  OBVIOUS
<1>2. /\ DOMAIN s = 1..n /\ \A i \in 1..n : s[i] = u + i
      /\ s = [i \in 1..n |-> u + i]
  BY DEF GrowSteps
<1> HIDE DEF u, s
<1>3. G \subseteq Page \ TopPage
  BY <1>1, ConstFacts DEF Page
<1>4. \A i \in 1..n : u + i \in G
  BY <1>1
<1>5. s \in Seq({CHUNK} \cup Page) /\ Len(s) = n
  <2>1. \A i \in 1..n : u + i \in {CHUNK} \cup Page
    BY <1>3, <1>4
  <2> QED BY <1>2, <2>1
<1>6. Request(s)
  BY <1>1, <1>2, <1>5 DEF Request
<1>7. s \in Seq(Nat)
  <2>1. {CHUNK} \cup Page \subseteq Nat
    BY ConstFacts DEF CHUNK
  <2> QED BY <1>5, <2>1, SeqMonotonic
<1>8. d \in 0..n
  BY <1>5, <1>7, DoneFacts
<1>9. \A v \in G : v - u \in 1..n /\ v = u + (v - u)
  BY <1>1
<1>10. ChunkFrames(s) = {}
  <2>1. \A i \in 1..d : s[i] # CHUNK
    BY <1>2, <1>3, <1>4, <1>8, ConstFacts
  <2> QED BY <2>1 DEF ChunkFrames, d
<1> HIDE DEF G
<1>11. Range(s) = G
  BY <1>2, <1>4, <1>9 DEF Range
<1>12. PagesDone(s) = {v \in Page : \E i \in 1..d : s[i] = v}
  BY DEF PagesDone
<1>13. PagesDone(s) \subseteq G
  BY <1>2, <1>4, <1>8, <1>12
<1>14. ASSUME Succeeds(s) PROVE PagesDone(s) = G
  <2>1. d = n
    BY <1>5, <1>14 DEF Succeeds
  <2>2. \A v \in G : v \in Page /\ v - u \in 1..d /\ s[v - u] = v
    BY <1>2, <1>3, <1>9, <2>1
  <2> QED BY <1>12, <1>13, <2>2
<1>15. d = 0 => PagesDone(s) = {}
  BY <1>12
<1>16. d \in Nat
  BY <1>8
<1> QED BY <1>3, <1>6, <1>10, <1>11, <1>13, <1>14, <1>15, <1>16 DEF s, u, G, d

-----------------------------------------------------------------------------
\* The inductive invariant.

\* Page v of process p has a frame.
Uses(p, v) == HasDir(p) /\ dir[p][v].present

DirType == dir \in [Slots -> {NoDir, NullDir} \cup Dirs]

\* The entry of a page without a frame has no address: true until an
\* extension of a heap is rolled back.
Clean == \A p \in Users : \A v \in Page :
           ~dir[p][v].present => dir[p][v].address = 0

\* What is in use is marked, the frames mapped at the start among it.
Marked == UserFrames \cup kframes \cup BootFrames \subseteq frames

IInv ==
  /\ TypeOK /\ DirType
  /\ 0 \in frames
  /\ HeapMapped /\ NoFrameLeak /\ ChunksUntilAbort
  /\ ~aborted => FramesPrivate /\ Marked /\ Clean

\* A directory is not one of the two values that stand for none.
LEMMA DirsAreDirs ==
  ASSUME NEW e \in Dirs
  PROVE  e \notin {NoDir, NullDir}
<1>1. DOMAIN e = Page /\ 2 \in Page
  BY ConstFacts DEF Dirs
<1>2. 2 \notin DOMAIN NoDir /\ 2 \notin DOMAIN NullDir
  BY DEF NoDir, NullDir
<1> QED BY <1>1, <1>2

LEMMA DirFacts ==
  ASSUME DirType
  PROVE  /\ Users \subseteq Slots /\ IsFiniteSet(Users)
         /\ \A p \in Slots : p \in Users <=> HasDir(p)
         /\ \A p \in Slots : HasDir(p) => dir[p] \in Dirs
         /\ \A p \in Slots, v \in Page : Uses(p, v) =>
              dir[p][v].address \in Frame /\ v \in Present(p)
<1>1. Users \subseteq Slots /\ \A p \in Slots : p \in Users <=> HasDir(p)
  BY DEF Users
<1>2. IsFiniteSet(Users)
  BY <1>1, ConstFacts, FS_Subset
<1>3. \A p \in Slots : HasDir(p) => dir[p] \in Dirs
  BY DEF DirType, HasDir
<1>4. ASSUME NEW p \in Slots, NEW v \in Page, Uses(p, v)
      PROVE  dir[p][v].address \in Frame /\ v \in Present(p)
  <2>1. dir[p] \in Dirs
    BY <1>3, <1>4 DEF Uses
  <2>2. dir[p][v] \in [present : BOOLEAN, address : Frame]
    BY <2>1 DEF Dirs
  <2> QED BY <1>4, <2>2 DEF Uses, Present
<1> QED BY <1>1, <1>2, <1>3, <1>4

\* The frames of the users, and their privacy, page by page.
LEMMA UserFramesFacts ==
  /\ \A f : f \in UserFrames <=>
       \E p \in Slots : \E v \in Page : Uses(p, v) /\ dir[p][v].address = f
  /\ \A f : f \in UserFrames' <=>
       \E p \in Slots : \E v \in Page : Uses(p, v)' /\ dir'[p][v].address = f
BY DEF UserFrames, Users, Present, Uses

LEMMA PrivateFacts ==
  /\ FramesPrivate <=>
       /\ UserFrames \cap (BootFrames \cup kframes) = {}
       /\ \A p, q \in Slots : \A v, w \in Page :
            Uses(p, v) /\ Uses(q, w) /\ dir[p][v].address = dir[q][w].address
              => p = q /\ v = w
  /\ FramesPrivate' <=>
       /\ UserFrames' \cap (BootFrames \cup kframes') = {}
       /\ \A p, q \in Slots : \A v, w \in Page :
            Uses(p, v)' /\ Uses(q, w)' /\ dir'[p][v].address = dir'[q][w].address
              => p = q /\ v = w
BY DEF FramesPrivate, Users, Uses, BootFrames

\* The pages of a request are mapped in the directory of c, which starts as e;
\* the pages c has already are not among them.
MapsRequest(c, e, s) ==
  /\ dir' = [dir EXCEPT ![c] = Mapped(e, s)]
  /\ \A v \in Page \ PagesDone(s) : e[v].present => Uses(c, v)
  /\ \A v \in Page : Uses(c, v) => v \notin PagesDone(s) /\ e[v] = dir[c][v]

\* What this does to the directories ...
LEMMA MapEffect ==
  ASSUME IInv, NEW c \in Slots, NEW e \in Dirs, NEW s, Request(s),
         MapsRequest(c, e, s)
  PROVE  /\ DirType'
         /\ Users' = Users \cup {c}
         /\ \A q \in Slots : q # c => dir'[q] = dir[q]
         /\ dir'[c] \in Dirs
         /\ \A v \in PagesDone(s) : /\ v \in Page
                                    /\ dir'[c][v].present
                                    /\ dir'[c][v].address = PageFrame(s, v)
         /\ \A v \in Page \ PagesDone(s) : dir'[c][v] = e[v]
         /\ \A q \in Slots, v \in Page :
              /\ Uses(q, v)' <=> Uses(q, v) \/ (q = c /\ v \in PagesDone(s))
              /\ Uses(q, v) => /\ ~(q = c /\ v \in PagesDone(s))
                               /\ dir'[q][v].address = dir[q][v].address
<1> DEFINE m == Mapped(e, s)
<1>1. kspare \in Nat /\ frames \subseteq Frame /\ DirType
  BY DEF IInv, TypeOK
<1>0. /\ dir' = [dir EXCEPT ![c] = m]
      /\ \A v \in Page \ PagesDone(s) : e[v].present => Uses(c, v)
      /\ \A v \in Page : Uses(c, v) => v \notin PagesDone(s) /\ e[v] = dir[c][v]
  BY DEF MapsRequest
<1>2. /\ m \in Dirs
      /\ \A v \in PagesDone(s) : m[v].present /\ m[v].address = PageFrame(s, v)
      /\ \A v \in Page \ PagesDone(s) : m[v] = e[v]
  BY <1>1, MappedFacts
<1>3. PagesDone(s) \subseteq Page
  BY DEF PagesDone
<1> HIDE DEF m
<1>4. /\ dir' \in [Slots -> {NoDir, NullDir} \cup Dirs] /\ dir'[c] = m
      /\ \A q \in Slots : q # c => dir'[q] = dir[q]
  BY <1>0, <1>1, <1>2 DEF DirType
<1>5. m \notin {NoDir, NullDir}
  BY <1>2, DirsAreDirs
<1>6. HasDir(c)'
  BY <1>4, <1>5 DEF HasDir
<1>7. \A q \in Slots : q # c => (HasDir(q)' <=> HasDir(q))
  BY <1>4 DEF HasDir
<1>8. Users' = Users \cup {c}
  BY <1>6, <1>7 DEF Users
<1>9. ASSUME NEW q \in Slots, NEW v \in Page
      PROVE  /\ Uses(q, v)' <=> Uses(q, v) \/ (q = c /\ v \in PagesDone(s))
             /\ Uses(q, v) => /\ ~(q = c /\ v \in PagesDone(s))
                              /\ dir'[q][v].address = dir[q][v].address
  <2>1. CASE q # c
    BY <1>4, <1>7, <2>1 DEF Uses
  <2>2. CASE q = c /\ v \in PagesDone(s)
    <3>1. ~Uses(c, v)
      BY <1>0, <2>2
    <3>2. Uses(c, v)'
      BY <1>2, <1>4, <1>6, <2>2 DEF Uses
    <3> QED BY <2>2, <3>1, <3>2
  <2>3. CASE q = c /\ v \notin PagesDone(s)
    <3>1. dir'[c][v] = e[v]
      BY <1>2, <1>4, <2>3
    <3>2. Uses(c, v)' <=> e[v].present
      BY <1>6, <3>1 DEF Uses
    <3>3. Uses(c, v) => e[v] = dir[c][v] /\ dir[c][v].present
      BY <1>0 DEF Uses
    <3> QED BY <1>0, <2>3, <3>1, <3>2, <3>3
  <2> QED BY <2>1, <2>2, <2>3
<1> QED BY <1>2, <1>3, <1>4, <1>8, <1>9 DEF DirType

\* ... and to the frames, when the request takes them.
LEMMA MapSound ==
  ASSUME IInv, NEW c \in Slots, NEW e \in Dirs, NEW s, Request(s),
         MapsRequest(c, e, s),
         frames' = frames \cup TakenFrames(s),
         kframes' = kframes \cup ChunkFrames(s)
  PROVE  /\ frames' \subseteq Frame /\ kframes' \subseteq Frame
         /\ 0 \in frames' /\ 0 \notin UserFrames' \cup kframes'
         /\ NoFrameLeak'
         /\ ~aborted => FramesPrivate' /\ Marked'
<1> DEFINE T == TakenFrames(s)
           C == ChunkFrames(s)
           D == PagesDone(s)
           g(v) == PageFrame(s, v)
<1>1. /\ kspare \in Nat /\ frames \subseteq Frame /\ kframes \subseteq Frame
      /\ 0 \in frames /\ 0 \notin UserFrames \cup kframes
      /\ frames \subseteq BootFrames \cup kframes \cup UserFrames
      /\ ~aborted => FramesPrivate /\ UserFrames \cup kframes \cup BootFrames \subseteq frames
  BY DEF IInv, TypeOK, NoFrameLeak, Marked
<1>2. /\ \A v \in D : g(v) \in T \ C
      /\ \A v, w \in D : g(v) = g(w) => v = w
      /\ T \subseteq Frame \ frames /\ C \subseteq T
      /\ \A f \in T \ C : \E v \in D : f = g(v)
  BY <1>1, RequestFrames
<1>3. /\ \A v \in D : v \in Page /\ dir'[c][v].address = g(v)
      /\ \A q \in Slots, v \in Page :
              /\ Uses(q, v)' <=> Uses(q, v) \/ (q = c /\ v \in D)
              /\ Uses(q, v) => /\ ~(q = c /\ v \in D)
                               /\ dir'[q][v].address = dir[q][v].address
  <2>1. \A v \in PagesDone(s) : v \in Page /\ dir'[c][v].address = PageFrame(s, v)
    BY MapEffect
  <2>2. \A q \in Slots, v \in Page :
              /\ Uses(q, v)' <=> Uses(q, v) \/ (q = c /\ v \in PagesDone(s))
              /\ Uses(q, v) => /\ ~(q = c /\ v \in PagesDone(s))
                               /\ dir'[q][v].address = dir[q][v].address
    BY MapEffect
  <2> QED BY <2>1, <2>2
<1> HIDE DEF T, C, D, g
<1>4. UserFrames' = UserFrames \cup (T \ C)
  <2>1. ASSUME NEW f \in UserFrames' PROVE f \in UserFrames \cup (T \ C)
    <3>1. PICK q \in Slots, v \in Page : Uses(q, v)' /\ dir'[q][v].address = f
      BY <2>1, UserFramesFacts
    <3>2. CASE Uses(q, v)
      BY <1>3, <3>1, <3>2, UserFramesFacts
    <3>3. CASE q = c /\ v \in D
      BY <1>2, <1>3, <3>1, <3>3
    <3> QED BY <1>3, <3>1, <3>2, <3>3
  <2>2. ASSUME NEW f \in UserFrames PROVE f \in UserFrames'
    <3>1. PICK q \in Slots, v \in Page : Uses(q, v) /\ dir[q][v].address = f
      BY <2>2, UserFramesFacts
    <3> QED BY <1>3, <3>1, UserFramesFacts
  <2>3. ASSUME NEW f \in T \ C PROVE f \in UserFrames'
    <3>1. PICK v \in D : f = g(v)
      BY <1>2
    <3> QED BY <1>3, <3>1, UserFramesFacts
  <2> QED BY <2>1, <2>2, <2>3
<1>5. /\ frames' = frames \cup T /\ kframes' = kframes \cup C
  BY DEF T, C
<1>6. /\ frames' \subseteq Frame /\ kframes' \subseteq Frame
      /\ 0 \in frames' /\ 0 \notin UserFrames' \cup kframes'
  BY <1>1, <1>2, <1>4, <1>5
<1>7. NoFrameLeak'
  <2>1. frames' \subseteq BootFrames \cup kframes' \cup UserFrames'
    BY <1>1, <1>4, <1>5
  <2> QED BY <2>1 DEF NoFrameLeak, BootFrames
<1>8. ASSUME ~aborted PROVE FramesPrivate' /\ Marked'
  <2>1. UserFrames' \cup kframes' \cup BootFrames \subseteq frames'
    BY <1>1, <1>2, <1>4, <1>5, <1>8
  <2>2. UserFrames \cap (BootFrames \cup kframes) = {}
    BY <1>1, <1>8, PrivateFacts
  <2>3. UserFrames' \cap (BootFrames \cup kframes') = {}
    BY <1>1, <1>2, <1>4, <1>5, <1>8, <2>2
  <2>4. ASSUME NEW p \in Slots, NEW v \in Page, Uses(p, v)
        PROVE  dir[p][v].address \in frames
    BY <1>1, <1>8, <2>4, UserFramesFacts
  <2>5. ASSUME NEW p \in Slots, NEW q \in Slots, NEW v \in Page, NEW w \in Page,
               Uses(p, v)', Uses(q, w)', dir'[p][v].address = dir'[q][w].address
        PROVE  p = q /\ v = w
    <3>1. CASE Uses(p, v) /\ Uses(q, w)
      <4>1. dir[p][v].address = dir[q][w].address
        BY <1>3, <2>5, <3>1
      <4> QED BY <1>1, <1>8, <3>1, <4>1, PrivateFacts
    <3>2. CASE Uses(p, v) /\ q = c /\ w \in D
      <4>1. dir'[p][v].address \in frames /\ dir'[q][w].address \notin frames
        BY <1>2, <1>3, <2>4, <3>2
      <4> QED BY <2>5, <4>1
    <3>3. CASE p = c /\ v \in D /\ Uses(q, w)
      <4>1. dir'[q][w].address \in frames /\ dir'[p][v].address \notin frames
        BY <1>2, <1>3, <2>4, <3>3
      <4> QED BY <2>5, <4>1
    <3>4. CASE p = c /\ v \in D /\ q = c /\ w \in D
      BY <1>2, <1>3, <2>5, <3>4
    <3> QED BY <1>3, <2>5, <3>1, <3>2, <3>3, <3>4
  <2> QED BY <2>1, <2>3, <2>5, PrivateFacts DEF Marked, BootFrames
<1> QED BY <1>6, <1>7, <1>8

\* The chunks a request takes from the spare ones and from new frames.
LEMMA SpareFacts ==
  ASSUME NEW s, Request(s), kspare \in Nat, frames \subseteq Frame
  PROVE  /\ ChunksTaken(s) \in Nat /\ SpareAfter(s) \in Nat
         /\ IsFiniteSet(kframes) /\ kframes \subseteq frames =>
              Cardinality(kframes \cup ChunkFrames(s)) =
                Cardinality(kframes) + ChunksTaken(s) + SpareAfter(s) - kspare
<1> DEFINE c == ChunksTaken(s)
           C == ChunkFrames(s)
<1>1. s \in Seq(Nat) /\ C \cap frames = {}
  BY RequestFrames
<1>2. /\ c \in Nat
      /\ IsFiniteSet(C)
      /\ Cardinality(C) = IF c > kspare THEN c - kspare ELSE 0
  BY <1>1, ChunkFramesCount
<1> HIDE DEF c, C
<1>3. SpareAfter(s) = IF kspare - c > 0 THEN kspare - c ELSE 0
  <2>1. kspare - c \in Int
    BY <1>2
  <2>2. Max({0, kspare - c}) = IF kspare - c > 0 THEN kspare - c ELSE 0
    BY <2>1, MaxZero
  <2> QED BY <2>2 DEF SpareAfter, c
<1>4. SpareAfter(s) \in Nat
  BY <1>2, <1>3
<1>5. ASSUME IsFiniteSet(kframes), kframes \subseteq frames
      PROVE  Cardinality(kframes \cup C) =
               Cardinality(kframes) + c + SpareAfter(s) - kspare
  <2>1. kframes \cap C = {}
    BY <1>1, <1>5
  <2>2. Cardinality(kframes \cup C) =
          Cardinality(kframes) + Cardinality(C) - Cardinality(kframes \cap C)
    BY <1>2, <1>5, FS_Union
  <2>3. Cardinality(kframes \cap C) = 0
    BY <2>1, FS_EmptySet
  <2>4. Cardinality(kframes) \in Nat
    BY <1>5, FS_CardinalityType
  <2> QED BY <1>2, <1>3, <2>2, <2>3, <2>4
<1> QED BY <1>2, <1>4, <1>5 DEF c, C

\* The heaps after a request that gives process c the first x pages of its
\* heap and the top pages.
LEMMA HeapSound ==
  ASSUME IInv, NEW c \in Slots, NEW e \in Dirs, NEW s, Request(s),
         MapsRequest(c, e, s),
         NEW x \in 0..HEAP_PAGES, um' = [um EXCEPT ![c] = x],
         \A v \in Page : v \in PagesDone(s) \/ e[v].present <=> v \in 1..x \cup TopPage,
         ~aborted => \A v \in Page \ PagesDone(s) : ~e[v].present => e[v].address = 0
  PROVE  /\ um' \in [Slots -> 0..HEAP_PAGES]
         /\ HeapMapped'
         /\ ~aborted => Clean'
<1> DEFINE D == PagesDone(s)
<1>1. /\ um \in [Slots -> 0..HEAP_PAGES] /\ DirType
      /\ \A q \in Users : Present(q) = 1..um[q] \cup TopPage
      /\ ~aborted => \A q \in Users : \A v \in Page :
                       ~dir[q][v].present => dir[q][v].address = 0
  BY DEF IInv, TypeOK, HeapMapped, Clean
<1>2. /\ Users' = Users \cup {c}
      /\ \A q \in Slots : q # c => dir'[q] = dir[q]
  BY MapEffect
<1>3. \A v \in D : v \in Page /\ dir'[c][v].present
  BY MapEffect
<1>4. \A v \in Page \ D : dir'[c][v] = e[v]
  BY MapEffect
<1>5. Users \subseteq Slots
  BY <1>1, DirFacts
<1>6. um' \in [Slots -> 0..HEAP_PAGES] /\ um'[c] = x
      /\ \A q \in Slots : q # c => um'[q] = um[q]
  BY <1>1
<1> HIDE DEF D
<1>7. ASSUME NEW q \in Users' PROVE Present(q)' = 1..um'[q] \cup TopPage
  <2>1. CASE q # c
    <3>1. q \in Users /\ dir'[q] = dir[q] /\ um'[q] = um[q]
      BY <1>2, <1>5, <1>6, <1>7, <2>1
    <3>2. Present(q)' = Present(q)
      BY <3>1 DEF Present
    <3> QED BY <1>1, <3>1, <3>2
  <2>2. CASE q = c
    <3>1. Present(c)' = {v \in Page : dir'[c][v].present}
      BY DEF Present
    <3>2. \A v \in Page : dir'[c][v].present <=> v \in D \/ e[v].present
      BY <1>3, <1>4
    <3>3. Present(c)' = {v \in Page : v \in 1..x \cup TopPage}
      BY <3>1, <3>2 DEF D
    <3>4. 1..x \subseteq Page /\ TopPage \subseteq Page
      BY ConstFacts DEF Page
    <3> QED BY <1>6, <2>2, <3>3, <3>4
  <2> QED BY <2>1, <2>2
<1>8. HeapMapped'
  BY <1>7 DEF HeapMapped, TopPage, Page
<1>9. ASSUME ~aborted PROVE Clean'
  <2> SUFFICES ASSUME NEW q \in Users', NEW v \in Page, ~dir'[q][v].present
               PROVE  dir'[q][v].address = 0
    BY DEF Clean, Page
  <2>1. CASE q # c
    <3>1. q \in Users /\ dir'[q] = dir[q]
      BY <1>2, <1>5, <2>1
    <3> QED BY <1>1, <1>9, <3>1
  <2>2. CASE q = c
    <3>1. v \notin D /\ dir'[c][v] = e[v]
      BY <1>3, <1>4, <2>2
    <3> QED BY <1>9, <2>2, <3>1 DEF D
  <2> QED BY <2>1, <2>2
<1> QED BY <1>6, <1>8, <1>9

\* A request that succeeds.
LEMMA MapStep ==
  ASSUME IInv, NEW c \in Slots, NEW e \in Dirs, NEW s, Request(s),
         MapsRequest(c, e, s),
         NEW x \in 0..HEAP_PAGES, um' = [um EXCEPT ![c] = x],
         \A v \in Page : v \in PagesDone(s) \/ e[v].present <=> v \in 1..x \cup TopPage,
         ~aborted => \A v \in Page \ PagesDone(s) : ~e[v].present => e[v].address = 0,
         frames' = frames \cup TakenFrames(s),
         kframes' = kframes \cup ChunkFrames(s),
         kspare' \in Nat, fault' = fault, aborted' = aborted, ChunksUntilAbort'
  PROVE  IInv'
<1>1. DirType'
  BY MapEffect
<1>2. \A p \in Slots : dir'[p] \in {NoDir, NullDir} \/ dir'[p] \in Dirs
  BY <1>1 DEF DirType
<1>3. /\ frames' \subseteq Frame /\ kframes' \subseteq Frame
      /\ 0 \in frames' /\ 0 \notin UserFrames' \cup kframes'
      /\ NoFrameLeak'
      /\ ~aborted => FramesPrivate' /\ Marked'
  BY MapSound
<1>4. /\ um' \in [Slots -> 0..HEAP_PAGES]
      /\ HeapMapped'
      /\ ~aborted => Clean'
  BY HeapSound
<1>5. fault' \in {"none", "panic"} /\ aborted' \in BOOLEAN
  BY DEF IInv, TypeOK
<1>6. TypeOK'
  BY <1>2, <1>3, <1>4, <1>5 DEF TypeOK, Frame, Dirs, Page, NoDir, NullDir
<1> QED BY <1>1, <1>3, <1>4, <1>6 DEF IInv

\* The kernel heap has three chunks more for a new directory.
LEMMA NewDirCount ==
  ASSUME IInv, NEW c \in Slots, dir[c] = NoDir, Users' = Users \cup {c},
         NEW s, Request(s), ChunksTaken(s) = 3,
         kframes' = kframes \cup ChunkFrames(s), kspare' = SpareAfter(s),
         aborted' = aborted
  PROVE  kspare' \in Nat /\ ChunksUntilAbort'
<1>1. /\ kspare \in Nat /\ frames \subseteq Frame /\ kframes \subseteq Frame /\ DirType
      /\ ~aborted => /\ kframes \subseteq frames
                     /\ Cardinality(kframes) = kspare + 3 * Cardinality(Users)
  BY DEF IInv, TypeOK, Marked, ChunksUntilAbort
<1>2. IsFiniteSet(kframes)
  BY <1>1, ConstFacts, FS_Subset
<1>3. /\ SpareAfter(s) \in Nat
      /\ kframes \subseteq frames =>
           Cardinality(kframes \cup ChunkFrames(s)) =
             Cardinality(kframes) + ChunksTaken(s) + SpareAfter(s) - kspare
  BY <1>1, <1>2, SpareFacts
<1>4. IsFiniteSet(Users) /\ c \notin Users
  BY <1>1, DirFacts DEF HasDir
<1>5. Cardinality(Users') = Cardinality(Users) + 1 /\ Cardinality(Users) \in Nat
  BY <1>4, FS_AddElement, FS_CardinalityType
<1>6. ASSUME ~aborted
      PROVE  Cardinality(kframes') = kspare' + 3 * Cardinality(Users')
  BY <1>1, <1>3, <1>5, <1>6
<1> QED BY <1>3, <1>6 DEF ChunksUntilAbort

-----------------------------------------------------------------------------
\* Each action preserves the invariant.

LEMMA RunStep ==
  ASSUME IInv, NEW p \in Slots, Run(p)
  PROVE  IInv'
<1> DEFINE e == [v \in Page |-> Unmapped]
           s == NewDirSteps
           D == PagesDone(s)
<1>1. /\ dir[p] = NoDir /\ Succeeds(s)
      /\ frames' = frames \cup TakenFrames(s)
      /\ kframes' = kframes \cup ChunkFrames(s)
      /\ kspare' = SpareAfter(s)
      /\ dir' = [dir EXCEPT ![p] = Mapped(e, s)]
      /\ um' = [um EXCEPT ![p] = 1]
      /\ fault' = fault /\ aborted' = aborted
  BY DEF Run
<1>2. kspare \in Nat /\ frames \subseteq Frame
  BY DEF IInv, TypeOK
<1>3. Request(s) /\ D = TopPage \cup {1} /\ ChunksTaken(s) = 3
  BY <1>1, <1>2, NewDirFacts
<1>4. e \in Dirs /\ \A v \in Page : e[v].present = FALSE /\ e[v].address = 0
  <2>1. 0 \in Frame
    BY ConstFacts
  <2> QED BY <2>1 DEF Dirs, Unmapped
<1> HIDE DEF e, s
<1>5. \A v \in Page : ~Uses(p, v)
  BY <1>1 DEF Uses, HasDir
<1>6. MapsRequest(p, e, s)
  BY <1>1, <1>4, <1>5 DEF MapsRequest
<1>7. Users' = Users \cup {p}
  BY <1>3, <1>4, <1>6, MapEffect
<1>8. kspare' \in Nat /\ ChunksUntilAbort'
  BY <1>1, <1>3, <1>7, NewDirCount
<1>9. 1 \in 0..HEAP_PAGES
  BY MemoryAssumption
<1>10. \A v \in Page : v \in D \/ e[v].present <=> v \in 1..1 \cup TopPage
  BY <1>3, <1>4
<1>11. \A v \in Page \ D : ~e[v].present => e[v].address = 0
  BY <1>4
<1> QED BY <1>1, <1>3, <1>4, <1>6, <1>8, <1>9, <1>10, <1>11, MapStep

LEMMA ForkStep ==
  ASSUME IInv, NEW p \in Slots, NEW c \in Slots, Fork(p, c)
  PROVE  IInv'
<1> DEFINE e == dir[p]
           s == ForkSteps(p)
           D == PagesDone(s)
           x == um[p]
<1>1. /\ HasDir(p) /\ dir[c] = NoDir /\ Succeeds(s)
      /\ frames' = frames \cup TakenFrames(s)
      /\ kframes' = kframes \cup ChunkFrames(s)
      /\ kspare' = SpareAfter(s)
      /\ dir' = [dir EXCEPT ![c] = Mapped(e, s)]
      /\ um' = [um EXCEPT ![c] = x]
      /\ fault' = fault /\ aborted' = aborted
  BY DEF Fork, Copied, ForkedHeap
<1>2. /\ kspare \in Nat /\ frames \subseteq Frame /\ DirType
      /\ x \in 0..HEAP_PAGES
  BY DEF IInv, TypeOK
<1>3. Request(s) /\ D = Present(p) /\ ChunksTaken(s) = 3
  BY <1>1, <1>2, ForkFacts
<1>4. e \in Dirs /\ p \in Users
  BY <1>1, <1>2, DirFacts
<1>5. /\ Present(p) = 1..x \cup TopPage
      /\ ~aborted => \A v \in Page : ~e[v].present => e[v].address = 0
  BY <1>4 DEF IInv, HeapMapped, Clean
<1>6. \A v \in Page : e[v].present <=> v \in D
  BY <1>3 DEF Present
<1> HIDE DEF e, s, D, x
<1>7. \A v \in Page : ~Uses(c, v)
  BY <1>1 DEF Uses, HasDir
<1>8. MapsRequest(c, e, s)
  BY <1>1, <1>6, <1>7 DEF MapsRequest, D
<1>9. Users' = Users \cup {c}
  BY <1>3, <1>4, <1>8, MapEffect
<1>10. kspare' \in Nat /\ ChunksUntilAbort'
  BY <1>1, <1>3, <1>9, NewDirCount
<1>11. \A v \in Page : v \in PagesDone(s) \/ e[v].present <=> v \in 1..x \cup TopPage
  BY <1>3, <1>5, <1>6 DEF D
<1>12. ~aborted => \A v \in Page \ PagesDone(s) : ~e[v].present => e[v].address = 0
  BY <1>5
<1> QED BY <1>1, <1>2, <1>3, <1>4, <1>8, <1>10, <1>11, <1>12, MapStep

LEMMA GrowStep ==
  ASSUME IInv, NEW p \in Slots, NEW n \in 1..MAX_GROWTH, Grow(p, n)
  PROVE  IInv'
<1> DEFINE e == dir[p]
           s == GrowSteps(p, n)
           u == um[p]
<1>1. /\ HasDir(p) /\ u + n <= HEAP_PAGES /\ Succeeds(s)
      /\ frames' = frames \cup TakenFrames(s)
      /\ dir' = [dir EXCEPT ![p] = Mapped(e, s)]
      /\ um' = [um EXCEPT ![p] = um[p] + n]
      /\ kframes' = kframes /\ kspare' = kspare
      /\ fault' = fault /\ aborted' = aborted
  BY DEF Grow
<1>2. /\ kspare \in Nat /\ frames \subseteq Frame /\ DirType
      /\ u \in 0..HEAP_PAGES /\ HEAP_PAGES \in Nat /\ MAX_GROWTH \in Nat
  BY MemoryAssumption DEF IInv, TypeOK
<1>3. n \in Nat /\ u \in Nat /\ u + n \in 0..HEAP_PAGES /\ n >= 1
  BY <1>1, <1>2
<1>4. /\ Request(s) /\ ChunkFrames(s) = {}
      /\ PagesDone(s) = (u + 1)..(u + n)
      /\ (u + 1)..(u + n) \subseteq Page \ TopPage
  BY <1>1, <1>2, <1>3, GrowFacts
<1>5. e \in Dirs /\ p \in Users
  BY <1>1, <1>2, DirFacts
<1>6. /\ Present(p) = 1..u \cup TopPage
      /\ ~aborted => \A v \in Page : ~e[v].present => e[v].address = 0
  BY <1>5 DEF IInv, HeapMapped, Clean
<1>7. \A v \in Page : e[v].present <=> v \in 1..u \cup TopPage
  BY <1>6 DEF Present
<1>8. \A v \in Page : Uses(p, v) <=> e[v].present
  BY <1>1 DEF Uses
<1> HIDE DEF s, u
<1>9. \A v \in Page : e[v].present => v \notin PagesDone(s)
  BY <1>3, <1>4, <1>7
<1>10. MapsRequest(p, e, s)
  BY <1>1, <1>8, <1>9 DEF MapsRequest
<1>11. \A v \in Page : v \in PagesDone(s) \/ e[v].present <=> v \in 1..(u + n) \cup TopPage
  BY <1>3, <1>4, <1>7
<1>12. kframes' = kframes \cup ChunkFrames(s)
  BY <1>1, <1>4
<1>13. Users' = Users
  <2>1. Users' = Users \cup {p}
    <3> HIDE DEF e
    <3> QED BY <1>4, <1>5, <1>10, MapEffect
  <2> QED BY <1>5, <2>1
<1>14. kspare' \in Nat /\ ChunksUntilAbort'
  BY <1>1, <1>2, <1>13 DEF IInv, ChunksUntilAbort
<1>15. um' = [um EXCEPT ![p] = u + n]
  BY <1>1 DEF u
<1>16. ~aborted => \A v \in Page \ PagesDone(s) : ~e[v].present => e[v].address = 0
  BY <1>6
<1> HIDE DEF e
<1> QED BY <1>1, <1>3, <1>4, <1>5, <1>10, <1>11, <1>12, <1>14, <1>15, <1>16, MapStep

\* When no page with a frame changes, the frames of the users stay.
LEMMA SameUses ==
  ASSUME \A q \in Slots, v \in Page :
           /\ Uses(q, v)' <=> Uses(q, v)
           /\ Uses(q, v) => dir'[q][v].address = dir[q][v].address
  PROVE  /\ UserFrames' = UserFrames
         /\ FramesPrivate /\ UserFrames \cap kframes' = {} => FramesPrivate'
<1>1. UserFrames' = UserFrames
  <2>1. ASSUME NEW f PROVE f \in UserFrames' <=> f \in UserFrames
    BY UserFramesFacts
  <2> QED BY <2>1
<1>2. ASSUME FramesPrivate, UserFrames \cap kframes' = {} PROVE FramesPrivate'
  <2>1. UserFrames' \cap (BootFrames \cup kframes') = {}
    BY <1>1, <1>2, PrivateFacts
  <2>2. ASSUME NEW p \in Slots, NEW q \in Slots, NEW v \in Page, NEW w \in Page,
               Uses(p, v)', Uses(q, w)', dir'[p][v].address = dir'[q][w].address
        PROVE  p = q /\ v = w
    <3>1. Uses(p, v) /\ Uses(q, w) /\ dir[p][v].address = dir[q][w].address
      BY <2>2
    <3> QED BY <1>2, <3>1, PrivateFacts
  <2> QED BY <2>1, <2>2, PrivateFacts
<1> QED BY <1>1, <1>2

LEMMA SameDirs ==
  ASSUME dir' = dir, um' = um
  PROVE  /\ Users' = Users
         /\ UserFrames' = UserFrames
         /\ DirType' <=> DirType
         /\ HeapMapped' <=> HeapMapped
         /\ Clean' <=> Clean
         /\ FramesPrivate /\ UserFrames \cap kframes' = {} => FramesPrivate'
<1>1. \A q : HasDir(q)' <=> HasDir(q)
  BY DEF HasDir
<1>2. Users' = Users
  BY <1>1 DEF Users
<1>3. \A q \in Slots, v \in Page :
           /\ Uses(q, v)' <=> Uses(q, v)
           /\ Uses(q, v) => dir'[q][v].address = dir[q][v].address
  BY <1>1 DEF Uses
<1>4. \A q : Present(q)' = Present(q)
  BY DEF Present
<1>5. HeapMapped' <=> HeapMapped
  BY <1>2, <1>4 DEF HeapMapped, TopPage, Page
<1>6. (DirType' <=> DirType) /\ (Clean' <=> Clean)
  BY <1>2 DEF DirType, Clean
<1> QED BY <1>2, <1>3, <1>5, <1>6, SameUses

LEMMA RunUnknownStep ==
  ASSUME IInv, NEW p \in Slots, RunUnknown(p)
  PROVE  IInv'
<1> DEFINE s == NewDirSteps
           C == ChunkFrames(s)
<1>1. /\ Succeeds(s)
      /\ frames' = frames \cup C /\ kframes' = kframes \cup C
      /\ kspare' = SpareAfter(s) + ChunksTaken(s)
      /\ dir' = dir /\ um' = um /\ fault' = fault /\ aborted' = aborted
  BY DEF RunUnknown
<1>2. /\ kspare \in Nat /\ frames \subseteq Frame /\ kframes \subseteq Frame
      /\ 0 \in frames /\ 0 \notin UserFrames \cup kframes
      /\ frames \subseteq BootFrames \cup kframes \cup UserFrames
      /\ DirType /\ HeapMapped /\ um \in [Slots -> 0..HEAP_PAGES]
      /\ fault \in {"none", "panic"} /\ aborted \in BOOLEAN
  BY DEF IInv, TypeOK, NoFrameLeak
<1>3. ~aborted => /\ FramesPrivate /\ Clean
                  /\ UserFrames \cup kframes \cup BootFrames \subseteq frames
                  /\ Cardinality(kframes) = kspare + 3 * Cardinality(Users)
  BY DEF IInv, Marked, ChunksUntilAbort
<1>4. Request(s) /\ ChunksTaken(s) = 3
  BY <1>1, <1>2, NewDirFacts
<1>5. C \subseteq Frame \ frames
  BY <1>2, <1>4, RequestFrames
<1>6. IsFiniteSet(kframes)
  BY <1>2, ConstFacts, FS_Subset
<1>7. /\ SpareAfter(s) \in Nat
      /\ kframes \subseteq frames =>
           Cardinality(kframes \cup C) =
             Cardinality(kframes) + ChunksTaken(s) + SpareAfter(s) - kspare
  BY <1>2, <1>4, <1>6, SpareFacts
<1> HIDE DEF s, C
<1>8. /\ Users' = Users
      /\ UserFrames' = UserFrames
      /\ DirType' /\ HeapMapped' /\ (Clean' <=> Clean)
      /\ FramesPrivate /\ UserFrames \cap kframes' = {} => FramesPrivate'
  BY <1>1, <1>2, SameDirs
<1>9. /\ frames' \subseteq Frame /\ kframes' \subseteq Frame
      /\ 0 \in frames' /\ 0 \notin UserFrames' \cup kframes'
      /\ frames' \subseteq BootFrames \cup kframes' \cup UserFrames'
  BY <1>1, <1>2, <1>5, <1>8
<1>10. kspare' \in Nat
  BY <1>1, <1>4, <1>7
<1>11. IsFiniteSet(Users) /\ Cardinality(Users) \in Nat
  BY <1>2, DirFacts, FS_CardinalityType
<1>12. ASSUME ~aborted
       PROVE  /\ FramesPrivate' /\ Clean'
              /\ UserFrames' \cup kframes' \cup BootFrames \subseteq frames'
              /\ Cardinality(kframes') = kspare' + 3 * Cardinality(Users')
  <2>1. UserFrames \cap kframes' = {}
    BY <1>1, <1>3, <1>5, <1>12, PrivateFacts
  <2>2. FramesPrivate' /\ Clean'
    BY <1>3, <1>8, <1>12, <2>1
  <2>3. UserFrames' \cup kframes' \cup BootFrames \subseteq frames'
    BY <1>1, <1>3, <1>8, <1>12
  <2>4. Cardinality(kframes) = kspare + 3 * Cardinality(Users) /\ kframes \subseteq frames
    BY <1>3, <1>12
  <2>5. Cardinality(kframes') = Cardinality(kframes) + 3 + SpareAfter(s) - kspare
    BY <1>1, <1>4, <1>7, <2>4
  <2>6. Cardinality(kframes') = kspare' + 3 * Cardinality(Users')
    BY <1>1, <1>2, <1>4, <1>7, <1>8, <1>11, <2>4, <2>5
  <2> QED BY <2>2, <2>3, <2>6
<1>13. um' \in [Slots -> 0..HEAP_PAGES]
  BY <1>1, <1>2
<1>14. fault' \in {"none", "panic"} /\ aborted' \in BOOLEAN
  BY <1>1, <1>2
<1>15. TypeOK'
  <2>1. \A q \in Slots : dir'[q] \in {NoDir, NullDir} \/ dir'[q] \in Dirs
    BY <1>8 DEF DirType
  <2> QED BY <1>9, <1>10, <1>13, <1>14, <2>1
          DEF TypeOK, Frame, Dirs, Page, NoDir, NullDir
<1> QED BY <1>1, <1>8, <1>9, <1>12, <1>15
        DEF IInv, NoFrameLeak, ChunksUntilAbort, Marked, BootFrames

LEMMA StutterStep ==
  ASSUME IInv, UNCHANGED <<frames, kframes, kspare, dir, um, aborted>>,
         fault' \in {"none", "panic"}
  PROVE  IInv'
<1>1. /\ Users' = Users /\ UserFrames' = UserFrames
      /\ DirType' /\ HeapMapped' /\ (Clean' <=> Clean)
      /\ FramesPrivate /\ UserFrames \cap kframes' = {} => FramesPrivate'
  BY SameDirs DEF IInv
<1>2. FramesPrivate => FramesPrivate'
  BY <1>1, PrivateFacts
<1>3. (Marked => Marked') /\ (NoFrameLeak => NoFrameLeak')
  BY <1>1 DEF Marked, NoFrameLeak, BootFrames
<1>4. ChunksUntilAbort => ChunksUntilAbort'
  BY <1>1 DEF ChunksUntilAbort
<1>5. TypeOK => TypeOK'
  BY <1>1 DEF TypeOK, Frame, Dirs, Page, NoDir, NullDir
<1> QED BY <1>1, <1>2, <1>3, <1>4, <1>5 DEF IInv

LEMMA RunPanicsStep ==
  ASSUME IInv, NEW p \in Slots, RunPanics(p)
  PROVE  IInv'
BY StutterStep DEF RunPanics

LEMMA GrowAbortedStep ==
  ASSUME IInv, NEW p \in Slots, NEW n \in 1..MAX_GROWTH, GrowAborted(p, n)
  PROVE  IInv'
<1> DEFINE e == dir[p]
           s == GrowSteps(p, n)
           u == um[p]
           G == Range(s)
           D == PagesDone(s)
           m == [v \in Page |->
                   IF v \in Range(s) THEN [Mapped(e, s)[v] EXCEPT !.present = FALSE]
                   ELSE e[v]]
<1>1. /\ HasDir(p) /\ u + n <= HEAP_PAGES
      /\ dir' = [dir EXCEPT ![p] = m]
      /\ aborted' = (aborted \/ Done(s) > 0)
      /\ frames' = frames /\ kframes' = kframes /\ kspare' = kspare
      /\ um' = um /\ fault' = fault
  BY DEF GrowAborted
<1>2. /\ kspare \in Nat /\ frames \subseteq Frame /\ DirType
      /\ u \in 0..HEAP_PAGES /\ HEAP_PAGES \in Nat /\ MAX_GROWTH \in Nat
  BY MemoryAssumption DEF IInv, TypeOK
<1>3. n \in Nat /\ u \in Nat /\ n >= 1
  BY <1>2
<1>4. /\ Request(s)
      /\ D \subseteq (u + 1)..(u + n) /\ G = (u + 1)..(u + n)
      /\ G \subseteq Page \ TopPage
      /\ Done(s) \in Nat
      /\ Done(s) = 0 => D = {}
  <2>1. um[p] \in Nat /\ um[p] + n <= HEAP_PAGES
    BY <1>1, <1>3
  <2>2. /\ Request(GrowSteps(p, n))
        /\ PagesDone(GrowSteps(p, n)) \subseteq (um[p] + 1)..(um[p] + n)
        /\ Range(GrowSteps(p, n)) = (um[p] + 1)..(um[p] + n)
        /\ (um[p] + 1)..(um[p] + n) \subseteq Page \ TopPage
    BY <1>2, <1>3, <2>1, GrowFacts
  <2>3. /\ Done(GrowSteps(p, n)) \in Nat
        /\ Done(GrowSteps(p, n)) = 0 => PagesDone(GrowSteps(p, n)) = {}
    BY <1>2, <1>3, <2>1, GrowFacts
  <2> QED BY <2>2, <2>3
<1>5. e \in Dirs /\ p \in Users
  BY <1>1, <1>2, DirFacts
<1>6. /\ Present(p) = 1..u \cup TopPage
      /\ ~aborted => \A v \in Page : ~e[v].present => e[v].address = 0
  BY <1>5 DEF IInv, HeapMapped, Clean
<1>7. \A v \in Page : e[v].present <=> v \in 1..u \cup TopPage
  BY <1>6 DEF Present
<1>8. Mapped(e, s) \in Dirs /\ \A v \in Page \ D : Mapped(e, s)[v] = e[v]
  <2> HIDE DEF e, s
  <2> QED BY <1>2, <1>4, <1>5, MappedFacts DEF D
<1>9. \A v \in Page : m[v] = IF v \in G
        THEN [Mapped(e, s)[v] EXCEPT !.present = FALSE] ELSE e[v]
  OBVIOUS
<1>10. m = [v \in Page |-> m[v]]
  OBVIOUS
<1> HIDE DEF u, m, s, G, D
<1>11. \A v \in G : ~e[v].present
  BY <1>3, <1>4, <1>7
<1>12. ASSUME NEW v \in Page
       PROVE  /\ m[v] \in [present : BOOLEAN, address : Frame]
              /\ m[v].present = e[v].present
              /\ v \notin D => m[v].address = e[v].address
              /\ v \notin G => m[v] = e[v]
  <2>1. /\ e[v] \in [present : BOOLEAN, address : Frame]
        /\ Mapped(e, s)[v] \in [present : BOOLEAN, address : Frame]
    BY <1>5, <1>8 DEF Dirs
  <2>2. CASE v \in G
    <3>1. m[v] = [Mapped(e, s)[v] EXCEPT !.present = FALSE]
      BY <1>9, <2>2
    <3>2. /\ m[v] \in [present : BOOLEAN, address : Frame]
          /\ m[v].present = FALSE /\ m[v].address = Mapped(e, s)[v].address
      BY <2>1, <3>1
    <3>3. e[v].present = FALSE
      BY <1>11, <2>1, <2>2
    <3> QED BY <1>8, <2>2, <3>2, <3>3
  <2>3. CASE v \notin G
    BY <1>9, <2>1, <2>3
  <2> QED BY <2>2, <2>3
<1>13. m \in Dirs
  BY <1>10, <1>12 DEF Dirs
<1>14. /\ dir' \in [Slots -> {NoDir, NullDir} \cup Dirs] /\ dir'[p] = m
       /\ \A q \in Slots : q # p => dir'[q] = dir[q]
  BY <1>1, <1>2, <1>13 DEF DirType
<1>15. \A q \in Slots : HasDir(q)' <=> HasDir(q)
  <2>1. HasDir(p)'
    BY <1>13, <1>14, DirsAreDirs DEF HasDir
  <2> QED BY <1>1, <1>14, <2>1 DEF HasDir
<1>16. Users' = Users
  BY <1>15 DEF Users
<1>17. ASSUME NEW q \in Slots, NEW v \in Page
       PROVE  /\ dir'[q][v].present = dir[q][v].present
              /\ Uses(q, v)' <=> Uses(q, v)
              /\ Uses(q, v) => dir'[q][v].address = dir[q][v].address
  <2>1. CASE q # p
    BY <1>14, <1>15, <2>1 DEF Uses
  <2>2. CASE q = p
    <3>1. dir'[p][v].present = e[v].present
      BY <1>12, <1>14
    <3>2. Uses(p, v)' <=> Uses(p, v)
      BY <1>15, <3>1 DEF Uses, e
    <3>3. Uses(p, v) => v \notin G
      BY <1>11 DEF Uses, e
    <3>4. Uses(p, v) => dir'[p][v].address = dir[p][v].address
      BY <1>12, <1>14, <3>3 DEF e
    <3> QED BY <2>2, <3>1, <3>2, <3>4 DEF e
  <2> QED BY <2>1, <2>2
<1>18. /\ UserFrames' = UserFrames
       /\ FramesPrivate /\ UserFrames \cap kframes' = {} => FramesPrivate'
  BY <1>17, SameUses
<1>19. ASSUME NEW q \in Users PROVE Present(q)' = Present(q)
  <2>1. q \in Slots
    BY DEF Users
  <2> QED BY <1>17, <2>1 DEF Present
<1>20. HeapMapped'
  <2>1. \A q \in Users : Present(q) = 1..um[q] \cup TopPage
    BY DEF IInv, HeapMapped
  <2> QED BY <1>1, <1>16, <1>19, <2>1 DEF HeapMapped, TopPage, Page
<1>21. ASSUME ~aborted' PROVE FramesPrivate' /\ Marked' /\ Clean'
  <2>1. ~aborted /\ ~(Done(s) > 0)
    BY <1>1, <1>21
  <2>2. D = {}
    BY <1>4, <2>1
  <2>3. FramesPrivate /\ Marked /\ Clean
    BY <2>1 DEF IInv
  <2>4. FramesPrivate'
    BY <1>1, <1>18, <2>3, PrivateFacts
  <2>5. Marked'
    BY <1>1, <1>18, <2>3 DEF Marked, BootFrames
  <2>6. ASSUME NEW q \in Users, NEW v \in Page, ~dir'[q][v].present
        PROVE  dir'[q][v].address = 0
    <3>1. q \in Slots
      BY DEF Users
    <3>2. ~dir[q][v].present
      BY <1>17, <2>6, <3>1
    <3>3. dir[q][v].address = 0
      BY <2>3, <3>2 DEF Clean
    <3>4. CASE q # p
      BY <1>14, <3>1, <3>3, <3>4
    <3>5. CASE q = p
      BY <1>12, <1>14, <2>2, <3>3, <3>5 DEF e
    <3> QED BY <3>4, <3>5
  <2>7. Clean'
    BY <1>16, <2>6 DEF Clean, Page
  <2> QED BY <2>4, <2>5, <2>7
<1>22. NoFrameLeak'
  BY <1>1, <1>18 DEF IInv, NoFrameLeak, BootFrames
<1>23. ChunksUntilAbort'
  <2>1. ~aborted' => ~aborted
    BY <1>1
  <2> QED BY <1>1, <1>16, <2>1 DEF IInv, ChunksUntilAbort
<1>24. aborted' \in BOOLEAN
  BY <1>1 DEF IInv, TypeOK
<1>25. TypeOK'
  <2>1. \A q \in Slots : dir'[q] \in {NoDir, NullDir} \/ dir'[q] \in Dirs
    BY <1>14
  <2>2. TypeOK
    BY DEF IInv
  <2> QED BY <1>1, <1>18, <1>24, <2>1, <2>2
          DEF TypeOK, Frame, Dirs, Page, NoDir, NullDir
<1>26. DirType' /\ 0 \in frames'
  BY <1>1, <1>14 DEF DirType, IInv, Dirs, Page, Frame, NoDir, NullDir
<1> QED BY <1>20, <1>21, <1>22, <1>23, <1>25, <1>26 DEF IInv

LEMMA ForkFailsStep ==
  ASSUME IInv, NEW p \in Slots, NEW c \in Slots, ForkFails(p, c)
  PROVE  IInv'
<1> DEFINE e == dir[p]
           s == ForkSteps(p)
           T == TakenFrames(s)
           C == ChunkFrames(s)
           D == PagesDone(s)
           freed == {Copied(p)[v].address : v \in TablesMade(p)} \ {0}
<1>1. /\ HasDir(p) /\ dir[c] = NoDir
      /\ frames' = (frames \cup T) \ freed
      /\ kframes' = kframes \cup C
      /\ kspare' = SpareAfter(s) + ChunksTaken(s)
      /\ dir' = [dir EXCEPT ![c] = NullDir]
      /\ um' = [um EXCEPT ![c] = um[p]]
      /\ fault' = fault /\ aborted' = TRUE
  BY DEF ForkFails
<1>2. /\ kspare \in Nat /\ frames \subseteq Frame /\ kframes \subseteq Frame
      /\ 0 \in frames /\ 0 \notin UserFrames \cup kframes
      /\ frames \subseteq BootFrames \cup kframes \cup UserFrames
      /\ DirType /\ um \in [Slots -> 0..HEAP_PAGES]
      /\ fault \in {"none", "panic"}
  BY DEF IInv, TypeOK, NoFrameLeak
<1>3. Request(s) /\ D \subseteq TablesMade(p) /\ TablesMade(p) \subseteq Page
  BY <1>2, ForkFacts
<1>4. /\ T \subseteq Frame \ frames /\ C \subseteq T
      /\ \A f \in T \ C : \E v \in D : f = PageFrame(s, v)
  BY <1>2, <1>3, RequestFrames
<1>5. SpareAfter(s) \in Nat /\ ChunksTaken(s) \in Nat
  BY <1>2, <1>3, SpareFacts
<1>6. e \in Dirs
  BY <1>1, <1>2, DirFacts
<1>7. \A v \in D : Copied(p)[v].address = PageFrame(s, v)
  <2>1. Copied(p) = Mapped(e, s)
    BY DEF Copied
  <2> HIDE DEF e, s
  <2> QED BY <1>2, <1>3, <1>6, <2>1, MappedFacts DEF D
<1>8. ASSUME NEW f \in T \ C PROVE f \in freed
  <2>1. PICK v \in D : f = PageFrame(s, v)
    BY <1>4
  <2>2. v \in TablesMade(p) /\ Copied(p)[v].address = f
    BY <1>3, <1>7, <2>1
  <2>3. f # 0
    BY <1>2, <1>4
  <2> QED BY <2>2, <2>3
<1>9. 0 \notin freed
  OBVIOUS
<1> HIDE DEF s, T, C, D, freed, e
<1>10. /\ dir' \in [Slots -> {NoDir, NullDir} \cup Dirs] /\ dir'[c] = NullDir
       /\ \A q \in Slots : q # c => dir'[q] = dir[q]
  BY <1>1, <1>2 DEF DirType
<1>11. \A q \in Slots : HasDir(q)' <=> HasDir(q)
  BY <1>1, <1>10 DEF HasDir
<1>12. Users' = Users /\ c \notin Users
  BY <1>1, <1>11 DEF Users, HasDir
<1>13. ASSUME NEW q \in Slots, NEW v \in Page
       PROVE  /\ Uses(q, v)' <=> Uses(q, v)
              /\ Uses(q, v) => dir'[q][v].address = dir[q][v].address
  <2>1. CASE q # c
    BY <1>10, <1>11, <2>1 DEF Uses
  <2>2. CASE q = c
    BY <1>1, <1>11, <2>2 DEF Uses, HasDir
  <2> QED BY <2>1, <2>2
<1>14. UserFrames' = UserFrames
  BY <1>13, SameUses
<1>15. /\ frames' \subseteq Frame /\ kframes' \subseteq Frame
       /\ 0 \in frames' /\ 0 \notin UserFrames' \cup kframes'
  BY <1>1, <1>2, <1>4, <1>9, <1>14
<1>16. NoFrameLeak'
  <2>1. frames' \subseteq BootFrames \cup kframes' \cup UserFrames'
    BY <1>1, <1>2, <1>8, <1>14
  <2> QED BY <2>1 DEF NoFrameLeak, BootFrames
<1>17. um' \in [Slots -> 0..HEAP_PAGES] /\ \A q \in Slots : q # c => um'[q] = um[q]
  BY <1>1, <1>2
<1>18. HeapMapped'
  <2> SUFFICES ASSUME NEW q \in Users PROVE Present(q)' = 1..um'[q] \cup TopPage
    BY <1>12 DEF HeapMapped, TopPage, Page
  <2>1. q \in Slots /\ q # c
    BY <1>12 DEF Users
  <2>2. dir'[q] = dir[q] /\ um'[q] = um[q]
    BY <1>10, <1>17, <2>1
  <2>3. Present(q)' = Present(q)
    BY <2>2 DEF Present
  <2> QED BY <2>2, <2>3 DEF IInv, HeapMapped
<1>19. TypeOK'
  <2>1. \A q \in Slots : dir'[q] \in {NoDir, NullDir} \/ dir'[q] \in Dirs
    BY <1>10
  <2>2. kspare' \in Nat
    BY <1>1, <1>5
  <2>3. fault' \in {"none", "panic"} /\ aborted' \in BOOLEAN
    BY <1>1, <1>2
  <2> QED BY <1>15, <1>17, <2>1, <2>2, <2>3
          DEF TypeOK, Frame, Dirs, Page, NoDir, NullDir
<1>20. DirType'
  BY <1>10 DEF DirType, Dirs, Page, Frame, NoDir, NullDir
<1>21. ChunksUntilAbort'
  BY <1>1 DEF ChunksUntilAbort
<1> QED BY <1>1, <1>15, <1>16, <1>18, <1>19, <1>20, <1>21 DEF IInv

LEMMA ExitStep ==
  ASSUME IInv, NEW p \in Slots, Exit(p)
  PROVE  IInv'
<1> DEFINE e == dir[p]
           F == {e[v].address : v \in Page} \ {0}
<1>1. /\ HasDir(p)
      /\ frames' = frames \ F
      /\ kspare' = kspare + 3
      /\ dir' = [dir EXCEPT ![p] = NoDir]
      /\ um' = [um EXCEPT ![p] = 0]
      /\ kframes' = kframes /\ fault' = fault /\ aborted' = aborted
  BY DEF Exit, FreedFrames, FreedChunks
<1>2. /\ kspare \in Nat /\ frames \subseteq Frame /\ kframes \subseteq Frame
      /\ 0 \in frames /\ 0 \notin UserFrames \cup kframes
      /\ frames \subseteq BootFrames \cup kframes \cup UserFrames
      /\ DirType /\ um \in [Slots -> 0..HEAP_PAGES]
      /\ fault \in {"none", "panic"} /\ aborted \in BOOLEAN
  BY DEF IInv, TypeOK, NoFrameLeak
<1>3. ~aborted => /\ FramesPrivate /\ Clean
                  /\ UserFrames \cup kframes \cup BootFrames \subseteq frames
                  /\ Cardinality(kframes) = kspare + 3 * Cardinality(Users)
  BY DEF IInv, Marked, ChunksUntilAbort
<1>4. p \in Users /\ Users \subseteq Slots /\ IsFiniteSet(Users)
  BY <1>1, <1>2, DirFacts
<1>5. /\ dir' \in [Slots -> {NoDir, NullDir} \cup Dirs] /\ dir'[p] = NoDir
      /\ \A q \in Slots : q # p => dir'[q] = dir[q]
  BY <1>1, <1>2 DEF DirType
<1>6. \A q \in Slots : HasDir(q)' <=> HasDir(q) /\ q # p
  BY <1>5 DEF HasDir
<1>7. Users' = Users \ {p}
  BY <1>6 DEF Users
<1>8. ASSUME NEW q \in Slots, NEW v \in Page
      PROVE  /\ Uses(q, v)' <=> Uses(q, v) /\ q # p
             /\ q # p => dir'[q][v].address = dir[q][v].address
  BY <1>5, <1>6 DEF Uses
<1>9. ASSUME NEW f \in UserFrames'
      PROVE  \E q \in Slots, v \in Page :
               q # p /\ Uses(q, v) /\ dir[q][v].address = f
  <2>1. PICK q \in Slots, v \in Page : Uses(q, v)' /\ dir'[q][v].address = f
    BY UserFramesFacts
  <2> QED BY <1>8, <2>1
<1>10. UserFrames' \subseteq UserFrames
  BY <1>9, UserFramesFacts
<1>11. ASSUME NEW f \in UserFrames, f \notin UserFrames' PROVE f \in F
  <2>1. PICK q \in Slots, v \in Page : Uses(q, v) /\ dir[q][v].address = f
    BY UserFramesFacts
  <2>2. q = p
    <3>1. q # p => Uses(q, v)' /\ dir'[q][v].address = f
      BY <1>8, <2>1
    <3> QED BY <1>11, <3>1, UserFramesFacts
  <2> QED BY <1>2, <2>1, <2>2
<1>12. 0 \notin F
  OBVIOUS
\* The frames that are freed are frames of p, and of no one else.
<1>13. ASSUME ~aborted, NEW f \in F
       PROVE  f \notin BootFrames \cup kframes \cup UserFrames'
  <2>1. PICK w \in Page : e[w].address = f /\ f # 0
    OBVIOUS
  <2>2. Uses(p, w)
    BY <1>1, <1>3, <1>4, <1>13, <2>1 DEF Clean, Uses
  <2>3. f \in UserFrames
    BY <2>1, <2>2, UserFramesFacts
  <2>4. ASSUME f \in UserFrames' PROVE FALSE
    <3>1. PICK q \in Slots, v \in Page :
            q # p /\ Uses(q, v) /\ dir[q][v].address = f
      BY <1>9, <2>4
    <3> QED BY <1>3, <1>13, <2>1, <2>2, <3>1, PrivateFacts
  <2> QED BY <1>3, <1>13, <2>3, <2>4, PrivateFacts
<1> HIDE DEF F, e
<1>14. /\ frames' \subseteq Frame /\ kframes' \subseteq Frame
       /\ 0 \in frames' /\ 0 \notin UserFrames' \cup kframes'
  BY <1>1, <1>2, <1>10, <1>12
<1>15. NoFrameLeak'
  <2>1. frames' \subseteq BootFrames \cup kframes' \cup UserFrames'
    BY <1>1, <1>2, <1>11
  <2> QED BY <2>1 DEF NoFrameLeak, BootFrames
<1>16. um' \in [Slots -> 0..HEAP_PAGES] /\ \A q \in Slots : q # p => um'[q] = um[q]
  BY <1>1, <1>2, MemoryAssumption
<1>17. ASSUME NEW q \in Users' PROVE q \in Users /\ q \in Slots /\ q # p /\ dir'[q] = dir[q]
  BY <1>4, <1>5, <1>7, <1>17
<1>18. HeapMapped'
  <2> SUFFICES ASSUME NEW q \in Users' PROVE Present(q)' = 1..um'[q] \cup TopPage
    BY DEF HeapMapped, TopPage, Page
  <2>1. q \in Users /\ dir'[q] = dir[q] /\ um'[q] = um[q]
    BY <1>16, <1>17
  <2>2. Present(q)' = Present(q)
    BY <2>1 DEF Present
  <2> QED BY <2>1, <2>2 DEF IInv, HeapMapped
<1>19. ASSUME ~aborted PROVE FramesPrivate' /\ Marked' /\ Clean'
  <2>1. UserFrames' \cap (BootFrames \cup kframes') = {}
    BY <1>1, <1>3, <1>10, <1>19, PrivateFacts
  <2>2. ASSUME NEW q \in Slots, NEW r \in Slots, NEW v \in Page, NEW w \in Page,
               Uses(q, v)', Uses(r, w)', dir'[q][v].address = dir'[r][w].address
        PROVE  q = r /\ v = w
    <3>1. Uses(q, v) /\ Uses(r, w) /\ dir[q][v].address = dir[r][w].address
      BY <1>8, <2>2
    <3> QED BY <1>3, <1>19, <3>1, PrivateFacts
  <2>3. FramesPrivate'
    BY <2>1, <2>2, PrivateFacts
  <2>4. UserFrames' \cup kframes' \cup BootFrames \subseteq frames'
    BY <1>1, <1>3, <1>10, <1>13, <1>19
  <2>5. Clean'
    BY <1>3, <1>17, <1>19 DEF Clean, Page
  <2> QED BY <2>3, <2>4, <2>5 DEF Marked, BootFrames
<1>20. ChunksUntilAbort'
  <2>1. /\ Cardinality(Users') = Cardinality(Users) - 1
        /\ Cardinality(Users) \in Nat
    BY <1>4, <1>7, FS_RemoveElement, FS_CardinalityType
  <2>2. ASSUME ~aborted PROVE Cardinality(kframes') = kspare' + 3 * Cardinality(Users')
    BY <1>1, <1>2, <1>3, <2>1, <2>2
  <2> QED BY <1>1, <2>2 DEF ChunksUntilAbort
<1>21. TypeOK'
  <2>1. \A q \in Slots : dir'[q] \in {NoDir, NullDir} \/ dir'[q] \in Dirs
    BY <1>5
  <2>2. kspare' \in Nat /\ fault' \in {"none", "panic"} /\ aborted' \in BOOLEAN
    BY <1>1, <1>2
  <2> QED BY <1>14, <1>16, <2>1, <2>2
          DEF TypeOK, Frame, Dirs, Page, NoDir, NullDir
<1>22. DirType'
  BY <1>5 DEF DirType, Dirs, Page, Frame, NoDir, NullDir
<1> QED BY <1>1, <1>14, <1>15, <1>18, <1>19, <1>20, <1>21, <1>22 DEF IInv

-----------------------------------------------------------------------------
\* After paging_install no process has a directory.
LEMMA InitInv ==
  ASSUME Init
  PROVE  IInv
<1>1. /\ frames = BootFrames /\ kframes = {} /\ kspare = 0
      /\ dir = [p \in Slots |-> NoDir] /\ um = [p \in Slots |-> 0]
      /\ fault = "none" /\ aborted = FALSE
  BY DEF Init
<1>2. \A p \in Slots : ~HasDir(p)
  BY <1>1 DEF HasDir
<1>3. Users = {}
  BY <1>2 DEF Users
<1>4. UserFrames = {}
  BY <1>3 DEF UserFrames
<1>5. Cardinality({}) = 0
  BY FS_EmptySet
<1>6. frames \subseteq Frame /\ 0 \in frames /\ HEAP_PAGES \in Nat
  BY <1>1, ConstFacts
<1>7. TypeOK
  <2>1. um \in [Slots -> 0..HEAP_PAGES]
    BY <1>1, <1>6
  <2>2. \A p \in Slots : dir[p] \in {NoDir, NullDir}
    BY <1>1
  <2>3. kframes \subseteq Frame /\ 0 \notin UserFrames \cup kframes
    BY <1>1, <1>4
  <2>4. /\ kspare \in Nat /\ fault \in {"none", "panic"} /\ aborted \in BOOLEAN
    BY <1>1
  <2> QED BY <1>6, <2>1, <2>2, <2>3, <2>4 DEF TypeOK
<1>8. DirType /\ HeapMapped /\ NoFrameLeak
  BY <1>1, <1>3 DEF DirType, HeapMapped, NoFrameLeak
<1>9. ChunksUntilAbort
  BY <1>1, <1>3, <1>5 DEF ChunksUntilAbort
<1>10. FramesPrivate /\ Marked /\ Clean
  BY <1>1, <1>3, <1>4 DEF FramesPrivate, Marked, Clean
<1> QED BY <1>6, <1>7, <1>8, <1>9, <1>10 DEF IInv

LEMMA StepInv ==
  ASSUME IInv, [Next]_vars
  PROVE  IInv'
<1>1. ASSUME NEW p \in Slots, Run(p) PROVE IInv'
  BY <1>1, RunStep
<1>2. ASSUME NEW p \in Slots, RunUnknown(p) PROVE IInv'
  BY <1>2, RunUnknownStep
<1>3. ASSUME NEW p \in Slots, RunPanics(p) PROVE IInv'
  BY <1>3, RunPanicsStep
<1>4. ASSUME NEW p \in Slots, NEW n \in 1..MAX_GROWTH, Grow(p, n) PROVE IInv'
  BY <1>4, GrowStep
<1>5. ASSUME NEW p \in Slots, NEW n \in 1..MAX_GROWTH, GrowAborted(p, n) PROVE IInv'
  BY <1>5, GrowAbortedStep
<1>6. ASSUME NEW p \in Slots, NEW c \in Slots, Fork(p, c) PROVE IInv'
  BY <1>6, ForkStep
<1>7. ASSUME NEW p \in Slots, NEW c \in Slots, ForkFails(p, c) PROVE IInv'
  BY <1>7, ForkFailsStep
<1>8. ASSUME NEW p \in Slots, Exit(p) PROVE IInv'
  BY <1>8, ExitStep
<1>9. CASE UNCHANGED vars
  <2>1. UNCHANGED <<frames, kframes, kspare, dir, um, aborted>>
    BY <1>9 DEF vars
  <2>2. fault' \in {"none", "panic"}
    BY <1>9 DEF vars, IInv, TypeOK
  <2> QED BY <2>1, <2>2, StutterStep
<1> QED BY <1>1, <1>2, <1>3, <1>4, <1>5, <1>6, <1>7, <1>8, <1>9 DEF Next

\* The invariant holds in every reachable state of Paging, for every number of
\* frames, pages and slots.
THEOREM Invariance == Spec => []IInv
<1>1. Init => IInv
  BY InitInv
<1>2. IInv /\ [Next]_vars => IInv'
  BY StepInv
<1> QED BY <1>1, <1>2, PTL DEF Spec

\* Frames, directories and the bounds of the heaps keep their types, and frame
\* 0, by which first_false_bit and the table entries say "none", is never
\* mapped.
THEOREM TypeCorrect == Spec => []TypeOK
<1>1. IInv => TypeOK
  BY DEF IInv
<1> QED BY <1>1, Invariance, PTL

\* map_page "maps the given page to a free frame": no frame is ever behind two
\* pages, or behind a page and the kernel heap, until a fork or the extension
\* of a heap has failed half-way.
THEOREM MemoryPrivate == Spec => []PrivateUntilAbort
<1>1. IInv => PrivateUntilAbort
  BY DEF IInv, PrivateUntilAbort
<1> QED BY <1>1, Invariance, PTL

\* Until then first_false_bit finds no frame that is in use: free_page_dir of
\* one process clears the bit of no frame of another.
THEOREM MemoryMarked == Spec => []MarkedUntilAbort
<1>1. IInv => MarkedUntilAbort
  BY DEF IInv, MarkedUntilAbort, Marked
<1> QED BY <1>1, Invariance, PTL

\* Every frame that is marked is one of the kernel or of a process alive, even
\* when a fork or a growth has failed half-way: free_page_dir and the roll-back
\* of extend_heap give back all that they took.
THEOREM NoFrameLost == Spec => []NoFrameLeak
<1>1. IInv => NoFrameLeak
  BY DEF IInv
<1> QED BY <1>1, Invariance, PTL

\* The kernel heap gets back the directory and the tables of each process that
\* ends, and of each run of a program that is not found.
THEOREM ChunksAccounted == Spec => []ChunksUntilAbort
<1>1. IInv => ChunksUntilAbort
  BY DEF IInv
<1> QED BY <1>1, Invariance, PTL

\* The heap of each process is mapped exactly up to its unallocated_mem, after
\* any failures: extend_heap neither maps a page twice nor leaves a hole.
THEOREM HeapsMapped == Spec => []HeapMapped
<1>1. IInv => HeapMapped
  BY DEF IInv
<1> QED BY <1>1, Invariance, PTL

=============================================================================
