---------------------- MODULE FreeTimeActivities_proofs ----------------------
(***************************************************************************)
(* Free-time activities and the planner, for any activities, plans, shares *)
(* and calendars, and any number of edits at once.                         *)
(***************************************************************************)
EXTENDS FreeTimeActivities, FiniteSetTheorems, TLAPS

-----------------------------------------------------------------------------
(* Numbers, ranks and folds.                                               *)

\* Every non-empty set of natural numbers has a least one.
LEMMA Least ==
    ASSUME NEW T \in SUBSET Nat, T # {}
    PROVE  \E m \in T : \A n \in T : m <= n
<1> DEFINE R == OpToRel(<, Nat)
<1>1. IsWellFoundedOn(R, Nat)
  BY NatLessThanWellFounded
<1>2. \E m \in T : \A n \in T : ~(<<n, m>> \in R)
  <2> HIDE DEF R
  <2> QED BY <1>1, WFMin
<1>3. \A m, n \in Nat : <<n, m>> \in R <=> n < m
  BY DEF OpToRel
<1>4. PICK m \in T : \A n \in T : ~(<<n, m>> \in R)
  BY <1>2
<1>5. \A n \in T : ~(n < m)
  <2> HIDE DEF R
  <2> QED BY <1>3, <1>4
<1> QED BY <1>5

StrictOrder(S, R) ==
    /\ \A x, y \in S : x # y => <<x, y>> \in R \/ <<y, x>> \in R
    /\ \A x \in S : <<x, x>> \notin R
    /\ \A x, y, z \in S : <<x, y>> \in R /\ <<y, z>> \in R => <<x, z>> \in R

\* How many elements of S are earlier than each.
Rank(S, R) == [x \in S |-> Cardinality({y \in S : <<y, x>> \in R})]

\* In a finite set with a strict total order every element has a rank of its own, and
\* the ranks are 0, 1, 2 and so on.
LEMMA Ranks ==
    ASSUME NEW S, IsFiniteSet(S), NEW R, StrictOrder(S, R)
    PROVE  /\ Rank(S, R) \in Bijection(S, 0 .. Cardinality(S) - 1)
           /\ \A x, y \in S : <<x, y>> \in R => Rank(S, R)[x] < Rank(S, R)[y]
<1> USE DEF StrictOrder
<1> DEFINE below(x) == {y \in S : <<y, x>> \in R}
           rank == [x \in S |-> Cardinality(below(x))]
<1>r. Rank(S, R) = rank
  BY DEF Rank
<1>0. Cardinality(S) \in Nat
  BY FS_CardinalityType
<1>1. \A x \in S : IsFiniteSet(below(x)) /\ Cardinality(below(x)) \in Nat
  <2> TAKE x \in S
  <2>1. below(x) \in SUBSET S
    OBVIOUS
  <2> HIDE DEF below
  <2> QED BY <2>1, FS_Subset, FS_CardinalityType
<1>2. \A x \in S : rank[x] \in 0 .. Cardinality(S) - 1
  <2> TAKE x \in S
  <2>1. below(x) \in SUBSET S /\ x \notin below(x)
    OBVIOUS
  <2> HIDE DEF below
  <2>2. Cardinality(below(x)) <= Cardinality(S) /\ Cardinality(below(x)) # Cardinality(S)
    BY <2>1, FS_Subset
  <2> QED BY <1>0, <1>1, <2>2
<1>3. ASSUME NEW x \in S, NEW y \in S, <<x, y>> \in R
      PROVE  rank[x] < rank[y]
  <2>1. below(x) \in SUBSET below(y) /\ below(x) # below(y)
    BY <1>3
  <2> HIDE DEF below
  <2>2. Cardinality(below(x)) <= Cardinality(below(y)) /\ Cardinality(below(x)) # Cardinality(below(y))
    BY <1>1, <2>1, FS_Subset
  <2> QED BY <1>1, <2>2
<1>4. rank \in Injection(S, 0 .. Cardinality(S) - 1)
  <2>1. rank \in [S -> 0 .. Cardinality(S) - 1]
    BY <1>2
  <2>2. ASSUME NEW x \in S, NEW y \in S, x # y
        PROVE  rank[x] # rank[y]
    <3>1. rank[x] < rank[y] \/ rank[y] < rank[x]
      <4> HIDE DEF rank
      <4> QED BY <1>3, <2>2
    <3>2. rank[x] \in Nat /\ rank[y] \in Nat
      <4> HIDE DEF below
      <4> QED BY <1>1
    <3> HIDE DEF rank
    <3> QED BY <3>1, <3>2
  <2> HIDE DEF rank
  <2> QED BY <2>1, <2>2 DEF Injection, IsInjective
<1>5. IsFiniteSet(0 .. Cardinality(S) - 1) /\ Cardinality(0 .. Cardinality(S) - 1) = Cardinality(S)
  <2> DEFINE n == Cardinality(S)
  <2>1. n \in Nat /\ 0 \in Int /\ n - 1 \in Int
    BY <1>0
  <2> HIDE DEF n, rank, below
  <2>2. IsFiniteSet(0 .. n - 1) /\ Cardinality(0 .. n - 1) = IF 0 > n - 1 THEN 0 ELSE (n - 1) - 0 + 1
    BY <2>1, FS_Interval
  <2>3. IsFiniteSet(0 .. n - 1) /\ Cardinality(0 .. n - 1) = n
    BY <2>1, <2>2
  <2> QED BY <2>3 DEF n
<1>6. rank \in Bijection(S, 0 .. Cardinality(S) - 1)
  <2> HIDE DEF rank
  <2>1. rank \in Surjection(S, 0 .. Cardinality(S) - 1)
    BY <1>4, <1>5, FS_Injection
  <2> QED BY <1>4, <2>1 DEF Bijection
<1> HIDE DEF rank
<1> QED BY <1>r, <1>3, <1>6

\* The list holds every member of S once.
Lists(seq, S) ==
    /\ seq \in Seq(S) /\ Len(seq) = Cardinality(S)
    /\ \A m, n \in 1 .. Len(seq) : seq[m] = seq[n] => m = n
    /\ \A x \in S : \E n \in 1 .. Len(seq) : seq[n] = x

\* Every element at the place its rank says.
LEMMA RankedLists ==
    ASSUME NEW S, IsFiniteSet(S), NEW R, StrictOrder(S, R),
           NEW seq, seq = [n \in 1 .. Cardinality(S) |-> CHOOSE x \in S : Rank(S, R)[x] = n - 1]
    PROVE  Lists(seq, S) /\ \A n \in 1 .. Len(seq) : Rank(S, R)[seq[n]] = n - 1
<1> DEFINE rank == Rank(S, R)
<1>1. rank \in Bijection(S, 0 .. Cardinality(S) - 1)
  BY Ranks
<1> HIDE DEF rank
<1>2. Cardinality(S) \in Nat
  BY FS_CardinalityType
<1>3. /\ \A x \in S : rank[x] \in 0 .. Cardinality(S) - 1
      /\ \A x, y \in S : rank[x] = rank[y] => x = y
      /\ \A n \in 0 .. Cardinality(S) - 1 : \E x \in S : rank[x] = n
  BY <1>1 DEF Bijection, Injection, Surjection, IsInjective
<1>4. \A n \in 1 .. Cardinality(S) : seq[n] \in S /\ rank[seq[n]] = n - 1
  <2> TAKE n \in 1 .. Cardinality(S)
  <2>1. seq[n] = CHOOSE x \in S : rank[x] = n - 1
    BY DEF rank
  <2>2. n - 1 \in 0 .. Cardinality(S) - 1
    BY <1>2
  <2>3. \E x \in S : rank[x] = n - 1
    BY <1>3, <2>2
  <2> QED BY <2>1, <2>3
<1>5. seq \in Seq(S) /\ Len(seq) = Cardinality(S)
  <2>1. seq \in [1 .. Cardinality(S) -> S]
    BY <1>4
  <2>2. \A n \in Nat : \A f \in [1 .. n -> S] : f \in Seq(S) /\ Len(f) = n
    OBVIOUS
  <2> QED BY <1>2, <2>1, <2>2
<1>6. \A m, n \in 1 .. Len(seq) : seq[m] = seq[n] => m = n
  BY <1>2, <1>4, <1>5
<1>7. \A x \in S : \E n \in 1 .. Len(seq) : seq[n] = x
  <2> TAKE x \in S
  <2>1. rank[x] \in 0 .. Cardinality(S) - 1
    BY <1>3
  <2>2. rank[x] + 1 \in 1 .. Cardinality(S) /\ (rank[x] + 1) - 1 = rank[x]
    BY <1>2, <2>1
  <2>3. seq[rank[x] + 1] = x
    BY <1>3, <1>4, <2>2
  <2> QED BY <1>5, <2>2, <2>3
<1> QED BY <1>4, <1>5, <1>6, <1>7 DEF Lists, rank


\* A set of numbers with 0 that goes up by one holds all numbers up to a bound.
LEMMA UpTo ==
    ASSUME NEW k \in Nat, NEW S \in SUBSET (0 .. k), 0 \in S,
           \A n \in 1 .. k : n - 1 \in S => n \in S
    PROVE  S = 0 .. k
<1> DEFINE T == (0 .. k) \ S
<1>1. SUFFICES ASSUME T # {} PROVE FALSE
  OBVIOUS
<1>2. T \in SUBSET Nat
  OBVIOUS
<1>3. PICK m \in T : \A n \in T : m <= n
  <2> HIDE DEF T
  <2> QED BY <1>1, <1>2, Least
<1>4. m \in 1 .. k /\ m - 1 \in 0 .. k /\ ~(m <= m - 1)
  BY <1>3
<1>5. m - 1 \in S
  BY <1>3, <1>4
<1> QED BY <1>3, <1>4, <1>5

\* The sizes of intervals.
LEMMA IntervalSize ==
    ASSUME NEW a \in Int, NEW b \in Int
    PROVE  /\ IsFiniteSet(a .. b - 1) /\ Cardinality(a .. b - 1) \in Nat
           /\ a <= b => Cardinality(a .. b - 1) = b - a
<1>1. b - 1 \in Int
  OBVIOUS
<1>2. IsFiniteSet(a .. b - 1) /\ Cardinality(a .. b - 1) = IF a > b - 1 THEN 0 ELSE (b - 1) - a + 1
  BY <1>1, FS_Interval
<1>3. Cardinality(a .. b - 1) \in Nat
  BY <1>2, FS_CardinalityType
<1>4. ASSUME a <= b PROVE Cardinality(a .. b - 1) = b - a
  BY <1>2, <1>4
<1> QED BY <1>2, <1>3, <1>4

\* f takes the elements of every subset of D one after the other, as ch picks them.
Folding(D, ch, step, base, f) ==
    f = [s \in SUBSET D |->
            IF s = {} THEN base ELSE step[ch[s]][f[s \ {ch[s]}]]]

\* There is such a function, and steps that stay in St keep it there.
LEMMA FoldExists ==
    ASSUME NEW D, IsFiniteSet(D), NEW ch, \A s \in SUBSET D : s # {} => ch[s] \in s,
           NEW St, NEW base \in St, NEW step, \A d \in D : \A v \in St : step[d][v] \in St
    PROVE  \E f \in [SUBSET D -> St] : Folding(D, ch, step, base, f)
<1> DEFINE size(s) == Cardinality(s)
           Next1(f, s) == IF s = {} THEN base ELSE step[ch[s]][f[s \ {ch[s]}]]
           Good(n, f) == \A s \in SUBSET D : size(s) <= n => f[s] = Next1(f, s)
           Reach == {n \in 0 .. size(D) : \E f \in [SUBSET D -> St] : Good(n, f)}
<1>1. \A s \in SUBSET D : size(s) \in Nat /\ size(s) <= size(D) /\ IsFiniteSet(s)
  BY FS_Subset, FS_CardinalityType
<1>2. \A s \in SUBSET D : size(s) = 0 <=> s = {}
  BY <1>1, FS_EmptySet
<1>3. \A s \in SUBSET D : s # {} => s \ {ch[s]} \in SUBSET D /\ size(s \ {ch[s]}) = size(s) - 1
  BY <1>1, FS_RemoveElement
<1>4. size(D) \in Nat
  BY <1>1
<1> HIDE DEF size
<1>5. 0 \in Reach
  <2> DEFINE f == [s \in SUBSET D |-> base]
  <2>1. f \in [SUBSET D -> St]
    OBVIOUS
  <2>2. Good(0, f)
    BY <1>1, <1>2
  <2> HIDE DEF f, Good
  <2> QED BY <1>4, <2>1, <2>2
<1>6. ASSUME NEW n \in 1 .. size(D), n - 1 \in Reach
      PROVE  n \in Reach
  <2>1. PICK g \in [SUBSET D -> St] : Good(n - 1, g)
    BY <1>6
  <2> DEFINE f == [s \in SUBSET D |-> IF size(s) <= n - 1 THEN g[s] ELSE Next1(g, s)]
  <2>2. \A s \in SUBSET D : s # {} => ch[s] \in D /\ g[s \ {ch[s]}] \in St
    BY <1>3
  <2>3. \A s \in SUBSET D : Next1(g, s) \in St
    BY <2>2
  <2>4. f \in [SUBSET D -> St]
    <3> HIDE DEF Next1, Good
    <3> QED BY <2>3
  <2>5. \A s \in SUBSET D : size(s) <= n => Next1(f, s) = Next1(g, s)
    <3> TAKE s \in SUBSET D
    <3>1. CASE s = {}
      BY <3>1
    <3>2. CASE s # {} /\ size(s) <= n
      <4>1. s \ {ch[s]} \in SUBSET D /\ size(s \ {ch[s]}) <= n - 1
        BY <1>1, <1>3, <1>4, <3>2
      <4>2. f[s \ {ch[s]}] = g[s \ {ch[s]}]
        BY <4>1
      <4> HIDE DEF f
      <4> QED BY <4>2
    <3> QED BY <3>1, <3>2
  <2>6. \A s \in SUBSET D : size(s) <= n => f[s] = Next1(g, s)
    <3> TAKE s \in SUBSET D
    <3>1. size(s) <= n - 1 => g[s] = Next1(g, s)
      BY <2>1
    <3> HIDE DEF Next1, Good
    <3> QED BY <3>1
  <2>7. Good(n, f)
    <3> HIDE DEF f, Next1
    <3> QED BY <2>5, <2>6
  <2> HIDE DEF f, Good
  <2> QED BY <1>4, <2>4, <2>7
<1>7. Reach = 0 .. size(D)
  <2>1. Reach \in SUBSET (0 .. size(D))
    OBVIOUS
  <2> HIDE DEF Reach
  <2> QED BY <1>4, <1>5, <1>6, <2>1, UpTo
<1>8. size(D) \in Reach
  <2>1. size(D) \in 0 .. size(D)
    BY <1>4
  <2> HIDE DEF Reach
  <2> QED BY <1>7, <2>1
<1>9. PICK f \in [SUBSET D -> St] : Good(size(D), f)
  <2> HIDE DEF Good
  <2> QED BY <1>8
<1>10. f = [s \in SUBSET D |-> Next1(f, s)]
  <2>1. \A s \in SUBSET D : f[s] = Next1(f, s)
    BY <1>1, <1>9
  <2> HIDE DEF Next1, Good
  <2> QED BY <2>1
<1> QED BY <1>10 DEF Folding

\* The subsets 1 .. n that a fold over a sequence passes.
LEMMA Passed ==
    ASSUME NEW n \in Nat
    PROVE  /\ 1 .. 0 = {}
           /\ IsFiniteSet(1 .. n)
           /\ \A s \in SUBSET (1 .. n) : s # {} => Max(s) \in s
           /\ \A i \in 1 .. n : /\ 1 .. i \in SUBSET (1 .. n) /\ 1 .. i # {}
                                /\ Max(1 .. i) = i /\ (1 .. i) \ {i} = 1 .. i - 1
<1>1. IsFiniteSet(1 .. n)
  BY FS_Interval
<1>2. ASSUME NEW s \in SUBSET (1 .. n), s # {}
      PROVE  Max(s) \in s
  <2> DEFINE T == {n - x : x \in s}
  <2>0. \A x \in s : x \in 1 .. n /\ n - x \in Nat
    OBVIOUS
  <2>1. T \in SUBSET Nat /\ T # {}
    BY <1>2, <2>0
  <2>2. PICK m \in T : \A k \in T : m <= k
    <3> HIDE DEF T
    <3> QED BY <2>1, Least
  <2>3. PICK x \in s : m = n - x
    BY <2>2
  <2>4. \A y \in s : x >= y
    BY <2>0, <2>2, <2>3
  <2> QED BY <2>3, <2>4 DEF Max
<1>3. ASSUME NEW i \in 1 .. n
      PROVE  /\ 1 .. i \in SUBSET (1 .. n) /\ 1 .. i # {}
             /\ Max(1 .. i) = i /\ (1 .. i) \ {i} = 1 .. i - 1
  <2>1. 1 .. i \in SUBSET (1 .. n) /\ i \in 1 .. i
    OBVIOUS
  <2>2. \A x \in 1 .. i : (\A y \in 1 .. i : x >= y) <=> x = i
    OBVIOUS
  <2>3. Max(1 .. i) = i
    BY <2>1, <2>2 DEF Max
  <2> QED BY <2>1, <2>3
<1> QED BY <1>1, <1>2, <1>3

-----------------------------------------------------------------------------
(* The gaps.                                                               *)

Window == [start : Int, end : Int]

\* Windows that follow one another with time in between.
Spaced(ws) ==
    /\ ws \subseteq Window
    /\ \A w \in ws : w.start < w.end
    /\ \A v, w \in ws : v # w => v.end < w.start \/ w.end < v.start

\* The minutes ms lie between lo and hi.
Between(lo, hi, ms) == lo \in Int /\ hi \in Int /\ ms \subseteq lo .. hi - 1

\* A set of minutes in a bounded time is the union of its maximal windows.
LEMMA WindowsCover ==
    ASSUME NEW lo, NEW hi, NEW ms, Between(lo, hi, ms)
    PROVE  /\ Spaced(Windows(ms))
           /\ \A w \in Windows(ms) : Minutes(w) \subseteq ms /\ w.end \notin ms
           /\ \A t \in ms : \E w \in Windows(ms) : t \in Minutes(w)
<1> USE DEF Between
<1>1. \A t \in ms : t \in Int /\ lo <= t /\ t < hi
  OBVIOUS
<1>2. ASSUME NEW w \in Windows(ms)
      PROVE  /\ w \in Window /\ w.start < w.end /\ w.start \in ms
             /\ w.start .. w.end - 1 \subseteq ms /\ w.start - 1 \notin ms /\ w.end \notin ms
  <2>1. /\ w \in [start : ms, end : {t + 1 : t \in ms}]
        /\ w.start < w.end /\ Minutes(w) \subseteq ms /\ w.start - 1 \notin ms /\ w.end \notin ms
    BY DEF Windows
  <2>2. w = [start |-> w.start, end |-> w.end] /\ w.start \in ms /\ w.end \in {t + 1 : t \in ms}
    BY <2>1
  <2>3. w.start \in Int /\ w.end \in Int
    BY <1>1, <2>2
  <2>4. w \in Window
    BY <2>2, <2>3 DEF Window
  <2> QED BY <2>1, <2>2, <2>4 DEF Minutes
<1>3. ASSUME NEW v \in Windows(ms), NEW w \in Windows(ms), v.start <= w.start, w.start <= v.end
      PROVE  v = w
  <2>1. v.start \in Int /\ v.end \in Int /\ w.start \in Int /\ w.end \in Int
    BY <1>2 DEF Window
  <2>2. w.start # v.end
    BY <1>2
  <2>3. w.start - 1 \in v.start .. v.end - 1 \/ w.start = v.start
    BY <1>3, <2>1, <2>2
  <2>4. w.start = v.start
    BY <1>2, <2>3
  <2>5. ~(v.end < w.end) /\ ~(w.end < v.end)
    <3>1. v.end < w.end => v.end \in w.start .. w.end - 1
      BY <1>3, <2>1
    <3>2. w.end < v.end => w.end \in v.start .. v.end - 1
      <4>1. w.start < w.end
        BY <1>2
      <4> QED BY <2>1, <2>4, <4>1
    <3> QED BY <1>2, <3>1, <3>2
  <2>6. v.end = w.end
    BY <2>1, <2>5
  <2>7. v = [start |-> v.start, end |-> v.end] /\ w = [start |-> w.start, end |-> w.end]
    BY <1>2 DEF Window
  <2> QED BY <2>4, <2>6, <2>7
<1>4. Spaced(Windows(ms))
  <2>1. ASSUME NEW v \in Windows(ms), NEW w \in Windows(ms), v # w
        PROVE  v.end < w.start \/ w.end < v.start
    <3>1. v.start \in Int /\ v.end \in Int /\ w.start \in Int /\ w.end \in Int
      BY <1>2 DEF Window
    <3>2. ~(v.start <= w.start /\ w.start <= v.end) /\ ~(w.start <= v.start /\ v.start <= w.end)
      BY <1>3, <2>1
    <3> QED BY <3>1, <3>2
  <2> QED BY <1>2, <2>1 DEF Spaced
<1>5. ASSUME NEW t \in ms
      PROVE  \E w \in Windows(ms) : t \in Minutes(w)
  <2> DEFINE Up == {n \in Nat : t + n \notin ms}
             Down == {n \in Nat : t - 1 - n \notin ms}
  <2>1. t \in Int /\ lo <= t /\ t < hi
    BY <1>1
  <2>2. PICK n \in Up : \A k \in Up : n <= k
    <3>1. hi - t \in Up
      <4>1. hi - t \in Nat /\ t + (hi - t) = hi
        BY <2>1
      <4>2. hi \notin ms
        BY <1>1
      <4> QED BY <4>1, <4>2
    <3>2. Up \in SUBSET Nat
      OBVIOUS
    <3> HIDE DEF Up
    <3> QED BY <3>1, <3>2, Least
  <2>3. PICK d \in Down : \A k \in Down : d <= k
    <3>1. t - lo \in Down
      <4>1. t - lo \in Nat /\ t - 1 - (t - lo) = lo - 1
        BY <2>1
      <4>2. lo - 1 \notin ms
        BY <1>1
      <4> QED BY <4>1, <4>2
    <3>2. Down \in SUBSET Nat
      OBVIOUS
    <3> HIDE DEF Down
    <3> QED BY <3>1, <3>2, Least
  <2> DEFINE s == t - d
             e == t + n
  <2>4. n \in Nat /\ d \in Nat /\ s \in Int /\ e \in Int /\ n # 0
    BY <2>1, <2>2, <2>3
  <2>5. \A u \in s .. e - 1 : u \in ms
    <3> TAKE u \in s .. e - 1
    <3>1. CASE u >= t
      <4>1. u - t \in Nat /\ u - t < n /\ t + (u - t) = u
        BY <2>1, <2>4, <3>1
      <4>2. u - t \notin Up
        <5> HIDE DEF Up
        <5> QED BY <2>2, <2>4, <4>1
      <4> QED BY <4>1, <4>2
    <3>2. CASE u < t
      <4>1. t - 1 - u \in Nat /\ t - 1 - u < d /\ t - 1 - (t - 1 - u) = u
        BY <2>1, <2>4, <3>2
      <4>2. t - 1 - u \notin Down
        <5> HIDE DEF Down
        <5> QED BY <2>3, <2>4, <4>1
      <4> QED BY <4>1, <4>2
    <3> QED BY <2>1, <2>4, <3>1, <3>2
  <2>6. e \notin ms /\ s - 1 \notin ms
    <3>1. s - 1 = t - 1 - d
      BY <2>1, <2>4
    <3> QED BY <2>2, <2>3, <3>1
  <2>7. s < e /\ t \in s .. e - 1 /\ s \in s .. e - 1 /\ e - 1 \in s .. e - 1 /\ e = (e - 1) + 1
    BY <2>1, <2>4
  <2> HIDE DEF s, e
  <2> DEFINE w == [start |-> s, end |-> e]
  <2>8. w \in Windows(ms)
    <3>1. w.start = s /\ w.end = e
      OBVIOUS
    <3>2. w \in [start : ms, end : {u + 1 : u \in ms}]
      BY <2>5, <2>7
    <3> HIDE DEF w
    <3> QED BY <2>5, <2>6, <2>7, <3>1, <3>2 DEF Windows, Minutes
  <2>9. t \in Minutes(w)
    BY <2>7 DEF Minutes
  <2> QED BY <2>8, <2>9
<1> QED BY <1>2, <1>4, <1>5 DEF Minutes

\* There are finitely many.
LEMMA WindowsFinite ==
    ASSUME NEW ms, IsFiniteSet(ms), NEW ws, Spaced(ws), \A w \in ws : w.start \in ms
    PROVE  IsFiniteSet(ws)
<1> DEFINE f == [w \in ws |-> w.start]
<1>1. \A v, w \in ws : v.start = w.start => v = w
  BY DEF Spaced, Window
<1>2. f \in Injection(ws, ms)
  BY <1>1 DEF Injection, IsInjective
<1> QED BY <1>2, FS_Injection

\* The gaps list the maximal windows.
LEMMA GapsList ==
    ASSUME NEW lo, NEW hi, NEW ms, Between(lo, hi, ms)
    PROVE  Lists(Gaps(ms), Windows(ms))
<1> DEFINE ws == Windows(ms)
           R == {p \in ws \X ws : p[1].start < p[2].start}
<1>1. Spaced(ws) /\ \A w \in ws : Minutes(w) \subseteq ms
  BY WindowsCover
<1>2. IsFiniteSet(ws)
  <2>1. \A w \in ws : w.start \in ms
    BY DEF Windows
  <2>2. IsFiniteSet(ms)
    BY IntervalSize, FS_Subset DEF Between
  <2> HIDE DEF ws
  <2> QED BY <1>1, <2>1, <2>2, WindowsFinite
<1> HIDE DEF ws
<1>3. \A v, w \in ws : <<v, w>> \in R <=> v.start < w.start
  OBVIOUS
<1>4. StrictOrder(ws, R)
  <2>1. \A w \in ws : w.start \in Int /\ w.end \in Int /\ w.start < w.end
    BY <1>1 DEF Spaced, Window
  <2>2. \A v, w \in ws : v # w => v.end < w.start \/ w.end < v.start
    BY <1>1 DEF Spaced
  <2>3. \A v, w \in ws : v # w => v.start < w.start \/ w.start < v.start
    BY <2>1, <2>2
  <2> HIDE DEF R
  <2> QED BY <1>3, <2>1, <2>3 DEF StrictOrder
<1>5. \A w \in ws : Rank(ws, R)[w] = Cardinality({v \in ws : v.start < w.start})
  <2> HIDE DEF R
  <2> TAKE w \in ws
  <2>1. {v \in ws : <<v, w>> \in R} = {v \in ws : v.start < w.start}
    BY <1>3
  <2> QED BY <2>1 DEF Rank
<1> DEFINE seq == [n \in 1 .. Cardinality(ws) |-> CHOOSE w \in ws : Rank(ws, R)[w] = n - 1]
<1>6. Gaps(ms) = seq
  <2>1. Gaps(ms) = [n \in 1 .. Cardinality(ws) |->
            CHOOSE w \in ws : Cardinality({v \in ws : v.start < w.start}) = n - 1]
    BY DEF Gaps, ws
  <2> HIDE DEF R
  <2>2. \A n \in 1 .. Cardinality(ws) :
           (CHOOSE w \in ws : Rank(ws, R)[w] = n - 1)
             = (CHOOSE w \in ws : Cardinality({v \in ws : v.start < w.start}) = n - 1)
    BY <1>5
  <2> QED BY <2>1, <2>2
<1>7. Lists(seq, ws)
  <2> HIDE DEF R, seq
  <2> QED BY <1>2, <1>4, RankedLists DEF seq
<1> QED BY <1>6, <1>7 DEF ws

-----------------------------------------------------------------------------
(* Placing a quota in gaps.                                                *)

\* m gaps that do not overlap.
Apart(g, m) ==
    /\ g \in [1 .. m -> Window]
    /\ \A i \in 1 .. m : g[i].start <= g[i].end
    /\ \A i, j \in 1 .. m : i # j => g[i].end <= g[j].start \/ g[j].end <= g[i].start

Fills(m) == [gaps : [1 .. m -> Window], left : Int, windows : SUBSET Window]

\* Where the windows are: each in the part of a gap that has been used.
Inside(g, m, least, f) ==
    /\ \A i \in 1 .. m : /\ f.gaps[i].end = g[i].end
                         /\ g[i].start <= f.gaps[i].start /\ f.gaps[i].start <= g[i].end
    /\ \A w \in f.windows :
          /\ w.end - w.start >= least
          /\ \E i \in 1 .. m : g[i].start <= w.start /\ w.end <= f.gaps[i].start

\* How much they cover: all that has been used, once, and what is missing in left.
Counted(g, m, quota, f) ==
    /\ f.left \in 0 .. quota
    /\ \A v, w \in f.windows : v # w => Minutes(v) \cap Minutes(w) = {}
    /\ \A i \in 1 .. m : g[i].start .. f.gaps[i].start - 1 \subseteq Covered(f.windows)
    /\ IsFiniteSet(Covered(f.windows)) /\ Cardinality(Covered(f.windows)) = quota - f.left

Filling(g, m, quota, least) ==
    {f \in Fills(m) : Inside(g, m, least, f) /\ Counted(g, m, quota, f)}

\* Nothing can be offered to the gap.
Spent(f, i, least) == f.left < least \/ f.gaps[i].end - f.gaps[i].start < least

\* An offer that is too small changes nothing, any other uses up some of what is left.
LEMMA OfferCases ==
    ASSUME NEW m \in Nat, NEW f \in Fills(m), NEW i \in 1 .. m, NEW least \in Nat \ {0}
    PROVE  \/ Spent(f, i, least) /\ Offer(f, i, least) = f
           \/ ~Spent(f, i, least) /\ \E chunk \in Int :
                /\ least <= chunk /\ chunk <= f.left /\ f.gaps[i].start + chunk <= f.gaps[i].end
                /\ Offer(f, i, least) =
                     [gaps |-> [f.gaps EXCEPT ![i] =
                                  [start |-> f.gaps[i].start + chunk, end |-> f.gaps[i].end]],
                      left |-> f.left - chunk,
                      windows |-> f.windows \cup
                                    {[start |-> f.gaps[i].start, end |-> f.gaps[i].start + chunk]}]
<1> DEFINE gap == f.gaps[i]
           room == gap.end - gap.start
           chunk == IF f.left < room THEN f.left ELSE room
<1>1. gap \in Window /\ f.left \in Int /\ gap.start \in Int /\ gap.end \in Int
  BY DEF Fills, Window
<1>2. chunk \in Int /\ chunk <= f.left /\ gap.start + chunk <= gap.end
  BY <1>1
<1>3. chunk < least <=> Spent(f, i, least)
  BY <1>1 DEF Spent
<1>4. Offer(f, i, least) =
        IF chunk < least THEN f
        ELSE [gaps |-> [f.gaps EXCEPT ![i].start = @ + chunk],
              left |-> f.left - chunk,
              windows |-> f.windows \cup {[start |-> gap.start, end |-> gap.start + chunk]}]
  BY DEF Offer
<1>5. [f.gaps EXCEPT ![i].start = @ + chunk] =
        [f.gaps EXCEPT ![i] = [start |-> gap.start + chunk, end |-> gap.end]]
  <2>1. f.gaps \in [1 .. m -> Window]
    BY DEF Fills
  <2>2. \A c \in Int : [gap EXCEPT !.start = @ + c] = [start |-> gap.start + c, end |-> gap.end]
    BY <1>1 DEF Window
  <2> QED BY <1>2, <2>1, <2>2
<1> HIDE DEF chunk
<1>6. CASE chunk < least
  BY <1>3, <1>4, <1>6
<1>7. CASE ~(chunk < least)
  <2>1. least <= chunk
    BY <1>2, <1>7
  <2>2. Offer(f, i, least) =
          [gaps |-> [f.gaps EXCEPT ![i] = [start |-> gap.start + chunk, end |-> gap.end]],
           left |-> f.left - chunk,
           windows |-> f.windows \cup {[start |-> gap.start, end |-> gap.start + chunk]}]
    BY <1>4, <1>5, <1>7
  <2> QED BY <1>2, <1>3, <1>7, <2>1, <2>2
<1> QED BY <1>6, <1>7

\* Every offer keeps the windows where they may be, and the count.
LEMMA OfferFills ==
    ASSUME NEW m \in Nat, NEW g, Apart(g, m), NEW quota \in Nat, NEW least \in Nat \ {0},
           NEW f \in Filling(g, m, quota, least), NEW i \in 1 .. m
    PROVE  /\ Offer(f, i, least) \in Filling(g, m, quota, least)
           /\ Offer(f, i, least).left <= f.left
           /\ Offer(f, i, least).left = f.left => Offer(f, i, least) = f /\ Spent(f, i, least)
           /\ Spent(f, i, least) => Offer(f, i, least) = f
<1>f. f \in Fills(m) /\ Inside(g, m, least, f) /\ Counted(g, m, quota, f)
  BY DEF Filling
<1>t. /\ f.gaps \in [1 .. m -> Window] /\ f.left \in Int /\ f.windows \in SUBSET Window
      /\ \A j \in 1 .. m : f.gaps[j].start \in Int /\ f.gaps[j].end \in Int
      /\ \A j \in 1 .. m : g[j].start \in Int /\ g[j].end \in Int
  BY <1>f DEF Fills, Window, Apart
<1>1. CASE Spent(f, i, least) /\ Offer(f, i, least) = f
  BY <1>1, <1>t
<1>2. CASE ~Spent(f, i, least) /\ Offer(f, i, least) # f
  <2>1. PICK chunk \in Int :
                /\ least <= chunk /\ chunk <= f.left /\ f.gaps[i].start + chunk <= f.gaps[i].end
                /\ Offer(f, i, least) =
                     [gaps |-> [f.gaps EXCEPT ![i] =
                                  [start |-> f.gaps[i].start + chunk, end |-> f.gaps[i].end]],
                      left |-> f.left - chunk,
                      windows |-> f.windows \cup
                                    {[start |-> f.gaps[i].start, end |-> f.gaps[i].start + chunk]}]
    BY <1>2, <1>f, OfferCases
  <2> DEFINE new == Offer(f, i, least)
             from == f.gaps[i].start
             till == from + chunk
             w == [start |-> from, end |-> till]
  <2>2. /\ new.gaps = [f.gaps EXCEPT ![i] = [start |-> till, end |-> f.gaps[i].end]]
        /\ new.left = f.left - chunk /\ new.windows = f.windows \cup {w}
        /\ new = [gaps |-> new.gaps, left |-> new.left, windows |-> new.windows]
    BY <2>1
  <2>3. from \in Int /\ till \in Int /\ from < till /\ till - from = chunk
    BY <1>t, <2>1
  <2>4. w \in Window /\ w.start = from /\ w.end = till /\ Minutes(w) = from .. till - 1
    BY <2>3 DEF Window, Minutes
  <2> HIDE DEF new, w
  <2>5. /\ new.gaps[i].start = till /\ new.gaps[i].end = f.gaps[i].end
        /\ \A j \in 1 .. m : j # i => new.gaps[j] = f.gaps[j]
    BY <1>t, <2>2
  <2>6. new \in Fills(m)
    <3>1. [start |-> till, end |-> f.gaps[i].end] \in Window
      BY <1>t, <2>3 DEF Window
    <3>2. new.gaps \in [1 .. m -> Window]
      BY <1>t, <2>2, <3>1
    <3>3. new.left \in Int /\ new.windows \in SUBSET Window
      BY <1>t, <2>2, <2>4
    <3> QED BY <2>2, <3>2, <3>3 DEF Fills
  <2>7. \A j \in 1 .. m : f.gaps[j].start <= new.gaps[j].start
    <3> TAKE j \in 1 .. m
    <3>1. f.gaps[j].start \in Int /\ f.gaps[j].start <= f.gaps[j].start
      BY <1>t
    <3>2. from <= till
      BY <2>3
    <3>3. CASE j = i
      BY <2>5, <3>2, <3>3
    <3>4. CASE j # i
      BY <2>5, <3>1, <3>4
    <3> QED BY <3>3, <3>4
  <2>8. Inside(g, m, least, new)
    <3>1. ASSUME NEW j \in 1 .. m
          PROVE  /\ new.gaps[j].end = g[j].end
                 /\ g[j].start <= new.gaps[j].start /\ new.gaps[j].start <= g[j].end
      <4>1. /\ f.gaps[j].end = g[j].end /\ g[j].start <= f.gaps[j].start /\ f.gaps[j].start <= g[j].end
        BY <1>f DEF Inside
      <4>2. CASE j # i
        BY <2>5, <4>1, <4>2
      <4>3. CASE j = i
        <5>1. f.gaps[i].end = g[i].end /\ g[i].start <= from /\ from < till /\ till <= f.gaps[i].end
          BY <2>1, <2>3, <4>1, <4>3
        <5>2. g[i].start <= till /\ till <= g[i].end
          <6> HIDE DEF from, till
          <6> QED BY <1>t, <2>3, <5>1
        <5> QED BY <2>5, <4>3, <5>1, <5>2
      <4> QED BY <4>2, <4>3
    <3>2. ASSUME NEW v \in f.windows
          PROVE  /\ v.end - v.start >= least
                 /\ \E j \in 1 .. m : g[j].start <= v.start /\ v.end <= new.gaps[j].start
      <4>1. v.end \in Int /\ v.end - v.start >= least
        BY <1>f, <1>t DEF Inside, Window
      <4>2. PICK j \in 1 .. m : g[j].start <= v.start /\ v.end <= f.gaps[j].start
        BY <1>f DEF Inside
      <4>3. f.gaps[j].start \in Int /\ new.gaps[j].start \in Int
        BY <1>t, <2>3, <2>5
      <4>4. v.end <= new.gaps[j].start
        BY <2>7, <4>1, <4>2, <4>3
      <4> QED BY <4>1, <4>2, <4>4
    <3>3. /\ w.end - w.start >= least
          /\ g[i].start <= w.start /\ w.end <= new.gaps[i].start
      <4>1. g[i].start <= f.gaps[i].start
        BY <1>f DEF Inside
      <4> QED BY <2>1, <2>3, <2>4, <2>5, <4>1
    <3> QED BY <2>2, <3>1, <3>2, <3>3 DEF Inside
  <2>9. Minutes(w) \cap Covered(f.windows) = {}
    <3>1. SUFFICES ASSUME NEW v \in f.windows, NEW t \in Minutes(v), t \in from .. till - 1
                   PROVE  FALSE
      BY <2>4 DEF Covered
    <3>2. PICK j \in 1 .. m : g[j].start <= v.start /\ v.end <= f.gaps[j].start
      BY <1>f DEF Inside
    <3>3. v.start \in Int /\ v.end \in Int /\ t \in Int /\ v.start <= t /\ t < v.end /\ from <= t /\ t < till
      <4>1. v.start \in Int /\ v.end \in Int
        BY <1>t DEF Window
      <4>2. t \in Int /\ v.start <= t /\ t < v.end
        BY <4>1 DEF Minutes
      <4>3. from \in Int /\ till \in Int
        BY <1>t, <2>3
      <4> HIDE DEF from, till
      <4>4. from <= t /\ t < till
        BY <3>1, <4>3
      <4> QED BY <4>1, <4>2, <4>4
    <3>4. CASE j = i
      BY <1>t, <2>3, <3>2, <3>3, <3>4
    <3>5. CASE j # i
      <4>1. /\ f.gaps[j].start <= g[j].end /\ g[i].start <= f.gaps[i].start /\ f.gaps[i].end = g[i].end
        BY <1>f DEF Inside
      <4>2. g[i].end <= g[j].start \/ g[j].end <= g[i].start
        BY <3>5 DEF Apart
      <4>3. /\ g[i].start \in Int /\ g[i].end \in Int /\ g[j].start \in Int /\ g[j].end \in Int
            /\ f.gaps[j].start \in Int
        BY <1>t
      <4>4. till <= g[i].end
        BY <2>1, <4>1
      <4> HIDE DEF from, till
      <4>5. g[j].start <= t /\ t < g[j].end
        BY <3>2, <3>3, <4>1, <4>3
      <4>6. g[i].start <= from
        BY <4>1 DEF from
      <4>7. g[i].start <= t /\ t < g[i].end
        BY <2>3, <3>3, <4>3, <4>4, <4>6
      <4> QED BY <3>3, <4>2, <4>3, <4>5, <4>7
    <3> QED BY <3>4, <3>5
  <2>10. Covered(new.windows) = Covered(f.windows) \cup Minutes(w)
    BY <2>2 DEF Covered
  <2>11. Counted(g, m, quota, new)
    <3>1. new.left \in 0 .. quota
      <4>1. f.left \in 0 .. quota
        BY <1>f DEF Counted
      <4> QED BY <2>1, <2>2, <4>1
    <3>2. \A u, v \in new.windows : u # v => Minutes(u) \cap Minutes(v) = {}
      <4>1. \A u, v \in f.windows : u # v => Minutes(u) \cap Minutes(v) = {}
        BY <1>f DEF Counted
      <4>2. \A u \in f.windows : Minutes(u) \cap Minutes(w) = {}
        BY <2>9 DEF Covered
      <4> QED BY <2>2, <4>1, <4>2
    <3>3. \A j \in 1 .. m : g[j].start .. new.gaps[j].start - 1 \subseteq Covered(new.windows)
      <4> TAKE j \in 1 .. m
      <4>1. g[j].start .. f.gaps[j].start - 1 \subseteq Covered(f.windows)
        BY <1>f DEF Counted
      <4>2. CASE j # i
        BY <2>5, <2>10, <4>1, <4>2
      <4>3. CASE j = i
        <5>1. \A t \in g[i].start .. till - 1 : t \in g[i].start .. from - 1 \/ t \in from .. till - 1
          BY <1>t, <2>3
        <5>2. \A t \in g[i].start .. till - 1 : t \in Covered(new.windows)
          BY <2>4, <2>10, <4>1, <4>3, <5>1
        <5> QED BY <2>5, <4>3, <5>2
      <4> QED BY <4>2, <4>3
    <3>4. /\ IsFiniteSet(Covered(new.windows))
          /\ Cardinality(Covered(new.windows)) = quota - new.left
      <4>1. IsFiniteSet(Covered(f.windows)) /\ Cardinality(Covered(f.windows)) = quota - f.left
        BY <1>f DEF Counted
      <4>2. IsFiniteSet(Minutes(w)) /\ Cardinality(Minutes(w)) = chunk
        <5>1. from <= till
          BY <2>3
        <5> HIDE DEF from, till
        <5> QED BY <2>3, <2>4, <5>1, IntervalSize
      <4>3. Cardinality(Covered(f.windows) \cap Minutes(w)) = 0
        BY <2>9, FS_EmptySet
      <4>4. /\ IsFiniteSet(Covered(f.windows) \cup Minutes(w))
            /\ Cardinality(Covered(f.windows) \cup Minutes(w)) = (quota - f.left) + chunk - 0
        BY <4>1, <4>2, <4>3, FS_Union
      <4>5. (quota - f.left) + chunk - 0 = quota - (f.left - chunk)
        BY <1>t
      <4> QED BY <2>2, <2>10, <4>4, <4>5
    <3> QED BY <3>1, <3>2, <3>3, <3>4 DEF Counted
  <2>12. new \in Filling(g, m, quota, least)
    BY <2>6, <2>8, <2>11 DEF Filling
  <2>13. new.left < f.left
    BY <1>t, <2>1, <2>2
  <2>14. new.left <= f.left /\ new.left # f.left
    <3>1. new.left \in Int
      BY <1>t, <2>2
    <3> QED BY <1>t, <2>13, <3>1
  <2> QED BY <1>2, <2>12, <2>14 DEF new
<1>3. ~Spent(f, i, least) => Offer(f, i, least) # f
  <2> SUFFICES ASSUME ~Spent(f, i, least), Offer(f, i, least) = f
               PROVE  FALSE
    OBVIOUS
  <2>1. PICK chunk \in Int : least <= chunk /\ Offer(f, i, least).left = f.left - chunk
    BY <1>f, OfferCases
  <2> QED BY <1>t, <2>1
<1>4. Spent(f, i, least) => Offer(f, i, least) = f
  BY <1>f, OfferCases
<1> QED BY <1>1, <1>2, <1>3, <1>4

\* A pass over the gaps: it stops using up what is left only when nothing fits any more.
LEMMA PassFills ==
    ASSUME NEW m \in Nat, NEW g, Apart(g, m), NEW quota \in Nat, NEW least \in Nat \ {0},
           NEW f \in Filling(g, m, quota, least)
    PROVE  /\ Pass(f, least) \in Filling(g, m, quota, least)
           /\ Pass(f, least).left <= f.left
           /\ Pass(f, least).left = f.left =>
                 Pass(f, least) = f /\ \A i \in 1 .. m : Spent(f, i, least)
           /\ (\A i \in 1 .. m : Spent(f, i, least)) => Pass(f, least) = f
<1> DEFINE St == Filling(g, m, quota, least)
           seq == [i \in DOMAIN f.gaps |-> i]
           Body(h) == [s \in SUBSET DOMAIN seq |->
                          IF s = {} THEN f ELSE Offer(h[s \ {Max(s)}], seq[Max(s)], least)]
           h == CHOOSE h : h = Body(h)
<1>1. Pass(f, least) = h[DOMAIN seq]
  BY DEF Pass, FoldLeft, MapThenFoldSet
<1>2. DOMAIN seq = 1 .. m /\ \A i \in 1 .. m : seq[i] = i
  <2>1. f.gaps \in [1 .. m -> Window]
    BY DEF Filling, Fills
  <2> QED BY <2>1
<1> HIDE DEF seq
<1>3. \A v \in St : \A i \in 1 .. m :
         /\ Offer(v, i, least) \in St /\ Offer(v, i, least).left <= v.left
         /\ Offer(v, i, least).left = v.left => Offer(v, i, least) = v /\ Spent(v, i, least)
         /\ Spent(v, i, least) => Offer(v, i, least) = v
  BY OfferFills
<1>4. \A v \in St : v.left \in Int
  BY DEF Filling, Fills
<1> HIDE DEF St
<1>5. \E k : k = Body(k)
  <2> DEFINE ch == [s \in SUBSET (1 .. m) |-> Max(s)]
             step == [i \in 1 .. m |-> [v \in St |-> Offer(v, i, least)]]
  <2>1. \A s \in SUBSET (1 .. m) : s # {} => ch[s] \in s
    BY Passed
  <2>2. IsFiniteSet(1 .. m) /\ f \in St
    BY Passed DEF St
  <2>3. \A d \in 1 .. m : \A v \in St : step[d][v] = Offer(v, d, least)
    OBVIOUS
  <2>4. \A d \in 1 .. m : \A v \in St : step[d][v] \in St
    BY <1>3, <2>3
  <2> HIDE DEF step
  <2>5. \E k \in [SUBSET (1 .. m) -> St] : Folding(1 .. m, ch, step, f, k)
    <3> HIDE DEF ch
    <3> QED BY <2>1, <2>2, <2>4, FoldExists
  <2>6. PICK k \in [SUBSET (1 .. m) -> St] : Folding(1 .. m, ch, step, f, k)
    BY <2>5
  <2>7. \A s \in SUBSET (1 .. m) : s # {} => step[ch[s]][k[s \ {ch[s]}]] = Offer(k[s \ {Max(s)}], seq[Max(s)], least)
    <3> TAKE s \in SUBSET (1 .. m)
    <3> HAVE s # {}
    <3>1. ch[s] = Max(s) /\ Max(s) \in 1 .. m /\ seq[Max(s)] = Max(s)
      BY <1>2, <2>1
    <3>2. k[s \ {Max(s)}] \in St
      BY <2>6
    <3> HIDE DEF ch
    <3> QED BY <2>3, <3>1, <3>2
  <2>8. k = Body(k)
    <3> HIDE DEF ch
    <3> QED BY <1>2, <2>6, <2>7 DEF Folding
  <2> QED BY <2>8
<1>6. h = Body(h)
  BY <1>5
<1> HIDE DEF h
<1>7. h[1 .. 0] = f /\ \A i \in 1 .. m : h[1 .. i] = Offer(h[1 .. i - 1], i, least)
  <2>1. 1 .. 0 = {} /\ \A i \in 1 .. m : /\ 1 .. i \in SUBSET (1 .. m) /\ 1 .. i # {}
                                         /\ Max(1 .. i) = i /\ (1 .. i) \ {i} = 1 .. i - 1
    BY Passed
  <2>2. h[1 .. 0] = f
    BY <1>6, <2>1
  <2>3. ASSUME NEW i \in 1 .. m
        PROVE  h[1 .. i] = Offer(h[1 .. i - 1], i, least)
    <3>1. \A s \in SUBSET (1 .. m) : s # {} => h[s] = Offer(h[s \ {Max(s)}], seq[Max(s)], least)
      BY <1>2, <1>6
    <3>2. h[1 .. i] = Offer(h[(1 .. i) \ {Max(1 .. i)}], seq[Max(1 .. i)], least)
      BY <2>1, <3>1
    <3> QED BY <1>2, <2>1, <3>2
  <2> QED BY <2>2, <2>3
<1> DEFINE at(i) == h[1 .. i]
           Good(i) == /\ at(i) \in St /\ at(i).left <= f.left
                      /\ at(i).left = f.left => at(i) = f /\ \A j \in 1 .. i : Spent(f, j, least)
                      /\ (\A j \in 1 .. m : Spent(f, j, least)) => at(i) = f
<1>8. {i \in 0 .. m : Good(i)} = 0 .. m
  <2> DEFINE S == {i \in 0 .. m : Good(i)}
  <2>1. 0 \in S
    <3>1. at(0) = f /\ f \in St
      BY <1>7 DEF St
    <3> HIDE DEF at
    <3> QED BY <1>4, <3>1
  <2>2. ASSUME NEW i \in 1 .. m, i - 1 \in S
        PROVE  i \in S
    <3>1. at(i) = Offer(at(i - 1), i, least)
      BY <1>7
    <3> HIDE DEF at
    <3>2. Good(i - 1)
      BY <2>2
    <3>3. /\ at(i) \in St /\ at(i).left <= at(i - 1).left
          /\ at(i).left = at(i - 1).left => at(i) = at(i - 1) /\ Spent(at(i - 1), i, least)
          /\ Spent(at(i - 1), i, least) => at(i) = at(i - 1)
      BY <1>3, <3>1, <3>2
    <3>4. at(i).left \in Int /\ at(i - 1).left \in Int /\ f.left \in Int
      <4>1. f \in St
        BY DEF St
      <4> QED BY <1>4, <3>2, <3>3, <4>1
    <3>5. at(i).left <= f.left
      BY <3>2, <3>3, <3>4
    <3>6. ASSUME at(i).left = f.left
          PROVE  at(i) = f /\ \A j \in 1 .. i : Spent(f, j, least)
      <4>1. at(i - 1).left = f.left /\ at(i).left = at(i - 1).left
        BY <3>2, <3>3, <3>4, <3>6
      <4>2. at(i - 1) = f /\ (\A j \in 1 .. i - 1 : Spent(f, j, least)) /\ at(i) = f /\ Spent(f, i, least)
        BY <3>2, <3>3, <4>1
      <4>3. \A j \in 1 .. i : j = i \/ j \in 1 .. i - 1
        OBVIOUS
      <4> QED BY <4>2, <4>3
    <3>7. (\A j \in 1 .. m : Spent(f, j, least)) => at(i) = f
      BY <3>2, <3>3
    <3> QED BY <3>3, <3>5, <3>6, <3>7
  <2> HIDE DEF Good
  <2>3. S \in SUBSET (0 .. m)
    OBVIOUS
  <2> HIDE DEF S
  <2>4. S = 0 .. m
    BY <2>1, <2>2, <2>3, UpTo
  <2> QED BY <2>4 DEF S
<1>9. Good(m)
  <2> HIDE DEF Good
  <2> QED BY <1>8
<1> QED BY <1>1, <1>2, <1>9 DEF St

\* What the passes end with: everything is placed, or nothing fits.
LEMMA PlaceFills ==
    ASSUME NEW m \in Nat, NEW g, Apart(g, m), NEW quota \in Nat, NEW minimum \in Int
    PROVE  \E f \in Filling(g, m, quota, LeastChunk(minimum)) :
              /\ Place(g, quota, minimum) = f.windows
              /\ \A i \in 1 .. m : Spent(f, i, LeastChunk(minimum))
<1> DEFINE least == LeastChunk(minimum)
           St == Filling(g, m, quota, least)
           base == [gaps |-> g, left |-> quota, windows |-> {}]
           seq == [i \in 1 .. quota |-> i]
           Body(h) == [s \in SUBSET DOMAIN seq |->
                          IF s = {} THEN base ELSE Pass(h[s \ {Max(s)}], LeastChunk(minimum))]
           h == CHOOSE h : h = Body(h)
<1>0. least \in Nat \ {0}
  BY DEF LeastChunk
<1>1. Place(g, quota, minimum) = h[DOMAIN seq].windows
  BY DEF Place, FoldLeft, MapThenFoldSet
<1>2. DOMAIN seq = 1 .. quota
  OBVIOUS
<1> HIDE DEF seq, least
<1>3. base \in St
  <2>1. base.gaps = g /\ base.left = quota /\ base.windows = {} /\ base \in Fills(m)
    BY DEF Apart, Fills
  <2> HIDE DEF base
  <2>2. Covered(base.windows) = {}
    BY <2>1 DEF Covered
  <2>3. \A i \in 1 .. m : /\ g[i].start \in Int /\ g[i].end \in Int /\ g[i].start <= g[i].end
                          /\ g[i].start .. g[i].start - 1 = {}
    BY DEF Apart, Window
  <2>4. Inside(g, m, least, base)
    BY <2>1, <2>3 DEF Inside
  <2>5. Counted(g, m, quota, base)
    BY <2>1, <2>2, <2>3, FS_EmptySet DEF Counted
  <2> QED BY <2>1, <2>4, <2>5 DEF Filling
<1>4. \A v \in St :
         /\ Pass(v, least) \in St /\ Pass(v, least).left <= v.left
         /\ Pass(v, least).left = v.left => Pass(v, least) = v /\ \A i \in 1 .. m : Spent(v, i, least)
         /\ (\A i \in 1 .. m : Spent(v, i, least)) => Pass(v, least) = v
  BY <1>0, PassFills
<1>5. \A v \in St : v.left \in 0 .. quota
  BY DEF Filling, Counted
<1> HIDE DEF St, base
<1>6. \E k : k = Body(k)
  <2> DEFINE ch == [s \in SUBSET (1 .. quota) |-> Max(s)]
             step == [i \in 1 .. quota |-> [v \in St |-> Pass(v, least)]]
  <2>1. \A s \in SUBSET (1 .. quota) : s # {} => ch[s] \in s
    BY Passed
  <2>2. IsFiniteSet(1 .. quota)
    BY Passed
  <2>3. \A d \in 1 .. quota : \A v \in St : step[d][v] = Pass(v, least)
    OBVIOUS
  <2>4. \A d \in 1 .. quota : \A v \in St : step[d][v] \in St
    BY <1>4, <2>3
  <2> HIDE DEF step
  <2>5. \E k \in [SUBSET (1 .. quota) -> St] : Folding(1 .. quota, ch, step, base, k)
    <3> HIDE DEF ch
    <3> QED BY <1>3, <2>1, <2>2, <2>4, FoldExists
  <2>6. PICK k \in [SUBSET (1 .. quota) -> St] : Folding(1 .. quota, ch, step, base, k)
    BY <2>5
  <2>7. \A s \in SUBSET (1 .. quota) : s # {} => step[ch[s]][k[s \ {ch[s]}]] = Pass(k[s \ {Max(s)}], LeastChunk(minimum))
    <3> TAKE s \in SUBSET (1 .. quota)
    <3> HAVE s # {}
    <3>1. ch[s] = Max(s) /\ ch[s] \in 1 .. quota
      BY <2>1
    <3>2. k[s \ {ch[s]}] \in St
      BY <2>6
    <3> HIDE DEF ch
    <3> QED BY <2>3, <3>1, <3>2 DEF least
  <2>8. k = Body(k)
    <3> HIDE DEF ch
    <3> QED BY <1>2, <2>6, <2>7 DEF Folding
  <2> QED BY <2>8
<1>7. h = Body(h)
  BY <1>6
<1> HIDE DEF h
<1>8. h[1 .. 0] = base /\ \A i \in 1 .. quota : h[1 .. i] = Pass(h[1 .. i - 1], least)
  <2>1. 1 .. 0 = {} /\ \A i \in 1 .. quota : /\ 1 .. i \in SUBSET (1 .. quota) /\ 1 .. i # {}
                                             /\ Max(1 .. i) = i /\ (1 .. i) \ {i} = 1 .. i - 1
    BY Passed
  <2>2. h[1 .. 0] = base
    BY <1>7, <2>1
  <2>3. ASSUME NEW i \in 1 .. quota
        PROVE  h[1 .. i] = Pass(h[1 .. i - 1], least)
    <3>1. \A s \in SUBSET (1 .. quota) : s # {} => h[s] = Pass(h[s \ {Max(s)}], least)
      BY <1>2, <1>7 DEF least
    <3>2. h[1 .. i] = Pass(h[(1 .. i) \ {Max(1 .. i)}], least)
      BY <2>1, <3>1
    <3> QED BY <2>1, <3>2
  <2> QED BY <2>2, <2>3
<1> DEFINE at(i) == h[1 .. i]
           Stuck(v) == \A j \in 1 .. m : Spent(v, j, least)
           Good(i) == at(i) \in St /\ (at(i).left <= quota - i \/ Stuck(at(i)))
<1>9. {i \in 0 .. quota : Good(i)} = 0 .. quota
  <2> DEFINE S == {i \in 0 .. quota : Good(i)}
  <2>1. 0 \in S
    <3>1. at(0) = base /\ base.left = quota
      BY <1>8 DEF base
    <3> HIDE DEF at, Stuck
    <3> QED BY <1>3, <3>1
  <2>2. ASSUME NEW i \in 1 .. quota, i - 1 \in S
        PROVE  i \in S
    <3>1. at(i) = Pass(at(i - 1), least)
      BY <1>8
    <3> HIDE DEF at, Stuck
    <3>2. Good(i - 1)
      BY <2>2
    <3>3. /\ at(i) \in St /\ at(i).left <= at(i - 1).left
          /\ at(i).left = at(i - 1).left => at(i) = at(i - 1) /\ Stuck(at(i - 1))
          /\ Stuck(at(i - 1)) => at(i) = at(i - 1)
      BY <1>4, <3>1, <3>2 DEF Stuck
    <3>4. at(i).left \in Int /\ at(i - 1).left \in Int
      BY <1>5, <3>2, <3>3
    <3>5. CASE Stuck(at(i - 1))
      BY <3>3, <3>5
    <3>6. CASE at(i - 1).left <= quota - (i - 1) /\ ~Stuck(at(i - 1))
      <4>1. at(i).left < at(i - 1).left
        BY <3>3, <3>4, <3>6
      <4> QED BY <3>3, <3>4, <3>6, <4>1
    <3> QED BY <3>2, <3>5, <3>6
  <2> HIDE DEF Good
  <2>3. S \in SUBSET (0 .. quota)
    OBVIOUS
  <2> HIDE DEF S
  <2>4. S = 0 .. quota
    BY <2>1, <2>2, <2>3, UpTo
  <2> QED BY <2>4 DEF S
<1>10. Good(quota)
  <2> HIDE DEF Good
  <2> QED BY <1>9
<1>11. Stuck(at(quota))
  <2>1. CASE at(quota).left <= quota - quota
    <3>1. at(quota).left \in 0 .. quota
      <4> HIDE DEF at
      <4> QED BY <1>5, <1>10
    <3>2. at(quota).left < least
      <4> HIDE DEF at
      <4> QED BY <1>0, <2>1, <3>1
    <3> HIDE DEF at
    <3> QED BY <3>2 DEF Spent, Stuck
  <2> QED BY <1>10, <2>1
<1> QED BY <1>1, <1>2, <1>10, <1>11 DEF St, least

\* What the windows ws mean for the minutes ms they are to fill: a window keeps within
\* them and is long enough, no two overlap, no more than the quota is covered, and less
\* only when what is left of it, or of every gap, is too short.
Placed(ms, quota, least, ws) ==
    /\ ws \subseteq Window
    /\ \A w \in ws : w.end - w.start >= least /\ w.start < w.end /\ Minutes(w) \subseteq ms
    /\ \A v, w \in ws : v # w => Minutes(v) \cap Minutes(w) = {}
    /\ Cardinality(Covered(ws)) <= quota
    /\ \/ quota - Cardinality(Covered(ws)) < least
       \/ \A t \in ms \ Covered(ws) : ~(t .. t + least - 1 \subseteq ms \ Covered(ws))

LEMMA PlaceGives ==
    ASSUME NEW lo \in Int, NEW hi \in Int, NEW ms \in SUBSET (lo .. hi - 1),
           NEW quota \in Nat, NEW minimum \in Int
    PROVE  Placed(ms, quota, LeastChunk(minimum), Place(Gaps(ms), quota, minimum))
<1> DEFINE g == Gaps(ms)
           m == Len(g)
           least == LeastChunk(minimum)
           ws == Windows(ms)
<1>1. /\ Spaced(ws) /\ \A w \in ws : Minutes(w) \subseteq ms /\ w.end \notin ms
      /\ \A t \in ms : \E w \in ws : t \in Minutes(w)
  <2>1. /\ Spaced(Windows(ms)) /\ \A w \in Windows(ms) : Minutes(w) \subseteq ms /\ w.end \notin ms
        /\ \A t \in ms : \E w \in Windows(ms) : t \in Minutes(w)
    <3> HIDE DEF g, m, least, ws
    <3>1. Between(lo, hi, ms)
      BY DEF Between
    <3> QED BY <3>1, WindowsCover
  <2> QED BY <2>1
<1>2. Lists(g, ws)
  <2>1. Between(lo, hi, ms)
    BY DEF Between
  <2> HIDE DEF g, m, least, ws
  <2>2. Lists(Gaps(ms), Windows(ms))
    BY <2>1, GapsList
  <2> QED BY <2>2 DEF g, ws
<1>3. least \in Nat \ {0}
  BY DEF LeastChunk
<1>P. Place(Gaps(ms), quota, minimum) = Place(g, quota, minimum)
  OBVIOUS
<1> HIDE DEF g, least, ws
<1>4. m \in Nat /\ g \in [1 .. m -> ws]
  BY <1>2 DEF Lists
<1> HIDE DEF m
<1>5. /\ \A i, j \in 1 .. m : g[i] = g[j] => i = j
      /\ \A w \in ws : \E i \in 1 .. m : g[i] = w
  BY <1>2 DEF Lists, m
<1>6. \A w \in ws : w.start \in Int /\ w.end \in Int /\ w.start < w.end
  BY <1>1 DEF Spaced, Window
<1>7. Apart(g, m)
  <2>1. g \in [1 .. m -> Window]
    BY <1>1, <1>4 DEF Spaced
  <2>2. \A i \in 1 .. m : g[i].start <= g[i].end
    BY <1>4, <1>6
  <2>3. ASSUME NEW i \in 1 .. m, NEW j \in 1 .. m, i # j
        PROVE  g[i].end <= g[j].start \/ g[j].end <= g[i].start
    <3>1. g[i] \in ws /\ g[j] \in ws /\ g[i] # g[j]
      BY <1>4, <1>5, <2>3
    <3>2. g[i].end < g[j].start \/ g[j].end < g[i].start
      BY <1>1, <3>1 DEF Spaced
    <3> QED BY <1>6, <3>1, <3>2
  <2> QED BY <2>1, <2>2, <2>3 DEF Apart
<1>8. PICK f \in Filling(g, m, quota, least) :
         /\ Place(g, quota, minimum) = f.windows
         /\ \A i \in 1 .. m : Spent(f, i, least)
  BY <1>4, <1>7, PlaceFills DEF least
<1>f. f \in Fills(m) /\ Inside(g, m, least, f) /\ Counted(g, m, quota, f)
  BY <1>8 DEF Filling
<1>t. /\ f.left \in Int /\ f.windows \in SUBSET Window
      /\ \A i \in 1 .. m : f.gaps[i].start \in Int /\ f.gaps[i].end \in Int
      /\ \A i \in 1 .. m : g[i].start \in Int /\ g[i].end \in Int
  BY <1>f, <1>4, <1>6 DEF Fills, Window
<1>9. \A w \in f.windows : w.end - w.start >= least /\ w.start < w.end /\ Minutes(w) \subseteq ms
  <2> TAKE w \in f.windows
  <2>1. w.start \in Int /\ w.end \in Int
    BY <1>t DEF Window
  <2>2. w.end - w.start >= least
    BY <1>f DEF Inside
  <2>3. PICK i \in 1 .. m : g[i].start <= w.start /\ w.end <= f.gaps[i].start
    BY <1>f DEF Inside
  <2>4. f.gaps[i].start <= g[i].end
    BY <1>f DEF Inside
  <2>5. Minutes(w) \subseteq Minutes(g[i])
    BY <1>t, <2>1, <2>3, <2>4 DEF Minutes
  <2>6. Minutes(g[i]) \subseteq ms
    BY <1>1, <1>4
  <2> QED BY <1>3, <2>1, <2>2, <2>5, <2>6
<1>10. \A v, w \in f.windows : v # w => Minutes(v) \cap Minutes(w) = {}
  BY <1>f DEF Counted
<1>11. Cardinality(Covered(f.windows)) = quota - f.left /\ f.left \in 0 .. quota
  BY <1>f DEF Counted
<1>12. f.left < least \/ \A t \in ms \ Covered(f.windows) : ~(t .. t + least - 1 \subseteq ms \ Covered(f.windows))
  <2> SUFFICES ASSUME ~(f.left < least), NEW t \in ms \ Covered(f.windows),
                      t .. t + least - 1 \subseteq ms \ Covered(f.windows)
               PROVE  FALSE
    OBVIOUS
  <2>1. PICK w \in ws : t \in Minutes(w)
    BY <1>1
  <2>2. PICK i \in 1 .. m : g[i] = w
    BY <1>5
  <2>3. w.start <= t /\ t < w.end /\ t \in Int
    BY <1>6, <2>1 DEF Minutes
  <2>4. g[i].start .. f.gaps[i].start - 1 \subseteq Covered(f.windows)
    BY <1>f DEF Counted
  <2>5. f.gaps[i].start <= t
    BY <1>t, <2>2, <2>3, <2>4
  <2>6. t + least <= w.end
    <3>1. SUFFICES ASSUME ~(t + least <= w.end) PROVE FALSE
      OBVIOUS
    <3>2. w.end \in t .. t + least - 1
      BY <1>3, <1>6, <2>3, <3>1
    <3>3. w.end \notin ms
      BY <1>1
    <3> QED BY <3>2, <3>3
  <2>7. f.gaps[i].end = w.end /\ f.gaps[i].end - f.gaps[i].start < least
    <3>1. f.gaps[i].end = g[i].end
      BY <1>f DEF Inside
    <3>2. Spent(f, i, least)
      BY <1>8
    <3> QED BY <2>2, <3>1, <3>2 DEF Spent
  <2> QED BY <1>3, <1>6, <1>t, <2>3, <2>5, <2>6, <2>7
<1>13. /\ Cardinality(Covered(f.windows)) <= quota
       /\ quota - Cardinality(Covered(f.windows)) = f.left
  BY <1>11
<1>14. Placed(ms, quota, least, f.windows)
  BY <1>t, <1>9, <1>10, <1>12, <1>13 DEF Placed
<1> QED BY <1>8, <1>14, <1>P DEF least

\* Quotas are minutes.
LEMMA QuotasNat ==
    ASSUME NEW minutes \in Nat, NEW num \in Nat, NEW den \in Nat \ {0}, NEW short
    PROVE  /\ Quotas(minutes, num, den) \subseteq Nat
           /\ \E q \in Quotas(minutes, num, den) : \A r \in Quotas(minutes, num, den) :
                 IF short THEN q <= r ELSE q >= r
<1> DEFINE product == minutes * num
           exact == product \div den
           Q == IF product % den = 0 /\ exact > 0 /\ ~FiniteDecimal(num, den)
                THEN {exact, exact - 1} ELSE {exact}
<1>1. Quotas(minutes, num, den) = Q
  BY DEF Quotas
<1>2. product \in Nat
  OBVIOUS
<1> HIDE DEF product
<1>3. exact \in Nat
  BY <1>2
<1> HIDE DEF exact
<1>4. Q \subseteq Nat
  BY <1>3
<1>5. Q = {exact} \/ Q = {exact, exact - 1}
  OBVIOUS
<1> HIDE DEF Q
<1>6. \E q \in Q : \A r \in Q : IF short THEN q <= r ELSE q >= r
  <2>1. CASE Q = {exact}
    BY <1>3, <2>1
  <2>2. CASE Q = {exact, exact - 1} /\ short
    <3>1. \A r \in Q : exact - 1 <= r
      BY <1>3, <2>2
    <3> QED BY <2>2, <3>1
  <2>3. CASE Q = {exact, exact - 1} /\ ~short
    <3>1. \A r \in Q : exact >= r
      BY <1>3, <2>3
    <3> QED BY <2>3, <3>1
  <2> QED BY <1>5, <2>1, <2>2, <2>3
<1> QED BY <1>1, <1>4, <1>6

-----------------------------------------------------------------------------
(* Sums of shares.                                                         *)

\* The sum of positive numbers over a finite set is a number, and positive.
LEMMA SumPositive ==
    ASSUME NEW S, IsFiniteSet(S), NEW sh \in [S -> Nat \ {0}]
    PROVE  SumFunction(sh) \in Nat /\ (S # {} => SumFunction(sh) > 0)
<1> DEFINE pick(s) == CHOOSE x \in s : TRUE
           Body(h) == [s \in SUBSET DOMAIN sh |->
                          IF s = {} THEN 0 ELSE sh[pick(s)] + h[s \ {pick(s)}]]
           h == CHOOSE h : h = Body(h)
<1>1. SumFunction(sh) = h[DOMAIN sh]
  BY DEF SumFunction, SumFunctionOnSet, FoldFunctionOnSet, MapThenFoldSet
<1>2. \A s \in SUBSET S : s # {} => pick(s) \in s
  OBVIOUS
<1> HIDE DEF pick
<1>3. \E k : k = Body(k)
  <2> DEFINE ch == [s \in SUBSET S |-> pick(s)]
             step == [d \in S |-> [v \in Nat |-> sh[d] + v]]
  <2>1. \A s \in SUBSET S : s # {} => ch[s] \in s
    BY <1>2
  <2>2. \A d \in S : \A v \in Nat : step[d][v] = sh[d] + v /\ step[d][v] \in Nat
    OBVIOUS
  <2> HIDE DEF step
  <2>3. \E k \in [SUBSET S -> Nat] : Folding(S, ch, step, 0, k)
    <3> HIDE DEF ch
    <3> QED BY <2>1, <2>2, FoldExists
  <2>4. PICK k \in [SUBSET S -> Nat] : Folding(S, ch, step, 0, k)
    BY <2>3
  <2>5. \A s \in SUBSET S : s # {} => step[ch[s]][k[s \ {ch[s]}]] = sh[pick(s)] + k[s \ {pick(s)}]
    <3> TAKE s \in SUBSET S
    <3> HAVE s # {}
    <3>1. ch[s] = pick(s) /\ ch[s] \in S
      BY <2>1
    <3>2. k[s \ {ch[s]}] \in Nat
      BY <2>4
    <3> HIDE DEF ch
    <3> QED BY <2>2, <3>1, <3>2
  <2>6. k = Body(k)
    <3> HIDE DEF ch
    <3> QED BY <2>4, <2>5 DEF Folding
  <2> QED BY <2>6
<1>4. h = Body(h)
  BY <1>3
<1> HIDE DEF h
<1>5. /\ h[{}] = 0
      /\ \A s \in SUBSET S : s # {} => h[s] = sh[pick(s)] + h[s \ {pick(s)}]
  BY <1>4
<1> DEFINE size(s) == Cardinality(s)
           Good(n) == \A s \in SUBSET S : size(s) <= n => h[s] \in Nat
<1>6. \A s \in SUBSET S : size(s) \in Nat /\ size(s) <= size(S) /\ IsFiniteSet(s)
  BY FS_Subset, FS_CardinalityType
<1>7. \A s \in SUBSET S : s # {} => s \ {pick(s)} \in SUBSET S /\ size(s \ {pick(s)}) = size(s) - 1
  BY <1>2, <1>6, FS_RemoveElement
<1>8. \A s \in SUBSET S : size(s) <= 0 => s = {}
  BY <1>6, FS_EmptySet
<1>9. size(S) \in Nat
  BY <1>6
<1> HIDE DEF size
<1>10. {n \in 0 .. size(S) : Good(n)} = 0 .. size(S)
  <2> DEFINE T == {n \in 0 .. size(S) : Good(n)}
  <2>1. 0 \in T
    <3>1. Good(0)
      <4> TAKE s \in SUBSET S
      <4> HAVE size(s) <= 0
      <4>1. s = {}
        BY <1>8
      <4> QED BY <1>5, <4>1
    <3> HIDE DEF Good
    <3> QED BY <1>9, <3>1
  <2>2. ASSUME NEW n \in 1 .. size(S), n - 1 \in T
        PROVE  n \in T
    <3>1. ASSUME NEW s \in SUBSET S, size(s) <= n
          PROVE  h[s] \in Nat
      <4>1. CASE s = {}
        <5>1. h[s] = 0
          BY <1>5, <4>1
        <5> QED BY <5>1
      <4>2. CASE s # {}
        <5>1. s \ {pick(s)} \in SUBSET S /\ size(s \ {pick(s)}) <= n - 1
          BY <1>6, <1>7, <3>1, <4>2
        <5>2. h[s \ {pick(s)}] \in Nat
          BY <2>2, <5>1
        <5>3. sh[pick(s)] \in Nat
          BY <1>2, <4>2
        <5>4. h[s] = sh[pick(s)] + h[s \ {pick(s)}]
          BY <1>5, <4>2
        <5> QED BY <5>2, <5>3, <5>4
      <4> QED BY <4>1, <4>2
    <3> QED BY <3>1
  <2> HIDE DEF Good
  <2>3. T \in SUBSET (0 .. size(S))
    OBVIOUS
  <2> HIDE DEF T
  <2>4. T = 0 .. size(S)
    BY <1>9, <2>1, <2>2, <2>3, UpTo
  <2> QED BY <2>4 DEF T
<1>11. Good(size(S))
  <2>1. size(S) \in 0 .. size(S)
    BY <1>9
  <2> HIDE DEF Good
  <2> QED BY <1>10, <2>1
<1>12. h[S] \in Nat /\ h[S \ {pick(S)}] \in Nat
  BY <1>6, <1>9, <1>11
<1>13. S # {} => h[S] > 0
  <2> SUFFICES ASSUME S # {} PROVE h[S] > 0
    OBVIOUS
  <2>1. h[S] = sh[pick(S)] + h[S \ {pick(S)}] /\ sh[pick(S)] \in Nat \ {0}
    BY <1>2, <1>5
  <2> QED BY <1>12, <2>1
<1> QED BY <1>1, <1>12, <1>13

-----------------------------------------------------------------------------
(* What a fill plans.                                                      *)

\* Activities that exist are rows of the table.
LEMMA RowTypes ==
    ASSUME TypeOK, NEW a \in Ids, Exists(activity, a)
    PROVE  /\ activity[a] \in Activity /\ activity[a].share \in Nat
           /\ activity[a].minimum \in Int /\ activity[a].prerequisites \in SUBSET Plans
<1>1. activity[a] \in Activity
  BY DEF TypeOK, Exists
<1> QED BY <1>1, UnitsAssumption DEF Activity

\* The survivors have positive shares, and so has their sum.
LEMMA SurvivorShares ==
    ASSUME TypeOK
    PROVE  /\ \A a \in Survivors : /\ a \in Ids /\ Exists(activity, a) /\ activity[a].enabled
                                   /\ activity[a].share \in Nat \ {0} /\ activity[a].minimum \in Int
           /\ Survivors # {} => SumOver(activity, Survivors) \in Nat \ {0}
<1>1. \A a \in Survivors : /\ a \in Ids /\ Exists(activity, a) /\ activity[a].enabled
                           /\ activity[a].share \in Nat \ {0} /\ activity[a].minimum \in Int
  <2> TAKE a \in Survivors
  <2>1. a \in Ids /\ Exists(activity, a) /\ activity[a].enabled /\ activity[a].share > 0
    BY DEF Survivors, Contributing, Existing
  <2> QED BY <2>1, RowTypes
<1>2. ASSUME Survivors # {}
      PROVE  SumOver(activity, Survivors) \in Nat \ {0}
  <2> DEFINE sh == [a \in Survivors |-> activity[a].share]
  <2>1. sh \in [Survivors -> Nat \ {0}]
    BY <1>1
  <2>2. IsFiniteSet(Survivors)
    <3>1. Survivors \in SUBSET Ids
      BY <1>1
    <3> QED BY <3>1, IdsAssumption, FS_Subset
  <2>3. SumOver(activity, Survivors) = SumFunction(sh)
    BY DEF SumOver
  <2> HIDE DEF sh
  <2>4. SumFunction(sh) \in Nat /\ SumFunction(sh) > 0
    BY <1>2, <2>1, <2>2, SumPositive
  <2> QED BY <2>3, <2>4
<1> QED BY <1>1, <1>2

\* The time activity a may use in week k.
Region(a, k) == Eligible(Bucket(k, Scene), Effective(activity[a].families), Scene)

LEMMA RegionBounds ==
    ASSUME NEW a, NEW k
    PROVE  Region(a, k) \subseteq Bucket(k, Scene) /\ Bucket(k, Scene) \subseteq now .. Horizon - 1
<1>1. Bucket(k, Scene) \subseteq now .. Horizon - 1
  BY DEF Bucket, Scene
<1> DEFINE B == Bucket(k, Scene)
<1> HIDE DEF B
<1>2. \A fs : Eligible(B, fs, Scene) \subseteq B
  <2>1. InGaps(B, Scene) \subseteq B /\ InDefaultTime(B, Scene) \subseteq B
    BY DEF InGaps, InDefaultTime
  <2> QED BY <2>1 DEF Eligible
<1> QED BY <1>1, <1>2 DEF Region, B

PlannedRow(a, w) == [label |-> a, source |-> a, start |-> w.start, end |-> w.end]

\* The rows rs are, for each survivor and week, windows that give it a quota.
PlannedBy(rs, given) ==
    /\ \A r \in rs : \E a \in Survivors, k \in WeekAnchors : \E w \in given[a][k] : r = PlannedRow(a, w)
    /\ \A a \in Survivors, k \in WeekAnchors : \A w \in given[a][k] : PlannedRow(a, w) \in rs
    /\ \A a \in Survivors, k \in WeekAnchors :
          \E quota \in Quotas(Cardinality(Region(a, k)), activity[a].share, SumOver(activity, Survivors)) :
             quota \in Nat /\ Placed(Region(a, k), quota, LeastChunk(activity[a].minimum), given[a][k])

LEMMA PlannedIs ==
    ASSUME TypeOK, NEW short
    PROVE  \E given : PlannedBy(Planned(short), given)
<1> DEFINE den == SumOver(activity, Survivors)
           quotas(a, k) == Quotas(Cardinality(Region(a, k)), activity[a].share, den)
           weeks(a) == {w \in WeekAnchors : <<a, w>> \in short}
           least(a, k, q) == \A r \in quotas(a, k) : IF k \in weeks(a) THEN q <= r ELSE q >= r
           quota(a, k) == CHOOSE q \in quotas(a, k) : least(a, k, q)
           placed(a, k) == Place(Gaps(Region(a, k)), quota(a, k), activity[a].minimum)
           given == [a \in Survivors |-> [k \in WeekAnchors |-> placed(a, k)]]
<1>1. now \in Int /\ Horizon \in Int
  BY MomentsAssumption DEF TypeOK
<1>2. ASSUME NEW a \in Survivors, NEW k \in WeekAnchors
      PROVE  /\ quota(a, k) \in quotas(a, k) /\ quota(a, k) \in Nat
             /\ Placed(Region(a, k), quota(a, k), LeastChunk(activity[a].minimum), placed(a, k))
  <2>1. Region(a, k) \in SUBSET (now .. Horizon - 1)
    BY RegionBounds
  <2>2. Cardinality(Region(a, k)) \in Nat
    BY <1>1, <2>1, IntervalSize, FS_Subset, FS_CardinalityType
  <2>3. activity[a].share \in Nat /\ activity[a].minimum \in Int /\ den \in Nat \ {0}
    BY SurvivorShares
  <2> HIDE DEF den, weeks
  <2>4. quotas(a, k) \subseteq Nat /\ \E q \in quotas(a, k) : least(a, k, q)
    BY <2>2, <2>3, QuotasNat
  <2> HIDE DEF quotas, least
  <2>5. quota(a, k) \in quotas(a, k) /\ quota(a, k) \in Nat
    BY <2>4
  <2> HIDE DEF quota
  <2> QED BY <1>1, <2>1, <2>3, <2>5, PlaceGives
<1>3. \A a \in Survivors :
         RowsOf(a, activity[a], EffectiveShare(a), Scene, weeks(a))
           = UNION {{PlannedRow(a, w) : w \in placed(a, k)} : k \in WeekAnchors}
  <2> TAKE a \in Survivors
  <2>1. EffectiveShare(a).num = activity[a].share /\ EffectiveShare(a).den = den
    BY DEF EffectiveShare
  <2> HIDE DEF den, weeks
  <2> QED BY <2>1 DEF RowsOf, PlannedRow, Region
<1>4. \A r : r \in Planned(short) <=>
              \E a \in Survivors, k \in WeekAnchors : \E w \in placed(a, k) : r = PlannedRow(a, w)
  <2> TAKE r
  <2>1. r \in Planned(short) <=>
          \E a \in Survivors : r \in RowsOf(a, activity[a], EffectiveShare(a), Scene, weeks(a))
    BY DEF Planned
  <2> HIDE DEF placed, weeks
  <2>2. \A a \in Survivors :
           r \in RowsOf(a, activity[a], EffectiveShare(a), Scene, weeks(a))
             <=> \E k \in WeekAnchors : \E w \in placed(a, k) : r = PlannedRow(a, w)
    BY <1>3
  <2> QED BY <2>1, <2>2
<1>5. \A a \in Survivors, k \in WeekAnchors : given[a][k] = placed(a, k)
  OBVIOUS
<1> HIDE DEF placed, given
<1>6. \A a \in Survivors, k \in WeekAnchors :
         \E q \in quotas(a, k) :
             q \in Nat /\ Placed(Region(a, k), q, LeastChunk(activity[a].minimum), given[a][k])
  <2> HIDE DEF quotas, quota
  <2> QED BY <1>2, <1>5
<1>7. PlannedBy(Planned(short), given)
  <2>1. \A r \in Planned(short) : \E a \in Survivors, k \in WeekAnchors : \E w \in given[a][k] : r = PlannedRow(a, w)
    BY <1>4, <1>5
  <2>2. \A a \in Survivors, k \in WeekAnchors : \A w \in given[a][k] : PlannedRow(a, w) \in Planned(short)
    BY <1>4, <1>5
  <2> QED BY <1>6, <2>1, <2>2 DEF PlannedBy
<1> QED BY <1>7

\* Weeks do not overlap.
LEMMA WeeksApart ==
    ASSUME NEW k \in WeekAnchors, NEW n \in WeekAnchors, NEW t \in Int,
           t \in Bucket(k, Scene), t \in Bucket(n, Scene)
    PROVE  k = n
<1>1. k \in Int /\ n \in Int
  BY AnchorsAssumption
<1>2. /\ k <= t /\ \A b \in WeekAnchors : b > k => t < b
      /\ n <= t /\ \A b \in WeekAnchors : b > n => t < b
  BY DEF Bucket, NextAnchors
<1>3. ~(n > k) /\ ~(k > n)
  BY <1>1, <1>2
<1> QED BY <1>1, <1>3

\* A planned window: where it is and how long.
LEMMA PlannedWindow ==
    ASSUME TypeOK, NEW rs, NEW given, PlannedBy(rs, given),
           NEW a \in Survivors, NEW k \in WeekAnchors, NEW w \in given[a][k]
    PROVE  /\ w.start \in Int /\ w.end \in Int /\ w.start < w.end
           /\ w.end - w.start >= LeastChunk(activity[a].minimum)
           /\ Minutes(w) \subseteq Region(a, k) /\ Minutes(PlannedRow(a, w)) = Minutes(w)
           /\ now <= w.start /\ w.end <= Horizon
<1>1. /\ given[a][k] \subseteq Window
      /\ w.end - w.start >= LeastChunk(activity[a].minimum) /\ w.start < w.end
      /\ Minutes(w) \subseteq Region(a, k)
  <2>1. PICK quota : Placed(Region(a, k), quota, LeastChunk(activity[a].minimum), given[a][k])
    BY DEF PlannedBy
  <2> QED BY <2>1 DEF Placed
<1>2. w.start \in Int /\ w.end \in Int
  BY <1>1 DEF Window
<1>3. Minutes(PlannedRow(a, w)) = Minutes(w)
  BY DEF Minutes, PlannedRow
<1>4. now \in Int /\ Horizon \in Int
  <2>1. now \in Moments \cup {0}
    BY DEF TypeOK
  <2> QED BY <2>1, MomentsAssumption
<1>5. w.start .. w.end - 1 \subseteq now .. Horizon - 1
  BY <1>1, RegionBounds DEF Minutes
<1>6. w.start \in w.start .. w.end - 1 /\ w.end - 1 \in w.start .. w.end - 1
  BY <1>1, <1>2
<1>7. now <= w.start /\ w.end <= Horizon
  BY <1>2, <1>4, <1>5, <1>6
<1> QED BY <1>1, <1>2, <1>3, <1>7

\* Planned rows are well formed and name survivors.
LEMMA PlannedTyped ==
    ASSUME TypeOK, NEW rs, NEW given, PlannedBy(rs, given), NEW r \in rs
    PROVE  r \in Row /\ r.source = r.label /\ r.label \in Survivors
<1>1. PICK a \in Survivors, k \in WeekAnchors : \E w \in given[a][k] : r = PlannedRow(a, w)
  BY DEF PlannedBy
<1>2. PICK w \in given[a][k] : r = PlannedRow(a, w)
  BY <1>1
<1>3. /\ w.start \in Int /\ w.end \in Int /\ w.start < w.end /\ now <= w.start /\ w.end <= Horizon
  BY PlannedWindow
<1>4. now \in Int /\ 0 <= now /\ Horizon \in Int
  BY MomentsAssumption DEF TypeOK
<1>5. w.start \in 0 .. Horizon /\ w.end \in 0 .. Horizon
  BY <1>3, <1>4
<1>6. a \in Ids
  BY SurvivorShares
<1> QED BY <1>2, <1>5, <1>6 DEF PlannedRow, Row

\* The body of PlannedWhereAllowed.
Allowed(rs, r) ==
    LET x == activity[r.label]
        allowed == BlocksOf(Effective(x.families), Scene)
        others == rs \ {r}
    IN  /\ r.start >= now /\ r.end <= Horizon /\ r.end - r.start >= LeastChunk(x.minimum)
        /\ Minutes(r) \cap (Covered(FutureTasks(Scene)) \cup Covered(Scene.blocks \ allowed))
               \subseteq Covered(BlocksOf(Effective(x.families) \ {Default}, Scene))
        /\ \A s \in others : s.label = r.label => Minutes(s) \cap Minutes(r) = {}

\* The three kinds of time an activity may use keep out of tasks and of blocks it does
\* not allow, but for what the blocks it lists, and those of free time, cover.
LEMMA RegionAllowed ==
    ASSUME TypeOK, NEW a, NEW k, NEW t \in Region(a, k),
           \/ t \in Covered(FutureTasks(Scene))
           \/ t \in Covered(Scene.blocks \ BlocksOf(Effective(activity[a].families), Scene))
    PROVE  t \in Covered(BlocksOf(Effective(activity[a].families) \ {Default}, Scene))
<1> DEFINE fs == Effective(activity[a].families)
           B == Bucket(k, Scene)
<1>1. t \in Eligible(B, fs, Scene)
  BY DEF Region
<1>2. FreeTime # Default
  BY FamiliesAssumption
<1>3. \A b \in Scene.blocks : b.family \in Families
  BY CalendarsAssumption DEF TypeOK, Scene
<1>4. \/ t \in Covered(FutureTasks(Scene))
      \/ t \in Covered(Scene.blocks \ BlocksOf(fs, Scene))
  OBVIOUS
<1> HIDE DEF fs, B
<1>5. \/ FreeTime \in fs /\ t \in InGaps(B, Scene)
      \/ Default \in fs /\ t \in InDefaultTime(B, Scene)
      \/ t \in Covered(BlocksOf(fs \ {FreeTime, Default}, Scene))
  BY <1>1 DEF Eligible
<1>6. \A S : t \in Covered(BlocksOf(S, Scene)) <=> \E b \in Scene.blocks : b.family \in S /\ t \in Minutes(b)
  BY DEF Covered, BlocksOf
<1>7. CASE FreeTime \in fs /\ t \in InGaps(B, Scene)
  <2>1. t \in Blockers(Scene)
    BY <1>4 DEF Blockers, Covered
  <2>2. t \in Covered(BlocksOf({FreeTime}, Scene))
    BY <1>7, <2>1 DEF InGaps
  <2>3. t \in Covered(BlocksOf(fs \ {Default}, Scene))
    BY <1>2, <1>6, <1>7, <2>2
  <2> QED BY <2>3 DEF fs
<1>8. CASE Default \in fs /\ t \in InDefaultTime(B, Scene)
  <2>1. t \notin Covered(BlocksOf(Families \ {Default}, Scene)) /\ t \notin Covered(FutureTasks(Scene))
    BY <1>8 DEF InDefaultTime
  <2>2. PICK c \in Scene.blocks : c \notin BlocksOf(fs, Scene) /\ t \in Minutes(c)
    BY <1>4, <2>1 DEF Covered
  <2>3. c.family = Default
    BY <1>3, <1>6, <2>1, <2>2
  <2> QED BY <1>8, <2>2, <2>3 DEF BlocksOf
<1>9. CASE t \in Covered(BlocksOf(fs \ {FreeTime, Default}, Scene))
  <2>1. t \in Covered(BlocksOf(fs \ {Default}, Scene))
    BY <1>6, <1>9
  <2> QED BY <2>1 DEF fs
<1> QED BY <1>5, <1>7, <1>8, <1>9

LEMMA PlannedAllowed ==
    ASSUME TypeOK, NEW rs, NEW given, PlannedBy(rs, given), NEW r \in rs
    PROVE  Allowed(rs, r)
<1>1. PICK a \in Survivors, k \in WeekAnchors : \E w \in given[a][k] : r = PlannedRow(a, w)
  BY DEF PlannedBy
<1>2. PICK w \in given[a][k] : r = PlannedRow(a, w)
  BY <1>1
<1>3. r.label = a /\ r.start = w.start /\ r.end = w.end
  BY <1>2 DEF PlannedRow
<1>4. /\ w.start \in Int /\ w.end \in Int /\ w.start < w.end
      /\ w.end - w.start >= LeastChunk(activity[a].minimum)
      /\ Minutes(w) \subseteq Region(a, k) /\ Minutes(r) = Minutes(w)
      /\ now <= w.start /\ w.end <= Horizon
  BY <1>2, PlannedWindow
<1>5. now \in Int
  BY MomentsAssumption DEF TypeOK
<1>6. /\ r.start >= now /\ r.end <= Horizon /\ r.end - r.start >= LeastChunk(activity[r.label].minimum)
  BY <1>3, <1>4, <1>5
<1>7. Minutes(r) \cap (Covered(FutureTasks(Scene))
          \cup Covered(Scene.blocks \ BlocksOf(Effective(activity[r.label].families), Scene)))
             \subseteq Covered(BlocksOf(Effective(activity[r.label].families) \ {Default}, Scene))
  BY <1>3, <1>4, RegionAllowed
<1>8. ASSUME NEW s \in rs \ {r}, s.label = r.label
      PROVE  Minutes(s) \cap Minutes(r) = {}
  <2>1. PICK b \in Survivors, n \in WeekAnchors : \E v \in given[b][n] : s = PlannedRow(b, v)
    BY DEF PlannedBy
  <2>2. PICK v \in given[b][n] : s = PlannedRow(b, v)
    BY <2>1
  <2>3. b = a
    BY <1>3, <1>8, <2>2 DEF PlannedRow
  <2>4. Minutes(v) \subseteq Region(a, n) /\ Minutes(s) = Minutes(v) /\ v.start \in Int /\ v.end \in Int
    BY <2>2, <2>3, PlannedWindow
  <2>5. CASE n = k
    <3>1. v # w
      BY <1>2, <1>8, <2>2, <2>3
    <3>2. PICK quota : Placed(Region(a, k), quota, LeastChunk(activity[a].minimum), given[a][k])
      BY DEF PlannedBy
    <3>3. Minutes(v) \cap Minutes(w) = {}
      BY <2>2, <2>3, <2>5, <3>1, <3>2 DEF Placed
    <3> QED BY <1>4, <2>4, <3>3
  <2>6. CASE n # k
    <3>1. \A t \in Minutes(v) : t \in Int /\ t \in Bucket(n, Scene)
      BY <2>4, RegionBounds DEF Minutes
    <3>2. \A t \in Minutes(w) : t \in Bucket(k, Scene)
      BY <1>4, RegionBounds
    <3>3. \A t \in Minutes(v) : t \notin Minutes(w)
      BY <2>6, <3>1, <3>2, WeeksApart
    <3> QED BY <1>4, <2>4, <3>3
  <2> QED BY <2>5, <2>6
<1> QED BY <1>6, <1>7, <1>8 DEF Allowed

\* The body of ShareGiven.
Given(rs, a, w) ==
    LET x == activity[a]
        least == LeastChunk(x.minimum)
        region == Eligible(Bucket(w, Scene), Effective(x.families), Scene)
        given == FilledBy(a, rs) \cap Bucket(w, Scene)
    IN  /\ given \subseteq region
        /\ \E quota \in Quotas(Cardinality(region), x.share, SumOver(activity, Survivors)) :
              /\ Cardinality(given) <= quota
              /\ \/ quota - Cardinality(given) < least
                 \/ \A t \in region \ given :
                       ~(t .. t + least - 1 \subseteq region \ given)

LEMMA PlannedGiven ==
    ASSUME TypeOK, NEW rs, NEW given, PlannedBy(rs, given), NEW a \in Survivors, NEW k \in WeekAnchors
    PROVE  Given(rs, a, k)
<1> DEFINE got == FilledBy(a, rs) \cap Bucket(k, Scene)
           least == LeastChunk(activity[a].minimum)
<1>1. PICK quota \in Quotas(Cardinality(Region(a, k)), activity[a].share, SumOver(activity, Survivors)) :
         Placed(Region(a, k), quota, least, given[a][k])
  BY DEF PlannedBy
<1>2. Covered(given[a][k]) \subseteq Region(a, k)
  BY <1>1 DEF Placed, Covered
<1>3. ASSUME NEW t \in Covered(given[a][k])
      PROVE  t \in got
  <2>1. PICK w \in given[a][k] : t \in Minutes(w)
    BY DEF Covered
  <2>2. PlannedRow(a, w) \in rs
    BY DEF PlannedBy
  <2>3. Minutes(PlannedRow(a, w)) = Minutes(w) /\ PlannedRow(a, w).label = a
    BY PlannedWindow DEF PlannedRow
  <2>4. t \in Bucket(k, Scene) /\ t \in now .. Horizon - 1
    BY <1>2, <1>3, RegionBounds
  <2>5. t \in 0 .. Horizon - 1
    BY <2>4, MomentsAssumption DEF TypeOK
  <2> QED BY <2>1, <2>2, <2>3, <2>4, <2>5 DEF FilledBy
<1>4. ASSUME NEW t \in got
      PROVE  t \in Covered(given[a][k])
  <2>1. PICK r \in rs : r.label = a /\ t \in Minutes(r)
    BY DEF FilledBy
  <2>2. PICK b \in Survivors, n \in WeekAnchors : \E w \in given[b][n] : r = PlannedRow(b, w)
    BY DEF PlannedBy
  <2>3. PICK w \in given[b][n] : r = PlannedRow(b, w)
    BY <2>2
  <2>4. b = a
    BY <2>1, <2>3 DEF PlannedRow
  <2>5. t \in Minutes(w) /\ Minutes(w) \subseteq Region(a, n)
    BY <2>1, <2>3, <2>4, PlannedWindow
  <2>6. t \in Bucket(n, Scene) /\ t \in Bucket(k, Scene) /\ t \in Int
    BY <2>5, RegionBounds DEF FilledBy
  <2>7. n = k
    BY <2>6, WeeksApart
  <2> QED BY <2>3, <2>4, <2>5, <2>7 DEF Covered
<1>5. got = Covered(given[a][k])
  <2> HIDE DEF got
  <2> QED BY <1>3, <1>4
<1> HIDE DEF got
<1>6. /\ Cardinality(got) <= quota
      /\ \/ quota - Cardinality(got) < least
         \/ \A t \in Region(a, k) \ got : ~(t .. t + least - 1 \subseteq Region(a, k) \ got)
  BY <1>1, <1>5 DEF Placed
<1>7. got \subseteq Region(a, k)
  BY <1>2, <1>5
<1> QED BY <1>6, <1>7 DEF Given, got, Region

-----------------------------------------------------------------------------
(* Edits.                                                                  *)

Table == [Ids -> Activity \cup {None}]

\* The prerequisites of every activity are plans that exist.
Grounded(acts) == \A a \in Existing(acts) : acts[a].prerequisites \subseteq plans

\* What each kind of edit carries.
LEMMA EditKinds ==
    ASSUME NEW e \in Edits
    PROVE  /\ e.id \in Ids
           /\ e.op \in {"create", "update", "enable", "require", "release", "families", "delete"}
           /\ e.op = "create" =>
                 e.enabled \in BOOLEAN /\ e.share \in Shares /\ e.minimum \in MinimumSizes
           /\ e.op = "update" =>
                 e.share \in Shares \cup {None} /\ e.minimum \in MinimumSizes \cup {None}
           /\ e.op = "enable" => e.enabled \in BOOLEAN
           /\ e.op \in {"require", "release"} => e.plan \in Plans
           /\ e.op = "families" => e.families \in FamilyLists
<1>1. CASE e \in [op : {"create"}, id : Ids, enabled : BOOLEAN, share : Shares, minimum : MinimumSizes]
  BY <1>1
<1>2. CASE e \in [op : {"update"}, id : Ids, share : Shares \cup {None},
                  minimum : MinimumSizes \cup {None}]
  BY <1>2
<1>3. CASE e \in [op : {"enable"}, id : Ids, enabled : BOOLEAN]
  BY <1>3
<1>4. CASE e \in [op : {"require", "release"}, id : Ids, plan : Plans]
  BY <1>4
<1>5. CASE e \in [op : {"families"}, id : Ids, families : FamilyLists]
  BY <1>5
<1>6. CASE e \in [op : {"delete"}, id : Ids, seen : SUBSET Plans]
  BY <1>6
<1> QED BY <1>1, <1>2, <1>3, <1>4, <1>5, <1>6 DEF Edits

\* An edit that applies keeps the table well formed, and changes one activity.
LEMMA AfterEdit ==
    ASSUME NEW acts \in Table, Grounded(acts), NEW e \in Edits, Applies(acts, e)
    PROVE  /\ After(acts, e) \in Table /\ Grounded(After(acts, e))
           /\ \A a \in Ids \ {e.id} : After(acts, e)[a] = acts[a]
           /\ Exists(After(acts, e), e.id) <=> e.op # "delete"
           /\ ~SumChecked(e) =>
                 /\ Exists(acts, e.id)
                 /\ After(acts, e)[e.id].enabled = acts[e.id].enabled
                 /\ After(acts, e)[e.id].share = acts[e.id].share
                 /\ After(acts, e)[e.id].minimum = acts[e.id].minimum
<1> DEFINE next == After(acts, e)
           old == acts[e.id]
<1>1. /\ e.id \in Ids
      /\ e.op \in {"create", "update", "enable", "require", "release", "families", "delete"}
  BY EditKinds
<1>2. ASSUME NEW x, next = [acts EXCEPT ![e.id] = x], x \in Activity \cup {None},
             x # None => x.prerequisites \subseteq plans
      PROVE  /\ next \in Table /\ Grounded(next) /\ next[e.id] = x
             /\ \A a \in Ids \ {e.id} : next[a] = acts[a]
  <2>1. next[e.id] = x /\ \A a \in Ids \ {e.id} : next[a] = acts[a]
    BY <1>1, <1>2 DEF Table
  <2>2. next \in Table
    BY <1>1, <1>2 DEF Table
  <2> HIDE DEF next
  <2>3. Grounded(next)
    BY <1>2, <2>1 DEF Grounded, Existing, Exists
  <2> QED BY <2>1, <2>2, <2>3
<1>3. e.op # "create" => old \in Activity /\ old # None /\ old.prerequisites \subseteq plans
  BY <1>1 DEF Table, Applies, Exists, Grounded, Existing
<1>4. ASSUME NEW x \in Activity
      PROVE  x # None /\ x = [enabled |-> x.enabled, share |-> x.share, minimum |-> x.minimum,
                              families |-> x.families, prerequisites |-> x.prerequisites]
  BY NullAssumption DEF Activity
<1>5. CASE e.op = "create"
  <2> DEFINE x == [enabled |-> e.enabled, share |-> e.share, minimum |-> e.minimum,
                   families |-> {}, prerequisites |-> {}]
  <2>1. x \in Activity
    BY <1>5, EditKinds, FamilyListsAssumption DEF Activity
  <2>2. next = [acts EXCEPT ![e.id] = x]
    BY <1>5 DEF After
  <2> QED BY <1>2, <1>4, <1>5, <2>1, <2>2 DEF Exists, SumChecked, Saves
<1>6. CASE e.op = "delete"
  <2>1. next = [acts EXCEPT ![e.id] = None]
    BY <1>6 DEF After
  <2> QED BY <1>2, <1>6, <2>1 DEF Exists, SumChecked
<1>7. ASSUME e.op \notin {"create", "delete"}, NEW x \in Activity, next = [acts EXCEPT ![e.id] = x],
             x.prerequisites \subseteq plans,
             ~SumChecked(e) => x.enabled = old.enabled /\ x.share = old.share /\ x.minimum = old.minimum
      PROVE  /\ next \in Table /\ Grounded(next)
             /\ \A a \in Ids \ {e.id} : next[a] = acts[a]
             /\ Exists(next, e.id) <=> e.op # "delete"
             /\ ~SumChecked(e) =>
                   /\ Exists(acts, e.id) /\ next[e.id].enabled = old.enabled
                   /\ next[e.id].share = old.share /\ next[e.id].minimum = old.minimum
  <2>1. /\ next \in Table /\ Grounded(next) /\ next[e.id] = x
        /\ \A a \in Ids \ {e.id} : next[a] = acts[a]
    BY <1>2, <1>7
  <2> HIDE DEF next
  <2> QED BY <1>3, <1>4, <1>7, <2>1 DEF Exists
<1>8. CASE e.op = "update"
  <2> DEFINE x == [old EXCEPT !.share = IF e.share = None THEN @ ELSE e.share,
                              !.minimum = IF e.minimum = None THEN @ ELSE e.minimum]
  <2>1. x \in Activity /\ x.prerequisites = old.prerequisites
    BY <1>3, <1>8, EditKinds DEF Activity
  <2>2. next = [acts EXCEPT ![e.id] = x]
    BY <1>1, <1>8 DEF After, Table
  <2> HIDE DEF x
  <2> QED BY <1>3, <1>7, <1>8, <2>1, <2>2 DEF SumChecked, Saves
<1>9. CASE e.op = "enable"
  <2> DEFINE x == [old EXCEPT !.enabled = e.enabled]
  <2>1. x \in Activity /\ x.prerequisites = old.prerequisites
    BY <1>3, <1>9, EditKinds DEF Activity
  <2>2. next = [acts EXCEPT ![e.id] = x]
    BY <1>1, <1>9 DEF After, Table
  <2> HIDE DEF x
  <2> QED BY <1>3, <1>7, <1>9, <2>1, <2>2 DEF SumChecked, Saves
<1>10. CASE e.op = "require"
  <2> DEFINE x == [old EXCEPT !.prerequisites = @ \cup {e.plan}]
  <2>1. x \in Activity /\ x.prerequisites = old.prerequisites \cup {e.plan}
        /\ x.enabled = old.enabled /\ x.share = old.share /\ x.minimum = old.minimum
    BY <1>3, <1>10, EditKinds DEF Activity
  <2>2. next = [acts EXCEPT ![e.id] = x]
    BY <1>1, <1>10 DEF After, Table
  <2>3. e.plan \in plans
    BY <1>10 DEF Applies
  <2> HIDE DEF x
  <2> QED BY <1>3, <1>7, <1>10, <2>1, <2>2, <2>3
<1>11. CASE e.op = "release"
  <2> DEFINE x == [old EXCEPT !.prerequisites = @ \ {e.plan}]
  <2>1. x \in Activity /\ x.prerequisites \subseteq old.prerequisites
        /\ x.enabled = old.enabled /\ x.share = old.share /\ x.minimum = old.minimum
    BY <1>3, <1>11, EditKinds DEF Activity
  <2>2. next = [acts EXCEPT ![e.id] = x]
    BY <1>1, <1>11 DEF After, Table
  <2> HIDE DEF x
  <2> QED BY <1>3, <1>7, <1>11, <2>1, <2>2
<1>12. CASE e.op = "families"
  <2> DEFINE x == [old EXCEPT !.families = e.families]
  <2>1. x \in Activity /\ x.prerequisites = old.prerequisites
        /\ x.enabled = old.enabled /\ x.share = old.share /\ x.minimum = old.minimum
    BY <1>3, <1>12, EditKinds DEF Activity
  <2>2. next = [acts EXCEPT ![e.id] = x]
    BY <1>1, <1>12 DEF After, Table
  <2> HIDE DEF x
  <2> QED BY <1>3, <1>7, <1>12, <2>1, <2>2
<1> QED BY <1>1, <1>5, <1>6, <1>8, <1>9, <1>10, <1>11, <1>12

\* What an edit leaves of the shares decides what it leaves of their validity.
LEMMA SameShares ==
    ASSUME NEW acts \in Table, NEW next \in Table,
           \A a \in Ids : Exists(next, a) <=> Exists(acts, a),
           \A a \in Existing(acts) : /\ next[a].enabled = acts[a].enabled
                                     /\ next[a].share = acts[a].share
                                     /\ next[a].minimum = acts[a].minimum
    PROVE  /\ SharesValid(next) <=> SharesValid(acts)
           /\ AllFieldsValid(next) <=> AllFieldsValid(acts)
<1>1. Existing(next) = Existing(acts)
  BY DEF Existing
<1>2. Contributing(next) = Contributing(acts)
  BY <1>1 DEF Contributing
<1>3. [a \in Contributing(next) |-> next[a].share] = [a \in Contributing(acts) |-> acts[a].share]
  BY <1>2 DEF Contributing
<1>4. SumOver(next, Contributing(next)) = SumOver(acts, Contributing(acts))
  BY <1>3 DEF SumOver
<1>5. AllFieldsValid(next) <=> AllFieldsValid(acts)
  BY <1>1 DEF AllFieldsValid, FieldsValid
<1> QED BY <1>2, <1>4, <1>5 DEF SharesValid

\* Rows are well formed, and name the activity they are labelled with, if any.
Tied(rs, acts) ==
    /\ rs \subseteq Row
    /\ \A r \in rs : r.source \in Existing(acts) \cup {None} /\ r.source \in {r.label, None}

\* The rows before t are kept, without their activity when it is gone.
Kept(rs, t, acts, left) ==
    \A r \in rs : r.start < t =>
        r \in left \/ (~Exists(acts, r.source) /\ [r EXCEPT !.source = None] \in left)

RowsAfter(rs, e, t) == IF e.op = "delete" THEN RowsAfterDelete(rs, e.id, t) ELSE rs

\* An edit leaves no row without its activity, and keeps what has started.
LEMMA EditRows ==
    ASSUME NEW acts \in Table, Grounded(acts), NEW e \in Edits, Applies(acts, e),
           NEW rs, Tied(rs, acts), NEW t \in Int
    PROVE  Tied(RowsAfter(rs, e, t), After(acts, e)) /\ Kept(rs, t, After(acts, e), RowsAfter(rs, e, t))
<1> DEFINE next == After(acts, e)
           left == RowsAfter(rs, e, t)
<1>1. /\ e.id \in Ids /\ None \notin Ids
      /\ \A a \in Ids \ {e.id} : next[a] = acts[a]
      /\ Exists(next, e.id) <=> e.op # "delete"
  BY EditKinds, AfterEdit, NoneAssumption
<1> HIDE DEF next
<1>2. CASE e.op # "delete"
  <2>1. left = rs
    BY <1>2 DEF RowsAfter
  <2>2. Existing(acts) \subseteq Existing(next)
    BY <1>1, <1>2 DEF Existing, Exists
  <2> QED BY <2>1, <2>2 DEF Tied, Kept, next
<1>3. CASE e.op = "delete"
  <2> DEFINE cut(r) == [r EXCEPT !.source = None]
  <2>1. /\ \A r \in left : \E x \in rs : r = IF x.source = e.id THEN cut(x) ELSE x
        /\ \A x \in rs : ~(x.source = e.id /\ x.start >= t) =>
              (IF x.source = e.id THEN cut(x) ELSE x) \in left
    BY <1>3 DEF RowsAfter, RowsAfterDelete
  <2>2. \A x \in Row : x.start \in Int /\ cut(x) \in Row /\ cut(x).source = None
    BY MomentsAssumption DEF Row
  <2> HIDE DEF left, cut
  <2>3. ASSUME NEW r \in left
        PROVE  r \in Row /\ r.source \in Existing(next) \cup {None} /\ r.source \in {r.label, None}
    <3>1. PICK x \in rs : r = IF x.source = e.id THEN cut(x) ELSE x
      BY <2>1
    <3>2. x \in Row /\ x.source \in Existing(acts) \cup {None} /\ x.source \in {x.label, None}
      BY DEF Tied
    <3>3. CASE x.source = e.id
      BY <2>2, <3>1, <3>2, <3>3
    <3>4. CASE x.source # e.id
      BY <1>1, <3>1, <3>2, <3>4 DEF Existing, Exists
    <3> QED BY <3>3, <3>4
  <2>4. ASSUME NEW r \in rs, r.start < t
        PROVE  r \in left \/ (~Exists(next, r.source) /\ cut(r) \in left)
    <3>1. r.start \in Int /\ ~(r.start >= t)
      BY <2>2, <2>4 DEF Tied
    <3> QED BY <1>1, <1>3, <2>1, <3>1
  <2> QED BY <2>3, <2>4 DEF Tied, Kept, cut, left, next
<1> QED BY <1>2, <1>3

-----------------------------------------------------------------------------
(* Drafts.                                                                 *)

\* Every row names the activity it is labelled with, or none any more.
Labelled ==
    /\ \A r \in rows : r.source \in {r.label, None}
    /\ fill # Idle => \A r \in fill.rows : r.source = r.label

\* What a draft makes of the table and the rows it started from.
DraftStates ==
    {s \in [ok : BOOLEAN, acts : Table, rows : SUBSET Row] :
        Grounded(s.acts) /\ Tied(s.rows, s.acts) /\ Kept(rows, now, s.acts, s.rows)}

LEMMA DraftStarts ==
    ASSUME TypeOK, ReferencesHold, Labelled
    PROVE  /\ [ok |-> TRUE, acts |-> activity, rows |-> rows] \in DraftStates
           /\ activity \in Table /\ Grounded(activity) /\ Tied(rows, activity) /\ now \in Int
<1>1. activity \in Table /\ Grounded(activity) /\ Tied(rows, activity) /\ rows \subseteq Row
  BY DEF TypeOK, ReferencesHold, Labelled, Table, Grounded, Tied
<1>2. now \in Int
  <2>1. now \in Moments \cup {0}
    BY DEF TypeOK
  <2> QED BY <2>1, MomentsAssumption
<1>3. Kept(rows, now, activity, rows)
  BY DEF Kept
<1> QED BY <1>1, <1>2, <1>3 DEF DraftStates

\* A step of a draft loses nothing that had started; an activity that rows name is not
\* created again.
LEMMA DraftStepKeeps ==
    ASSUME TypeOK, ReferencesHold, Labelled, NEW s \in DraftStates, NEW e \in Edits \cup {Forget},
           e.op = "create" => ~Handed(e.id)
    PROVE  DraftStep(s, e) \in DraftStates
<1>1. CASE e.op = "forget"
  BY <1>1 DEF DraftStep
<1>2. CASE e.op # "forget" /\ (~s.ok \/ ~Applies(s.acts, e))
  <2>1. DraftStep(s, e) = [s EXCEPT !.ok = FALSE]
    BY <1>2 DEF DraftStep
  <2> QED BY <2>1 DEF DraftStates
<1>3. CASE e.op # "forget" /\ s.ok /\ Applies(s.acts, e)
  <2> DEFINE next == After(s.acts, e)
             left == RowsAfter(s.rows, e, now)
  <2>1. DraftStep(s, e) = [ok |-> TRUE, acts |-> next, rows |-> left]
    BY <1>3 DEF DraftStep, RowsAfter
  <2>2. e \in Edits /\ e.id \in Ids
    BY <1>3, EditKinds DEF Forget
  <2>3. s.acts \in Table /\ Grounded(s.acts) /\ Tied(s.rows, s.acts) /\ Kept(rows, now, s.acts, s.rows)
    BY DEF DraftStates
  <2>4. now \in Int /\ rows \subseteq Row /\ \A r \in rows : r.source \in {r.label, None}
    BY DraftStarts DEF Tied
  <2>5. /\ next \in Table /\ Grounded(next)
        /\ \A a \in Ids \ {e.id} : next[a] = s.acts[a]
        /\ Tied(left, next) /\ Kept(s.rows, now, next, left)
    BY <1>3, <2>2, <2>3, <2>4, AfterEdit, EditRows
  <2>6. e.op # "create" => Exists(s.acts, e.id)
    BY <1>3 DEF Applies
  <2> HIDE DEF next, left
  <2>7. ASSUME NEW r \in rows, r.start < now
        PROVE  r \in left \/ (~Exists(next, r.source) /\ [r EXCEPT !.source = None] \in left)
    <3> DEFINE n == [r EXCEPT !.source = None]
    <3>1. /\ r \in Row /\ r.source \in {r.label, None} /\ n \in Row /\ n.start = r.start
          /\ n.source = None /\ [n EXCEPT !.source = None] = n /\ (r.source = None => n = r)
      BY <2>4 DEF Row
    <3>2. r.label \in Ids
      BY <3>1 DEF Row
    <3> HIDE DEF n
    <3>3. CASE r \in s.rows
      BY <2>5, <2>7, <3>3 DEF Kept
    <3>4. CASE n \in s.rows /\ ~Exists(s.acts, r.source)
      <4>1. n \in left
        BY <2>5, <2>7, <3>1, <3>4 DEF Kept
      <4>2. CASE r.source = None
        BY <3>1, <4>1, <4>2
      <4>3. CASE r.source = r.label
        <5>1. e.id # r.source
          BY <2>6, <3>4, <4>3 DEF Handed
        <5>2. ~Exists(next, r.source)
          BY <2>5, <3>2, <3>4, <4>3, <5>1 DEF Exists
        <5> QED BY <4>1, <5>2 DEF n
      <4> QED BY <3>1, <4>2, <4>3
    <3> QED BY <2>3, <2>7, <3>3, <3>4 DEF Kept, n
  <2>8. left \in SUBSET Row
    BY <2>5 DEF Tied
  <2>9. Kept(rows, now, next, left)
    BY <2>7 DEF Kept
  <2> QED BY <2>1, <2>5, <2>8, <2>9 DEF DraftStates
<1> QED BY <1>1, <1>2, <1>3

\* A whole draft.
LEMMA DraftKeeps ==
    ASSUME TypeOK, ReferencesHold, Labelled, NEW draft \in Seq(Edits \cup {Forget}),
           \A i \in DOMAIN draft : draft[i].op = "create" => ~Handed(draft[i].id)
    PROVE  FoldLeft(DraftStep, [ok |-> TRUE, acts |-> activity, rows |-> rows], draft) \in DraftStates
<1> DEFINE St == DraftStates
           base == [ok |-> TRUE, acts |-> activity, rows |-> rows]
           m == Len(draft)
           Body(h) == [s \in SUBSET DOMAIN draft |->
                          IF s = {} THEN base ELSE DraftStep(h[s \ {Max(s)}], draft[Max(s)])]
           h == CHOOSE h : h = Body(h)
<1>1. FoldLeft(DraftStep, base, draft) = h[DOMAIN draft]
  BY DEF FoldLeft, MapThenFoldSet
<1>2. m \in Nat /\ DOMAIN draft = 1 .. m
  OBVIOUS
<1>3. base \in St
  BY DraftStarts
<1>4. \A i \in 1 .. m : \A v \in St : DraftStep(v, draft[i]) \in St
  BY DraftStepKeeps
<1> HIDE DEF St, base, m
<1>5. \E k \in [SUBSET (1 .. m) -> St] : k = Body(k)
  <2> DEFINE ch == [s \in SUBSET (1 .. m) |-> Max(s)]
             step == [i \in 1 .. m |-> [v \in St |-> DraftStep(v, draft[i])]]
  <2>1. \A s \in SUBSET (1 .. m) : s # {} => ch[s] \in s
    BY <1>2, Passed
  <2>2. IsFiniteSet(1 .. m)
    BY <1>2, Passed
  <2>3. \A d \in 1 .. m : \A v \in St : step[d][v] = DraftStep(v, draft[d])
    OBVIOUS
  <2>4. \A d \in 1 .. m : \A v \in St : step[d][v] \in St
    BY <1>4, <2>3
  <2> HIDE DEF step
  <2>5. \E k \in [SUBSET (1 .. m) -> St] : Folding(1 .. m, ch, step, base, k)
    <3> HIDE DEF ch
    <3> QED BY <1>3, <2>1, <2>2, <2>4, FoldExists
  <2>6. PICK k \in [SUBSET (1 .. m) -> St] : Folding(1 .. m, ch, step, base, k)
    BY <2>5
  <2>7. \A s \in SUBSET (1 .. m) : s # {} => step[ch[s]][k[s \ {ch[s]}]] = DraftStep(k[s \ {Max(s)}], draft[Max(s)])
    <3> TAKE s \in SUBSET (1 .. m)
    <3> HAVE s # {}
    <3>1. ch[s] = Max(s) /\ Max(s) \in 1 .. m
      BY <2>1
    <3>2. k[s \ {Max(s)}] \in St
      BY <2>6
    <3> HIDE DEF ch
    <3> QED BY <2>3, <3>1, <3>2
  <2>8. k = Body(k)
    <3> HIDE DEF ch
    <3> QED BY <1>2, <2>6, <2>7 DEF Folding
  <2> QED BY <2>8
<1>6. h = Body(h)
  BY <1>5
<1> HIDE DEF h
<1>7. h[1 .. 0] = base /\ \A i \in 1 .. m : h[1 .. i] = DraftStep(h[1 .. i - 1], draft[i])
  <2>1. 1 .. 0 = {} /\ \A i \in 1 .. m : /\ 1 .. i \in SUBSET (1 .. m) /\ 1 .. i # {}
                                         /\ Max(1 .. i) = i /\ (1 .. i) \ {i} = 1 .. i - 1
    BY <1>2, Passed
  <2>2. h[1 .. 0] = base
    BY <1>6, <2>1
  <2>3. ASSUME NEW i \in 1 .. m
        PROVE  h[1 .. i] = DraftStep(h[1 .. i - 1], draft[i])
    <3>1. \A s \in SUBSET (1 .. m) : s # {} => h[s] = DraftStep(h[s \ {Max(s)}], draft[Max(s)])
      BY <1>2, <1>6
    <3>2. h[1 .. i] = DraftStep(h[(1 .. i) \ {Max(1 .. i)}], draft[Max(1 .. i)])
      BY <2>1, <3>1
    <3> QED BY <2>1, <3>2
  <2> QED BY <2>2, <2>3
<1> DEFINE T == {i \in 0 .. m : h[1 .. i] \in St}
<1>8. 0 \in T
  BY <1>2, <1>3, <1>7
<1>9. \A i \in 1 .. m : i - 1 \in T => i \in T
  BY <1>2, <1>4, <1>7
<1>10. T = 0 .. m
  <2>1. T \in SUBSET (0 .. m)
    OBVIOUS
  <2> HIDE DEF T
  <2> QED BY <1>2, <1>8, <1>9, <2>1, UpTo
<1>11. h[1 .. m] \in St
  BY <1>2, <1>10
<1> QED BY <1>1, <1>2, <1>11 DEF St, base

-----------------------------------------------------------------------------
(* The inductive invariant.                                                *)

\* What the validation of an edit has established, on the table it was made for.
Checked(acts, e) ==
    /\ SumChecked(e) => SharesValid(After(acts, e))
    /\ Saves(e) => FieldsValid(After(acts, e)[e.id])

\* No write has come between the validation of an edit and its own write, or the edit
\* is stale.
Validated == \A r \in Requests \ stale : request[r] # Idle => Checked(activity, request[r])

IInv == TypeOK /\ ReferencesHold /\ Labelled /\ Validated

LEMMA InitIInv ==
    ASSUME Init
    PROVE  IInv
<1>1. TypeOK
  BY DEF Init, TypeOK
<1>2. ReferencesHold
  BY DEF Init, ReferencesHold, Existing, Exists
<1>3. Labelled
  BY DEF Init, Labelled
<1>4. Validated
  BY DEF Init, Validated
<1> QED BY <1>1, <1>2, <1>3, <1>4 DEF IInv

\* What an edit that is written leaves: the write of a request and a draft share it.
LEMMA TableAndRows ==
    ASSUME TypeOK, activity' \in Table, Grounded(activity'), Tied(rows', activity'),
           UNCHANGED <<plans, done, calendar, now, fill>>, Labelled,
           request' \in [Requests -> Edits \cup {Idle}], stale' \subseteq {r \in Requests : request'[r] # Idle}
    PROVE  TypeOK' /\ ReferencesHold' /\ Labelled'
<1>1. TypeOK'
  BY DEF TypeOK, Table, Tied
<1>2. ReferencesHold'
  BY DEF ReferencesHold, Grounded, Tied, Existing, Exists
<1>3. Labelled'
  BY DEF Labelled, Tied
<1> QED BY <1>1, <1>2, <1>3

LEMMA SentEdits == Sent \subseteq Edits /\ Drafts \subseteq Seq(Edits \cup {Forget}) /\ Idle \notin Edits
<1>1. Idle \notin Edits
  <2> SUFFICES ASSUME Idle \in Edits PROVE FALSE
    OBVIOUS
  <2>1. Idle.op \in {"create", "update", "enable", "require", "release", "families", "delete"}
    BY EditKinds
  <2> QED BY <2>1 DEF Idle
<1> QED BY <1>1, SentAssumption

LEMMA ValidateKeeps ==
    ASSUME IInv, NEW r \in Requests, NEW e \in Sent, Validate(r, e)
    PROVE  IInv'
<1>1. /\ request' = [request EXCEPT ![r] = e] /\ stale' = stale \ {r}
      /\ UNCHANGED <<activity, plans, done, rows, calendar, now, fill>>
      /\ Checked(activity, e)
  BY DEF Validate, Checked
<1>2. e \in Edits /\ e # Idle
  BY SentEdits
<1>3. request \in [Requests -> Edits \cup {Idle}] /\ stale \subseteq {q \in Requests : request[q] # Idle}
  BY DEF IInv, TypeOK
<1>4. request' \in [Requests -> Edits \cup {Idle}] /\ request'[r] = e
      /\ \A q \in Requests \ {r} : request'[q] = request[q]
  BY <1>1, <1>2, <1>3
<1>5. TypeOK'
  BY <1>1, <1>2, <1>3, <1>4 DEF IInv, TypeOK
<1>6. ReferencesHold' /\ Labelled'
  BY <1>1 DEF IInv, ReferencesHold, Labelled, Existing, Exists
<1>7. Validated'
  <2> SUFFICES ASSUME NEW q \in Requests, q \notin stale', request'[q] # Idle
               PROVE  Checked(activity', request'[q])
    BY DEF Validated
  <2>1. CASE q = r
    BY <1>1, <1>4, <2>1
  <2>2. CASE q # r
    <3>1. q \notin stale /\ request'[q] = request[q]
      BY <1>1, <1>4, <2>2
    <3> QED BY <1>1, <3>1 DEF IInv, Validated
  <2> QED BY <2>1, <2>2
<1> QED BY <1>5, <1>6, <1>7 DEF IInv

\* What a write does, to the table and to the rows.
LEMMA WriteDoes ==
    ASSUME IInv, NEW r \in Requests, Write(r)
    PROVE  /\ request[r] \in Edits
           /\ \/ /\ Applies(activity, request[r])
                 /\ activity' = After(activity, request[r])
                 /\ rows' = RowsAfter(rows, request[r], now)
              \/ activity' = activity /\ rows' = rows
           /\ activity' \in Table /\ Grounded(activity') /\ Tied(rows', activity')
           /\ Kept(rows, now, activity', rows')
<1> DEFINE e == request[r]
<1>1. e \in Edits
  BY DEF IInv, TypeOK, Write
<1>2. activity \in Table /\ Grounded(activity) /\ Tied(rows, activity) /\ now \in Int
  BY DraftStarts DEF IInv
<1>3. \/ /\ Applies(activity, e) /\ activity' = After(activity, e)
         /\ rows' = RowsAfter(rows, e, now)
      \/ activity' = activity /\ rows' = rows
  BY DEF Write, RowsAfter
<1> HIDE DEF e
<1>4. CASE Applies(activity, e) /\ activity' = After(activity, e) /\ rows' = RowsAfter(rows, e, now)
  <2>1. activity' \in Table /\ Grounded(activity') /\ Tied(rows', activity')
        /\ Kept(rows, now, activity', rows')
    BY <1>1, <1>2, <1>4, AfterEdit, EditRows
  <2> QED BY <1>1, <1>3, <2>1 DEF e
<1>5. CASE activity' = activity /\ rows' = rows
  <2>1. Kept(rows, now, activity', rows')
    BY <1>5 DEF Kept
  <2> QED BY <1>1, <1>2, <1>3, <1>5, <2>1 DEF e
<1> QED BY <1>3, <1>4, <1>5

LEMMA WriteKeeps ==
    ASSUME IInv, NEW r \in Requests, Write(r)
    PROVE  IInv'
<1>1. activity' \in Table /\ Grounded(activity') /\ Tied(rows', activity')
  BY WriteDoes
<1>2. /\ request' = [request EXCEPT ![r] = Idle] /\ UNCHANGED <<plans, done, calendar, now, fill>>
      /\ stale' = (stale \cup {q \in Requests : request[q] # Idle}) \ {r}
  BY DEF Write, Overtaken
<1>3. request \in [Requests -> Edits \cup {Idle}] /\ stale \subseteq {q \in Requests : request[q] # Idle}
  BY DEF IInv, TypeOK
<1>4. /\ request' \in [Requests -> Edits \cup {Idle}] /\ request'[r] = Idle
      /\ \A q \in Requests \ {r} : request'[q] = request[q]
  BY <1>2, <1>3
<1>5. stale' = {q \in Requests : request'[q] # Idle}
  BY <1>2, <1>3, <1>4
<1>6. TypeOK' /\ ReferencesHold' /\ Labelled'
  BY <1>1, <1>2, <1>4, <1>5, TableAndRows DEF IInv
<1>7. Validated'
  BY <1>5 DEF Validated
<1> QED BY <1>6, <1>7 DEF IInv

\* What a draft does.
LEMMA ApplyDoes ==
    ASSUME IInv, NEW draft \in Drafts, ApplyDraft(draft)
    PROVE  /\ activity' \in Table /\ Grounded(activity') /\ Tied(rows', activity')
           /\ Kept(rows, now, activity', rows') /\ DraftValid(activity')
<1> DEFINE base == [ok |-> TRUE, acts |-> activity, rows |-> rows]
           end == FoldLeft(DraftStep, base, draft)
<1>1. \A i \in DOMAIN draft : draft[i].op = "create" => ~Handed(draft[i].id)
  BY DEF ApplyDraft
<1>2. draft \in Seq(Edits \cup {Forget})
  BY SentEdits
<1>3. activity' = end.acts /\ rows' = end.rows /\ DraftValid(end.acts)
  BY DEF ApplyDraft
<1>4. end \in DraftStates
  BY <1>1, <1>2, DraftKeeps DEF IInv
<1> HIDE DEF end
<1> QED BY <1>3, <1>4 DEF DraftStates

LEMMA ApplyKeeps ==
    ASSUME IInv, NEW draft \in Drafts, ApplyDraft(draft)
    PROVE  IInv'
<1>1. activity' \in Table /\ Grounded(activity') /\ Tied(rows', activity')
  BY ApplyDoes
<1>2. UNCHANGED <<plans, done, calendar, now, request, fill>> /\ stale' = {q \in Requests : request[q] # Idle}
  BY DEF ApplyDraft
<1>3. request' \in [Requests -> Edits \cup {Idle}] /\ stale' = {q \in Requests : request'[q] # Idle}
  BY <1>2 DEF IInv, TypeOK
<1>4. TypeOK' /\ ReferencesHold' /\ Labelled'
  BY <1>1, <1>2, <1>3, TableAndRows DEF IInv
<1>5. Validated'
  BY <1>3 DEF Validated
<1> QED BY <1>4, <1>5 DEF IInv

LEMMA ToggleKeeps ==
    ASSUME IInv, NEW p \in Plans, Toggle(p)
    PROVE  IInv'
<1>1. /\ p \in plans /\ done' = (done \ {p}) \cup ({p} \ done)
      /\ UNCHANGED <<activity, plans, rows, calendar, now, request, stale, fill>>
  BY DEF Toggle
<1>2. TypeOK'
  BY <1>1 DEF IInv, TypeOK
<1>3. ReferencesHold' /\ Labelled' /\ Validated'
  BY <1>1 DEF IInv, ReferencesHold, Labelled, Validated, Existing, Exists
<1> QED BY <1>2, <1>3 DEF IInv

\* What the deletion of plans leaves of an activity: an activity that rows name stays.
LEMMA AfterPlansLeaves ==
    ASSUME TypeOK, NEW gone, NEW a \in Ids, Exists(activity, a)
    PROVE  LET left == AfterPlans(a, gone) IN
           /\ left \in Activity \cup {None}
           /\ left # None => left.prerequisites = activity[a].prerequisites \ gone
           /\ left = None => ~Referenced(a)
<1> DEFINE x == activity[a]
           left == [x EXCEPT !.prerequisites = @ \ gone]
           off == [left EXCEPT !.enabled = FALSE]
<1>1. x \in Activity
  BY RowTypes
<1>2. left \in Activity /\ left.prerequisites = x.prerequisites \ gone
  BY <1>1 DEF Activity
<1>3. off \in Activity /\ off.prerequisites = x.prerequisites \ gone
  BY <1>1 DEF Activity
<1>4. AfterPlans(a, gone) =
        IF x.prerequisites \cap gone = {} THEN x
        ELSE IF left.prerequisites # {} THEN left
        ELSE IF Referenced(a) THEN off ELSE None
  BY DEF AfterPlans
<1>5. \A y \in Activity : y # None
  BY NullAssumption
<1> HIDE DEF x, left, off
<1>6. x.prerequisites \cap gone = {} => x.prerequisites = x.prerequisites \ gone
  OBVIOUS
<1> QED BY <1>1, <1>2, <1>3, <1>4, <1>5, <1>6 DEF x

LEMMA DeletePlansKeeps ==
    ASSUME IInv, NEW gone \in SUBSET Plans, DeletePlans(gone)
    PROVE  IInv'
<1>1. /\ plans' = plans \ gone /\ done' = done \ gone
      /\ activity' = [a \in Ids |-> IF Exists(activity, a) THEN AfterPlans(a, gone) ELSE None]
      /\ stale' = {q \in Requests : request[q] # Idle}
      /\ UNCHANGED <<rows, calendar, now, request, fill>>
  BY DEF DeletePlans
<1>2. TypeOK /\ ReferencesHold /\ Labelled
  BY DEF IInv
<1>3. ASSUME NEW a \in Ids
      PROVE  /\ activity'[a] \in Activity \cup {None}
             /\ Exists(activity', a) =>
                   /\ Exists(activity, a)
                   /\ activity'[a].prerequisites = activity[a].prerequisites \ gone
             /\ Exists(activity, a) /\ Referenced(a) => Exists(activity', a)
  <2>1. CASE Exists(activity, a)
    BY <1>1, <1>2, <2>1, AfterPlansLeaves DEF Exists
  <2>2. CASE ~Exists(activity, a)
    BY <1>1, <2>2 DEF Exists
  <2> QED BY <2>1, <2>2
<1>4. TypeOK'
  BY <1>1, <1>2, <1>3 DEF TypeOK
<1>5. ReferencesHold'
  <2>1. ASSUME NEW r \in rows
        PROVE  r.source \in Existing(activity') \cup {None}
    <3>1. r.source # None => r.source \in Existing(activity) /\ Referenced(r.source)
      BY <1>2 DEF ReferencesHold, Referenced
    <3> QED BY <1>3, <3>1 DEF Existing
  <2>2. ASSUME NEW a \in Existing(activity')
        PROVE  activity'[a].prerequisites \subseteq plans'
    <3>1. a \in Ids /\ Exists(activity', a)
      BY DEF Existing
    <3>2. a \in Existing(activity) /\ activity'[a].prerequisites = activity[a].prerequisites \ gone
      BY <1>3, <3>1 DEF Existing
    <3> QED BY <1>1, <1>2, <3>2 DEF ReferencesHold
  <2> QED BY <1>1, <2>1, <2>2 DEF ReferencesHold
<1>6. Labelled'
  BY <1>1, <1>2 DEF Labelled
<1>7. Validated'
  BY <1>1 DEF Validated
<1> QED BY <1>4, <1>5, <1>6, <1>7 DEF IInv

LEMMA LoadKeeps ==
    ASSUME IInv, LoadFill
    PROVE  IInv'
<1>1. PICK short \in SUBSET Roundings : fill' = [op |-> "write", run |-> now, rows |-> Planned(short)]
  BY DEF LoadFill
<1>2. UNCHANGED <<activity, plans, done, rows, calendar, now, request, stale>>
  BY DEF LoadFill
<1>3. \A r \in Planned(short) : r \in Row /\ r.source = r.label
  <2>1. PICK given : PlannedBy(Planned(short), given)
    BY PlannedIs DEF IInv
  <2> QED BY <2>1, PlannedTyped DEF IInv
<1>4. now \in 0 .. now
  <2>1. now \in Moments \cup {0}
    BY DEF IInv, TypeOK
  <2> QED BY <2>1, MomentsAssumption
<1>5. fill'.op = "write" /\ fill'.run = now /\ fill'.rows = Planned(short)
  BY <1>1
<1>6. TypeOK'
  BY <1>2, <1>3, <1>4, <1>5 DEF IInv, TypeOK
<1>7. Labelled'
  BY <1>2, <1>3, <1>5 DEF IInv, Labelled
<1>8. ReferencesHold' /\ Validated'
  BY <1>2 DEF IInv, ReferencesHold, Validated, Existing, Exists
<1> QED BY <1>6, <1>7, <1>8 DEF IInv

LEMMA WriteFillKeeps ==
    ASSUME IInv, WriteFill
    PROVE  IInv'
<1>1. /\ fill # Idle /\ fill' = Idle
      /\ UNCHANGED <<activity, plans, done, calendar, now, request, stale>>
      /\ rows' = IF \A r \in fill.rows : Exists(activity, r.source)
                 THEN {r \in rows : r.start < fill.run} \cup fill.rows ELSE rows
  BY DEF WriteFill
<1>2. /\ rows \subseteq Row /\ fill.rows \subseteq Row /\ \A r \in fill.rows : r.source = r.label
      /\ \A r \in rows : r.source \in Existing(activity) \cup {None} /\ r.source \in {r.label, None}
  BY <1>1 DEF IInv, TypeOK, Labelled, ReferencesHold
<1>3. \A r \in rows' : /\ r \in Row /\ r.source \in {r.label, None}
                       /\ r.source \in Existing(activity) \cup {None}
  <2> TAKE r \in rows'
  <2>1. CASE r \in rows
    BY <1>2, <2>1
  <2>2. CASE r \in fill.rows /\ Exists(activity, r.source)
    BY <1>2, <2>2 DEF Row, Existing
  <2> QED BY <1>1, <2>1, <2>2
<1>4. TypeOK'
  BY <1>1, <1>3 DEF IInv, TypeOK
<1>5. ReferencesHold'
  BY <1>1, <1>3 DEF IInv, ReferencesHold, Existing, Exists
<1>6. Labelled' /\ Validated'
  BY <1>1, <1>3 DEF IInv, Labelled, Validated
<1> QED BY <1>4, <1>5, <1>6 DEF IInv

LEMMA TickKeeps ==
    ASSUME IInv, Tick
    PROVE  IInv'
<1>1. now' \in Moments /\ now' > now /\ UNCHANGED <<activity, plans, done, rows, calendar, request, stale, fill>>
  BY DEF Tick
<1>2. now \in Int /\ now' \in Int
  <2>1. now \in Moments \cup {0}
    BY DEF IInv, TypeOK
  <2> QED BY <1>1, <2>1, MomentsAssumption
<1>3. \A n \in 0 .. now : n \in 0 .. now'
  BY <1>1, <1>2
<1>4. TypeOK'
  BY <1>1, <1>3 DEF IInv, TypeOK
<1>5. ReferencesHold' /\ Labelled' /\ Validated'
  BY <1>1 DEF IInv, ReferencesHold, Labelled, Validated, Existing, Exists
<1> QED BY <1>4, <1>5 DEF IInv

LEMMA StepIInv ==
    ASSUME IInv, [Next]_vars
    PROVE  IInv'
<1>1. CASE Next
  BY <1>1, WriteKeeps, ValidateKeeps, ApplyKeeps, ToggleKeeps, DeletePlansKeeps, LoadKeeps,
     WriteFillKeeps, TickKeeps DEF Next
<1>2. CASE UNCHANGED vars
  BY <1>2 DEF vars, IInv, TypeOK, ReferencesHold, Labelled, Validated, Existing, Exists, Checked
<1> QED BY <1>1, <1>2

\* The inductive invariant holds throughout.
THEOREM Inv == Spec => []IInv
<1>1. Init => IInv
  BY InitIInv
<1>2. IInv /\ [Next]_vars => IInv'
  BY StepIInv
<1> QED BY <1>1, <1>2, PTL DEF Spec

\* Types.
THEOREM TypeCorrect == Spec => []TypeOK
<1>1. IInv => TypeOK
  BY DEF IInv
<1> QED BY <1>1, Inv, PTL

\* Rows name activities and activities name plans that exist, whatever is deleted.
THEOREM NothingDangles == Spec => []ReferencesHold
<1>1. IInv => ReferencesHold
  BY DEF IInv
<1> QED BY <1>1, Inv, PTL

-----------------------------------------------------------------------------
(* What steps keep.                                                        *)

\* An edit written to the table it was validated against keeps it valid.
LEMMA CheckedKeeps ==
    ASSUME NEW acts \in Table, Grounded(acts), NEW e \in Edits, Applies(acts, e), Checked(acts, e)
    PROVE  /\ SharesValid(acts) => SharesValid(After(acts, e))
           /\ AllFieldsValid(acts) => AllFieldsValid(After(acts, e))
<1> DEFINE next == After(acts, e)
<1>1. /\ next \in Table
      /\ \A a \in Ids \ {e.id} : next[a] = acts[a]
      /\ Exists(next, e.id) <=> e.op # "delete"
      /\ ~SumChecked(e) =>
            /\ Exists(acts, e.id) /\ next[e.id].enabled = acts[e.id].enabled
            /\ next[e.id].share = acts[e.id].share /\ next[e.id].minimum = acts[e.id].minimum
  BY AfterEdit
<1>2. SumChecked(e) <=> Saves(e) \/ e.op = "delete"
  BY DEF SumChecked
<1>3. (SumChecked(e) => SharesValid(next)) /\ (Saves(e) => FieldsValid(next[e.id]))
  BY DEF Checked
<1> HIDE DEF next
<1>4. CASE ~SumChecked(e)
  <2>1. \A a \in Ids : Exists(next, a) <=> Exists(acts, a)
    BY <1>1, <1>2, <1>4 DEF Exists
  <2>2. \A a \in Existing(acts) : /\ next[a].enabled = acts[a].enabled
                                  /\ next[a].share = acts[a].share
                                  /\ next[a].minimum = acts[a].minimum
    BY <1>1, <1>4 DEF Existing
  <2> QED BY <1>1, <2>1, <2>2, SameShares DEF next
<1>5. CASE SumChecked(e)
  <2>1. ASSUME AllFieldsValid(acts), NEW a \in Existing(next)
        PROVE  FieldsValid(next[a])
    <3>1. a \in Ids /\ Exists(next, a)
      BY DEF Existing
    <3>2. CASE a = e.id
      BY <1>1, <1>2, <1>3, <1>5, <3>1, <3>2
    <3>3. CASE a # e.id
      <4>1. a \in Existing(acts) /\ next[a] = acts[a]
        BY <1>1, <3>1, <3>3 DEF Existing, Exists
      <4> QED BY <2>1, <4>1 DEF AllFieldsValid
    <3> QED BY <3>2, <3>3
  <2> QED BY <1>3, <1>5, <2>1 DEF AllFieldsValid, next
<1> QED BY <1>4, <1>5

\* Edits, drafts included, keep the sum and the fields valid unless they are stale.
LEMMA StepKeepsValid ==
    ASSUME IInv, [Next]_vars, plans' = plans, ~StaleWrite
    PROVE  /\ SharesValid(activity) => SharesValid(activity')
           /\ AllFieldsValid(activity) => AllFieldsValid(activity')
<1>1. ASSUME NEW r \in Requests, Write(r)
      PROVE  /\ SharesValid(activity) => SharesValid(activity')
             /\ AllFieldsValid(activity) => AllFieldsValid(activity')
  <2> DEFINE e == request[r]
  <2>1. e \in Edits /\ ((Applies(activity, e) /\ activity' = After(activity, e)) \/ activity' = activity)
    BY <1>1, WriteDoes
  <2>2. request \in [Requests -> Edits \cup {Idle}] /\ activity \in Table /\ Grounded(activity)
    BY DraftStarts DEF IInv, TypeOK
  <2>3. e # Idle /\ request'[r] = Idle
    BY <1>1, <2>2 DEF Write
  <2>4. r \notin stale
    BY <2>3 DEF StaleWrite
  <2>5. Checked(activity, e)
    BY <2>3, <2>4 DEF IInv, Validated
  <2> HIDE DEF e
  <2> QED BY <2>1, <2>2, <2>5, CheckedKeeps
<1>2. ASSUME NEW draft \in Drafts, ApplyDraft(draft)
      PROVE  SharesValid(activity') /\ AllFieldsValid(activity')
  BY <1>2, ApplyDoes DEF DraftValid
<1>3. ASSUME NEW gone \in SUBSET Plans, DeletePlans(gone)
      PROVE  FALSE
  BY <1>3 DEF DeletePlans
<1>4. CASE UNCHANGED activity
  BY <1>4
<1>5. \/ UNCHANGED activity
      \/ \E r \in Requests : Write(r)
      \/ \E draft \in Drafts : ApplyDraft(draft)
      \/ \E gone \in SUBSET Plans : DeletePlans(gone)
  BY DEF Next, vars, Validate, Toggle, LoadFill, WriteFill, Tick
<1> QED BY <1>1, <1>2, <1>3, <1>4, <1>5

\* The validity of the table survives every edit that is not stale.
THEOREM ValidStays == Spec => EditsKeepValid
<1>1. IInv /\ [Next]_vars =>
        [(plans' = plans /\ ~StaleWrite) =>
            /\ SharesValid(activity) => SharesValid(activity')
            /\ AllFieldsValid(activity) => AllFieldsValid(activity')]_vars
  BY StepKeepsValid
<1> QED BY <1>1, Inv, PTL DEF Spec, EditsKeepValid

\* A free-time row that had started is neither deleted nor filled over.
LEMMA StepKeepsEvidence ==
    ASSUME IInv, [Next]_vars
    PROVE  Kept(rows, ReadAt, activity', rows')
<1>1. CASE UNCHANGED rows
  BY <1>1 DEF Kept
<1>2. ASSUME NEW r \in Requests, Write(r)
      PROVE  Kept(rows, ReadAt, activity', rows')
  <2>1. Kept(rows, now, activity', rows') /\ fill' = fill
    BY <1>2, WriteDoes DEF Write
  <2> QED BY <2>1 DEF ReadAt
<1>3. ASSUME NEW draft \in Drafts, ApplyDraft(draft)
      PROVE  Kept(rows, ReadAt, activity', rows')
  <2>1. Kept(rows, now, activity', rows') /\ fill' = fill
    BY <1>3, ApplyDoes DEF ApplyDraft
  <2> QED BY <2>1 DEF ReadAt
<1>4. CASE WriteFill
  <2>1. ReadAt = fill.run
    BY <1>4 DEF WriteFill, ReadAt
  <2> QED BY <1>4, <2>1 DEF WriteFill, Kept
<1>5. \/ UNCHANGED rows \/ WriteFill \/ \E r \in Requests : Write(r)
      \/ \E draft \in Drafts : ApplyDraft(draft)
  BY DEF Next, vars, Validate, Toggle, DeletePlans, LoadFill, Tick
<1> QED BY <1>1, <1>2, <1>3, <1>4, <1>5

\* Evidence stays in the calendar.
THEOREM StartedStays == Spec => EvidenceKept
<1>1. IInv /\ [Next]_vars =>
        [\A r \in rows : r.start < ReadAt =>
            r \in rows' \/ (~Exists(activity', r.source) /\ [r EXCEPT !.source = None] \in rows')]_vars
  BY StepKeepsEvidence DEF Kept
<1> QED BY <1>1, Inv, PTL DEF Spec, EvidenceKept

-----------------------------------------------------------------------------
(* What a fill plans, as a step.                                           *)

\* A step that plans is a fill.
LEMMA FillPlans ==
    ASSUME [Next]_vars, fill = Idle, fill' # Idle
    PROVE  \E short : fill'.rows = Planned(short)
<1>1. LoadFill
  BY DEF Next, vars, Validate, Write, ApplyDraft, Toggle, DeletePlans, WriteFill, Tick
<1>2. PICK short \in SUBSET Roundings : fill' = [op |-> "write", run |-> now, rows |-> Planned(short)]
  BY <1>1 DEF LoadFill
<1> QED BY <1>2

LEMMA FillIsPlanned ==
    ASSUME IInv, [Next]_vars, fill = Idle, fill' # Idle
    PROVE  \E given : PlannedBy(fill'.rows, given)
<1>1. PICK short : fill'.rows = Planned(short)
  BY FillPlans
<1> QED BY <1>1, PlannedIs DEF IInv

LEMMA StepPlansAllowed ==
    ASSUME IInv, [Next]_vars, fill = Idle, fill' # Idle, NEW r \in fill'.rows
    PROVE  Allowed(fill'.rows, r)
<1>1. PICK given : PlannedBy(fill'.rows, given)
  BY FillIsPlanned
<1> QED BY <1>1, PlannedAllowed DEF IInv

\* Planned free time is where its activity may be.
THEOREM AllowedOnly == Spec => PlannedWhereAllowed
<1>1. IInv /\ [Next]_vars =>
        [fill = Idle /\ fill' # Idle => \A r \in fill'.rows : Allowed(fill'.rows, r)]_vars
  BY StepPlansAllowed
<1> QED BY <1>1, Inv, PTL DEF Spec, PlannedWhereAllowed, Allowed

LEMMA StepGivesShares ==
    ASSUME IInv, [Next]_vars, fill = Idle, fill' # Idle, NEW a \in Survivors, NEW w \in WeekAnchors
    PROVE  Given(fill'.rows, a, w)
<1>1. PICK given : PlannedBy(fill'.rows, given)
  BY FillIsPlanned
<1> QED BY <1>1, PlannedGiven DEF IInv

\* Every activity gets its share of every week.
THEOREM SharesAreGiven == Spec => ShareGiven
<1>1. IInv /\ [Next]_vars =>
        [fill = Idle /\ fill' # Idle => \A a \in Survivors, w \in WeekAnchors : Given(fill'.rows, a, w)]_vars
  BY StepGivesShares
<1> QED BY <1>1, Inv, PTL DEF Spec, ShareGiven, Given

-----------------------------------------------------------------------------
(* Complete plans.                                                         *)

\* Every step has its iterates, from any start.
LEMMA Iterates ==
    ASSUME NEW V, NEW base \in V, NEW step \in [V -> V]
    PROVE  \E f \in [Nat -> V] : f = [n \in Nat |-> IF n = 0 THEN base ELSE step[f[n - 1]]]
<1> DEFINE Next1(g, n) == IF n = 0 THEN base ELSE step[g[n - 1]]
           Good(k, g) == g \in [0 .. k -> V] /\ \A n \in 0 .. k : g[n] = Next1(g, n)
           f == [n \in Nat |-> (CHOOSE g : Good(n, g))[n]]
<1>1. ASSUME NEW k \in Nat
      PROVE  \E g : Good(k, g)
  <2> DEFINE S == {n \in 0 .. k : \E g : Good(n, g)}
  <2>1. 0 \in S
    <3>1. Good(0, [n \in 0 .. 0 |-> base])
      OBVIOUS
    <3> HIDE DEF Good
    <3> QED BY <3>1
  <2>2. ASSUME NEW n \in 1 .. k, n - 1 \in S
        PROVE  n \in S
    <3>1. PICK g : Good(n - 1, g)
      BY <2>2
    <3> DEFINE h == [i \in 0 .. n |-> IF i = n THEN step[g[n - 1]] ELSE g[i]]
    <3>2. n \in Nat /\ n # 0 /\ n - 1 \in 0 .. n - 1 /\ n \in 0 .. n
          /\ \A i \in 0 .. n : i = n \/ i \in 0 .. n - 1
      OBVIOUS
    <3>3. g[n - 1] \in V /\ \A i \in 0 .. n - 1 : g[i] \in V /\ g[i] = Next1(g, i)
      BY <3>1, <3>2
    <3>4. h \in [0 .. n -> V]
      BY <3>2, <3>3
    <3>5. ASSUME NEW i \in 0 .. n
          PROVE  h[i] = Next1(h, i)
      <4>1. CASE i = n
        <5>1. n - 1 \in 0 .. n /\ n - 1 # n /\ h[n - 1] = g[n - 1]
          BY <3>2
        <5> QED BY <3>2, <4>1, <5>1
      <4>2. CASE i # n
        <5>1. h[i] = g[i] /\ i \in 0 .. n - 1
          BY <3>2, <4>2
        <5>2. i # 0 => i - 1 \in 0 .. n /\ i - 1 # n
          BY <5>1
        <5>3. i # 0 => h[i - 1] = g[i - 1]
          BY <5>2
        <5> QED BY <3>3, <5>1, <5>3
      <4> QED BY <4>1, <4>2
    <3>6. Good(n, h)
      BY <3>4, <3>5
    <3> HIDE DEF Good, h
    <3> QED BY <3>6
  <2>3. S \in SUBSET (0 .. k)
    OBVIOUS
  <2> HIDE DEF Good
  <2>4. S = 0 .. k
    <3> HIDE DEF S
    <3> QED BY <2>1, <2>2, <2>3, UpTo
  <2>5. k \in 0 .. k
    OBVIOUS
  <2> QED BY <2>4, <2>5
<1>2. ASSUME NEW k \in Nat, NEW g, NEW h, Good(k, g), Good(k + 1, h)
      PROVE  h[k] = g[k]
  <2> DEFINE S == {n \in 0 .. k : h[n] = g[n]}
  <2>1. 0 \in S
    BY <1>2
  <2>2. ASSUME NEW n \in 1 .. k, n - 1 \in S
        PROVE  n \in S
    <3>1. n \in 0 .. k /\ n \in 0 .. k + 1 /\ n # 0
      OBVIOUS
    <3>2. h[n] = Next1(h, n) /\ g[n] = Next1(g, n)
      BY <1>2, <3>1
    <3> QED BY <2>2, <3>1, <3>2
  <2>3. S \in SUBSET (0 .. k)
    OBVIOUS
  <2>4. S = 0 .. k
    <3> HIDE DEF S
    <3> QED BY <2>1, <2>2, <2>3, UpTo
  <2>5. k \in 0 .. k
    OBVIOUS
  <2> QED BY <2>4, <2>5
<1>3. \A k \in Nat : Good(k, CHOOSE g : Good(k, g))
  <2> HIDE DEF Good
  <2> QED BY <1>1
<1>4. ASSUME NEW k \in Nat
      PROVE  f[k] \in V /\ f[k] = Next1(f, k)
  <2> DEFINE g(n) == CHOOSE h : Good(n, h)
  <2>1. f[k] = g(k) [k] /\ (k # 0 => f[k - 1] = g(k - 1) [k - 1])
    OBVIOUS
  <2>2. Good(k, g(k)) /\ (k # 0 => Good(k - 1, g(k - 1)))
    <3> HIDE DEF Good, f
    <3> QED BY <1>3
  <2> HIDE DEF g, f
  <2>3. k # 0 => g(k) [k - 1] = g(k - 1) [k - 1]
    <3> HIDE DEF Good
    <3> QED BY <1>2, <2>2
  <2>4. k \in 0 .. k
    OBVIOUS
  <2>5. g(k) [k] \in V /\ g(k) [k] = Next1(g(k), k)
    BY <2>2, <2>4
  <2> QED BY <2>1, <2>3, <2>5
<1>5. f \in [Nat -> V] /\ f = [n \in Nat |-> Next1(f, n)]
  <2>1. f = [n \in Nat |-> f[n]]
    OBVIOUS
  <2> HIDE DEF f, Next1, Good
  <2> QED BY <1>4, <2>1
<1> QED BY <1>5

\* A plan is complete within n levels when what it waits for is within one less.
LEMMA CompleteIs ==
    /\ CompleteWithin[0] = {}
    /\ \A n \in Nat : n # 0 =>
          CompleteWithin[n] = {p \in plans \ Template : CompleteGiven(p, CompleteWithin[n - 1])}
<1> DEFINE V == SUBSET plans
           found(S) == {p \in plans \ Template : CompleteGiven(p, S)}
           step == [S \in V |-> found(S)]
           Body(f) == [n \in Nat |-> IF n = 0 THEN {} ELSE found(f[n - 1])]
<1>1. CompleteWithin = CHOOSE f : f = Body(f)
  BY DEF CompleteWithin
<1>2. \A S \in V : step[S] = found(S)
  OBVIOUS
<1>3. step \in [V -> V] /\ {} \in V
  OBVIOUS
<1> HIDE DEF step, V
<1>4. \E f \in [Nat -> V] : f = [n \in Nat |-> IF n = 0 THEN {} ELSE step[f[n - 1]]]
  BY <1>3, Iterates
<1>5. PICK f \in [Nat -> V] : f = [n \in Nat |-> IF n = 0 THEN {} ELSE step[f[n - 1]]]
  BY <1>4
<1>6. ASSUME NEW n \in Nat
      PROVE  f[n] = IF n = 0 THEN {} ELSE found(f[n - 1])
  <2>1. f[n] = IF n = 0 THEN {} ELSE step[f[n - 1]]
    BY <1>5
  <2>2. n # 0 => f[n - 1] \in V
    BY <1>5
  <2>3. n # 0 => step[f[n - 1]] = found(f[n - 1])
    <3> HIDE DEF found
    <3> QED BY <1>2, <2>2
  <2> HIDE DEF found
  <2> QED BY <2>1, <2>3
<1>7. f = Body(f)
  <2>1. f = [n \in Nat |-> f[n]]
    OBVIOUS
  <2> HIDE DEF found
  <2> QED BY <1>6, <2>1
<1> HIDE DEF found
<1>8. CompleteWithin = Body(CompleteWithin)
  <2> HIDE DEF Body
  <2> QED BY <1>1, <1>7
<1>9. CompleteWithin[0] = {} /\ \A n \in Nat : n # 0 => CompleteWithin[n] = found(CompleteWithin[n - 1])
  BY <1>8
<1> QED BY <1>9 DEF found

\* What decides a complete plan is complete.
LEMMA DecisiveComplete ==
    ASSUME TypeOK, NEW p \in LogicallyComplete, NEW q \in Decisive(p)
    PROVE  \E n \in Nat : q \in CompleteWithin[n]
<1> DEFINE C == {x \in Plans \cup {p} : \E n \in Nat : x \in CompleteWithin[n]}
           V == SUBSET (plans \cup {p})
           more(S) == S \cup {x \in plans \cap Critical : Parent[x] \in S}
           step == [S \in V |-> more(S)]
           Body(f) == [n \in Nat |-> IF n = 0 THEN {p} ELSE more(f[n - 1])]
           below == CHOOSE f : f = Body(f)
           K == Cardinality(Plans)
<1>1. Decisive(p) = below[K]
  BY DEF Decisive
<1>2. K \in Nat
  BY PlanTreeAssumption, FS_CardinalityType
<1>3. \A S \in V : step[S] = more(S)
  OBVIOUS
<1>4. step \in [V -> V] /\ {p} \in V
  OBVIOUS
<1> HIDE DEF step, V
<1>5. \E f \in [Nat -> V] : f = [n \in Nat |-> IF n = 0 THEN {p} ELSE step[f[n - 1]]]
  BY <1>4, Iterates
<1>6. PICK f \in [Nat -> V] : f = [n \in Nat |-> IF n = 0 THEN {p} ELSE step[f[n - 1]]]
  BY <1>5
<1>7. ASSUME NEW n \in Nat
      PROVE  f[n] = IF n = 0 THEN {p} ELSE more(f[n - 1])
  <2>1. f[n] = IF n = 0 THEN {p} ELSE step[f[n - 1]]
    BY <1>6
  <2>2. n # 0 => f[n - 1] \in V
    BY <1>6
  <2>3. n # 0 => step[f[n - 1]] = more(f[n - 1])
    <3> HIDE DEF more
    <3> QED BY <1>3, <2>2
  <2> HIDE DEF more
  <2> QED BY <2>1, <2>3
<1>8. f = Body(f)
  <2>1. f = [n \in Nat |-> f[n]]
    OBVIOUS
  <2> HIDE DEF more
  <2> QED BY <1>7, <2>1
<1> HIDE DEF more
<1>9. below = Body(below)
  <2> HIDE DEF Body
  <2> QED BY <1>8
<1> HIDE DEF below
<1>10. below[0] = {p} /\ \A n \in Nat : n # 0 => below[n] = more(below[n - 1])
  BY <1>9
<1>11. p \in C
  BY <1>2 DEF LogicallyComplete
<1>12. ASSUME NEW x \in plans \cap Critical, Parent[x] \in C
       PROVE  \E n \in Nat : x \in CompleteWithin[n]
  <2>1. PICK n \in Nat : Parent[x] \in CompleteWithin[n]
    BY <1>12
  <2>2. n # 0 /\ Parent[x] \in plans \ Template /\ CompleteGiven(Parent[x], CompleteWithin[n - 1])
    BY <2>1, CompleteIs
  <2>3. Kind[Parent[x]] \in {"GOAL", "REPETITION"}
    <3>1. x \in Plans /\ Parent[x] \in Plans
      BY <2>2 DEF TypeOK
    <3> QED BY <3>1, PlanTreeAssumption
  <2>4. x \in CompleteWithin[n - 1]
    BY <2>2, <2>3 DEF CompleteGiven, CriticalBelow
  <2> QED BY <2>2, <2>4
<1> DEFINE S == {n \in 0 .. K : below[n] \subseteq C}
<1>13. 0 \in S
  BY <1>2, <1>10, <1>11
<1>14. ASSUME NEW n \in 1 .. K, n - 1 \in S
       PROVE  n \in S
  <2>1. n \in Nat /\ n # 0 /\ n \in 0 .. K
    BY <1>2
  <2>2. below[n] = more(below[n - 1]) /\ below[n - 1] \subseteq C
    BY <1>10, <1>14, <2>1
  <2>3. \A x \in below[n] : x \in C
    <3> TAKE x \in below[n]
    <3>1. x \in below[n - 1] \/ (x \in plans \cap Critical /\ Parent[x] \in below[n - 1])
      BY <2>2 DEF more
    <3>2. CASE x \in plans \cap Critical /\ Parent[x] \in below[n - 1]
      <4>1. x \in Plans
        BY <3>2 DEF TypeOK
      <4> QED BY <1>12, <2>2, <3>2, <4>1
    <3> QED BY <2>2, <3>1, <3>2
  <2> HIDE DEF C
  <2> QED BY <2>1, <2>3
<1>15. S = 0 .. K
  <2>1. S \in SUBSET (0 .. K)
    OBVIOUS
  <2> HIDE DEF S, K
  <2> QED BY <1>2, <1>13, <1>14, <2>1, UpTo
<1>16. below[K] \subseteq C
  <2>1. K \in 0 .. K
    BY <1>2
  <2> HIDE DEF K, C
  <2> QED BY <1>15, <2>1
<1> QED BY <1>1, <1>16

\* The body of OnlyUnblockedPlanned.
Unblocked(a) ==
    /\ activity[a].enabled
    /\ \A p \in activity[a].prerequisites : \A q \in Decisive(p) :
           /\ q \notin Template
           /\ Kind[q] = "TASK" => q \in done
           /\ Kind[q] = "REPETITION" => q \in Generated
           /\ Kind[q] # "BLOCK"

LEMMA SurvivorUnblocked ==
    ASSUME TypeOK, NEW a \in Survivors
    PROVE  Unblocked(a)
<1>1. activity[a].enabled
  BY SurvivorShares
<1>2. activity[a].prerequisites \subseteq LogicallyComplete
  BY DEF Survivors, Blocked
<1>3. ASSUME NEW p \in activity[a].prerequisites, NEW q \in Decisive(p)
      PROVE  /\ q \notin Template
             /\ Kind[q] = "TASK" => q \in done
             /\ Kind[q] = "REPETITION" => q \in Generated
             /\ Kind[q] # "BLOCK"
  <2>1. PICK n \in Nat : q \in CompleteWithin[n]
    BY <1>2, DecisiveComplete
  <2>2. q \notin Template /\ CompleteGiven(q, CompleteWithin[n - 1])
    BY <2>1, CompleteIs
  <2> QED BY <2>2 DEF CompleteGiven
<1> QED BY <1>1, <1>3 DEF Unblocked

LEMMA StepPlansUnblocked ==
    ASSUME IInv, [Next]_vars, fill = Idle, fill' # Idle, NEW r \in fill'.rows
    PROVE  Unblocked(r.label)
<1>1. PICK given : PlannedBy(fill'.rows, given)
  BY FillIsPlanned
<1>2. r.label \in Survivors
  BY <1>1, PlannedTyped DEF IInv
<1> QED BY <1>2, SurvivorUnblocked DEF IInv

\* Only activities whose prerequisites are finished to the last critical task are planned.
THEOREM UnblockedOnly == Spec => OnlyUnblockedPlanned
<1>1. IInv /\ [Next]_vars =>
        [fill = Idle /\ fill' # Idle => \A r \in fill'.rows : Unblocked(r.label)]_vars
  BY StepPlansUnblocked
<1> QED BY <1>1, Inv, PTL DEF Spec, OnlyUnblockedPlanned, Unblocked
=============================================================================
