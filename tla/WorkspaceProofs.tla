--------------------------- MODULE WorkspaceProofs ---------------------------
(* Proofs about Workspace: that the bars of the charts count the responses they  *)
(* open; that who may do what is decided as the permission middleware promises,  *)
(* an invitation makes one membership and the workspace keeps an owner; and about *)
(* the charts and layouts people keep beside one another. For any users,         *)
(* invitations, responses and requests.                                         *)
EXTENDS Workspace, Sequences, FiniteSetTheorems, WellFoundedInduction, TLAPS

-----------------------------------------------------------------------------
(* Least and greatest. That finite sets are well ordered by inclusion is all the *)
(* induction the charts need.                                                   *)

\* Of finite sets, one that none of the others is a part of (by the order of finite sets).
LEMMA SmallestSet ==
  ASSUME NEW T, T # {}, \A x \in T : IsFiniteSet(x)
  PROVE  \E x \in T : \A y \in T : y \subseteq x => y = x
<1>1. PICK S : S = UNION T
  OBVIOUS
<1>2. PICK R : R = StrictSubsetOrdering(S)
  OBVIOUS
<1>3. PICK F : F = FiniteSubsetsOf(S)
  OBVIOUS
<1>4. IsWellFoundedOn(R, F)
  BY <1>2, <1>3, FS_StrictSubsetOrderingWellFounded
<1>5. T \subseteq F
  BY <1>1, <1>3 DEF FiniteSubsetsOf
<1>6. \E x \in T : \A y \in T : <<y, x>> \notin R
  BY <1>4, <1>5, WFMin
<1>7. \A x, y \in T : y \subseteq x /\ y # x => <<y, x>> \in R
  BY <1>1, <1>2 DEF StrictSubsetOrdering
<1>8. PICK x \in T : \A y \in T : <<y, x>> \notin R
  BY <1>6
<1>9. \A y \in T : y \subseteq x => y = x
  BY <1>7, <1>8
<1> QED  BY <1>9

\* Some natural numbers have a least one.
LEMMA Least == ASSUME NEW T \in SUBSET Nat, T # {} PROVE \E x \in T : \A y \in T : x <= y
<1> DEFINE U == {0..t : t \in T}
<1>1. \A x \in U : IsFiniteSet(x)
  BY FS_Interval
<1>2. PICK x \in U : \A y \in U : y \subseteq x => y = x
  <2> HIDE DEF U
  <2>1. U # {}
    BY DEF U
  <2> QED BY <1>1, <2>1, SmallestSet
<1>3. PICK m \in T : x = 0..m
  OBVIOUS
<1>4. ASSUME NEW y \in T PROVE m <= y
  <2>1. 0..y \subseteq 0..m => 0..y = 0..m
    BY <1>2, <1>3
  <2>2. y < m => 0..y \subseteq 0..m
    OBVIOUS
  <2>3. y < m => m \in 0..m /\ m \notin 0..y
    OBVIOUS
  <2> QED BY <2>1, <2>2, <2>3
<1> QED BY <1>4

\* The least and the greatest of some integers between bounds.
LEMMA LeastInt ==
  ASSUME NEW T \in SUBSET Int, T # {}, NEW B \in Int, \A x \in T : B <= x
  PROVE  \E x \in T : \A y \in T : x <= y
<1> DEFINE U == {x - B : x \in T}
<1>1. U \in SUBSET Nat /\ U # {}
  <2>1. PICK t : t \in T
    OBVIOUS
  <2>2. \A x \in T : x - B \in Nat
    OBVIOUS
  <2>3. t - B \in U
    BY <2>1
  <2> QED  BY <2>2, <2>3
<1>2. PICK u \in U : \A y \in U : u <= y
  <2> HIDE DEF U
  <2> QED  BY <1>1, Least
<1>3. PICK x \in T : u = x - B
  OBVIOUS
<1>4. \A y \in T : x - B <= y - B
  BY <1>2, <1>3
<1> QED  BY <1>3, <1>4

\* So is there a greatest.
LEMMA GreatestInt ==
  ASSUME NEW T \in SUBSET Int, T # {}, NEW B \in Int, \A x \in T : x <= B
  PROVE  \E x \in T : \A y \in T : x >= y
<1> DEFINE U == {B - x : x \in T}
<1>1. U \in SUBSET Nat /\ U # {}
  <2>1. PICK t : t \in T
    OBVIOUS
  <2>2. \A x \in T : B - x \in Nat
    OBVIOUS
  <2>3. B - t \in U
    BY <2>1
  <2> QED  BY <2>2, <2>3
<1>2. PICK u \in U : \A y \in U : u <= y
  <2> HIDE DEF U
  <2> QED  BY <1>1, Least
<1>3. PICK x \in T : u = B - x
  OBVIOUS
<1>4. \A y \in T : B - x <= B - y
  BY <1>2, <1>3
<1> QED  BY <1>3, <1>4

\* What the least and the greatest of a set are, as the charts choose them.
LEMMA MinIs ==
  ASSUME NEW T \in SUBSET Int, T # {}, NEW B \in Int, \A x \in T : B <= x
  PROVE  Looking!Min(T) \in T /\ \A y \in T : Looking!Min(T) <= y
BY LeastInt DEF Looking!Min

\* The same of the greatest.
LEMMA MaxIs ==
  ASSUME NEW T \in SUBSET Int, T # {}, NEW B \in Int, \A x \in T : x <= B
  PROVE  Looking!Max(T) \in T /\ \A y \in T : Looking!Max(T) >= y
BY GreatestInt DEF Looking!Max

\* A whole number of steps.
LEMMA StepsDivide ==
  ASSUME NEW s \in Looking!NiceSteps, NEW x \in Int
  PROVE  /\ s \in Int /\ s > 0 /\ x \div s \in Int /\ s * (x \div s) \in Int
         /\ s * (x \div s) <= x /\ x < s * (x \div s) + s
BY DEF Looking!NiceSteps

\* A step is found for any two numbers that differ.
LEMMA StepFound ==
  ASSUME NEW lo \in Int, NEW hi \in Int, lo < hi, hi - lo <= 2 * Looking!MaxNumber
  PROVE  LET s == Looking!Min({t \in Looking!NiceSteps : 5 * t >= hi - lo})
         IN s \in Looking!NiceSteps /\ 5 * s >= hi - lo
<1> DEFINE T == {t \in Looking!NiceSteps : 5 * t >= hi - lo}
<1>1. T \in SUBSET Int /\ \A t \in T : 1 <= t
  BY DEF Looking!NiceSteps
<1>2. 50000 \in T
  BY DEF Looking!NiceSteps, Looking!MaxNumber
<1>3. Looking!Min(T) \in T
  <2> HIDE DEF T
  <2> QED  BY <1>1, <1>2, MinIs
<1> QED  BY <1>3

\* The ranges of the numbers between two of them: equal, one after the other, and each of the
\* numbers in one of them.
LEMMA RangesCover ==
  ASSUME NEW lo \in Int, NEW hi \in Int, lo <= hi, hi - lo <= 2 * Looking!MaxNumber
  PROVE  LET g == Looking!NiceRanges(lo, hi)
         IN /\ g.start \in Int /\ g.step \in Looking!NiceSteps /\ g.count \in Int
            /\ \A n \in lo..hi : (n - g.start) \div g.step \in 0..(g.count - 1)
<1> DEFINE g == Looking!NiceRanges(lo, hi)
<1>1. CASE lo = hi
  <2>1. g.start = 100 * (hi \div 100) /\ g.step = 100 /\ g.count = 1
    BY <1>1 DEF Looking!NiceRanges
  <2>2. 100 \in Looking!NiceSteps
    BY DEF Looking!NiceSteps
  <2>3. (hi - 100 * (hi \div 100)) \div 100 = 0 /\ 100 * (hi \div 100) \in Int
    OBVIOUS
  <2> QED  BY <1>1, <2>1, <2>2, <2>3
<1>2. CASE lo < hi
  <2>1. PICK s \in Looking!NiceSteps :
          s = Looking!Min({t \in Looking!NiceSteps : 5 * t >= hi - lo}) /\ 5 * s >= hi - lo
    BY <1>2, StepFound
  <2>2. s \in Int /\ s > 0
    BY DEF Looking!NiceSteps
  <2>3. PICK start \in Int : start = s * (lo \div s) /\ start <= lo /\ lo < start + s
    BY <2>1, <2>2, StepsDivide
  <2>4. PICK k \in Int : k = -((start - hi) \div s) /\ s * k >= hi - start /\ s * k < hi - start + s
    <3>1. PICK j \in Int : j = (start - hi) \div s /\ s * j <= start - hi /\ start - hi < s * j + s
      <4>1. start - hi \in Int
        BY <2>3
      <4> QED  BY <4>1, StepsDivide
    <3>2. s * (-j) = -(s * j)
      BY <2>2
    <3> QED  BY <2>2, <3>1, <3>2
  <2>5. PICK c \in Int : c = (IF start + k * s <= hi THEN k + 1 ELSE k)
    OBVIOUS
  <2>6. g.start = start /\ g.step = s /\ g.count = Looking!Min({c, 8})
    <3>1. lo # hi
      BY <1>2
    <3>2. Looking!NiceRanges(lo, hi) = [start |-> start, step |-> s, count |-> Looking!Min({c, 8})]
      BY <2>1, <2>3, <2>4, <2>5, <3>1, Zenon DEF Looking!NiceRanges
    <3> QED  BY <3>2
  <2>7. k < 7
    <3>1. s * k < 7 * s
      BY <2>1, <2>2, <2>3, <2>4
    <3> QED  BY <2>1, <3>1 DEF Looking!NiceSteps
  <2>8. Looking!Min({c, 8}) = c
    BY <2>5, <2>7 DEF Looking!Min
  <2>9. ASSUME NEW n \in lo..hi PROVE (n - start) \div s \in 0..(c - 1)
    <3>1. PICK i \in Int : i = (n - start) \div s /\ s * i <= n - start /\ n - start < s * i + s
      <4>1. n - start \in Int
        BY <2>3
      <4> QED  BY <4>1, StepsDivide
    <3>2. i >= 0
      BY <2>1, <2>3, <3>1 DEF Looking!NiceSteps
    <3>3. i < c
      <4>1. s * c > hi - start
        BY <2>2, <2>3, <2>4, <2>5
      <4>2. s * i < s * c
        BY <2>2, <3>1, <4>1
      <4> QED  BY <2>1, <4>2 DEF Looking!NiceSteps
    <3> QED  BY <3>1, <3>2, <3>3
  <2> QED  BY <2>1, <2>3, <2>5, <2>6, <2>8, <2>9
<1> QED  BY <1>1, <1>2

\* The instances count alike.
LEMMA LookCount ==
  /\ \A S : Looking!IsFiniteSet(S) = IsFiniteSet(S)
  /\ \A S : Looking!Cardinality(S) = Cardinality(S)
BY DEF Looking!Cardinality, Cardinality, Looking!IsFiniteSet, IsFiniteSet

\* As many things at most as there are names for them.
LEMMA ImageFinite ==
  ASSUME NEW S, IsFiniteSet(S), NEW f
  PROVE  IsFiniteSet({f[x] : x \in S})
<1> DEFINE T == {f[x] : x \in S}
           g == [x \in S |-> f[x]]
<1>1. g \in Surjection(S, T)
  BY DEF Surjection
<1> HIDE DEF T, g
<1>2. IsFiniteSet(T)
  BY <1>1, FS_Surjection
<1> QED  BY <1>2 DEF T

\* Of bars there are some, as many as one likes, that count no less than the others.
LEMMA TopFound ==
  ASSUME NEW B, IsFiniteSet(B), \A b \in B : b.n \in Nat,
         NEW k \in Nat, k <= Cardinality(B)
  PROVE  \E K \in SUBSET B : Cardinality(K) = k /\ \A b \in K, c \in B \ K : b.n >= c.n
<1> DEFINE Top(K, j) == Cardinality(K) = j /\ \A b \in K, c \in B \ K : b.n >= c.n
           Without == {j \in 0..Cardinality(B) : ~ \E K \in SUBSET B : Top(K, j)}
<1>1. Cardinality(B) \in Nat
  BY FS_CardinalityType
<1>2. ASSUME NEW j \in Without, \A i \in Without : j <= i PROVE FALSE
  <2>1. j # 0
    <3>1. Top({}, 0)
      BY FS_EmptySet
    <3> QED  BY <1>2, <3>1
  <2>2. j - 1 \in 0..Cardinality(B) /\ j - 1 \notin Without
    BY <1>1, <1>2, <2>1
  <2>3. PICK K \in SUBSET B : Top(K, j - 1)
    BY <2>2
  <2>4. B \ K # {}
    <3>1. K # B
      BY <1>1, <1>2, <2>3
    <3> QED  BY <3>1
  <2>5. PICK c \in B \ K : \A d \in B \ K : c.n >= d.n
    <3> DEFINE Above(c) == {d \in B \ K : d.n > c.n}
               U == {Above(c) : c \in B \ K}
    <3>1. \A x \in U : IsFiniteSet(x)
      BY FS_Subset
    <3>2. PICK x \in U : \A y \in U : y \subseteq x => y = x
      <4>1. U # {}
        <5>1. PICK e : e \in B \ K
          BY <2>4
        <5>2. Above(e) \in U
          BY <5>1
        <5> QED  BY <5>2
      <4> HIDE DEF U
      <4> QED  BY <3>1, <4>1, SmallestSet
    <3>3. PICK c \in B \ K : x = Above(c)
      OBVIOUS
    <3>4. ASSUME NEW d \in B \ K, ~(c.n >= d.n) PROVE FALSE
      <4>1. c.n \in Nat /\ d.n \in Nat /\ d.n > c.n
        BY <3>4
      <4>2. \A e \in Above(d) : e.n > d.n /\ e.n \in Nat /\ e \in B \ K
        OBVIOUS
      <4>3. Above(d) \subseteq Above(c)
        BY <4>1, <4>2
      <4>4. d \in Above(c) /\ d \notin Above(d)
        BY <4>1
      <4>5. Above(d) \in U
        OBVIOUS
      <4> HIDE DEF U
      <4>6. Above(d) = x
        BY <3>2, <3>3, <4>3, <4>5
      <4> QED  BY <3>3, <4>4, <4>6
    <3> QED  BY <3>4
  <2>6. Top(K \cup {c}, j)
    <3>1. IsFiniteSet(K) /\ Cardinality(K \cup {c}) = Cardinality(K) + 1
      BY FS_Subset, FS_AddElement
    <3>2. \A d \in B \ (K \cup {c}) : c.n >= d.n
      BY <2>5
    <3>3. \A b \in K, d \in B \ (K \cup {c}) : b.n >= d.n
      BY <2>3
    <3> QED  BY <1>2, <2>3, <3>1, <3>2, <3>3
  <2> QED  BY <2>5, <2>6
<1>3. Without = {}
  <2> HIDE DEF Without
  <2>1. Without \in SUBSET Nat
    BY DEF Without
  <2> QED  BY <1>2, <2>1, Least
<1> QED  BY <1>1, <1>3

\* A chart shows bars it has counted, no others.
LEMMA ShownIn ==
  ASSUME NEW level, NEW bars, IsFiniteSet(bars), \A b \in bars : b.n \in Nat
  PROVE  Looking!Shown(level, bars) \subseteq bars
<1>1. TopGroups \in Nat
  BY WorkspaceAssumption DEF Looking!InsightAssumption, Looking!ChartsAssumption
<1>2. Cardinality(bars) \in Nat
  BY FS_CardinalityType
<1>3. CASE Looking!IsTime(level)
  BY <1>3 DEF Looking!Shown
<1>4. CASE ~Looking!IsTime(level) /\ Cardinality(bars) <= TopGroups
  BY <1>4, LookCount DEF Looking!Shown
<1>5. CASE ~Looking!IsTime(level) /\ ~(Cardinality(bars) <= TopGroups)
  <2> DEFINE Top == {K \in SUBSET bars : Cardinality(K) = TopGroups}
             P(K) == \A b \in K, c \in bars \ K : b.n >= c.n
  <2>1. \E K \in Top : P(K)
    BY <1>1, <1>2, <1>5, TopFound
  <2>2. Looking!kSubset(TopGroups, bars) = Top
    BY LookCount DEF Looking!kSubset
  <2>3. Looking!Shown(level, bars) = CHOOSE K \in Top : P(K)
    <3> HIDE DEF Top
    <3> QED  BY <1>5, <2>2, LookCount DEF Looking!Shown
  <2>4. (CHOOSE K \in Top : P(K)) \in Top
    <3> HIDE DEF Top, P
    <3> QED  BY <2>1
  <2> QED  BY <2>3, <2>4
<1> QED  BY <1>3, <1>4, <1>5

-----------------------------------------------------------------------------
(* The responses, and the bars of a level.                                      *)

\* What the responses answer: finitely many things, and numbers of one decimal.
DataInv ==
  /\ def \in Definitions
  /\ resp = [r \in Responses |-> resp[r]]
  /\ \A r \in Responses :
       /\ resp[r] = [f \in Looking!Fields \cup {"is"} |-> resp[r][f]]
       /\ \A f \in Looking!Fields : IsFiniteSet(resp[r][f])
       /\ \A n \in resp[r]["number"] : Looking!IsNumber(n)

\* Every bar counts the responses that are in its group.
Right(level, rs, bars) ==
  \A b \in bars : b.n = Cardinality({r \in rs : Looking!InFocus(level, b.bar, r)})

\* Everybody who answered is behind a bar.
Covers(level, rs, bars) ==
  \A r \in rs : Looking!Keys(level, r) # {} => \E b \in bars : Looking!InFocus(level, b.bar, r)

\* What is assumed of the charts and of what is answered.
LEMMA ChartsAssumed ==
  /\ IsFiniteSet(Responses) /\ Responses \subseteq Nat /\ IsFiniteSet(Options)
  /\ TopGroups \in Nat /\ MaxRunning \in Nat \ {0} /\ MaxCached \in Nat \ {0}
  /\ \A d \in Definitions :
       /\ Len(d.levels) \in Nat \ {0} /\ DOMAIN d.levels = 1..Len(d.levels)
       /\ \A i \in DOMAIN d.levels : d.levels[i].field \in Looking!Fields
  /\ \A d \in Definitions : \A a \in Sample[d] :
       /\ DOMAIN a = Looking!Fields /\ (\A n \in a.number : Looking!IsNumber(n))
       /\ \A f \in Looking!Fields : IsFiniteSet(a[f])
<1>1. Looking!ChartsAssumption
  BY WorkspaceAssumption DEF Looking!InsightAssumption
<1>2. /\ Responses \subseteq Nat
      /\ TopGroups \in Nat /\ MaxRunning \in Nat \ {0} /\ MaxCached \in Nat \ {0}
      /\ Looking!IsFiniteSet(Responses) /\ Looking!IsFiniteSet(Options)
  BY <1>1 DEF Looking!ChartsAssumption
<1>3. \A d \in Definitions :
        /\ Len(d.levels) \in Nat \ {0} /\ DOMAIN d.levels = 1..Len(d.levels)
        /\ \A i \in DOMAIN d.levels : d.levels[i].field \in Looking!Fields
  BY <1>1 DEF Looking!ChartsAssumption
<1>4. ASSUME NEW d \in Definitions, NEW a \in Sample[d]
      PROVE  /\ DOMAIN a = Looking!Fields /\ (\A n \in a.number : Looking!IsNumber(n))
             /\ \A f \in Looking!Fields : Looking!IsFiniteSet(a[f])
  BY <1>1 DEF Looking!ChartsAssumption
<1> QED  BY <1>2, <1>3, <1>4, LookCount

\* What is in the group of a bar.
LEMMA FocusIs ==
  ASSUME NEW level, NEW r
  PROVE  /\ \A k : Looking!InFocus(level, Looking!Bar("key", k), r) <=> k \in Looking!Keys(level, r)
         /\ Looking!InFocus(level, Looking!Bar("other", None), r)
              <=> ~(Looking!Keys(level, r) \subseteq Looking!OptionsNow)
         /\ Looking!InFocus(level, Looking!Bar("blank", None), r) <=> Looking!Keys(level, r) = {}
         /\ \A lo, hi : Looking!InFocus(level, Looking!RangeBar(lo, hi), r)
              <=> \E n \in Looking!Keys(level, r) : n >= lo /\ n < hi
BY DEF Looking!InFocus, Looking!Bar, Looking!RangeBar

\* A response falls under finitely many keys, and so do some of them.
LEMMA KeysFinite ==
  ASSUME DataInv, NEW level, level.field \in Looking!Fields
  PROVE  /\ \A r \in Responses : IsFiniteSet(Looking!Keys(level, r))
         /\ \A rs \in SUBSET Responses : IsFiniteSet(UNION {Looking!Keys(level, r) : r \in rs})
<1>1. ASSUME NEW r \in Responses PROVE IsFiniteSet(Looking!Keys(level, r))
  <2>1. "time" \in Looking!Fields
    BY DEF Looking!Fields
  <2>2. IsFiniteSet(Looking!Values("time", r)) /\ IsFiniteSet(Looking!Values(level.field, r))
    BY <2>1 DEF DataInv, Looking!Values
  <2>3. IsFiniteSet({WeekOf[d] : d \in Looking!Values("time", r)})
    BY <2>2, ImageFinite
  <2> QED  BY <2>2, <2>3 DEF Looking!Keys
<1>2. ASSUME NEW rs \in SUBSET Responses
      PROVE  IsFiniteSet(UNION {Looking!Keys(level, r) : r \in rs})
  <2> DEFINE f == [r \in rs |-> Looking!Keys(level, r)]
             T == {f[r] : r \in rs}
  <2>1. IsFiniteSet(rs)
    BY ChartsAssumed, FS_Subset
  <2>2. IsFiniteSet(T)
    <3> HIDE DEF f
    <3> QED  BY <2>1, ImageFinite
  <2>3. \A x \in T : IsFiniteSet(x)
    BY <1>1
  <2>4. IsFiniteSet(UNION T)
    <3> HIDE DEF T
    <3> QED  BY <2>2, <2>3, FS_UNION
  <2>5. T = {Looking!Keys(level, r) : r \in rs}
    OBVIOUS
  <2> QED  BY <2>4, <2>5
<1> QED  BY <1>1, <1>2

\* The ranges a number field is shown in, of some responses.
RangesFor(level, rs) ==
  LET all == UNION {Looking!Keys(level, r) : r \in rs}
  IN IF all = {} THEN Looking!NoRanges ELSE Looking!NiceRanges(Looking!Min(all), Looking!Max(all))

\* Every number that was answered is in one of the ranges made of them.
LEMMA NumbersRanged ==
  ASSUME DataInv, NEW level, level.field = "number", NEW rs \in SUBSET Responses,
         NEW q \in rs, NEW m \in Looking!Keys(level, q)
  PROVE  LET g == RangesFor(level, rs)
         IN /\ g = Looking!NiceRanges(Looking!Min(UNION {Looking!Keys(level, r) : r \in rs}),
                                      Looking!Max(UNION {Looking!Keys(level, r) : r \in rs}))
            /\ g.start \in Int /\ g.step \in Looking!NiceSteps /\ g.count \in Int
            /\ \A r \in rs : \A n \in Looking!Keys(level, r) :
                 n \in Int /\ (n - g.start) \div g.step \in 0..(g.count - 1)
<1> DEFINE all == UNION {Looking!Keys(level, r) : r \in rs}
<1>1. \A n \in all : n \in Int /\ -Looking!MaxNumber <= n /\ n <= Looking!MaxNumber
  <2>1. ASSUME NEW r \in rs, NEW n \in Looking!Keys(level, r)
        PROVE  n \in Int /\ -Looking!MaxNumber <= n /\ n <= Looking!MaxNumber
    <3>1. n \in resp[r]["number"]
      BY DEF Looking!Keys, Looking!Values
    <3>2. Looking!IsNumber(n)
      BY <3>1 DEF DataInv
    <3>3. n \in -Looking!MaxNumber..Looking!MaxNumber
      BY <3>2 DEF Looking!IsNumber
    <3>4. Looking!MaxNumber \in Int
      BY SMT DEF Looking!MaxNumber
    <3> QED  BY <3>3, <3>4
  <2> QED  BY <2>1
<1>2. m \in all /\ Looking!MaxNumber \in Int
  BY DEF Looking!MaxNumber
<1>3. PICK lo \in Int, hi \in Int : lo = Looking!Min(all) /\ hi = Looking!Max(all)
        /\ lo <= hi /\ hi - lo <= 2 * Looking!MaxNumber /\ \A n \in all : n \in lo..hi
  <2> HIDE DEF all
  <2>1. all \in SUBSET Int /\ all # {} /\ -Looking!MaxNumber \in Int
    BY <1>1, <1>2
  <2>2. Looking!Min(all) \in all /\ \A y \in all : Looking!Min(all) <= y
    BY <1>1, <2>1, MinIs
  <2>3. Looking!Max(all) \in all /\ \A y \in all : Looking!Max(all) >= y
    BY <1>1, <1>2, <2>1, MaxIs
  <2>4. Looking!Min(all) \in Int /\ Looking!Max(all) \in Int /\ Looking!Min(all) <= Looking!Max(all)
        /\ Looking!Max(all) - Looking!Min(all) <= 2 * Looking!MaxNumber
    BY <1>1, <1>2, <2>2, <2>3
  <2> QED  BY <1>1, <2>2, <2>3, <2>4
<1>4. PICK g : g = RangesFor(level, rs)
  OBVIOUS
<1>5. g = Looking!NiceRanges(lo, hi)
  <2>1. all # {}
    BY <1>2
  <2> QED  BY <1>3, <1>4, <2>1 DEF RangesFor
<1>6. /\ g.start \in Int /\ g.step \in Looking!NiceSteps /\ g.count \in Int
      /\ \A n \in lo..hi : (n - g.start) \div g.step \in 0..(g.count - 1)
  BY <1>3, <1>5, RangesCover
<1>7. \A r \in rs : \A n \in Looking!Keys(level, r) : n \in all
  OBVIOUS
<1> HIDE DEF all
<1>8. \A r \in rs : \A n \in Looking!Keys(level, r) :
        n \in Int /\ (n - g.start) \div g.step \in 0..(g.count - 1)
  BY <1>1, <1>3, <1>6, <1>7
<1> USE DEF all
<1> QED  BY <1>3, <1>4, <1>5, <1>6, <1>8

\* A number is in the range of its whole number of steps.
LEMMA InRange ==
  ASSUME NEW start \in Int, NEW s \in Looking!NiceSteps, NEW n \in Int, NEW i \in Int
  PROVE  (n - start) \div s = i <=> n >= start + i * s /\ n < start + i * s + s
<1>1. PICK q \in Int : q = (n - start) \div s /\ s * q <= n - start /\ n - start < s * q + s
  <2>1. n - start \in Int
    OBVIOUS
  <2> QED  BY <2>1, StepsDivide
<1> QED  BY <1>1 DEF Looking!NiceSteps

\* So it is with a bar for each key there is.
KeyBars(level, rs) ==
  {Looking!Counted(Looking!Bar("key", k), Looking!With(level, rs, k))
     : k \in UNION {Looking!Keys(level, r) : r \in rs}}

\* Such bars count right, and leave nobody out who has a key.
LEMMA KeyBarsRight ==
  ASSUME DataInv, NEW level, level.field \in Looking!Fields, NEW rs \in SUBSET Responses
  PROVE  /\ IsFiniteSet(KeyBars(level, rs)) /\ (\A b \in KeyBars(level, rs) : b.n \in Nat)
         /\ Right(level, rs, KeyBars(level, rs)) /\ Covers(level, rs, KeyBars(level, rs))
<1> DEFINE keys == UNION {Looking!Keys(level, r) : r \in rs}
<1>0. \A P : P \in SUBSET rs => IsFiniteSet(P) /\ Cardinality(P) \in Nat
  BY ChartsAssumed, FS_Subset, FS_CardinalityType
<1> DEFINE f == [k \in keys |-> Looking!Counted(Looking!Bar("key", k), Looking!With(level, rs, k))]
           some == {f[k] : k \in keys}
<1>1. KeyBars(level, rs) = some
  BY DEF KeyBars
<1>2. IsFiniteSet(some)
  <2>1. IsFiniteSet(keys)
    BY KeysFinite
  <2> HIDE DEF f, keys
  <2> QED  BY <2>1, ImageFinite
<1>3. ASSUME NEW k \in keys
      PROVE  /\ f[k].n \in Nat /\ f[k].bar = Looking!Bar("key", k)
             /\ f[k].n = Cardinality({r \in rs : Looking!InFocus(level, f[k].bar, r)})
  <2>1. Looking!With(level, rs, k) = {r \in rs : Looking!InFocus(level, Looking!Bar("key", k), r)}
    BY FocusIs DEF Looking!With
  <2>2. f[k].bar = Looking!Bar("key", k) /\ f[k].n = Cardinality(Looking!With(level, rs, k))
    BY LookCount DEF Looking!Counted
  <2>3. Looking!With(level, rs, k) \in SUBSET rs
    BY DEF Looking!With
  <2> QED  BY <1>0, <2>1, <2>2, <2>3
<1>4. ASSUME NEW r \in rs, Looking!Keys(level, r) # {}
      PROVE  \E b \in some : Looking!InFocus(level, b.bar, r)
  <2>1. PICK k \in keys : k \in Looking!Keys(level, r)
    BY <1>4
  <2>2. f[k] \in some /\ f[k].bar = Looking!Bar("key", k)
    BY <1>3
  <2>3. Looking!InFocus(level, f[k].bar, r)
    BY <2>1, <2>2, FocusIs
  <2> HIDE DEF f, some
  <2> QED  BY <2>2, <2>3
<1> HIDE DEF f, keys
<1> QED  BY <1>1, <1>2, <1>3, <1>4 DEF Right, Covers

\* Each bar counts those in its group, and everybody who answered is behind a bar: of the
\* choices there are and one for all others, of the ranges, of each key there is.
LEMMA GroupsRight ==
  ASSUME DataInv, NEW level, level.field \in Looking!Fields, NEW rs \in SUBSET Responses,
         NEW g, level.field = "number" => g = RangesFor(level, rs)
  PROVE  LET bars == Looking!Groups(level, g, rs)
         IN IsFiniteSet(bars) /\ (\A b \in bars : b.n \in Nat) /\ Right(level, rs, bars) /\ Covers(level, rs, bars)
<1> DEFINE keys == UNION {Looking!Keys(level, r) : r \in rs}
<1>0. \A P : P \in SUBSET rs => IsFiniteSet(P) /\ Cardinality(P) \in Nat
  BY ChartsAssumed, FS_Subset, FS_CardinalityType
<1>1. CASE level.field = "choice"
  <2> DEFINE f == [o \in Looking!OptionsNow |-> Looking!Counted(Looking!Bar("key", o), Looking!With(level, rs, o))]
             others == {r \in rs : ~(Looking!Keys(level, r) \subseteq Looking!OptionsNow)}
             besides == Looking!Counted(Looking!Bar("other", None), others)
             some == {f[o] : o \in Looking!OptionsNow}
  <2>1. Looking!Groups(level, g, rs) = some \cup (IF keys \subseteq Looking!OptionsNow THEN {} ELSE {besides})
    BY <1>1 DEF Looking!Groups
  <2>2. IsFiniteSet(Looking!OptionsNow)
    BY ChartsAssumed, FS_Subset DEF Looking!OptionsNow
  <2>3. IsFiniteSet(some)
    <3> HIDE DEF f
    <3> QED  BY <2>2, ImageFinite
  <2>4. IsFiniteSet(some \cup {besides})
    <3> HIDE DEF some, besides
    <3> QED  BY <2>3, FS_AddElement
  <2>5. ASSUME NEW o \in Looking!OptionsNow
        PROVE  /\ f[o].n \in Nat /\ f[o].bar = Looking!Bar("key", o)
               /\ f[o].n = Cardinality({r \in rs : Looking!InFocus(level, f[o].bar, r)})
    <3>1. Looking!With(level, rs, o) = {r \in rs : Looking!InFocus(level, Looking!Bar("key", o), r)}
      BY FocusIs DEF Looking!With
    <3>2. f[o].bar = Looking!Bar("key", o) /\ f[o].n = Cardinality(Looking!With(level, rs, o))
      BY LookCount DEF Looking!Counted
    <3>3. Looking!With(level, rs, o) \in SUBSET rs
      BY DEF Looking!With
    <3> QED  BY <1>0, <3>1, <3>2, <3>3
  <2>6. /\ besides.n \in Nat /\ besides.bar = Looking!Bar("other", None)
        /\ besides.n = Cardinality({r \in rs : Looking!InFocus(level, besides.bar, r)})
    <3>1. others = {r \in rs : Looking!InFocus(level, Looking!Bar("other", None), r)}
      BY FocusIs
    <3>2. besides.bar = Looking!Bar("other", None) /\ besides.n = Cardinality(others)
      BY LookCount DEF Looking!Counted
    <3> QED  BY <1>0, <3>1, <3>2
  <2>7. ASSUME NEW r \in rs, Looking!Keys(level, r) # {}
        PROVE  \E b \in Looking!Groups(level, g, rs) : Looking!InFocus(level, b.bar, r)
    <3>1. CASE Looking!Keys(level, r) \subseteq Looking!OptionsNow
      <4>1. PICK o \in Looking!OptionsNow : o \in Looking!Keys(level, r)
        BY <2>7, <3>1
      <4>2. f[o] \in Looking!Groups(level, g, rs)
        BY <2>1
      <4> HIDE DEF f
      <4>3. f[o].bar = Looking!Bar("key", o)
        BY <2>5
      <4>4. Looking!InFocus(level, Looking!Bar("key", o), r)
        BY <4>1, FocusIs
      <4> QED  BY <4>2, <4>3, <4>4
    <3>2. CASE ~(Looking!Keys(level, r) \subseteq Looking!OptionsNow)
      <4>1. besides \in Looking!Groups(level, g, rs)
        BY <2>1, <3>2
      <4> QED  BY <2>6, <3>2, <4>1, FocusIs
    <3> QED  BY <3>1, <3>2
  <2> HIDE DEF f, besides
  <2> QED  BY <2>1, <2>3, <2>4, <2>5, <2>6, <2>7 DEF Right, Covers
<1>2. CASE level.field = "number" /\ keys = {}
  <2>1. g.count = 0
    BY <1>2 DEF RangesFor, Looking!NoRanges
  <2>2. 0..(g.count - 1) = {}
    BY <2>1
  <2>3. Looking!Groups(level, g, rs) = {}
    BY <1>2, <2>2 DEF Looking!Groups
  <2> QED  BY <1>2, <2>3, FS_EmptySet DEF Right, Covers
<1>3. CASE level.field = "number" /\ keys # {}
  <2> DEFINE bar(i) == Looking!RangeBar(g.start + i * g.step, g.start + i * g.step + g.step)
             those(i) == {r \in rs : \E n \in Looking!Keys(level, r) : (n - g.start) \div g.step = i}
             f == [i \in 0..(g.count - 1) |-> Looking!Counted(bar(i), those(i))]
             some == {f[i] : i \in 0..(g.count - 1)}
  <2>1. PICK q \in rs : \E m \in Looking!Keys(level, q) : TRUE
    BY <1>3
  <2>2. /\ g.start \in Int /\ g.step \in Looking!NiceSteps /\ g.count \in Int
        /\ \A r \in rs : \A n \in Looking!Keys(level, r) :
             n \in Int /\ (n - g.start) \div g.step \in 0..(g.count - 1)
    BY <1>3, <2>1, NumbersRanged
  <2>3. Looking!Groups(level, g, rs) = some
    BY <1>3 DEF Looking!Groups
  <2>4. IsFiniteSet(some)
    <3>1. g.count - 1 \in Int
      BY <2>2
    <3>2. IsFiniteSet(0..(g.count - 1))
      BY <3>1, FS_Interval
    <3> HIDE DEF f
    <3> QED  BY <3>2, ImageFinite
  <2>5. ASSUME NEW i \in 0..(g.count - 1)
        PROVE  /\ f[i].n \in Nat /\ f[i].bar = bar(i)
               /\ \A r \in rs : Looking!InFocus(level, bar(i), r) <=> r \in those(i)
               /\ f[i].n = Cardinality({r \in rs : Looking!InFocus(level, f[i].bar, r)})
    <3>1. ASSUME NEW r \in rs
          PROVE  Looking!InFocus(level, bar(i), r) <=> r \in those(i)
      <4>1. \A n \in Looking!Keys(level, r) :
              (n - g.start) \div g.step = i
                <=> n >= g.start + i * g.step /\ n < g.start + i * g.step + g.step
        BY <2>2, InRange
      <4> QED  BY <4>1, FocusIs
    <3>2. f[i].bar = bar(i) /\ f[i].n = Cardinality(those(i))
      BY LookCount DEF Looking!Counted
    <3>3. those(i) = {r \in rs : Looking!InFocus(level, bar(i), r)}
      BY <3>1
    <3>4. Cardinality(those(i)) \in Nat
      BY <1>0
    <3> HIDE DEF bar, those, f
    <3> QED  BY <3>1, <3>2, <3>3, <3>4
  <2>6. ASSUME NEW r \in rs, Looking!Keys(level, r) # {}
        PROVE  \E b \in some : Looking!InFocus(level, b.bar, r)
    <3>1. PICK n \in Looking!Keys(level, r) : TRUE
      BY <2>6
    <3>2. PICK i \in 0..(g.count - 1) : i = (n - g.start) \div g.step
      BY <2>2
    <3>3. r \in those(i) /\ f[i] \in some
      BY <3>2
    <3> HIDE DEF bar, those, f, some
    <3> QED  BY <2>5, <3>3
  <2> HIDE DEF f, bar, those
  <2> QED  BY <2>3, <2>4, <2>5, <2>6 DEF Right, Covers
<1>4. CASE level.field \notin {"choice", "number"}
  <2>1. Looking!Groups(level, g, rs) = KeyBars(level, rs)
    BY <1>4 DEF Looking!Groups, KeyBars
  <2> QED  BY <2>1, KeyBarsRight
<1> QED  BY <1>1, <1>2, <1>3, <1>4

\* An answer: its bars, if the responses are still those it was computed from, and if it left
\* bars out. A whole one counts right, and leaves nobody out but for the bars it says it does.
Good(level, rs, v) ==
  \E bars, whole, cut :
    /\ v = [bars |-> bars, whole |-> whole, cut |-> cut]
    /\ whole => Right(level, rs, bars) /\ (~cut => Covers(level, rs, bars))
GoodChart(path, v) == Good(Looking!LevelOf(path), Looking!Matching(path), v)
GoodSegments(v) == Good(def.levels[1], Looking!Live, v)

\* A chart that is asked for is of a level there is.
PathFits(path) == (\E S : path \in Seq(S)) /\ Len(path) < Len(def.levels)

\* What a run has read, when nothing changed since it began to read.
RangesOf(path) ==
  IF Looking!LevelOf(path).field = "number" THEN Looking!Ranges(path) ELSE None
ReadNow(path) ==
  LET rs    == Looking!Matching(path)
      asked == Looking!LevelOf(path)
      level == Looking!Regrouped(asked, rs)
  IN [bars |-> Looking!Groups(level, RangesOf(path), rs),
      total |-> Looking!Cardinality(rs),
      answered |-> Looking!Cardinality({r \in rs : Looking!Keys(level, r) # {}}),
      regrouped |-> level # asked]

\* The level a path leads to is one of the chart, of a field that is known.
LEMMA LevelFits ==
  ASSUME DataInv, NEW path, PathFits(path)
  PROVE  /\ Len(path) \in Nat /\ Looking!LevelOf(path) = def.levels[Len(path) + 1]
         /\ Looking!LevelOf(path).field \in Looking!Fields
<1>1. PICK n \in Nat : n = Len(path) /\ n < Len(def.levels)
  BY DEF PathFits
<1>2. n + 1 \in DOMAIN def.levels
  BY <1>1, ChartsAssumed DEF DataInv
<1> QED  BY <1>1, <1>2, ChartsAssumed DEF DataInv, Looking!LevelOf

\* The older charts count right.
LEMMA SegmentsGood ==
  ASSUME DataInv
  PROVE  GoodSegments(Looking!Segments(def.levels[1]))
<1>1. PICK level : level = def.levels[1]
  OBVIOUS
<1>2. level.field \in Looking!Fields
  BY <1>1, ChartsAssumed DEF DataInv
<1>3. PICK bars : bars = IF level.field = "choice" THEN Looking!Groups(level, None, Looking!Live)
                         ELSE KeyBars(level, Looking!Live)
  OBVIOUS
<1>4. Looking!Live \in SUBSET Responses
  BY DEF Looking!Live
<1>5. Right(level, Looking!Live, bars) /\ Covers(level, Looking!Live, bars)
  <2>1. CASE level.field = "choice"
    <3>1. level.field = "number" => None = RangesFor(level, Looking!Live)
      BY <2>1
    <3> QED  BY <1>2, <1>3, <1>4, <2>1, <3>1, GroupsRight
  <2>2. CASE level.field # "choice"
    BY <1>2, <1>3, <1>4, <2>2, KeyBarsRight
  <2> QED  BY <2>1, <2>2
<1>6. PICK kept : kept = IF level.field = "choice" THEN bars
        ELSE {b \in bars : Looking!Cardinality({c \in bars : c.bar.key < b.bar.key}) < MaxSegments}
  OBVIOUS
<1>7. Looking!Segments(level) = [bars |-> kept, whole |-> TRUE, cut |-> kept # bars]
  <2>1. CASE level.field = "choice"
    BY <1>3, <1>6, <2>1 DEF Looking!Segments
  <2>2. CASE level.field # "choice"
    BY <1>3, <1>6, <2>2 DEF Looking!Segments, KeyBars
  <2> QED  BY <2>1, <2>2
<1>8. kept \subseteq bars
  BY <1>6
<1>9. Right(level, Looking!Live, kept) /\ (~(kept # bars) => Covers(level, Looking!Live, kept))
  BY <1>5, <1>8 DEF Right
<1>10. Good(level, Looking!Live, Looking!Segments(level))
  BY <1>7, <1>9 DEF Good
<1> QED  BY <1>1, <1>10 DEF GoodSegments

\* So does a run that read everything from the same responses.
LEMMA RestGood ==
  ASSUME DataInv, NEW key, PathFits(runs[key].path),
         runs[key].clean => runs[key].value = ReadNow(runs[key].path)
  PROVE  GoodChart(runs[key].path, Looking!Rest(key))
<1>1. PICK path : path = runs[key].path
  OBVIOUS
<1>2. PICK value : value = runs[key].value
  OBVIOUS
<1>3. PICK rs : rs = Looking!Matching(path)
  OBVIOUS
<1>4. PICK level : level = Looking!LevelOf(path)
  OBVIOUS
<1>5. rs \in SUBSET Responses
  BY <1>3 DEF Looking!Matching, Looking!Live
<1>6. PICK blank : blank = {r \in rs : Looking!Keys(level, r) = {}}
  OBVIOUS
<1>7. PICK bars : bars =
        IF level.field = "rating" /\ value.total > value.answered /\ blank # {}
        THEN value.bars \cup {Looking!Counted(Looking!Bar("blank", None), blank)} ELSE value.bars
  OBVIOUS
<1>8. PICK shown : shown =
        Looking!Shown(IF value.regrouped THEN [level EXCEPT !.bucket = "week"] ELSE level, bars)
  OBVIOUS
<1>9. PICK whole : whole = (runs[key].clean /\ ~value.regrouped)
  OBVIOUS
<1>10. Looking!Rest(key) = [bars |-> shown, whole |-> whole, cut |-> bars # shown]
  BY <1>1, <1>2, <1>3, <1>4, <1>6, <1>7, <1>8, <1>9, Zenon DEF Looking!Rest
<1>11. ASSUME whole
       PROVE  Right(level, rs, shown) /\ (~(bars # shown) => Covers(level, rs, shown))
  <2>1. value = ReadNow(path) /\ ~value.regrouped
    BY <1>1, <1>2, <1>9, <1>11
  <2>2. PICK counted : counted = Looking!Regrouped(level, rs)
    OBVIOUS
  <2>3. value.bars = Looking!Groups(counted, RangesOf(path), rs) /\ value.regrouped = (counted # level)
    BY <1>3, <1>4, <2>1, <2>2 DEF ReadNow
  <2>4. value.bars = Looking!Groups(level, RangesOf(path), rs)
    BY <2>1, <2>3
  <2>5. level.field \in Looking!Fields
    BY <1>1, <1>4, LevelFits
  <2>6. level.field = "number" => RangesOf(path) = RangesFor(level, rs)
    BY <1>3, <1>4 DEF RangesOf, Looking!Ranges, RangesFor, Looking!LevelOf
  <2>7. /\ IsFiniteSet(value.bars) /\ (\A b \in value.bars : b.n \in Nat)
        /\ Right(level, rs, value.bars) /\ Covers(level, rs, value.bars)
    BY <1>5, <2>4, <2>5, <2>6, GroupsRight
  <2>8. IsFiniteSet(bars) /\ (\A b \in bars : b.n \in Nat) /\ Right(level, rs, bars) /\ Covers(level, rs, bars)
    <3>1. PICK b : b = Looking!Counted(Looking!Bar("blank", None), blank)
      OBVIOUS
    <3>2. IsFiniteSet(blank) /\ Cardinality(blank) \in Nat
      BY <1>5, <1>6, ChartsAssumed, FS_Subset, FS_CardinalityType
    <3>3. b.n = Cardinality(blank) /\ b.bar = Looking!Bar("blank", None)
      BY <3>1, LookCount DEF Looking!Counted
    <3>4. blank = {r \in rs : Looking!InFocus(level, b.bar, r)}
      BY <1>6, <3>3, FocusIs
    <3>5. IsFiniteSet(value.bars \cup {b})
      BY <2>7, FS_AddElement
    <3>6. bars = value.bars \/ bars = value.bars \cup {b}
      BY <1>7, <3>1
    <3> QED  BY <2>7, <3>2, <3>3, <3>4, <3>5, <3>6 DEF Right, Covers
  <2>9. shown \subseteq bars
    BY <1>8, <2>8, ShownIn
  <2> QED  BY <2>8, <2>9 DEF Right
<1>12. Good(level, rs, Looking!Rest(key))
  <2>1. PICK cut : cut = (bars # shown)
    OBVIOUS
  <2>2. /\ Looking!Rest(key) = [bars |-> shown, whole |-> whole, cut |-> cut]
        /\ whole => Right(level, rs, shown) /\ (~cut => Covers(level, rs, shown))
    BY <1>10, <1>11, <2>1
  <2> QED  BY <2>2 DEF Good
<1> QED  BY <1>1, <1>3, <1>4, <1>12 DEF GoodChart

\* Nothing the charts are computed from has changed.
DataSame == def' = def /\ resp' = resp /\ removed' = removed

\* Then everything computed from it is the same.
LEMMA SameData ==
  ASSUME DataSame
  PROVE  /\ DataInv => DataInv'
         /\ \A path : PathFits(path)' <=> PathFits(path)
         /\ \A path : RangesOf(path)' = RangesOf(path) /\ ReadNow(path)' = ReadNow(path)
         /\ \A path, v : GoodChart(path, v)' <=> GoodChart(path, v)
         /\ \A v : GoodSegments(v)' <=> GoodSegments(v)
<1>1. def' = def /\ resp' = resp /\ removed' = removed
  BY DEF DataSame
<1>2. Looking!OptionsNow' = Looking!OptionsNow /\ Looking!Live' = Looking!Live
  BY <1>1 DEF Looking!OptionsNow, Looking!Live
<1>3. \A level, r : Looking!Keys(level, r)' = Looking!Keys(level, r)
  BY <1>1 DEF Looking!Keys, Looking!Values
<1>4. \A level, bar, r : Looking!InFocus(level, bar, r)' <=> Looking!InFocus(level, bar, r)
  BY <1>2, <1>3 DEF Looking!InFocus
<1>5. \A r : Looking!Kept(r)' <=> Looking!Kept(r)
  <2>1. \A c, r : Looking!Passes(c, r)' <=> Looking!Passes(c, r)
    BY <1>1 DEF Looking!Passes, Looking!Values
  <2>2. \A g, r : Looking!PassesGroup(g, r)' <=> Looking!PassesGroup(g, r)
    BY <2>1 DEF Looking!PassesGroup
  <2>3. \A i, r : Looking!PassesPart(i, r)' <=> Looking!PassesPart(i, r)
    BY <2>1, <2>2 DEF Looking!PassesPart
  <2> QED  BY <1>1, <2>3 DEF Looking!Kept
<1>6. \A path : Looking!Matching(path)' = Looking!Matching(path)
  <2>1. \A path, r : Looking!Narrowed(path, r)' <=> Looking!Narrowed(path, r)
    BY <1>1, <1>4 DEF Looking!Narrowed
  <2> QED  BY <1>2, <1>5, <2>1 DEF Looking!Matching
<1>7. \A path : Looking!LevelOf(path)' = Looking!LevelOf(path)
  BY <1>1 DEF Looking!LevelOf
<1>8. \A path : RangesOf(path)' = RangesOf(path)
  <2>1. \A path : Looking!Ranges(path)' = Looking!Ranges(path)
    BY <1>1, <1>3, <1>6 DEF Looking!Ranges
  <2> QED  BY <1>7, <2>1 DEF RangesOf
<1>9. \A level, g, rs : Looking!Groups(level, g, rs)' = Looking!Groups(level, g, rs)
  <2>1. \A level, rs, k : Looking!With(level, rs, k)' = Looking!With(level, rs, k)
    BY <1>3 DEF Looking!With
  <2>2. ASSUME NEW level, NEW g, NEW rs PROVE Looking!Groups(level, g, rs)' = Looking!Groups(level, g, rs)
    <3>1. PICK keys : keys = UNION {Looking!Keys(level, r) : r \in rs}
      OBVIOUS
    <3>2. keys = UNION {Looking!Keys(level, r)' : r \in rs}
      BY <1>3, <3>1
    <3>3. CASE level.field = "choice"
      BY <1>2, <1>3, <2>1, <3>1, <3>2, <3>3 DEF Looking!Groups
    <3>4. CASE level.field = "number"
      <4>1. \A i : {r \in rs : \E n \in Looking!Keys(level, r) : (n - g.start) \div g.step = i}
                    = {r \in rs : \E n \in Looking!Keys(level, r)' : (n - g.start) \div g.step = i}
        BY <1>3
      <4> QED  BY <3>4, <4>1 DEF Looking!Groups
    <3>5. CASE level.field \notin {"choice", "number"}
      BY <2>1, <3>1, <3>2, <3>5 DEF Looking!Groups
    <3> QED  BY <3>3, <3>4, <3>5
  <2> QED  BY <2>2
<1>10. \A level, rs : Looking!Regrouped(level, rs)' = Looking!Regrouped(level, rs)
  BY <1>3 DEF Looking!Regrouped
<1>11. \A path : ReadNow(path)' = ReadNow(path)
  BY <1>3, <1>6, <1>7, <1>8, <1>9, <1>10 DEF ReadNow
<1>12. \A level, rs, v : Good(level, rs, v)' <=> Good(level, rs, v)
  <2>1. \A level, rs, bars : Right(level, rs, bars)' <=> Right(level, rs, bars)
    BY <1>4 DEF Right
  <2>2. \A level, rs, bars : Covers(level, rs, bars)' <=> Covers(level, rs, bars)
    BY <1>3, <1>4 DEF Covers
  <2> QED  BY <2>1, <2>2 DEF Good
<1>13. \A path, v : GoodChart(path, v)' <=> GoodChart(path, v)
  BY <1>6, <1>7, <1>12 DEF GoodChart
<1>14. \A v : GoodSegments(v)' <=> GoodSegments(v)
  BY <1>1, <1>2, <1>12 DEF GoodSegments
<1>15. \A path : PathFits(path)' <=> PathFits(path)
  BY <1>1 DEF PathFits
<1>16. DataInv => DataInv'
  BY <1>1 DEF DataInv
<1> QED  BY <1>8, <1>11, <1>13, <1>14, <1>15, <1>16

-----------------------------------------------------------------------------
(* The inductive invariant of the runs, the cache and the requests.             *)

\* A run is of the chart its key names; what a clean one has read is what a run of the
\* responses as they are would have read.
RunFits(k, run) ==
  /\ run = [at |-> run.at, path |-> k[1], ranges |-> run.ranges, clean |-> run.clean, value |-> run.value]
  /\ PathFits(k[1])
  /\ run.clean /\ run.at = "groups" => run.ranges = RangesOf(k[1])
  /\ run.clean /\ run.at = "rest" => run.value = ReadNow(k[1])
PlacesInv ==
  /\ runs = [k \in DOMAIN runs |-> runs[k]] /\ \A k \in DOMAIN runs : RunFits(k, runs[k])
  /\ IsFiniteSet(DOMAIN runs) /\ running = Cardinality(DOMAIN runs) /\ running <= MaxRunning

\* What is kept of a chart, and what a request was told, is good of the chart it is about; who
\* waits, waits for a run of the chart he asked for.
EntryFits(e) ==
  e = [key |-> e.key, at |-> e.at, value |-> e.value] /\ GoodChart(e.key[1], e.value)
CacheInv == \E S : cache \in Seq(S) /\ \A e \in S : EntryFits(e)

AskFits(a) ==
  /\ a.at = "stamp" =>
       /\ a = [at |-> "stamp", path |-> a.path, count |-> a.count, newest |-> a.newest]
       /\ PathFits(a.path)
  /\ a.at = "wait" => a.key \in DOMAIN runs /\ a.path = a.key[1]
  /\ a.at = "told" =>
       /\ a = [at |-> "told", what |-> a.what, path |-> a.path, value |-> a.value]
       /\ PathFits(a.path)
       /\ a.what = "chart" => GoodChart(a.path, a.value)
       /\ a.what = "segments" => a.path = << >> /\ GoodSegments(a.value)
AsksInv == ask = [q \in Asks |-> ask[q]] /\ \A q \in Asks : AskFits(ask[q])

LooksInv == DataInv /\ PlacesInv /\ CacheInv /\ AsksInv

\* While nothing changes that is computed from.
LEMMA RunStays ==
  ASSUME DataSame, NEW k, NEW run, RunFits(k, run)
  PROVE  RunFits(k, run)'
BY SameData DEF RunFits

\* The runs stay as they are.
LEMMA PlacesStay ==
  ASSUME DataSame, PlacesInv, runs' = runs, running' = running
  PROVE  PlacesInv'
<1>1. PICK f : f = runs
  OBVIOUS
<1>2. ASSUME NEW k \in DOMAIN f PROVE RunFits(k, f[k])'
  BY <1>1, <1>2, RunStays DEF PlacesInv
<1> QED  BY <1>1, <1>2 DEF PlacesInv

\* So does what is kept.
LEMMA CacheStays ==
  ASSUME DataSame, CacheInv, cache' = cache
  PROVE  CacheInv'
<1>1. PICK S : cache \in Seq(S) /\ \A e \in S : EntryFits(e)
  BY DEF CacheInv
<1>2. \A e \in S : EntryFits(e)'
  BY <1>1, SameData DEF EntryFits
<1> QED  BY <1>1, <1>2 DEF CacheInv

\* So does a request, as long as the run it waits for goes on.
LEMMA AskStays ==
  ASSUME DataSame, NEW a, AskFits(a), a.at = "wait" => a.key \in (DOMAIN runs)'
  PROVE  AskFits(a)'
BY SameData DEF AskFits

\* One request goes on, and nothing else.
LEMMA AskMoves ==
  ASSUME LooksInv, DataSame, cache' = cache, PlacesInv', DOMAIN runs \subseteq (DOMAIN runs)',
         NEW q \in Asks, NEW a, ask' = [ask EXCEPT ![q] = a], AskFits(a)'
  PROVE  LooksInv'
<1>1. DataInv' /\ CacheInv'
  BY SameData, CacheStays DEF LooksInv
<1>2. PICK old : old = ask
  OBVIOUS
<1>3. ASSUME NEW p \in Asks PROVE AskFits(old[p])'
  <2>1. AskFits(old[p]) /\ (old[p].at = "wait" => old[p].key \in DOMAIN runs)
    BY <1>2 DEF LooksInv, AsksInv, AskFits
  <2> QED  BY <2>1, AskStays
<1>4. PICK new : new = ask'
  OBVIOUS
<1>5. new = [p \in Asks |-> IF p = q THEN a ELSE old[p]]
  BY <1>2, <1>4 DEF LooksInv, AsksInv
<1>6. \A p \in Asks : AskFits(new[p])'
  BY <1>3, <1>5
<1>7. AsksInv'
  BY <1>4, <1>5, <1>6 DEF AsksInv
<1> QED  BY <1>1, <1>7 DEF LooksInv

\* What was computed is of the past from a change on.
LEMMA PastGood ==
  ASSUME NEW level, NEW rs, NEW v, Good(level, rs, v)
  PROVE  /\ \A p : GoodChart(p, Looking!Past(v))'
         /\ GoodSegments(Looking!Past(v))'
<1>1. PICK bars, whole, cut : v = [bars |-> bars, whole |-> whole, cut |-> cut]
  BY DEF Good
<1>2. PICK w : w = Looking!Past(v)
  OBVIOUS
<1>3. w = [bars |-> bars, whole |-> FALSE, cut |-> cut]
  BY <1>1, <1>2 DEF Looking!Past
<1>4. \A l, s : Good(l, s, w)'
  BY <1>3 DEF Good
<1>5. (\A p : GoodChart(p, w)') /\ GoodSegments(w)'
  BY <1>4 DEF GoodChart, GoodSegments
<1> QED  BY <1>2, <1>5 DEF Looking!Past

\* A chart is opened, or a bar of the chart that is shown is clicked.
LEMMA AskKeeps ==
  ASSUME LooksInv, NEW q \in Asks, Looking!Ask(q)
  PROVE  LooksInv'
<1>1. DataSame /\ cache' = cache /\ runs' = runs /\ running' = running
  BY DEF Looking!Ask, Looking!DataUnchanged, Looking!ServerUnchanged, DataSame
<1>2. PICK path \in {<< >>} \cup
         (IF ask[q].at = "told" /\ ask[q].what = "chart" /\ Len(ask[q].path) + 1 < Len(def.levels)
          THEN {Append(ask[q].path, b.bar) : b \in ask[q].value.bars} ELSE {}) :
        ask' = [ask EXCEPT ![q] = [at |-> "stamp", path |-> path, count |-> None, newest |-> None]]
  BY DEF Looking!Ask, Looking!Set
<1>3. PathFits(path)
  <2>1. CASE path = << >>
    BY <2>1, ChartsAssumed DEF PathFits, LooksInv, DataInv
  <2>2. CASE path # << >>
    <3>1. PICK b : path = Append(ask[q].path, b) /\ ask[q].at = "told" /\ Len(ask[q].path) + 1 < Len(def.levels)
      BY <1>2, <2>2
    <3>2. PICK S : ask[q].path \in Seq(S)
      BY <3>1 DEF LooksInv, AsksInv, AskFits, PathFits
    <3>3. ask[q].path \in Seq(S \cup {b})
      BY <3>2
    <3>4. path \in Seq(S \cup {b}) /\ Len(path) = Len(ask[q].path) + 1
      BY <3>1, <3>3
    <3> QED  BY <3>1, <3>4 DEF PathFits
  <2> QED  BY <2>1, <2>2
<1>4. PICK a : a = [at |-> "stamp", path |-> path, count |-> None, newest |-> None]
  OBVIOUS
<1>5. AskFits(a)'
  <2>1. AskFits(a)
    BY <1>3, <1>4 DEF AskFits
  <2> QED  BY <1>1, <1>4, <2>1, AskStays
<1>6. PlacesInv'
  BY <1>1, PlacesStay DEF LooksInv
<1> QED  BY <1>1, <1>2, <1>4, <1>5, <1>6, AskMoves

\* The stamp is read.
LEMMA StampKeeps ==
  ASSUME LooksInv, NEW q \in Asks, Looking!CountLive(q) \/ Looking!ReadNewest(q)
  PROVE  LooksInv'
<1>1. DataSame /\ cache' = cache /\ runs' = runs /\ running' = running /\ ask[q].at = "stamp"
  BY DEF Looking!CountLive, Looking!ReadNewest, Looking!DataUnchanged, Looking!ServerUnchanged, DataSame
<1>2. PICK path, count, newest : ask[q] = [at |-> "stamp", path |-> path, count |-> count, newest |-> newest]
  BY <1>1 DEF LooksInv, AsksInv, AskFits
<1>3. PathFits(path)
  BY <1>1, <1>2 DEF LooksInv, AsksInv, AskFits
<1>4. PICK c, n : ask' = [ask EXCEPT ![q] = [at |-> "stamp", path |-> path, count |-> c, newest |-> n]]
  <2>1. CASE Looking!CountLive(q)
    <3>1. PICK c : c = Looking!Cardinality(Looking!Live)
      OBVIOUS
    <3>2. [ask[q] EXCEPT !.count = c] = [at |-> "stamp", path |-> path, count |-> c, newest |-> newest]
      BY <1>2
    <3> QED  BY <2>1, <3>1, <3>2 DEF Looking!CountLive, Looking!Set
  <2>2. CASE Looking!ReadNewest(q)
    <3>1. PICK n : n = Looking!Max({0} \cup Looking!Known)
      OBVIOUS
    <3>2. [ask[q] EXCEPT !.newest = n] = [at |-> "stamp", path |-> path, count |-> count, newest |-> n]
      BY <1>2
    <3> QED  BY <2>2, <3>1, <3>2 DEF Looking!ReadNewest, Looking!Set
  <2> QED  BY <2>1, <2>2
<1>5. PICK a : a = [at |-> "stamp", path |-> path, count |-> c, newest |-> n]
  OBVIOUS
<1>6. AskFits(a)'
  <2>1. AskFits(a)
    BY <1>3, <1>5 DEF AskFits
  <2> QED  BY <1>1, <1>5, <2>1, AskStays
<1>7. PlacesInv'
  BY <1>1, PlacesStay DEF LooksInv
<1> QED  BY <1>1, <1>4, <1>5, <1>6, <1>7, AskMoves

\* A request is told something.
LEMMA ToldFits ==
  ASSUME DataSame, NEW what, NEW path, PathFits(path), NEW value,
         what = "chart" => GoodChart(path, value),
         what = "segments" => path = << >> /\ GoodSegments(value)
  PROVE  AskFits([at |-> "told", what |-> what, path |-> path, value |-> value])'
<1>1. PICK a : a = [at |-> "told", what |-> what, path |-> path, value |-> value]
  OBVIOUS
<1>2. a.at = "told" /\ a.what = what /\ a.path = path /\ a.value = value
  BY <1>1
<1>3. AskFits(a)
  BY <1>1, <1>2 DEF AskFits
<1>4. AskFits(a)'
  BY <1>2, <1>3, AskStays
<1> QED  BY <1>1, <1>4

\* The older charts are counted at once.
LEMMA AggregateKeeps ==
  ASSUME LooksInv, NEW q \in Asks, Looking!Aggregate(q)
  PROVE  LooksInv'
<1>1. DataSame /\ cache' = cache /\ runs' = runs /\ running' = running
  BY DEF Looking!Aggregate, Looking!DataUnchanged, Looking!ServerUnchanged, DataSame
<1>2. PICK v : v = Looking!Segments(def.levels[1])
  OBVIOUS
<1>3. GoodSegments(v) /\ PathFits(<< >>)
  <2>1. GoodSegments(v)
    BY <1>2, SegmentsGood DEF LooksInv
  <2>2. PathFits(<< >>)
    BY ChartsAssumed DEF LooksInv, DataInv, PathFits
  <2> QED  BY <2>1, <2>2
<1>4. PICK a : a = [at |-> "told", what |-> "segments", path |-> << >>, value |-> v]
  OBVIOUS
<1>5. AskFits(a)'
  BY <1>1, <1>3, <1>4, ToldFits
<1>6. ask' = [ask EXCEPT ![q] = a]
  BY <1>2, <1>4 DEF Looking!Aggregate, Looking!Told, Looking!Set
<1>7. PlacesInv'
  BY <1>1, PlacesStay DEF LooksInv
<1> QED  BY <1>1, <1>5, <1>6, <1>7, AskMoves

\* An answer of the same stamp is told again.
LEMMA ReuseKeeps ==
  ASSUME LooksInv, NEW q \in Asks, Looking!Reuse(q)
  PROVE  LooksInv'
<1>1. DataSame /\ cache' = cache /\ runs' = runs /\ running' = running /\ ask[q].at = "stamp"
  BY DEF Looking!Reuse, Looking!Stamped, Looking!DataUnchanged, Looking!ServerUnchanged, DataSame
<1>2. PICK i \in DOMAIN cache : cache[i].key = Looking!KeyOf(q)
        /\ ask' = [ask EXCEPT ![q] = [at |-> "told", what |-> "chart", path |-> ask[q].path, value |-> cache[i].value]]
  BY DEF Looking!Reuse, Looking!Cached, Looking!Told, Looking!Set
<1>3. PICK path : path = ask[q].path
  OBVIOUS
<1>4. PathFits(path)
  BY <1>1, <1>3 DEF LooksInv, AsksInv, AskFits
<1>5. PICK e : e = cache[i]
  OBVIOUS
<1>6. EntryFits(e)
  <2>1. PICK S : cache \in Seq(S) /\ \A x \in S : EntryFits(x)
    BY DEF LooksInv, CacheInv
  <2>2. e \in S
    BY <1>5, <2>1
  <2> QED  BY <2>1, <2>2
<1>7. e.key[1] = path
  BY <1>2, <1>3, <1>5 DEF Looking!KeyOf
<1>8. PICK v : v = e.value
  OBVIOUS
<1>9. GoodChart(path, v)
  BY <1>6, <1>7, <1>8 DEF EntryFits
<1>10. PICK a : a = [at |-> "told", what |-> "chart", path |-> path, value |-> v]
  OBVIOUS
<1>11. AskFits(a)'
  BY <1>1, <1>4, <1>9, <1>10, ToldFits
<1>12. ask' = [ask EXCEPT ![q] = a]
  BY <1>2, <1>3, <1>5, <1>8, <1>10
<1>13. PlacesInv'
  BY <1>1, PlacesStay DEF LooksInv
<1> QED  BY <1>1, <1>11, <1>12, <1>13, AskMoves

\* A request waits for the run there is, or for one of its own, or is turned away.
LEMMA WaitsFit ==
  ASSUME NEW path, NEW key, key[1] = path, key \in (DOMAIN runs)'
  PROVE  AskFits([at |-> "wait", path |-> path, key |-> key])'
<1>1. PICK a : a = [at |-> "wait", path |-> path, key |-> key]
  OBVIOUS
<1>2. a.at = "wait" /\ a.path = path /\ a.key = key
  BY <1>1
<1>3. AskFits(a)'
  BY <1>2 DEF AskFits
<1> QED  BY <1>1, <1>3

\* A run of the same stamp is joined.
LEMMA JoinKeeps ==
  ASSUME LooksInv, NEW q \in Asks, Looking!Join(q)
  PROVE  LooksInv'
<1>1. DataSame /\ cache' = cache /\ runs' = runs /\ running' = running
  BY DEF Looking!Join, Looking!DataUnchanged, Looking!ServerUnchanged, DataSame
<1>2. PICK path, key : path = ask[q].path /\ key = Looking!KeyOf(q)
  OBVIOUS
<1>3. key[1] = path
  BY <1>2 DEF Looking!KeyOf
<1>4. key \in (DOMAIN runs)'
  BY <1>1, <1>2 DEF Looking!Join
<1>5. PICK a : a = [at |-> "wait", path |-> path, key |-> key]
  OBVIOUS
<1>6. AskFits(a)'
  BY <1>3, <1>4, <1>5, WaitsFit
<1>7. ask' = [ask EXCEPT ![q] = a]
  BY <1>2, <1>5 DEF Looking!Join, Looking!Set
<1>8. PlacesInv'
  BY <1>1, PlacesStay DEF LooksInv
<1> QED  BY <1>1, <1>6, <1>7, <1>8, AskMoves

\* A run is started, in a place that is free; without one the request is turned away.
LEMMA StartKeeps ==
  ASSUME LooksInv, NEW q \in Asks, Looking!Start(q)
  PROVE  LooksInv'
<1>1. DataSame /\ cache' = cache /\ ask[q].at = "stamp"
  BY DEF Looking!Start, Looking!Stamped, Looking!DataUnchanged, DataSame
<1>2. PICK path, key : path = ask[q].path /\ key = Looking!KeyOf(q)
  OBVIOUS
<1>3. key[1] = path /\ PathFits(path)
  BY <1>1, <1>2 DEF Looking!KeyOf, LooksInv, AsksInv, AskFits
<1>4. CASE Looking!MayRun /\ runs' = [k \in DOMAIN runs \cup {key} |->
                       IF k \in DOMAIN runs THEN runs[k]
                       ELSE [at |-> "ranges", path |-> path, ranges |-> None, clean |-> TRUE, value |-> None]]
             /\ running' = running + 1
             /\ ask' = [ask EXCEPT ![q] = [at |-> "wait", path |-> path, key |-> key]]
  <2>1. PICK old : old = runs
    OBVIOUS
  <2>2. PICK run : run = [at |-> "ranges", path |-> path, ranges |-> None, clean |-> TRUE, value |-> None]
    OBVIOUS
  <2>3. PICK new : new = [k \in DOMAIN old \cup {key} |-> IF k \in DOMAIN old THEN old[k] ELSE run]
    OBVIOUS
  <2>4. runs' = new
    BY <1>4, <2>1, <2>2, <2>3
  <2>5. ASSUME NEW k \in DOMAIN new PROVE RunFits(k, new[k])'
    <3>1. CASE k \in DOMAIN old
      <4>1. RunFits(k, old[k])
        BY <2>1, <3>1 DEF LooksInv, PlacesInv
      <4>2. new[k] = old[k]
        BY <2>3, <3>1
      <4> QED  BY <1>1, <4>1, <4>2, RunStays
    <3>2. CASE k \notin DOMAIN old
      <4>1. k = key /\ new[k] = run
        BY <2>3, <3>2
      <4>2. RunFits(key, run)
        BY <1>3, <2>2 DEF RunFits
      <4> QED  BY <1>1, <4>1, <4>2, RunStays
    <3> QED  BY <3>1, <3>2
  <2>6. DOMAIN new = DOMAIN old \cup {key} /\ key \notin DOMAIN old
    BY <1>2, <2>1, <2>3 DEF Looking!Start
  <2>7. IsFiniteSet(DOMAIN old) /\ running = Cardinality(DOMAIN old) /\ running < MaxRunning
    BY <1>4, <2>1 DEF LooksInv, PlacesInv, Looking!MayRun
  <2>8. IsFiniteSet(DOMAIN new) /\ running + 1 = Cardinality(DOMAIN new) /\ running \in Nat
    BY <2>6, <2>7, FS_AddElement, FS_CardinalityType
  <2>9. running + 1 <= MaxRunning
    BY <2>7, <2>8, ChartsAssumed
  <2>10. new = [k \in DOMAIN new |-> new[k]]
    BY <2>3
  <2>11. PlacesInv'
    BY <1>4, <2>4, <2>5, <2>8, <2>9, <2>10 DEF PlacesInv
  <2>12. PICK a : a = [at |-> "wait", path |-> path, key |-> key]
    OBVIOUS
  <2>13. AskFits(a)'
    BY <1>3, <2>4, <2>6, <2>12, WaitsFit
  <2>14. DOMAIN runs \subseteq (DOMAIN runs)'
    BY <2>1, <2>4, <2>6
  <2> QED  BY <1>1, <1>4, <2>11, <2>12, <2>13, <2>14, AskMoves
<1>5. CASE /\ ask' = [ask EXCEPT ![q] = [at |-> "told", what |-> "busy", path |-> path, value |-> None]]
           /\ runs' = runs /\ running' = running
  <2>1. PICK a : a = [at |-> "told", what |-> "busy", path |-> path, value |-> None]
    OBVIOUS
  <2>2. AskFits(a)'
    BY <1>1, <1>3, <2>1, ToldFits
  <2>3. PlacesInv'
    BY <1>1, <1>5, PlacesStay DEF LooksInv
  <2> QED  BY <1>1, <1>5, <2>1, <2>2, <2>3, AskMoves
<1> QED  BY <1>2, <1>4, <1>5, Zenon DEF Looking!Start, Looking!Told, Looking!Set

\* A run reads on: the ranges, then the groups of them.
LEMMA RunMoves ==
  ASSUME LooksInv, DataSame, cache' = cache, running' = running, ask' = ask,
         NEW key \in DOMAIN runs, NEW run, runs' = [runs EXCEPT ![key] = run], RunFits(key, run)
  PROVE  LooksInv'
<1>1. PICK old : old = runs
  OBVIOUS
<1>2. PICK new : new = [old EXCEPT ![key] = run]
  OBVIOUS
<1>3. runs' = new /\ DOMAIN new = DOMAIN old
  BY <1>1, <1>2
<1>4. ASSUME NEW k \in DOMAIN new PROVE RunFits(k, new[k])'
  <2>1. RunFits(k, new[k])
    BY <1>1, <1>2, <1>3 DEF LooksInv, PlacesInv
  <2> QED  BY <2>1, RunStays
<1>5. new = [k \in DOMAIN new |-> new[k]]
  BY <1>1, <1>2 DEF LooksInv, PlacesInv
<1>6. PlacesInv'
  BY <1>1, <1>3, <1>4, <1>5 DEF LooksInv, PlacesInv
<1>7. DataInv' /\ CacheInv'
  BY SameData, CacheStays DEF LooksInv
<1>8. AsksInv'
  <2>1. PICK asked : asked = ask
    OBVIOUS
  <2>2. ASSUME NEW p \in Asks PROVE AskFits(asked[p])'
    <3>1. AskFits(asked[p]) /\ (asked[p].at = "wait" => asked[p].key \in (DOMAIN runs)')
      BY <1>1, <1>3, <2>1 DEF LooksInv, AsksInv, AskFits
    <3> QED  BY <3>1, AskStays
  <2> QED  BY <2>1, <2>2 DEF LooksInv, AsksInv
<1> QED  BY <1>6, <1>7, <1>8 DEF LooksInv

\* The ranges a run reads are those of the responses as they are.
LEMMA ReadRangesKeeps ==
  ASSUME LooksInv, NEW key \in DOMAIN runs, Looking!ReadRanges(key)
  PROVE  LooksInv'
<1>1. DataSame /\ cache' = cache /\ running' = running /\ ask' = ask
  BY DEF Looking!ReadRanges, Looking!DataUnchanged, DataSame
<1>2. PICK path, ranges, clean, value :
        /\ runs[key] = [at |-> "ranges", path |-> path, ranges |-> ranges, clean |-> clean, value |-> value]
        /\ path = key[1] /\ PathFits(path)
  BY DEF LooksInv, PlacesInv, RunFits, Looking!ReadRanges
<1>3. PICK run : run = [at |-> "groups", path |-> path, ranges |-> RangesOf(path), clean |-> clean, value |-> value]
  OBVIOUS
<1>4. runs' = [runs EXCEPT ![key] = run]
  <2>1. PICK g : g = RangesOf(path)
    OBVIOUS
  <2>2. runs' = [runs EXCEPT ![key].at = "groups", ![key].ranges = g]
    BY <1>2, <2>1 DEF Looking!ReadRanges, RangesOf
  <2>3. run = [[runs[key] EXCEPT !.at = "groups"] EXCEPT !.ranges = g]
    <3>1. PICK old : old = runs[key]
      OBVIOUS
    <3>2. old = [at |-> "ranges", path |-> path, ranges |-> ranges, clean |-> clean, value |-> value]
      BY <1>2, <3>1
    <3>3. PICK mid : mid = [old EXCEPT !.at = "groups"]
      OBVIOUS
    <3>4. mid = [at |-> "groups", path |-> path, ranges |-> ranges, clean |-> clean, value |-> value]
      BY <3>2, <3>3
    <3>5. [mid EXCEPT !.ranges = g] = [at |-> "groups", path |-> path, ranges |-> g, clean |-> clean, value |-> value]
      BY <3>4
    <3> QED  BY <1>3, <2>1, <3>1, <3>3, <3>5
  <2> QED  BY <2>2, <2>3
<1>5. RunFits(key, run)
  BY <1>2, <1>3 DEF RunFits
<1> QED  BY <1>1, <1>4, <1>5, RunMoves

\* So are the groups it counts, if nothing changed since it read the ranges.
LEMMA CountGroupsKeeps ==
  ASSUME LooksInv, NEW key \in DOMAIN runs, Looking!CountGroups(key)
  PROVE  LooksInv'
<1>1. DataSame /\ cache' = cache /\ running' = running /\ ask' = ask
  BY DEF Looking!CountGroups, Looking!DataUnchanged, DataSame
<1>2. PICK path, ranges, clean, value :
        /\ runs[key] = [at |-> "groups", path |-> path, ranges |-> ranges, clean |-> clean, value |-> value]
        /\ path = key[1] /\ PathFits(path) /\ (clean => ranges = RangesOf(path))
  <2>1. PICK old : old = runs[key] /\ old.at = "groups" /\ RunFits(key, old)
    BY DEF LooksInv, PlacesInv, Looking!CountGroups
  <2>2. old = [at |-> "groups", path |-> key[1], ranges |-> old.ranges, clean |-> old.clean, value |-> old.value]
    BY <2>1 DEF RunFits
  <2>3. PathFits(key[1]) /\ (old.clean => old.ranges = RangesOf(key[1]))
    BY <2>1 DEF RunFits
  <2> QED  BY <2>1, <2>2, <2>3
<1>3. PICK rs, asked, level : rs = Looking!Matching(path) /\ asked = Looking!LevelOf(path)
                              /\ level = Looking!Regrouped(asked, rs)
  OBVIOUS
<1>4. PICK v : v = [bars |-> Looking!Groups(level, ranges, rs),
                    total |-> Looking!Cardinality(rs),
                    answered |-> Looking!Cardinality({r \in rs : Looking!Keys(level, r) # {}}),
                    regrouped |-> level # asked]
  OBVIOUS
<1>5. PICK run : run = [at |-> "rest", path |-> path, ranges |-> ranges, clean |-> clean, value |-> v]
  OBVIOUS
<1>6. runs' = [runs EXCEPT ![key] = run]
  <2>1. runs[key].path = path /\ runs[key].ranges = ranges
    BY <1>2
  <2>2. runs' = [runs EXCEPT ![key].at = "rest", ![key].value = v]
    BY <1>3, <1>4, <2>1 DEF Looking!CountGroups
  <2>3. run = [[runs[key] EXCEPT !.at = "rest"] EXCEPT !.value = v]
    <3>1. PICK old : old = runs[key]
      OBVIOUS
    <3>2. old = [at |-> "groups", path |-> path, ranges |-> ranges, clean |-> clean, value |-> value]
      BY <1>2, <3>1
    <3>3. PICK mid : mid = [old EXCEPT !.at = "rest"]
      OBVIOUS
    <3>4. mid = [at |-> "rest", path |-> path, ranges |-> ranges, clean |-> clean, value |-> value]
      BY <3>2, <3>3
    <3>5. [mid EXCEPT !.value = v] = [at |-> "rest", path |-> path, ranges |-> ranges, clean |-> clean, value |-> v]
      BY <3>4
    <3> QED  BY <1>5, <3>1, <3>3, <3>5
  <2> QED  BY <2>2, <2>3
<1>7. clean => v = ReadNow(path)
  BY <1>2, <1>3, <1>4 DEF ReadNow
<1>8. RunFits(key, run)
  BY <1>2, <1>5, <1>7 DEF RunFits
<1> QED  BY <1>1, <1>6, <1>8, RunMoves

\* A run ends: whoever waits for it is answered, and its place is free.
LEMMA EndRunKeeps ==
  ASSUME LooksInv, DataSame, CacheInv', NEW key \in DOMAIN runs, NEW what, NEW value,
         what = "chart" => GoodChart(key[1], value), what # "segments",
         Looking!EndRun(key, what, value)
  PROVE  LooksInv'
<1>1. PICK old, asked : old = runs /\ asked = ask
  OBVIOUS
<1>2. PICK new : new = [k \in DOMAIN old \ {key} |-> old[k]]
  OBVIOUS
<1>3. runs' = new /\ DOMAIN new = DOMAIN old \ {key}
  BY <1>1, <1>2 DEF Looking!EndRun, Looking!Restrict
<1>4. \A k \in DOMAIN old : RunFits(k, old[k])
  BY <1>1 DEF LooksInv, PlacesInv
<1>5. PlacesInv'
  <2>1. ASSUME NEW k \in DOMAIN new PROVE RunFits(k, new[k])'
    <3>1. RunFits(k, new[k])
      BY <1>2, <1>4
    <3> QED  BY <3>1, RunStays
  <2>2. IsFiniteSet(DOMAIN old) /\ running = Cardinality(DOMAIN old) /\ running <= MaxRunning /\ key \in DOMAIN old
    BY <1>1 DEF LooksInv, PlacesInv
  <2>3. IsFiniteSet(DOMAIN new) /\ Cardinality(DOMAIN new) = running - 1 /\ running \in Nat
    BY <1>3, <2>2, FS_RemoveElement, FS_CardinalityType
  <2>4. running' = running - 1 /\ running - 1 <= MaxRunning
    BY <2>2, <2>3, ChartsAssumed DEF Looking!EndRun
  <2>5. new = [k \in DOMAIN new |-> new[k]]
    BY <1>2
  <2> QED  BY <1>3, <2>1, <2>3, <2>4, <2>5 DEF PlacesInv
<1>6. AsksInv'
  <2>1. PICK then : then = [q \in Asks |->
          IF asked[q].at = "wait" /\ asked[q].key = key
          THEN [at |-> "told", what |-> what, path |-> asked[q].path, value |-> value] ELSE asked[q]]
    OBVIOUS
  <2>2. ask' = then
    BY <1>1, <2>1 DEF Looking!EndRun
  <2>3. ASSUME NEW q \in Asks PROVE AskFits(then[q])'
    <3>1. AskFits(asked[q])
      BY <1>1 DEF LooksInv, AsksInv
    <3>2. CASE asked[q].at = "wait" /\ asked[q].key = key
      <4>1. PICK path : path = asked[q].path
        OBVIOUS
      <4>2. path = key[1]
        BY <3>1, <3>2, <4>1 DEF AskFits
      <4>3. PathFits(path)
        BY <1>1, <1>4, <4>2 DEF RunFits
      <4>4. PICK a : a = [at |-> "told", what |-> what, path |-> path, value |-> value]
        OBVIOUS
      <4>5. AskFits(a)'
        BY <4>2, <4>3, <4>4, ToldFits
      <4>6. then[q] = a
        BY <2>1, <3>2, <4>1, <4>4
      <4> QED  BY <4>5, <4>6
    <3>3. CASE ~(asked[q].at = "wait" /\ asked[q].key = key)
      <4>1. asked[q].at = "wait" => asked[q].key \in DOMAIN new
        BY <1>1, <1>3, <3>1, <3>3 DEF AskFits
      <4>2. AskFits(asked[q])'
        BY <1>3, <3>1, <4>1, AskStays
      <4>3. then[q] = asked[q]
        BY <2>1, <3>3
      <4> QED  BY <4>2, <4>3
    <3> QED  BY <3>2, <3>3
  <2> QED  BY <2>1, <2>2, <2>3 DEF AsksInv
<1>7. DataInv'
  BY SameData DEF LooksInv
<1> QED  BY <1>5, <1>6, <1>7 DEF LooksInv

\* A run is through, its answer is kept and told.
LEMMA FinishKeeps ==
  ASSUME LooksInv, NEW key \in DOMAIN runs, Looking!Finish(key)
  PROVE  LooksInv'
<1>1. DataSame
  BY DEF Looking!Finish, Looking!DataUnchanged, DataSame
<1>2. PICK value : value = Looking!Rest(key)
  OBVIOUS
<1>3. cache' = Looking!Stored(key, value) /\ Looking!EndRun(key, "chart", value)
  BY <1>2 DEF Looking!Finish
<1>4. GoodChart(key[1], value)
  <2>1. PICK run : run = runs[key] /\ RunFits(key, run) /\ run.at = "rest"
    BY DEF LooksInv, PlacesInv, Looking!Finish
  <2>2. run.path = key[1] /\ PathFits(key[1]) /\ (run.clean => run.value = ReadNow(key[1]))
    BY <2>1 DEF RunFits
  <2>3. GoodChart(runs[key].path, Looking!Rest(key))
    BY <2>1, <2>2, RestGood DEF LooksInv
  <2> QED  BY <1>2, <2>1, <2>2, <2>3
<1>5. CacheInv
  <2> QED  BY DEF LooksInv
<1>6. CacheInv'
  <2>1. PICK S : cache \in Seq(S) /\ \A e \in S : EntryFits(e)
    BY <1>5 DEF CacheInv
  <2>2. PICK entry : entry = [key |-> key, at |-> now, value |-> value]
    OBVIOUS
  <2>3. PICK T : T = S \cup {entry}
    OBVIOUS
  <2>4. EntryFits(entry)
    BY <1>4, <2>2 DEF EntryFits
  <2>5. PICK room : room = IF Len(cache) >= MaxCached THEN Tail(cache) ELSE cache
    OBVIOUS
  <2>6. room \in Seq(T)
    <3>1. cache \in Seq(T)
      BY <2>1, <2>3
    <3>2. Len(cache) >= MaxCached => cache # << >>
      BY <2>1, ChartsAssumed
    <3> QED  BY <2>5, <3>1, <3>2
  <2>7. PICK later : later = IF \E i \in DOMAIN room : room[i].key = key
                             THEN [i \in DOMAIN room |-> IF room[i].key = key THEN entry ELSE room[i]]
                             ELSE Append(room, entry)
    OBVIOUS
  <2>8. cache' = later
    BY <1>3, <2>2, <2>5, <2>7 DEF Looking!Stored
  <2>9. later \in Seq(T)
    <3>1. entry \in T
      BY <2>3
    <3>2. CASE \E i \in DOMAIN room : room[i].key = key
      <4>1. later = [i \in 1..Len(room) |-> IF room[i].key = key THEN entry ELSE room[i]]
        BY <2>6, <2>7, <3>2
      <4>2. later \in [1..Len(room) -> T] /\ Len(room) \in Nat
        BY <2>6, <3>1, <4>1
      <4> QED  BY <4>2
    <3>3. CASE ~ \E i \in DOMAIN room : room[i].key = key
      BY <2>6, <2>7, <3>1, <3>3
    <3> QED  BY <3>2, <3>3
  <2>10. \A e \in T : EntryFits(e)'
    BY <1>1, <2>1, <2>3, <2>4, SameData DEF EntryFits
  <2> QED  BY <2>8, <2>9, <2>10 DEF CacheInv
<1> QED  BY <1>1, <1>3, <1>4, <1>6, EndRunKeeps

\* A run is cut off.
LEMMA TooSlowKeeps ==
  ASSUME LooksInv, NEW key \in DOMAIN runs, Looking!TooSlow(key)
  PROVE  LooksInv'
<1>1. DataSame /\ cache' = cache /\ Looking!EndRun(key, "error", None)
  BY DEF Looking!TooSlow, Looking!DataUnchanged, DataSame
<1>2. CacheInv'
  BY <1>1, CacheStays DEF LooksInv
<1> QED  BY <1>1, <1>2, EndRunKeeps

-----------------------------------------------------------------------------
(* Changes of the responses and of the form.                                    *)

\* From a change on, whatever was computed is of the past, and no run is clean that has read.
LEMMA WriteKeeps ==
  ASSUME LooksInv, DataInv', Looking!Write
  PROVE  LooksInv'
<1>1. def' = def /\ running' = running
  BY DEF Looking!Write
<1>2. \A path : PathFits(path) => PathFits(path)'
  BY <1>1 DEF PathFits
<1>3. PICK old, asked, cached : old = runs /\ asked = ask /\ cached = cache
  OBVIOUS
<1>4. PICK new : new = [k \in DOMAIN old |->
         IF old[k].at = "ranges" THEN old[k] ELSE [old[k] EXCEPT !.clean = FALSE]]
  OBVIOUS
<1>5. runs' = new /\ DOMAIN new = DOMAIN old
  BY <1>3, <1>4 DEF Looking!Write
<1>6. PlacesInv'
  <2>1. ASSUME NEW k \in DOMAIN new PROVE RunFits(k, new[k])'
    <3>1. PICK run : run = old[k] /\ RunFits(k, run)
      BY <1>3, <1>5 DEF LooksInv, PlacesInv
    <3>2. PICK at, path, ranges, clean, value :
            /\ run = [at |-> at, path |-> path, ranges |-> ranges, clean |-> clean, value |-> value]
            /\ path = k[1] /\ PathFits(path)
      BY <3>1 DEF RunFits
    <3>3. PICK then : then = new[k]
      OBVIOUS
    <3>6. k \in DOMAIN old /\ run.at = at
      BY <1>5, <3>2
    <3>4. CASE at = "ranges"
      <4>1. then = [at |-> "ranges", path |-> path, ranges |-> ranges, clean |-> clean, value |-> value]
        BY <1>4, <3>1, <3>2, <3>3, <3>4, <3>6
      <4>2. RunFits(k, then)'
        BY <1>2, <3>2, <4>1 DEF RunFits
      <4> QED  BY <3>3, <4>2
    <3>5. CASE at # "ranges"
      <4>1. PICK no : no = FALSE
        OBVIOUS
      <4>2. new = [m \in DOMAIN old |-> IF old[m].at = "ranges" THEN old[m] ELSE [old[m] EXCEPT !.clean = no]]
        BY <1>4, <4>1
      <4>3. then = [run EXCEPT !.clean = no]
        BY <3>1, <3>3, <3>5, <3>6, <4>2
      <4>4. run = [at |-> at, path |-> path, ranges |-> ranges, clean |-> clean, value |-> value]
        BY <3>2
      <4>5. [run EXCEPT !.clean = no]
              = [at |-> at, path |-> path, ranges |-> ranges, clean |-> no, value |-> value]
        BY <4>4
      <4>6. then = [at |-> at, path |-> path, ranges |-> ranges, clean |-> no, value |-> value]
        BY <4>3, <4>5
      <4>7. RunFits(k, then)'
        BY <1>2, <3>2, <4>1, <4>6 DEF RunFits
      <4> QED  BY <3>3, <4>7
    <3> QED  BY <3>4, <3>5
  <2>2. new = [k \in DOMAIN new |-> new[k]]
    BY <1>4
  <2>3. IsFiniteSet(DOMAIN old) /\ running = Cardinality(DOMAIN old) /\ running <= MaxRunning
    BY <1>3 DEF LooksInv, PlacesInv
  <2> QED  BY <1>1, <1>5, <2>1, <2>2, <2>3 DEF PlacesInv
<1>7. CacheInv'
  <2>1. PICK S : cached \in Seq(S) /\ \A e \in S : EntryFits(e)
    BY <1>3 DEF LooksInv, CacheInv
  <2>2. PICK f : f = [e \in S |-> [e EXCEPT !.value = Looking!Past(@)]]
    OBVIOUS
  <2>3. PICK T : T = {f[e] : e \in S}
    OBVIOUS
  <2>4. PICK then : then = [i \in DOMAIN cached |-> [cached[i] EXCEPT !.value = Looking!Past(@)]]
    OBVIOUS
  <2>5. cache' = then
    BY <1>3, <2>4 DEF Looking!Write
  <2>6. then \in Seq(T)
    <3>1. DOMAIN cached = 1..Len(cached) /\ Len(cached) \in Nat /\ \A i \in DOMAIN cached : cached[i] \in S
      BY <2>1
    <3>2. then = [i \in 1..Len(cached) |-> f[cached[i]]]
      BY <2>2, <2>4, <3>1
    <3>3. then \in [1..Len(cached) -> T]
      BY <2>3, <3>1, <3>2
    <3> QED  BY <3>1, <3>3
  <2>7. ASSUME NEW e \in S PROVE EntryFits(f[e])'
    <3>1. PICK key, at, v : e = [key |-> key, at |-> at, value |-> v] /\ GoodChart(key[1], v)
      BY <2>1 DEF EntryFits
    <3>2. PICK past : past = Looking!Past(v)
      OBVIOUS
    <3>3. GoodChart(key[1], past)'
      BY <3>1, <3>2, PastGood DEF GoodChart
    <3>4. PICK then2 : then2 = [key |-> key, at |-> at, value |-> past]
      OBVIOUS
    <3>5. f[e] = then2
      BY <2>2, <3>1, <3>2, <3>4
    <3>6. EntryFits(then2)'
      BY <3>3, <3>4 DEF EntryFits
    <3> QED  BY <3>5, <3>6
  <2>8. \A e \in T : EntryFits(e)'
    BY <2>3, <2>7
  <2> QED  BY <2>5, <2>6, <2>8 DEF CacheInv
<1>8. AsksInv'
  <2>1. PICK then : then = [q \in Asks |->
          IF Looking!Answered(asked[q]) THEN [asked[q] EXCEPT !.value = Looking!Past(@)] ELSE asked[q]]
    OBVIOUS
  <2>2. ask' = then
    BY <1>3, <2>1 DEF Looking!Write
  <2>3. ASSUME NEW q \in Asks PROVE AskFits(then[q])'
    <3>1. PICK a : a = asked[q] /\ AskFits(a)
      BY <1>3 DEF LooksInv, AsksInv
    <3>2. CASE Looking!Answered(a)
      <4>1. PICK what, path, v :
              /\ a = [at |-> "told", what |-> what, path |-> path, value |-> v] /\ PathFits(path)
              /\ what \in {"chart", "segments"} /\ (what = "chart" => GoodChart(path, v))
              /\ what = "segments" => path = << >> /\ GoodSegments(v)
        BY <3>1, <3>2 DEF Looking!Answered, AskFits
      <4>2. PICK past : past = Looking!Past(v)
        OBVIOUS
      <4>3. GoodChart(path, past)' /\ GoodSegments(past)'
        BY <4>1, <4>2, PastGood DEF GoodChart, GoodSegments
      <4>4. PICK b : b = [at |-> "told", what |-> what, path |-> path, value |-> past]
        OBVIOUS
      <4>5. then[q] = b
        <5>1. then[q] = [a EXCEPT !.value = Looking!Past(a.value)]
          BY <2>1, <3>1, <3>2
        <5>2. then[q] = [a EXCEPT !.value = past]
          BY <4>1, <4>2, <5>1
        <5> QED  BY <4>1, <4>4, <5>2
      <4>6. AskFits(b)'
        BY <1>2, <4>1, <4>3, <4>4 DEF AskFits
      <4> QED  BY <4>5, <4>6
    <3>3. CASE ~Looking!Answered(a)
      <4>1. AskFits(a)'
        BY <1>2, <1>3, <1>5, <3>1, <3>3 DEF AskFits, Looking!Answered
      <4>2. then[q] = a
        BY <2>1, <3>1, <3>3
      <4> QED  BY <4>1, <4>2
    <3> QED  BY <3>2, <3>3
  <2> QED  BY <2>1, <2>2, <2>3 DEF AsksInv
<1> QED  BY <1>6, <1>7, <1>8 DEF LooksInv

\* One answer of a response, or where it is, becomes another.
LEMMA AnswerChanges ==
  ASSUME DataInv, NEW r \in Responses, NEW f \in Looking!Fields \cup {"is"}, NEW v,
         f # "is" => IsFiniteSet(v) /\ f # "number",
         resp' = [resp EXCEPT ![r][f] = v], def' = def
  PROVE  DataInv'
<1>1. PICK old : old = resp
  OBVIOUS
<1>2. PICK row : row = [g \in Looking!Fields \cup {"is"} |-> IF g = f THEN v ELSE old[r][g]]
  OBVIOUS
<1>3. PICK new : new = [s \in Responses |-> IF s = r THEN row ELSE old[s]]
  OBVIOUS
<1>4. old = [s \in Responses |-> old[s]] /\ old[r] = [g \in Looking!Fields \cup {"is"} |-> old[r][g]]
  BY <1>1 DEF DataInv
<1>5. [old[r] EXCEPT ![f] = v] = row
  BY <1>2, <1>4
<1>6. resp' = new
  BY <1>1, <1>3, <1>4, <1>5
<1>7. "is" \notin Looking!Fields /\ "number" \in Looking!Fields
  BY DEF Looking!Fields
<1>8. ASSUME NEW s \in Responses
      PROVE  /\ new[s] = [g \in Looking!Fields \cup {"is"} |-> new[s][g]]
             /\ \A g \in Looking!Fields : IsFiniteSet(new[s][g])
             /\ \A n \in new[s]["number"] : Looking!IsNumber(n)
  <2>1. CASE s # r
    BY <1>1, <1>3, <2>1 DEF DataInv
  <2>2. CASE s = r
    <3>1. new[s] = row
      BY <1>3, <2>2
    <3>2. \A g \in Looking!Fields : IsFiniteSet(row[g])
      BY <1>1, <1>2, <1>7 DEF DataInv
    <3>3. row["number"] = old[r]["number"]
      BY <1>2, <1>7
    <3>4. row = [g \in Looking!Fields \cup {"is"} |-> row[g]]
      BY <1>2
    <3> QED  BY <1>1, <3>1, <3>2, <3>3, <3>4 DEF DataInv
  <2> QED  BY <2>1, <2>2
<1>9. def \in Definitions /\ new = [s \in Responses |-> new[s]]
  BY <1>3 DEF DataInv
<1>10. DataInv'
  BY <1>6, <1>8, <1>9 DEF DataInv
<1> QED  BY <1>10

\* A response comes, goes to Trash and back, or to another stage.
LEMMA ChangesKeep ==
  ASSUME LooksInv, NEW r \in Responses,
         Looking!Submit(r) \/ Looking!TrashOrRestore(r) \/ Looking!MoveStage(r)
  PROVE  LooksInv'
<1>1. Looking!Write /\ def' = def
  BY DEF Looking!Submit, Looking!TrashOrRestore, Looking!MoveStage, Looking!Write
<1>2. DataInv'
  <2>1. CASE Looking!Submit(r)
    <3>1. resp' = [resp EXCEPT ![r]["is"] = "live"]
      BY <2>1 DEF Looking!Submit
    <3> QED  BY <1>1, <3>1, AnswerChanges DEF LooksInv
  <2>2. CASE Looking!TrashOrRestore(r)
    <3>1. PICK v : v = IF resp[r]["is"] = "live" THEN "trash" ELSE "live"
      OBVIOUS
    <3>2. resp' = [resp EXCEPT ![r]["is"] = v]
      BY <2>2, <3>1 DEF Looking!TrashOrRestore
    <3> QED  BY <1>1, <3>2, AnswerChanges DEF LooksInv
  <2>3. CASE Looking!MoveStage(r)
    <3>1. PICK s : resp' = [resp EXCEPT ![r]["stage"] = {s}]
      BY <2>3 DEF Looking!MoveStage
    <3>2. IsFiniteSet({s}) /\ "stage" \in Looking!Fields
      BY FS_Singleton DEF Looking!Fields
    <3> QED  BY <1>1, <3>1, <3>2, AnswerChanges DEF LooksInv
  <2> QED  BY <2>1, <2>2, <2>3
<1> QED  BY <1>1, <1>2, WriteKeeps

\* The form loses an option.
LEMMA RemoveOptionKeeps ==
  ASSUME LooksInv, Looking!RemoveOption
  PROVE  LooksInv'
<1>1. Looking!Write /\ def' = def /\ resp' = resp
  BY DEF Looking!RemoveOption, Looking!Write
<1>2. DataInv'
  BY <1>1 DEF LooksInv, DataInv
<1> QED  BY <1>1, <1>2, WriteKeeps

\* Time passes, or nothing happens here.
LEMMA LooksStay ==
  ASSUME LooksInv, DataSame, cache' = cache, runs' = runs, running' = running, ask' = ask
  PROVE  LooksInv'
<1>1. DataInv' /\ CacheInv' /\ PlacesInv'
  BY SameData, CacheStays, PlacesStay DEF LooksInv
<1>2. PICK asked : asked = ask
  OBVIOUS
<1>3. ASSUME NEW p \in Asks PROVE AskFits(asked[p])'
  <2>1. AskFits(asked[p]) /\ (asked[p].at = "wait" => asked[p].key \in (DOMAIN runs)')
    BY <1>2 DEF LooksInv, AsksInv, AskFits
  <2> QED  BY <2>1, AskStays
<1>4. AsksInv'
  BY <1>2, <1>3 DEF LooksInv, AsksInv
<1> QED  BY <1>1, <1>4 DEF LooksInv

\* Nothing is asked for at the start.
LEMMA LooksInit == Looking!Init => LooksInv
<1> SUFFICES ASSUME Looking!Init PROVE LooksInv
  OBVIOUS
<1>1. DataInv
  <2>1. PICK answers \in [Responses -> Sample[def]] :
          resp = [r \in Responses |-> [f \in Looking!Fields \cup {"is"} |->
                    IF f # "is" THEN answers[r][f] ELSE IF r \in Late THEN "none" ELSE "live"]]
    BY DEF Looking!Init
  <2>2. def \in Definitions
    BY DEF Looking!Init
  <2>3. "is" \notin Looking!Fields /\ "number" \in Looking!Fields
    BY DEF Looking!Fields
  <2>4. ASSUME NEW r \in Responses
        PROVE  /\ resp[r] = [f \in Looking!Fields \cup {"is"} |-> resp[r][f]]
               /\ \A f \in Looking!Fields : IsFiniteSet(resp[r][f])
               /\ \A n \in resp[r]["number"] : Looking!IsNumber(n)
    <3>1. PICK a \in Sample[def] : a = answers[r]
      BY <2>1
    <3>2. resp[r] = [f \in Looking!Fields \cup {"is"} |->
                       IF f # "is" THEN a[f] ELSE IF r \in Late THEN "none" ELSE "live"]
      BY <2>1, <3>1
    <3>3. \A f \in Looking!Fields : resp[r][f] = a[f]
      BY <2>3, <3>2
    <3>4. (\A n \in a["number"] : Looking!IsNumber(n)) /\ \A f \in Looking!Fields : IsFiniteSet(a[f])
      BY <2>2, <3>1, ChartsAssumed
    <3>5. resp[r] = [f \in Looking!Fields \cup {"is"} |-> resp[r][f]]
      BY <3>2
    <3> QED  BY <2>3, <3>3, <3>4, <3>5
  <2> QED  BY <2>1, <2>2, <2>4 DEF DataInv
<1>2. PlacesInv
  <2>1. runs = << >> /\ running = 0
    BY DEF Looking!Init
  <2>2. DOMAIN runs = {}
    BY <2>1
  <2>3. runs = [k \in DOMAIN runs |-> runs[k]]
    BY <2>1
  <2> QED  BY <2>1, <2>2, <2>3, FS_EmptySet, ChartsAssumed DEF PlacesInv
<1>3. CacheInv
  <2>1. cache \in Seq({})
    BY DEF Looking!Init
  <2> QED  BY <2>1 DEF CacheInv
<1>4. AsksInv
  BY DEF Looking!Init, AsksInv, AskFits
<1> QED  BY <1>1, <1>2, <1>3, <1>4 DEF LooksInv

\* So with every step of the charts.
LEMMA LooksStep ==
  ASSUME LooksInv, [Looking!ChartsNext]_(Looking!chartsVars)
  PROVE  LooksInv'
<1>1. CASE Looking!ChartsNext
  <2>1. ASSUME NEW q \in Asks, Looking!Ask(q) \/ Looking!Aggregate(q) \/ Looking!Serve(q) PROVE LooksInv'
    BY <2>1, AskKeeps, AggregateKeeps, StampKeeps, ReuseKeeps, JoinKeeps, StartKeeps DEF Looking!Serve
  <2>2. ASSUME NEW key \in DOMAIN runs, Looking!Run(key) \/ Looking!TooSlow(key) PROVE LooksInv'
    BY <2>2, ReadRangesKeeps, CountGroupsKeeps, FinishKeeps, TooSlowKeeps DEF Looking!Run
  <2>3. ASSUME NEW r \in Responses,
               Looking!Submit(r) \/ Looking!TrashOrRestore(r) \/ Looking!MoveStage(r)
        PROVE  LooksInv'
    BY <2>3, ChangesKeep
  <2>4. CASE Looking!RemoveOption
    BY <2>4, RemoveOptionKeeps
  <2>5. CASE Looking!Tick
    BY <2>5, LooksStay DEF Looking!Tick, DataSame
  <2> QED  BY <1>1, <2>1, <2>2, <2>3, <2>4, <2>5 DEF Looking!ChartsNext
<1>2. CASE Looking!chartsVars' = Looking!chartsVars
  BY <1>2, LooksStay DEF Looking!chartsVars, DataSame
<1> QED  BY <1>1, <1>2

\* What is told is right of the chart it was asked for.
LEMMA LooksSound == LooksInv => Looking!ChartsHold
<1> SUFFICES ASSUME LooksInv PROVE Looking!ChartsHold
  OBVIOUS
<1>1. ASSUME NEW q \in Asks, Looking!Current(q)
      PROVE  \E level, rs, bars, whole, cut :
               /\ level = Looking!LevelOf(ask[q].path) /\ rs = Looking!Population(q)
               /\ ask[q].value = [bars |-> bars, whole |-> whole, cut |-> cut]
               /\ Right(level, rs, bars) /\ (~cut => Covers(level, rs, bars))
  <2>1. PICK path, v : path = ask[q].path /\ v = ask[q].value /\ v.whole
    BY <1>1 DEF Looking!Current
  <2>2. ask[q].at = "told" /\ ask[q].what \in {"chart", "segments"} /\ AskFits(ask[q])
    BY <1>1 DEF Looking!Current, Looking!Answered, LooksInv, AsksInv
  <2>3. PICK level, rs : level = Looking!LevelOf(path) /\ rs = Looking!Population(q)
    OBVIOUS
  <2>4. Good(level, rs, v)
    <3>1. CASE ask[q].what = "chart"
      BY <2>1, <2>2, <2>3, <3>1 DEF AskFits, GoodChart, Looking!Population
    <3>2. CASE ask[q].what = "segments"
      <4>1. path = << >> /\ GoodSegments(v)
        BY <2>1, <2>2, <3>2 DEF AskFits
      <4>2. level = def.levels[1]
        BY <2>3, <4>1 DEF Looking!LevelOf
      <4>3. rs = Looking!Live
        BY <2>3, <3>2 DEF Looking!Population
      <4> QED  BY <4>1, <4>2, <4>3 DEF GoodSegments
    <3> QED  BY <2>2, <3>1, <3>2
  <2>5. PICK bars, whole, cut :
          /\ v = [bars |-> bars, whole |-> whole, cut |-> cut]
          /\ whole => Right(level, rs, bars) /\ (~cut => Covers(level, rs, bars))
    BY <2>4 DEF Good
  <2>6. Right(level, rs, bars) /\ (~cut => Covers(level, rs, bars))
    BY <2>1, <2>5
  <2>7. ask[q].value = [bars |-> bars, whole |-> whole, cut |-> cut]
    BY <2>1, <2>5
  <2>8. level = Looking!LevelOf(ask[q].path) /\ rs = Looking!Population(q)
    BY <2>1, <2>3
  <2> QED  BY <2>6, <2>7, <2>8, Zenon
<1>2. Looking!BarsOpenTheirRows
  <2> SUFFICES ASSUME NEW q \in Asks, Looking!Current(q), NEW b \in ask[q].value.bars
               PROVE  b.n = Cardinality(Looking!RowsOf(q, b.bar))
    BY LookCount DEF Looking!BarsOpenTheirRows
  <2>1. PICK level, rs, bars, whole, cut :
          /\ level = Looking!LevelOf(ask[q].path) /\ rs = Looking!Population(q)
          /\ ask[q].value = [bars |-> bars, whole |-> whole, cut |-> cut]
          /\ Right(level, rs, bars)
    BY <1>1
  <2>2. b \in bars
    BY <2>1
  <2>3. Looking!RowsOf(q, b.bar) = {r \in rs : Looking!InFocus(level, b.bar, r)}
    BY <2>1 DEF Looking!RowsOf
  <2> QED  BY <2>1, <2>2, <2>3 DEF Right
<1>3. Looking!EverybodyHasABar
  <2> SUFFICES ASSUME NEW q \in Asks, Looking!Current(q), ~ask[q].value.cut,
                      NEW r \in Looking!Population(q),
                      Looking!Keys(Looking!LevelOf(ask[q].path), r) # {}
               PROVE  \E b \in ask[q].value.bars : r \in Looking!RowsOf(q, b.bar)
    BY DEF Looking!EverybodyHasABar
  <2>1. PICK level, rs, bars, whole, cut :
          /\ level = Looking!LevelOf(ask[q].path) /\ rs = Looking!Population(q)
          /\ ask[q].value = [bars |-> bars, whole |-> whole, cut |-> cut]
          /\ ~cut => Covers(level, rs, bars)
    BY <1>1
  <2>2. PICK b \in bars : Looking!InFocus(level, b.bar, r)
    BY <2>1 DEF Covers
  <2>3. r \in Looking!RowsOf(q, b.bar)
    BY <2>1, <2>2 DEF Looking!RowsOf
  <2> QED  BY <2>1, <2>2, <2>3
<1>4. Looking!PlacesHeld
  BY LookCount DEF LooksInv, PlacesInv, Looking!PlacesHeld
<1>5. Looking!WaitersHaveRuns
  BY DEF LooksInv, AsksInv, AskFits, Looking!WaitersHaveRuns
<1> QED  BY <1>2, <1>3, <1>4, <1>5 DEF Looking!ChartsHold

\* Whatever the form's charts are, and however the responses and the form change meanwhile:
\* as long as nothing changed since it was computed, the number on every bar is the number of
\* responses it opens and nobody who answered is left out unseen; no more runs go on than
\* there are places for, and whoever waits, waits for one of them (chartQuery.ts, chartQuery.service.ts).
THEOREM BarsCount == WorkspaceSpec => []ChartsHold
<1>1. WorkspaceInit => LooksInv
  BY LooksInit DEF WorkspaceInit, Looking!InsightInit
<1>2. LooksInv /\ [WorkspaceNext]_workspaceVars => LooksInv'
  <2>1. [WorkspaceNext]_workspaceVars => [Looking!ChartsNext]_(Looking!chartsVars)
    BY DEF WorkspaceNext, workspaceVars, lookingVars, Looking!chartsVars, Looking!InsightNext,
       Looking!dashboardsOnly
  <2> QED  BY <2>1, LooksStep
<1>3. LooksInv => ChartsHold
  BY LooksSound DEF ChartsHold
<1> QED  BY <1>1, <1>2, <1>3, PTL DEF WorkspaceSpec

-----------------------------------------------------------------------------
\* What follows is of the people of a workspace, whoever they are.
USE AccessAssumption, MembershipAssumption

-----------------------------------------------------------------------------
(* The inductive invariant of the people of a workspace.                       *)

Kinds == {"idle", "send", "resend", "revoke", "decline", "accept"} \cup Managing
Stations == {"idle", "create", "update", "write", "claim", "raise", "sessions",
             "target", "space", "previous", "successor"}
Handlers == [kind : Kinds, at : Stations, who : Users \cup {None}, inv : Invites \cup {None},
             role : Roles \cup Users \cup {None}]
Statuses == {"none", "pending", "accepted", "declined", "revoked", "expired"}
Given == {"admin", "viewer"}
Rows == [status : Statuses, role : Given \cup {None}, past : BOOLEAN]

Typed ==
  /\ owner \in Users
  /\ role \in [Users -> Roles \cup {None}]
  /\ grant \in [Users \X Targets -> {"editor", "viewer", None}]
  /\ invite \in [Invites -> Rows]
  /\ session \subseteq Users
  /\ request \in [Actors -> Handlers]
  /\ uses \in [Invites -> Nat]

\* A handler has what it goes on with.
Fits(q) ==
  /\ q.kind \in {"send", "resend", "revoke", "decline", "accept"} => q.inv \in Invites
  /\ q.kind \in {"send", "accept", "role"} => q.role \in Given
  /\ q.kind \in Managing => q.who \in Users
  /\ q.kind = "transfer" => q.role \in Users /\ q.at \in {"target", "space", "previous"}

\* A row that was sent has a role.
RowsInv ==
  \A i \in Invites : /\ invite[i].past => invite[i].status # "none"
                     /\ invite[i].status # "none" => invite[i].role \in Given

\* Who has claimed an invitation and not yet made the membership.
Making(q, i) == q.kind = "accept" /\ q.at = "create" /\ q.inv = i

\* An invitation that made a membership, or is about to, is open to no other claim.
Spent(i) == invite[i].status \notin {"none", "pending"}
UseInv ==
  \A i \in Invites :
    /\ uses[i] <= 1 /\ (uses[i] = 1 => Spent(i))
    /\ \A a \in Actors : Making(request[a], i) =>
         /\ Spent(i) /\ uses[i] = 0
         /\ \A b \in Actors : Making(request[b], i) => b = a

\* A row somebody works on was sent.
Sent(i) == invite[i].status # "none"
Named(q) == q.kind \in {"resend", "revoke", "decline", "accept"} => Sent(q.inv)

PeopleInv ==
  /\ Typed /\ (\A a \in Actors : Fits(request[a])) /\ RowsInv /\ UseInv
  /\ \A a \in Actors : Named(request[a])

\* With one request about roles under way at a time: what it has read stays true.
Owns(u) == role[u] = "owner"
Rests(q) ==
  /\ q.kind = "role" /\ q.at \in {"write", "raise"} => role[q.who] \notin {"owner", None}
  /\ q.kind = "remove" /\ q.at = "write" => role[q.who] \notin {"owner", None}
  /\ q.kind = "transfer" => /\ q.role # q.who
                            /\ q.at = "target" => role[q.who] # None
                            /\ q.at # "target" => Owns(q.who)
  /\ q.kind = "leave" /\ q.at = "write" =>
       role[q.who] # None /\ \E v \in Users : v # q.who /\ Owns(v)
OwnerInv ==
  /\ \E u \in Users : Owns(u)
  /\ \A a, b \in Actors : request[a].kind \in Managing /\ request[b].kind \in Managing => a = b
  /\ \A a \in Actors : Rests(request[a])

-----------------------------------------------------------------------------
(* Steps of a handler.                                                         *)

\* A handler that is replaced, and the others that stay.
LEMMA Replaced ==
  ASSUME Typed, NEW a \in Actors, NEW q \in Handlers, request' = [request EXCEPT ![a] = q]
  PROVE  /\ request' \in [Actors -> Handlers] /\ request'[a] = q
         /\ \A b \in Actors : b # a => request'[b] = request[b]
BY DEF Typed

\* A free handler does nothing and fits.
LEMMA IdleFits == Idle \in Handlers /\ Fits(Idle) /\ (\A i \in Invites : ~Making(Idle, i)) /\ Named(Idle)'
BY DEF Idle, Handlers, Fits, Kinds, Stations, Managing, Making, Named

\* A handler that goes on is at its next station.
LEMMA GoesOn ==
  ASSUME Typed, NEW a \in Actors, NEW at \in Stations, Go(a, at)
  PROVE  \E q \in Handlers : /\ request' = [request EXCEPT ![a] = q]
                             /\ q.kind = request[a].kind /\ q.at = at /\ q.who = request[a].who
                             /\ q.inv = request[a].inv /\ q.role = request[a].role
<1> DEFINE q == [request[a] EXCEPT !.at = at]
<1>1. request[a] \in Handlers
  BY DEF Typed
<1>2. /\ q \in Handlers /\ q.kind = request[a].kind /\ q.at = at /\ q.who = request[a].who
      /\ q.inv = request[a].inv /\ q.role = request[a].role
  BY <1>1 DEF Handlers
<1>3. request' = [request EXCEPT ![a] = q]
  BY DEF Go
<1> HIDE DEF q
<1> QED  BY <1>2, <1>3

\* A step that makes no membership, and opens no row that was spent.
LEMMA PeopleKept ==
  ASSUME PeopleInv,
         owner' \in Users, role' \in [Users -> Roles \cup {None}],
         grant' \in [Users \X Targets -> {"editor", "viewer", None}],
         invite' \in [Invites -> Rows], session' \subseteq Users,
         NEW a \in Actors, NEW q \in Handlers, Fits(q), \A i \in Invites : ~Making(q, i),
         request' = request \/ request' = [request EXCEPT ![a] = q],
         Named(q)', uses' = uses, RowsInv',
         \A i \in Invites : (Spent(i) => Spent(i)') /\ (Sent(i) => Sent(i)')
  PROVE  PeopleInv'
<1>1. /\ request' \in [Actors -> Handlers]
      /\ \A b \in Actors : request'[b] = request[b] \/ request'[b] = q
  BY Replaced DEF PeopleInv, Typed
<1>2. Typed'
  BY <1>1 DEF PeopleInv, Typed
<1>3. \A b \in Actors : Fits(request'[b])
  BY <1>1 DEF PeopleInv
<1>4. \A b \in Actors, i \in Invites : Making(request'[b], i) => Making(request[b], i)
  BY <1>1
<1>5. UseInv'
  <2> SUFFICES ASSUME NEW i \in Invites
               PROVE  /\ uses[i] <= 1 /\ (uses[i] = 1 => Spent(i)')
                      /\ \A b \in Actors : Making(request'[b], i) =>
                           /\ Spent(i)' /\ uses[i] = 0
                           /\ \A c \in Actors : Making(request'[c], i) => c = b
    BY DEF UseInv, Making
  <2> QED  BY <1>4 DEF PeopleInv, UseInv
<1>6. (\A b \in Actors : Fits(request[b]))'
  BY <1>3 DEF Fits
<1>7. (\A b \in Actors : Named(request[b]))'
  <2> SUFFICES ASSUME NEW b \in Actors, request'[b].kind \in {"resend", "revoke", "decline", "accept"}
               PROVE  invite'[request'[b].inv].status # "none"
    BY DEF Named, Sent
  <2>1. CASE request'[b] = q
    BY <2>1 DEF Named, Sent
  <2>2. CASE request'[b] = request[b]
    BY <2>2 DEF PeopleInv, Named, Fits, Sent
  <2> QED  BY <1>1, <2>1, <2>2
<1> QED  BY <1>2, <1>5, <1>6, <1>7 DEF PeopleInv

\* A handler opens and has written nothing.
LEMMA OpenKeeps ==
  ASSUME PeopleInv, NEW a \in Actors, NEW kind \in Kinds, NEW at \in Stations,
         NEW who \in Users \cup {None}, NEW inv \in Invites \cup {None},
         NEW r \in Roles \cup Users \cup {None},
         Fits([kind |-> kind, at |-> at, who |-> who, inv |-> inv, role |-> r]),
         kind = "accept" => at # "create",
         kind \in {"resend", "revoke", "decline", "accept"} => Sent(inv),
         Open(a, kind, at, who, inv, r), UNCHANGED <<rest, invite>>
  PROVE  PeopleInv'
<1> DEFINE q == [kind |-> kind, at |-> at, who |-> who, inv |-> inv, role |-> r]
<1>1. q \in Handlers /\ Fits(q) /\ \A i \in Invites : ~Making(q, i)
  BY DEF Handlers, Making
<1>2. request' = [request EXCEPT ![a] = q]
  BY DEF Open
<1>3. UNCHANGED <<owner, role, grant, session, uses, invite>>
  BY DEF rest
<1>4. RowsInv' /\ Named(q)' /\ \A i \in Invites : (Spent(i) => Spent(i)') /\ (Sent(i) => Sent(i)')
  BY <1>3 DEF PeopleInv, RowsInv, Spent, Sent, Named
<1> HIDE DEF q
<1> QED  BY <1>1, <1>2, <1>3, <1>4, PeopleKept DEF PeopleInv, Typed

\* Handlers that read before they write, of invitations and of roles.
Opens(a) == \/ Send(a) \/ Resend(a) \/ Revoke(a) \/ Decline(a)
            \/ ChangeRole(a) \/ Remove(a) \/ Transfer(a) \/ Leave(a)
LEMMA OpensKeep ==
  ASSUME PeopleInv, NEW a \in Actors, Opens(a)
  PROVE  PeopleInv'
<1> USE DEF Kinds, Stations, Managing, Fits, Roles, Given, Sent, Pending
<1>1. CASE Send(a)
  <2>1. PICK r \in {"admin", "viewer"}, i \in Invites :
          Open(a, "send", IF Pending(i) THEN "update" ELSE "create", Guest, i, r)
    BY <1>1 DEF Send
  <2> QED  BY <1>1, <2>1, OpenKeeps DEF Send
<1>2. CASE Resend(a)
  BY <1>2, OpenKeeps DEF Resend
<1>3. CASE Revoke(a)
  BY <1>3, OpenKeeps DEF Revoke
<1>4. CASE Decline(a)
  BY <1>4, OpenKeeps DEF Decline
<1>5. CASE ChangeRole(a)
  <2>1. PICK v \in Users, r \in {"admin", "viewer"} :
          Open(a, "role", IF role[v] = "viewer" THEN "raise" ELSE "write", v, None, r)
    BY <1>5 DEF ChangeRole
  <2> QED  BY <1>5, <2>1, OpenKeeps DEF ChangeRole
<1>6. CASE Remove(a)
  BY <1>6, OpenKeeps DEF Remove
<1>7. CASE Transfer(a)
  <2>1. owner \in Users
    BY DEF PeopleInv, Typed
  <2> QED  BY <1>7, <2>1, OpenKeeps DEF Transfer
<1>8. CASE Leave(a)
  BY <1>8, OpenKeeps DEF Leave
<1> QED  BY <1>1, <1>2, <1>3, <1>4, <1>5, <1>6, <1>7, <1>8 DEF Opens

\* What is written to an invitation's row leaves a row.
LEMMA RowWritten ==
  ASSUME PeopleInv, NEW i \in Invites, NEW status \in Statuses \ {"none"},
         invite[i].status # "none", invite' = [invite EXCEPT ![i].status = status],
         Spent(i) => status # "pending"
  PROVE  /\ invite' \in [Invites -> Rows] /\ RowsInv'
         /\ \A j \in Invites : j # i => invite'[j] = invite[j]
         /\ invite'[i].status = status
         /\ \A j \in Invites : (Spent(j) => Spent(j)') /\ (Sent(j) => Sent(j)')
<1> DEFINE row == [invite[i] EXCEPT !.status = status]
<1>1. invite \in [Invites -> Rows] /\ invite[i] \in Rows
  BY DEF PeopleInv, Typed
<1>2. row \in Rows /\ row.status = status /\ row.role = invite[i].role /\ row.past = invite[i].past
  BY <1>1 DEF Rows
<1>3. invite' = [invite EXCEPT ![i] = row]
  OBVIOUS
<1> HIDE DEF row
<1>4. /\ invite' \in [Invites -> Rows] /\ invite'[i] = row
      /\ \A j \in Invites : j # i => invite'[j] = invite[j]
  BY <1>1, <1>2, <1>3
<1>5. RowsInv'
  BY <1>2, <1>4 DEF PeopleInv, RowsInv
<1>6. \A j \in Invites : (Spent(j) => Spent(j)') /\ (Sent(j) => Sent(j)')
  BY <1>2, <1>4 DEF Spent, Sent
<1> QED  BY <1>2, <1>4, <1>5, <1>6

\* Sending writes the row, or leaves it to a pending one.
LEMMA SendWriteKeeps ==
  ASSUME PeopleInv, NEW a \in Actors, SendWrite(a)
  PROVE  PeopleInv'
<1> DEFINE i == request[a].inv
<1>1. request[a].kind = "send" /\ Close(a) /\ UNCHANGED rest
  BY DEF SendWrite
<1>2. i \in Invites /\ request[a].role \in Given /\ invite \in [Invites -> Rows]
  BY <1>1 DEF PeopleInv, Fits, Typed
<1>3. /\ invite' \in [Invites -> Rows] /\ RowsInv'
      /\ \A j \in Invites : (Spent(j) => Spent(j)') /\ (Sent(j) => Sent(j)')
  <2>1. CASE At(a, "send", "update")
    <3> DEFINE row == [invite[i] EXCEPT !.role = request[a].role]
    <3>1. row \in Rows /\ row.status = invite[i].status /\ row.past = invite[i].past /\ row.role \in Given
      BY <1>2 DEF Rows
    <3>2. invite' = [invite EXCEPT ![i] = row]
      BY <2>1 DEF SendWrite, Asked
    <3> HIDE DEF row, i
    <3>3. \A j \in Invites : invite'[j] = IF j = i THEN row ELSE invite[j]
      BY <1>2, <3>2
    <3> QED  BY <1>2, <3>1, <3>2, <3>3 DEF PeopleInv, RowsInv, Spent, Sent
  <2>2. CASE ~At(a, "send", "update") /\ invite' = invite
    BY <1>2, <2>2 DEF PeopleInv, RowsInv, Spent, Sent
  <2>3. CASE ~At(a, "send", "update") /\ invite' # invite
    <3> DEFINE row == [status |-> "pending", role |-> request[a].role, past |-> FALSE]
    <3>1. row \in Rows /\ row.status = "pending" /\ ~row.past /\ row.role \in Given
      BY <1>2 DEF Rows, Statuses
    <3>2. invite' = [invite EXCEPT ![i] = row] /\ invite[i].status = "none"
      BY <2>3 DEF SendWrite, Asked
    <3> HIDE DEF row, i
    <3>3. \A j \in Invites : invite'[j] = IF j = i THEN row ELSE invite[j]
      BY <1>2, <3>2
    <3> QED  BY <1>2, <3>1, <3>2, <3>3 DEF PeopleInv, RowsInv, Spent, Sent
  <2> QED  BY <2>1, <2>2, <2>3
<1>4. UNCHANGED <<owner, role, grant, session, uses>> /\ request' = [request EXCEPT ![a] = Idle]
  BY <1>1 DEF rest, Close
<1> QED  BY <1>3, <1>4, IdleFits, PeopleKept DEF PeopleInv, Typed

\* A handler that ends has written a row, or nothing.
LEMMA EndsKeep ==
  ASSUME PeopleInv, NEW a \in Actors, Close(a), UNCHANGED rest,
         invite' \in [Invites -> Rows], RowsInv',
         \A i \in Invites : (Spent(i) => Spent(i)') /\ (Sent(i) => Sent(i)')
  PROVE  PeopleInv'
<1>1. UNCHANGED <<owner, role, grant, session, uses>> /\ request' = [request EXCEPT ![a] = Idle]
  BY DEF rest, Close
<1> QED  BY <1>1, IdleFits, PeopleKept DEF PeopleInv, Typed

\* Resending, revoking and declining write the row that was read.
LEMMA SaveInviteKeeps ==
  ASSUME PeopleInv, NEW a \in Actors, SaveInvite(a)
  PROVE  PeopleInv'
<1> DEFINE i == request[a].inv
<1>1. request[a].kind \in {"resend", "revoke", "decline"} /\ Close(a) /\ UNCHANGED rest
  BY DEF SaveInvite
<1>2. i \in Invites /\ invite \in [Invites -> Rows] /\ invite[i].status # "none"
  BY <1>1 DEF PeopleInv, Fits, Typed, Named, Sent
<1>3. \/ invite' = invite
      \/ invite' = [invite EXCEPT ![i].status = "revoked"]
      \/ invite' = [invite EXCEPT ![i].status = "declined"]
  BY <1>1 DEF SaveInvite, Asked
<1>4. CASE invite' = invite
  <2>1. invite' \in [Invites -> Rows] /\ RowsInv' /\ \A j \in Invites : (Spent(j) => Spent(j)') /\ (Sent(j) => Sent(j)')
    BY <1>2, <1>4 DEF PeopleInv, RowsInv, Spent, Sent
  <2> QED  BY <1>1, <2>1, EndsKeep
<1>5. ASSUME NEW status \in {"revoked", "declined"}, invite' = [invite EXCEPT ![i].status = status]
      PROVE  PeopleInv'
  <2>1. status \in Statuses \ {"none"} /\ status # "pending"
    BY DEF Statuses
  <2> HIDE DEF i
  <2>2. invite' \in [Invites -> Rows] /\ RowsInv' /\ \A j \in Invites : (Spent(j) => Spent(j)') /\ (Sent(j) => Sent(j)')
    BY <1>2, <1>5, <2>1, RowWritten
  <2> QED  BY <1>1, <2>2, EndsKeep
<1> QED  BY <1>3, <1>4, <1>5

\* A row that passes its expiry.
LEMMA ExpiryKeeps ==
  ASSUME PeopleInv, NEW i \in Invites, PassExpiry(i)
  PROVE  PeopleInv'
<1> DEFINE row == [invite[i] EXCEPT !.past = TRUE]
<1>1. invite \in [Invites -> Rows] /\ invite[i].status = "pending" /\ UNCHANGED <<rest, request>>
  BY DEF PassExpiry, Pending, PeopleInv, Typed
<1>2. row \in Rows /\ row.status = "pending" /\ row.role = invite[i].role
  BY <1>1 DEF Rows
<1>3. invite' = [invite EXCEPT ![i] = row]
  BY DEF PassExpiry
<1> HIDE DEF row
<1>4. /\ invite' \in [Invites -> Rows]
      /\ \A j \in Invites : invite'[j] = IF j = i THEN row ELSE invite[j]
  BY <1>1, <1>2, <1>3
<1>5. RowsInv' /\ \A j \in Invites : (Spent(j) <=> Spent(j)') /\ (Sent(j) <=> Sent(j)')
  BY <1>1, <1>2, <1>4 DEF PeopleInv, RowsInv, Spent, Sent
<1>6. UNCHANGED <<owner, role, grant, session, uses, request>>
  BY <1>1 DEF rest
<1>7. Typed'
  BY <1>4, <1>6 DEF PeopleInv, Typed
<1>8. UseInv'
  BY <1>5, <1>6 DEF PeopleInv, UseInv
<1>9. \A a \in Actors : Named(request[a])' /\ Fits(request[a])'
  BY <1>5, <1>6 DEF PeopleInv, Named, Fits
<1> QED  BY <1>5, <1>7, <1>8, <1>9 DEF PeopleInv

\* An accept is answered at once, or goes on to its claim.
LEMMA AcceptKeeps ==
  ASSUME PeopleInv, NEW a \in Actors, Accept(a)
  PROVE  PeopleInv'
<1>1. UNCHANGED <<owner, role, grant, session, uses>> /\ UNCHANGED rest
  BY DEF Accept, rest
<1>2. PICK i \in Invites :
        /\ Sent(i)
        /\ \/ request' = request /\ invite' = invite
           \/ request' = request /\ Pending(i)
                /\ \E status \in {"accepted", "expired"} : invite' = [invite EXCEPT ![i].status = status]
           \/ Pending(i) /\ Open(a, "accept", "claim", Guest, i, invite[i].role) /\ UNCHANGED invite
  <2>1. PICK i \in Invites :
          /\ invite[i].status # "none"
          /\ IF role[Guest] # None
             THEN invite' = (IF Pending(i) THEN [invite EXCEPT ![i].status = "accepted"] ELSE invite)
                  /\ UNCHANGED request
             ELSE IF Shown(i) = "expired"
             THEN invite' = (IF Pending(i) THEN [invite EXCEPT ![i].status = "expired"] ELSE invite)
                  /\ UNCHANGED request
             ELSE Pending(i) /\ Open(a, "accept", "claim", Guest, i, invite[i].role) /\ UNCHANGED invite
    BY DEF Accept
  <2> QED  BY <2>1 DEF Sent
<1>3. invite \in [Invites -> Rows]
  BY DEF PeopleInv, Typed
<1>4. CASE request' = request /\ invite' = invite
  <2>1. RowsInv' /\ \A j \in Invites : (Spent(j) => Spent(j)') /\ (Sent(j) => Sent(j)')
    BY <1>4 DEF PeopleInv, RowsInv, Spent, Sent
  <2>2. Named(Idle)'
    BY IdleFits
  <2> QED  BY <1>1, <1>3, <1>4, <2>1, <2>2, IdleFits, PeopleKept DEF PeopleInv, Typed
<1>5. ASSUME request' = request, Pending(i), NEW status \in {"accepted", "expired"},
             invite' = [invite EXCEPT ![i].status = status]
      PROVE  PeopleInv'
  <2>1. status \in Statuses \ {"none"} /\ ~Spent(i) /\ invite[i].status # "none"
    BY <1>5 DEF Statuses, Spent, Pending
  <2>2. invite' \in [Invites -> Rows] /\ RowsInv' /\ \A j \in Invites : (Spent(j) => Spent(j)') /\ (Sent(j) => Sent(j)')
    BY <1>5, <2>1, RowWritten
  <2> QED  BY <1>1, <1>5, <2>2, IdleFits, PeopleKept DEF PeopleInv, Typed
<1>6. CASE Pending(i) /\ Open(a, "accept", "claim", Guest, i, invite[i].role) /\ UNCHANGED invite
  <2>1. invite[i].role \in Given
    BY <1>2 DEF PeopleInv, RowsInv, Sent
  <2>2. /\ invite[i].role \in Roles \cup Users \cup {None}
        /\ Fits([kind |-> "accept", at |-> "claim", who |-> Guest, inv |-> i, role |-> invite[i].role])
    BY <2>1 DEF Given, Roles, Fits, Managing
  <2> QED  BY <1>1, <1>2, <1>6, <2>2, OpenKeeps DEF Kinds, Stations
<1> QED  BY <1>2, <1>4, <1>5, <1>6

\* The claim that finds the row pending is the only one.
LEMMA ClaimKeeps ==
  ASSUME PeopleInv, NEW a \in Actors, Claim(a)
  PROVE  PeopleInv'
<1>1. request[a].kind = "accept" /\ request[a].at = "claim" /\ UNCHANGED rest
  BY DEF Claim, At
<1>0. PICK i \in Invites : i = request[a].inv
  BY <1>1 DEF PeopleInv, Fits
<1>2. request[a].role \in Given /\ invite \in [Invites -> Rows] /\ Sent(i)
  BY <1>1, <1>0 DEF PeopleInv, Fits, Typed, Named
<1>3. CASE ~Pending(i)
  <2>1. invite' = invite /\ Close(a)
    BY <1>0, <1>3 DEF Claim, Asked
  <2>2. RowsInv' /\ \A j \in Invites : (Spent(j) => Spent(j)') /\ (Sent(j) => Sent(j)')
    BY <2>1 DEF PeopleInv, RowsInv, Spent, Sent
  <2> QED  BY <1>1, <1>2, <2>1, <2>2, EndsKeep
<1>4. CASE Pending(i)
  <2>1. invite' = [invite EXCEPT ![i].status = "accepted"] /\ Go(a, "create")
    BY <1>0, <1>4 DEF Claim, Asked
  <2>2. PICK q \in Handlers : /\ request' = [request EXCEPT ![a] = q]
                              /\ q.kind = "accept" /\ q.at = "create" /\ q.who = request[a].who
                              /\ q.inv = i /\ q.role = request[a].role
    BY <1>1, <1>0, <2>1, GoesOn DEF PeopleInv, Stations
  <2>3. ~Spent(i) /\ invite[i].status # "none" /\ "accepted" \in Statuses \ {"none"}
    BY <1>4 DEF Spent, Pending, Statuses
  <2>4. /\ invite' \in [Invites -> Rows] /\ RowsInv'
        /\ \A j \in Invites : (Spent(j) => Spent(j)') /\ (Sent(j) => Sent(j)')
        /\ invite'[i].status = "accepted"
    BY <1>2, <2>1, <2>3, RowWritten
  <2>5. /\ request' \in [Actors -> Handlers] /\ request'[a] = q
        /\ \A b \in Actors : b # a => request'[b] = request[b]
    BY <2>2, Replaced DEF PeopleInv
  <2>6. UNCHANGED <<owner, role, grant, session, uses>>
    BY <1>1 DEF rest
  <2>7. Typed'
    BY <2>4, <2>5, <2>6 DEF PeopleInv, Typed
  <2>8. Fits(q) /\ \A b \in Actors : Fits(request'[b])
    BY <1>2, <2>2, <2>5 DEF PeopleInv, Fits, Managing
  <2>9. UseInv'
    <3>1. Spent(i)' /\ uses[i] = 0 /\ \A b \in Actors : ~Making(request[b], i)
      <4>1. uses[i] \in Nat /\ uses[i] <= 1 /\ uses[i] # 1
        BY <2>3 DEF PeopleInv, UseInv, Typed
      <4>2. Spent(i)'
        BY <2>4 DEF Spent
      <4>3. \A b \in Actors : ~Making(request[b], i)
        BY <2>3 DEF PeopleInv, UseInv
      <4> QED  BY <4>1, <4>2, <4>3
    <3>2. \A b \in Actors, j \in Invites : Making(request'[b], j) => (b = a /\ j = i) \/ (j # i /\ Making(request[b], j))
      BY <2>2, <2>5, <3>1 DEF Making
    <3> SUFFICES ASSUME NEW j \in Invites
                 PROVE  /\ uses[j] <= 1 /\ (uses[j] = 1 => Spent(j)')
                        /\ \A b \in Actors : Making(request'[b], j) =>
                             /\ Spent(j)' /\ uses[j] = 0
                             /\ \A c \in Actors : Making(request'[c], j) => c = b
      BY <2>6 DEF UseInv, Making
    <3>3. uses[j] <= 1 /\ (uses[j] = 1 => Spent(j)')
      BY <2>4 DEF PeopleInv, UseInv
    <3>4. CASE j = i
      BY <3>1, <3>2, <3>3, <3>4
    <3>5. CASE j # i
      BY <2>4, <3>2, <3>3, <3>5 DEF PeopleInv, UseInv
    <3> QED  BY <3>4, <3>5
  <2>10. \A b \in Actors : Named(request[b])'
    BY <1>2, <2>2, <2>4, <2>5 DEF PeopleInv, Named, Fits, Sent
  <2> QED  BY <2>4, <2>7, <2>8, <2>9, <2>10 DEF PeopleInv, Fits
<1> QED  BY <1>3, <1>4

\* The membership is made once; its claim is over.
LEMMA CreateKeeps ==
  ASSUME PeopleInv, NEW a \in Actors, Create(a)
  PROVE  PeopleInv'
<1>1. /\ request[a].kind = "accept" /\ request[a].at = "create" /\ Close(a)
      /\ UNCHANGED <<owner, grant, invite, session>>
  BY DEF Create, At
<1>2. PICK i \in Invites : i = request[a].inv
  BY <1>1 DEF PeopleInv, Fits
<1>3. request[a].role \in Given /\ Making(request[a], i) /\ Spent(i) /\ uses[i] = 0
  BY <1>1, <1>2 DEF PeopleInv, Fits, UseInv, Making
<1>4. /\ request' \in [Actors -> Handlers] /\ request'[a] = Idle
      /\ \A b \in Actors : b # a => request'[b] = request[b]
  BY <1>1, IdleFits, Replaced DEF PeopleInv, Close
<1>5. /\ role' \in [Users -> Roles \cup {None}]
      /\ uses' = uses \/ uses' = [uses EXCEPT ![i] = 1]
  <2>1. uses[i] + 1 = 1 /\ request[a].role \in Roles
    BY <1>3 DEF Given, Roles
  <2> QED  BY <1>1, <1>2, <2>1 DEF Create, Asked, PeopleInv, Typed
<1>6. /\ uses' \in [Invites -> Nat] /\ uses'[i] \in {0, 1}
      /\ \A j \in Invites : j # i => uses'[j] = uses[j]
  BY <1>3, <1>5 DEF PeopleInv, Typed
<1>7. Typed'
  BY <1>1, <1>4, <1>5, <1>6 DEF PeopleInv, Typed
<1>8. RowsInv' /\ \A j \in Invites : (Spent(j) <=> Spent(j)') /\ (Sent(j) <=> Sent(j)')
  BY <1>1 DEF PeopleInv, RowsInv, Spent, Sent
<1>9. \A b \in Actors, j \in Invites : Making(request'[b], j) => j # i /\ Making(request[b], j)
  <2> SUFFICES ASSUME NEW b \in Actors, NEW j \in Invites, Making(request'[b], j)
               PROVE  j # i /\ Making(request[b], j)
    OBVIOUS
  <2>1. b # a /\ request'[b] = request[b]
    BY <1>4, IdleFits
  <2> QED  BY <1>3, <2>1 DEF PeopleInv, UseInv
<1>10. UseInv'
  <2> SUFFICES ASSUME NEW j \in Invites
               PROVE  /\ uses'[j] <= 1 /\ (uses'[j] = 1 => Spent(j)')
                      /\ \A b \in Actors : Making(request'[b], j) =>
                           /\ Spent(j)' /\ uses'[j] = 0
                           /\ \A c \in Actors : Making(request'[c], j) => c = b
    BY DEF UseInv, Making
  <2>1. CASE j = i
    BY <1>3, <1>6, <1>8, <1>9, <2>1
  <2>2. CASE j # i
    BY <1>6, <1>8, <1>9, <2>2 DEF PeopleInv, UseInv
  <2> QED  BY <2>1, <2>2
<1>11. \A b \in Actors : Fits(request[b])' /\ Named(request[b])'
  BY <1>4, <1>8, IdleFits DEF PeopleInv, Fits, Named, Sent
<1> QED  BY <1>7, <1>8, <1>10, <1>11 DEF PeopleInv

\* A claim that is given back was the only one.
LEMMA CreateFailsKeeps ==
  ASSUME PeopleInv, NEW a \in Actors, CreateFails(a)
  PROVE  PeopleInv'
<1>1. /\ request[a].kind = "accept" /\ request[a].at = "create" /\ Close(a)
      /\ UNCHANGED <<owner, role, grant, session, uses>>
  BY DEF CreateFails, At
<1>2. PICK i \in Invites : i = request[a].inv
  BY <1>1 DEF PeopleInv, Fits
<1>3. Making(request[a], i) /\ Spent(i) /\ uses[i] = 0 /\ Sent(i) /\ invite \in [Invites -> Rows]
  BY <1>1, <1>2 DEF PeopleInv, Fits, UseInv, Making, Named, Typed
<1>4. /\ request' \in [Actors -> Handlers] /\ request'[a] = Idle
      /\ \A b \in Actors : b # a => request'[b] = request[b]
  BY <1>1, IdleFits, Replaced DEF PeopleInv, Close
<1>5. \/ invite' = invite
      \/ invite' = [invite EXCEPT ![i].status = "pending"]
  BY <1>2 DEF CreateFails, Asked
<1>6. /\ invite' \in [Invites -> Rows] /\ RowsInv'
      /\ \A j \in Invites : j # i => invite'[j] = invite[j]
      /\ \A j \in Invites : Sent(j) => Sent(j)'
  <2>1. CASE invite' = invite
    BY <1>3, <2>1 DEF PeopleInv, RowsInv, Sent
  <2>2. CASE invite' = [invite EXCEPT ![i].status = "pending"]
    <3> DEFINE row == [invite[i] EXCEPT !.status = "pending"]
    <3>1. row \in Rows /\ row.status = "pending" /\ row.role = invite[i].role /\ row.past = invite[i].past
      BY <1>3 DEF Rows, Statuses
    <3>2. invite' = [invite EXCEPT ![i] = row]
      BY <2>2
    <3> HIDE DEF row
    <3>3. \A j \in Invites : invite'[j] = IF j = i THEN row ELSE invite[j]
      BY <1>3, <3>2
    <3> QED  BY <1>3, <3>1, <3>2, <3>3 DEF PeopleInv, RowsInv, Sent
  <2> QED  BY <1>5, <2>1, <2>2
<1>7. Typed'
  BY <1>1, <1>4, <1>6 DEF PeopleInv, Typed
<1>8. \A b \in Actors, j \in Invites : Making(request'[b], j) => j # i /\ Making(request[b], j)
  <2> SUFFICES ASSUME NEW b \in Actors, NEW j \in Invites, Making(request'[b], j)
               PROVE  j # i /\ Making(request[b], j)
    OBVIOUS
  <2>1. b # a /\ request'[b] = request[b]
    BY <1>4, IdleFits
  <2> QED  BY <1>3, <2>1 DEF PeopleInv, UseInv
<1>9. UseInv'
  <2> SUFFICES ASSUME NEW j \in Invites
               PROVE  /\ uses[j] <= 1 /\ (uses[j] = 1 => Spent(j)')
                      /\ \A b \in Actors : Making(request'[b], j) =>
                           /\ Spent(j)' /\ uses[j] = 0
                           /\ \A c \in Actors : Making(request'[c], j) => c = b
    BY <1>1 DEF UseInv, Making
  <2>1. CASE j = i
    BY <1>3, <1>8, <2>1
  <2>2. CASE j # i
    <3>1. Spent(j) <=> Spent(j)'
      BY <1>6, <2>2 DEF Spent
    <3> QED  BY <1>8, <2>2, <3>1 DEF PeopleInv, UseInv
  <2> QED  BY <2>1, <2>2
<1>10. \A b \in Actors : Fits(request[b])' /\ Named(request[b])'
  <2>1. \A b \in Actors : Fits(request'[b])
    BY <1>4, IdleFits DEF PeopleInv
  <2>2. ASSUME NEW b \in Actors, request'[b].kind \in {"resend", "revoke", "decline", "accept"}
        PROVE  invite'[request'[b].inv].status # "none"
    BY <1>4, <1>6, <2>2 DEF PeopleInv, Fits, Named, Sent, Idle
  <2> QED  BY <2>1, <2>2 DEF Fits, Named, Sent
<1> QED  BY <1>6, <1>7, <1>9, <1>10 DEF PeopleInv

\* A request about roles that goes on or ends.
LEMMA RolesKeep ==
  ASSUME PeopleInv, NEW a \in Actors, UNCHANGED <<grant, invite, uses>>,
         owner' \in Users, role' \in [Users -> Roles \cup {None}], session' \subseteq Users,
         \/ Close(a)
         \/ /\ request[a].kind \in Managing
            /\ \E at \in Stations : Go(a, at) /\ (request[a].kind = "transfer" => at \in {"space", "previous"})
  PROVE  PeopleInv'
<1>1. /\ grant' \in [Users \X Targets -> {"editor", "viewer", None}]
      /\ invite' \in [Invites -> Rows] /\ RowsInv'
      /\ \A i \in Invites : (Spent(i) => Spent(i)') /\ (Sent(i) => Sent(i)')
  BY DEF PeopleInv, Typed, RowsInv, Spent, Sent
<1>2. CASE Close(a)
  <2>1. request' = [request EXCEPT ![a] = Idle]
    BY <1>2 DEF Close
  <2> QED  BY <1>1, <2>1, IdleFits, PeopleKept
<1>3. ASSUME request[a].kind \in Managing, NEW at \in Stations, Go(a, at),
             request[a].kind = "transfer" => at \in {"space", "previous"}
      PROVE  PeopleInv'
  <2>1. PICK q \in Handlers : /\ request' = [request EXCEPT ![a] = q]
                              /\ q.kind = request[a].kind /\ q.at = at /\ q.who = request[a].who
                              /\ q.inv = request[a].inv /\ q.role = request[a].role
    BY <1>3, GoesOn DEF PeopleInv
  <2>2. Fits(request[a])
    BY DEF PeopleInv
  <2>3. Fits(q)
    BY <1>3, <2>1, <2>2 DEF Fits, Managing
  <2>4. (\A i \in Invites : ~Making(q, i)) /\ Named(q)'
    BY <1>3, <2>1 DEF Managing, Making, Named
  <2> QED  BY <1>1, <2>1, <2>3, <2>4, PeopleKept
<1> QED  BY <1>2, <1>3

\* Handlers about roles, at their writes.
Writes(a) == ChangeRoleWrite(a) \/ RemoveWrite(a) \/ TransferWrite(a) \/ LeaveWrite(a)
LEMMA WritesKeep ==
  ASSUME PeopleInv, NEW a \in Actors, Writes(a)
  PROVE  PeopleInv'
<1> USE DEF Managing, Stations
<1>1. /\ owner \in Users /\ role \in [Users -> Roles \cup {None}] /\ session \subseteq Users
      /\ Fits(request[a])
  BY DEF PeopleInv, Typed
<1>2. CASE ChangeRoleWrite(a)
  <2>1. /\ request[a].kind = "role" /\ request[a].role \in Roles
        /\ UNCHANGED <<owner, grant, invite, session, uses>>
        /\ Close(a) \/ Go(a, "sessions")
    BY <1>1, <1>2 DEF ChangeRoleWrite, At, Fits, Given, Roles
  <2>2. role' \in [Users -> Roles \cup {None}]
    BY <1>1, <1>2, <2>1 DEF ChangeRoleWrite, Asked
  <2> QED  BY <1>1, <2>1, <2>2, RolesKeep
<1>3. CASE RemoveWrite(a)
  <2>1. /\ request[a].kind = "remove" /\ UNCHANGED <<owner, grant, invite, session, uses>>
        /\ Go(a, "sessions") /\ role' = [role EXCEPT ![request[a].who] = None]
    BY <1>3 DEF RemoveWrite, At, Asked
  <2>2. role' \in [Users -> Roles \cup {None}]
    BY <1>1, <2>1
  <2> QED  BY <1>1, <2>1, <2>2, RolesKeep
<1>4. CASE TransferWrite(a)
  <2>1. /\ request[a].kind = "transfer" /\ UNCHANGED <<grant, invite, session, uses>>
        /\ request[a].who \in Users /\ request[a].at \in {"target", "space", "previous"}
    BY <1>1, <1>4 DEF TransferWrite, Fits
  <2>2. /\ Go(a, "space") \/ Go(a, "previous") \/ Close(a)
        /\ owner' \in {owner, request[a].who}
    BY <1>4, <2>1 DEF TransferWrite, Asked
  <2>3. role' \in [Users -> Roles \cup {None}]
    BY <1>1, <1>4, <2>1 DEF TransferWrite, Asked, Roles
  <2> QED  BY <1>1, <2>1, <2>2, <2>3, RolesKeep
<1>5. CASE LeaveWrite(a)
  <2>1. /\ request[a].kind = "leave" /\ UNCHANGED <<owner, grant, invite, session, uses>>
        /\ Go(a, "successor") \/ Close(a)
        /\ role' = [role EXCEPT ![request[a].who] = None]
    BY <1>5 DEF LeaveWrite, At, Asked
  <2>2. role' \in [Users -> Roles \cup {None}]
    BY <1>1, <2>1
  <2> QED  BY <1>1, <2>1, <2>2, RolesKeep
<1> QED  BY <1>2, <1>3, <1>4, <1>5 DEF Writes

\* Handlers at their end: the sessions they cut, the successor they name, and those cut short.
Ends(a) == CutSessions(a) \/ Successor(a) \/ Crash(a)
LEMMA LastsKeep ==
  ASSUME PeopleInv, NEW a \in Actors, Ends(a)
  PROVE  PeopleInv'
<1>1. owner \in Users /\ role \in [Users -> Roles \cup {None}] /\ session \subseteq Users
  BY DEF PeopleInv, Typed
<1>2. Close(a) /\ UNCHANGED <<grant, invite, uses, role>>
  BY DEF Ends, CutSessions, Successor, Crash
<1>3. session' \subseteq Users /\ owner' \in Users
  BY <1>1 DEF Ends, CutSessions, Successor, Crash
<1> QED  BY <1>1, <1>2, <1>3, RolesKeep

\* What no handler of this module does: a sign-in, a share, a missing row given back.
Besides == \/ \E u \in Users : SignIn(u)
           \/ \E u \in Users, f \in Targets, r \in {"editor", "viewer", None} : Share(u, f, r)
           \/ Heal
LEMMA BesidesKeep ==
  ASSUME PeopleInv, Besides
  PROVE  PeopleInv'
<1>1. UNCHANGED <<owner, invite, request, uses>>
  BY DEF Besides, SignIn, Share, Heal
<1>2. /\ owner \in Users /\ role \in [Users -> Roles \cup {None}] /\ session \subseteq Users
      /\ grant \in [Users \X Targets -> {"editor", "viewer", None}]
  BY DEF PeopleInv, Typed
<1>3. /\ role' \in [Users -> Roles \cup {None}] /\ session' \subseteq Users
      /\ grant' \in [Users \X Targets -> {"editor", "viewer", None}]
  BY <1>2 DEF Besides, SignIn, Share, Heal, Roles
<1>4. Typed'
  BY <1>1, <1>3 DEF PeopleInv, Typed
<1>5. RowsInv' /\ UseInv' /\ \A a \in Actors : Fits(request[a])' /\ Named(request[a])'
  BY <1>1 DEF PeopleInv, RowsInv, UseInv, Spent, Making, Fits, Named, Sent
<1> QED  BY <1>4, <1>5 DEF PeopleInv

LEMMA PeopleInit == Init => PeopleInv
<1> SUFFICES ASSUME Init PROVE PeopleInv
  OBVIOUS
<1>1. /\ owner \in Users /\ role \in [Users -> Roles \cup {None}]
      /\ grant \in [Users \X Targets -> {"editor", "viewer", None}] /\ session \subseteq Users
      /\ uses \in [Invites -> Nat]
  BY DEF Init, Roles
<1>2. invite \in [Invites -> Rows] /\ \A i \in Invites : invite[i] = NoInvite
  BY DEF Init, NoInvite, Rows, Statuses
<1>3. request \in [Actors -> Handlers] /\ \A a \in Actors : request[a] = Idle
  BY IdleFits DEF Init
<1>4. RowsInv
  BY <1>2 DEF RowsInv, NoInvite
<1>5. \A a \in Actors : Fits(request[a]) /\ Named(request[a]) /\ \A i \in Invites : ~Making(request[a], i)
  BY <1>3 DEF Fits, Named, Making, Idle, Managing
<1>6. UseInv
  BY <1>5 DEF UseInv, Init
<1> QED  BY <1>1, <1>2, <1>3, <1>4, <1>5, <1>6 DEF PeopleInv, Typed

\* Every step keeps the invariant.
LEMMA PeopleStep == PeopleInv /\ [Next]_vars => PeopleInv'
<1> SUFFICES ASSUME PeopleInv, [Next]_vars PROVE PeopleInv'
  OBVIOUS
<1>1. CASE UNCHANGED vars
  BY <1>1 DEF vars, PeopleInv, Typed, RowsInv, UseInv, Spent, Making, Fits, Named, Sent
<1>2. ASSUME NEW a \in Actors,
             \/ Opens(a) \/ SendWrite(a) \/ SaveInvite(a) \/ Accept(a) \/ Claim(a) \/ Create(a)
             \/ CreateFails(a) \/ Writes(a) \/ Ends(a)
      PROVE  PeopleInv'
  BY <1>2, OpensKeep, SendWriteKeeps, SaveInviteKeeps, AcceptKeeps, ClaimKeeps, CreateKeeps,
     CreateFailsKeeps, WritesKeep, LastsKeep
<1>3. CASE \E i \in Invites : PassExpiry(i)
  BY <1>3, ExpiryKeeps
<1>4. CASE Besides
  BY <1>4, BesidesKeep
<1> QED  BY <1>1, <1>2, <1>3, <1>4 DEF Next, Opens, Writes, Ends, Besides

-----------------------------------------------------------------------------
(* The workspace keeps an owner when requests about roles do not overlap.       *)

\* A step that takes nobody's role.
LEMMA NoneLost ==
  ASSUME PeopleInv, OwnerInv, \A u \in Users : role[u] # None => role'[u] = role[u],
         NEW a \in Actors, NEW q \in Handlers, q.kind \notin Managing,
         request' = request \/ request' = [request EXCEPT ![a] = q]
  PROVE  OwnerInv'
<1>1. \E u \in Users : Owns(u)'
  BY DEF OwnerInv, Owns
<1>2. \A b \in Actors : request'[b] = request[b] \/ request'[b].kind \notin Managing
  BY Replaced DEF PeopleInv
<1>3. (\A b, c \in Actors : request[b].kind \in Managing /\ request[c].kind \in Managing => b = c)'
  BY <1>2 DEF OwnerInv
<1>4. ASSUME NEW b \in Actors PROVE Rests(request[b])'
  <2>1. CASE request'[b].kind \notin Managing
    BY <2>1 DEF Rests, Managing
  <2>2. CASE request'[b] = request[b] /\ request[b].kind \in Managing
    <3>1. request[b].who \in Users /\ Rests(request[b])
      BY <2>2 DEF PeopleInv, OwnerInv, Fits
    <3> QED  BY <2>2, <3>1 DEF Rests, Owns
  <2> QED  BY <1>2, <2>1, <2>2
<1> QED  BY <1>1, <1>3, <1>4 DEF OwnerInv

\* A step of the one request about roles.
LEMMA OneWrites ==
  ASSUME PeopleInv, OwnerInv, NEW a \in Actors, \A b \in Actors : b # a => request[b].kind \notin Managing,
         NEW q \in Handlers, request' = [request EXCEPT ![a] = q], Rests(q)',
         \E u \in Users : Owns(u)'
  PROVE  OwnerInv'
<1>1. request'[a] = q /\ \A b \in Actors : b # a => request'[b] = request[b]
  BY Replaced DEF PeopleInv
<1>2. (\A b, c \in Actors : request[b].kind \in Managing /\ request[c].kind \in Managing => b = c)'
  BY <1>1
<1>3. ASSUME NEW b \in Actors PROVE Rests(request[b])'
  <2>1. CASE b # a
    BY <1>1, <2>1 DEF Rests, Managing
  <2>2. CASE b = a
    BY <1>1, <2>2 DEF Rests
  <2> QED  BY <2>1, <2>2
<1> QED  BY <1>2, <1>3 DEF OwnerInv

\* Who is not the only owner leaves another one behind.
LEMMA OtherOwner ==
  ASSUME PeopleInv, NEW u \in Users, Cardinality({v \in Users : role[v] = "owner"}) > 1
  PROVE  \E v \in Users : v # u /\ Owns(v)
<1> SUFFICES ASSUME \A v \in Users : v # u => ~Owns(v) PROVE FALSE
  OBVIOUS
<1>1. {v \in Users : role[v] = "owner"} \subseteq {u}
  BY DEF Owns
<1>2. IsFiniteSet({u}) /\ Cardinality({u}) = 1
  BY FS_Singleton
<1>3. /\ Cardinality({v \in Users : role[v] = "owner"}) <= 1
      /\ Cardinality({v \in Users : role[v] = "owner"}) \in Nat
  BY <1>1, <1>2, FS_Subset, FS_CardinalityType
<1> QED  BY <1>3

\* A request about roles opens on what holds.
LEMMA OneOpens ==
  ASSUME PeopleInv, OwnerInv, NEW a \in Actors, OneManager,
         ChangeRole(a) \/ Remove(a) \/ Transfer(a) \/ Leave(a)
  PROVE  OwnerInv'
<1>1. /\ \A b \in Actors : request[b].kind \notin Managing
      /\ UNCHANGED role
  BY DEF ChangeRole, Remove, Transfer, Leave, ToManage, rest
<1>2. \E u \in Users : Owns(u)'
  BY <1>1 DEF OwnerInv, Owns
<1>3. PICK q \in Handlers : request' = [request EXCEPT ![a] = q] /\ Rests(q)
  <2> USE DEF Handlers, Kinds, Stations, Managing, Roles
  <2>1. CASE ChangeRole(a)
    <3>1. PICK v \in Users, r \in {"admin", "viewer"} :
            /\ role[v] # None /\ role[v] # "owner"
            /\ Open(a, "role", IF role[v] = "viewer" THEN "raise" ELSE "write", v, None, r)
      BY <2>1 DEF ChangeRole, IsOwner
    <3> DEFINE p == [kind |-> "role", at |-> IF role[v] = "viewer" THEN "raise" ELSE "write",
                     who |-> v, inv |-> None, role |-> r]
    <3>2. p \in Handlers /\ Rests(p) /\ request' = [request EXCEPT ![a] = p]
      BY <3>1 DEF Rests, Open
    <3> QED  BY <3>2
  <2>2. CASE Remove(a)
    <3>1. PICK v \in Users : /\ role[v] # None /\ role[v] # "owner"
                             /\ Open(a, "remove", "write", v, None, None)
      BY <2>2 DEF Remove, IsOwner
    <3> DEFINE p == [kind |-> "remove", at |-> "write", who |-> v, inv |-> None, role |-> None]
    <3>2. p \in Handlers /\ Rests(p) /\ request' = [request EXCEPT ![a] = p]
      BY <3>1 DEF Rests, Open
    <3> QED  BY <3>2
  <2>3. CASE Transfer(a)
    <3>1. PICK v \in Users : /\ role[v] # None /\ v # owner
                             /\ Open(a, "transfer", "target", v, None, owner)
      BY <2>3 DEF Transfer
    <3> DEFINE p == [kind |-> "transfer", at |-> "target", who |-> v, inv |-> None, role |-> owner]
    <3>2. owner \in Users
      BY DEF PeopleInv, Typed
    <3>3. p \in Handlers /\ Rests(p) /\ request' = [request EXCEPT ![a] = p]
      BY <3>1, <3>2 DEF Rests, Open
    <3> QED  BY <3>3
  <2>4. CASE Leave(a)
    <3>1. PICK u \in Users : /\ role[u] # None
                             /\ role[u] = "owner" => Cardinality({v \in Users : role[v] = "owner"}) > 1
                             /\ Open(a, "leave", "write", u, None, None)
      BY <2>4 DEF Leave
    <3> DEFINE p == [kind |-> "leave", at |-> "write", who |-> u, inv |-> None, role |-> None]
    <3>2. \E v \in Users : v # u /\ Owns(v)
      BY <3>1, OtherOwner DEF OwnerInv, Owns
    <3>3. p \in Handlers /\ Rests(p) /\ request' = [request EXCEPT ![a] = p]
      BY <3>1, <3>2 DEF Rests, Open
    <3> QED  BY <3>3
  <2> QED  BY <2>1, <2>2, <2>3, <2>4
<1>4. Rests(q)'
  BY <1>1, <1>3 DEF Rests, Owns
<1> QED  BY <1>1, <1>2, <1>3, <1>4, OneWrites

\* Each write of a request about roles leaves an owner.
LEMMA OneCloses ==
  ASSUME PeopleInv, OwnerInv, NEW a \in Actors, Writes(a)
  PROVE  OwnerInv'
<1> USE DEF Managing, Stations
<1>1. /\ role \in [Users -> Roles \cup {None}] /\ Fits(request[a]) /\ Rests(request[a])
      /\ \E u \in Users : Owns(u)
  BY DEF PeopleInv, Typed, OwnerInv
<1>2. request[a].kind \in Managing /\ \A b \in Actors : b # a => request[b].kind \notin Managing
  BY DEF Writes, ChangeRoleWrite, RemoveWrite, TransferWrite, LeaveWrite, At, OwnerInv
<1>3. request[a].who \in Users
  BY <1>1, <1>2 DEF Fits
<1>4. ASSUME NEW at \in Stations, Go(a, at)
      PROVE  \E q \in Handlers : /\ request' = [request EXCEPT ![a] = q]
                                 /\ q.kind = request[a].kind /\ q.at = at /\ q.who = request[a].who
                                 /\ q.role = request[a].role
  BY <1>4, GoesOn DEF PeopleInv
<1>5. /\ Rests(Idle)'
      /\ Close(a) => request' = [request EXCEPT ![a] = Idle]
  BY DEF Rests, Idle, Close
<1>6. CASE ChangeRoleWrite(a)
  <2>1. /\ request[a].kind = "role" /\ request[a].at \in {"write", "raise"}
        /\ \A u \in Users : u # request[a].who => role'[u] = role[u]
        /\ Close(a) \/ Go(a, "sessions")
    BY <1>1, <1>6 DEF ChangeRoleWrite, At, Asked
  <2>2. \E u \in Users : Owns(u)'
    BY <1>1, <1>3, <2>1 DEF Rests, Owns
  <2>3. CASE Close(a)
    BY <1>2, <1>5, <2>2, <2>3, IdleFits, OneWrites
  <2>4. CASE Go(a, "sessions")
    <3>1. PICK q \in Handlers : /\ request' = [request EXCEPT ![a] = q]
                                /\ q.kind = request[a].kind /\ q.at = "sessions"
      BY <1>4, <2>4
    <3>2. Rests(q)'
      BY <2>1, <3>1 DEF Rests
    <3> QED  BY <1>2, <2>2, <3>1, <3>2, OneWrites
  <2> QED  BY <2>1, <2>3, <2>4
<1>7. CASE RemoveWrite(a)
  <2>1. /\ request[a].kind = "remove" /\ request[a].at = "write" /\ Go(a, "sessions")
        /\ \A u \in Users : u # request[a].who => role'[u] = role[u]
    BY <1>1, <1>7 DEF RemoveWrite, At, Asked
  <2>2. \E u \in Users : Owns(u)'
    BY <1>1, <1>3, <2>1 DEF Rests, Owns
  <2>3. PICK q \in Handlers : /\ request' = [request EXCEPT ![a] = q]
                              /\ q.kind = request[a].kind /\ q.at = "sessions"
    BY <1>4, <2>1
  <2>4. Rests(q)'
    BY <2>1, <2>3 DEF Rests
  <2> QED  BY <1>2, <2>2, <2>3, <2>4, OneWrites
<1>8. CASE LeaveWrite(a)
  <2>1. /\ request[a].kind = "leave" /\ request[a].at = "write"
        /\ Go(a, "successor") \/ Close(a)
        /\ \A u \in Users : u # request[a].who => role'[u] = role[u]
    BY <1>1, <1>8 DEF LeaveWrite, At, Asked
  <2>2. \E u \in Users : Owns(u)'
    BY <1>1, <1>3, <2>1 DEF Rests, Owns
  <2>3. CASE Close(a)
    BY <1>2, <1>5, <2>2, <2>3, IdleFits, OneWrites
  <2>4. CASE Go(a, "successor")
    <3>1. PICK q \in Handlers : /\ request' = [request EXCEPT ![a] = q]
                                /\ q.kind = request[a].kind /\ q.at = "successor"
      BY <1>4, <2>4
    <3>2. Rests(q)'
      BY <2>1, <3>1 DEF Rests
    <3> QED  BY <1>2, <2>2, <3>1, <3>2, OneWrites
  <2> QED  BY <2>1, <2>3, <2>4
<1>9. CASE TransferWrite(a)
  <2>1. /\ request[a].kind = "transfer" /\ request[a].role \in Users
        /\ request[a].at \in {"target", "space", "previous"} /\ request[a].role # request[a].who
    BY <1>1, <1>9 DEF TransferWrite, Fits, Rests
  <2>2. CASE request[a].at = "target"
    <3>1. role[request[a].who] # None
      BY <1>1, <2>1, <2>2 DEF Rests
    <3>2. role' = [role EXCEPT ![request[a].who] = "owner"] /\ Go(a, "space")
      BY <1>9, <2>2, <3>1 DEF TransferWrite, Asked
    <3>3. role'[request[a].who] = "owner"
      BY <1>1, <1>3, <3>2
    <3>4. PICK q \in Handlers : /\ request' = [request EXCEPT ![a] = q]
                                /\ q.kind = request[a].kind /\ q.at = "space"
                                /\ q.who = request[a].who /\ q.role = request[a].role
      BY <1>4, <3>2
    <3>5. Rests(q)'
      BY <2>1, <3>3, <3>4 DEF Rests, Owns
    <3> QED  BY <1>2, <1>3, <3>3, <3>4, <3>5, OneWrites DEF Owns
  <2>3. CASE request[a].at = "space"
    <3>1. role' = role /\ Go(a, "previous") /\ role[request[a].who] = "owner"
      BY <1>1, <1>9, <2>1, <2>3 DEF TransferWrite, Asked, Rests, Owns
    <3>2. PICK q \in Handlers : /\ request' = [request EXCEPT ![a] = q]
                                /\ q.kind = request[a].kind /\ q.at = "previous"
                                /\ q.who = request[a].who /\ q.role = request[a].role
      BY <1>4, <3>1
    <3>3. Rests(q)'
      BY <2>1, <3>1, <3>2 DEF Rests, Owns
    <3> QED  BY <1>2, <1>3, <3>1, <3>2, <3>3, OneWrites DEF Owns
  <2>4. CASE request[a].at = "previous"
    <3>1. /\ role' = [role EXCEPT ![request[a].role] = IF @ = None THEN None ELSE "admin"]
          /\ Close(a) /\ role[request[a].who] = "owner"
      BY <1>1, <1>9, <2>1, <2>4 DEF TransferWrite, Asked, Rests, Owns
    <3>2. role'[request[a].who] = "owner"
      BY <1>1, <1>3, <2>1, <3>1
    <3> QED  BY <1>2, <1>3, <1>5, <3>1, <3>2, IdleFits, OneWrites DEF Owns
  <2> QED  BY <2>1, <2>2, <2>3, <2>4
<1> QED  BY <1>6, <1>7, <1>8, <1>9 DEF Writes

LEMMA OwnerInit == Init => OwnerInv
BY DEF Init, OwnerInv, Owns, Rests, Idle, Managing, Roles

\* Every step keeps an owner.
LEMMA OwnerStep ==
  ASSUME OneManager
  PROVE  PeopleInv /\ OwnerInv /\ [Next]_vars => OwnerInv'
<1> SUFFICES ASSUME PeopleInv, OwnerInv, [Next]_vars PROVE OwnerInv'
  OBVIOUS
<1>1. CASE UNCHANGED vars
  BY <1>1 DEF vars, OwnerInv, Owns, Rests
<1>2. ASSUME NEW a \in Actors, ChangeRole(a) \/ Remove(a) \/ Transfer(a) \/ Leave(a)
      PROVE  OwnerInv'
  BY <1>2, OneOpens
<1>3. ASSUME NEW a \in Actors, Writes(a)
      PROVE  OwnerInv'
  BY <1>3, OneCloses
<1>4. ASSUME NEW a \in Actors, \/ Send(a) \/ Resend(a) \/ Revoke(a) \/ Decline(a) \/ Accept(a)
      PROVE  OwnerInv'
  <2>1. UNCHANGED role
    BY <1>4 DEF Send, Resend, Revoke, Decline, Accept, rest
  <2>2. \/ request' = request
        \/ \E q \in Handlers : q.kind \notin Managing /\ request' = [request EXCEPT ![a] = q]
    <3>1. ASSUME NEW kind \in {"send", "resend", "revoke", "decline", "accept"},
                 NEW at \in Stations, NEW i \in Invites, NEW r \in Given \cup {None},
                 Open(a, kind, at, Guest, i, r)
          PROVE  \E q \in Handlers : q.kind \notin Managing /\ request' = [request EXCEPT ![a] = q]
      <4> DEFINE q == [kind |-> kind, at |-> at, who |-> Guest, inv |-> i, role |-> r]
      <4>1. q \in Handlers /\ q.kind \notin Managing /\ request' = [request EXCEPT ![a] = q]
        BY <3>1 DEF Handlers, Kinds, Managing, Given, Roles, Open
      <4> QED  BY <4>1
    <3>2. CASE Send(a)
      <4>1. PICK r \in {"admin", "viewer"}, i \in Invites :
              Open(a, "send", IF Pending(i) THEN "update" ELSE "create", Guest, i, r)
        BY <3>2 DEF Send
      <4> QED  BY <3>1, <4>1 DEF Stations, Given
    <3>3. CASE Resend(a) \/ Revoke(a) \/ Decline(a)
      BY <3>1, <3>3 DEF Resend, Revoke, Decline, Stations
    <3>4. CASE Accept(a)
      <4>1. \/ request' = request
            \/ \E i \in Invites : /\ invite[i].status # "none"
                                  /\ Open(a, "accept", "claim", Guest, i, invite[i].role)
        BY <3>4 DEF Accept
      <4> QED  BY <3>1, <4>1 DEF Stations, PeopleInv, RowsInv
    <3> QED  BY <1>4, <3>2, <3>3, <3>4
  <2> QED  BY <2>1, <2>2, IdleFits, NoneLost DEF Idle, Managing
<1>5. ASSUME NEW a \in Actors,
             SendWrite(a) \/ SaveInvite(a) \/ Claim(a) \/ Create(a) \/ CreateFails(a) \/ Ends(a)
      PROVE  OwnerInv'
  <2>1. \A u \in Users : role[u] # None => role'[u] = role[u]
    BY <1>5 DEF SendWrite, SaveInvite, Claim, Create, CreateFails, Ends, CutSessions, Successor,
       Crash, rest, PeopleInv, Typed
  <2>2. \/ Close(a)
        \/ Go(a, "create") /\ request[a].kind = "accept"
    BY <1>5 DEF SendWrite, SaveInvite, Claim, Create, CreateFails, Ends, CutSessions, Successor,
       Crash, At
  <2>3. \E q \in Handlers : q.kind \notin Managing /\ request' = [request EXCEPT ![a] = q]
    <3>1. CASE Close(a)
      BY <3>1, IdleFits DEF Close, Idle, Managing
    <3>2. CASE Go(a, "create") /\ request[a].kind = "accept"
      BY <3>2, GoesOn DEF Managing, Stations, PeopleInv
    <3> QED  BY <2>2, <3>1, <3>2
  <2> QED  BY <2>1, <2>3, NoneLost
<1>6. CASE Besides \/ \E i \in Invites : PassExpiry(i)
  <2>1. /\ request' = request
        /\ \A u \in Users : role[u] # None => role'[u] = role[u]
    BY <1>6 DEF Besides, SignIn, Share, Heal, PassExpiry, rest, PeopleInv, Typed
  <2>2. CASE Actors = {}
    BY <2>1, <2>2 DEF OwnerInv, Owns
  <2>3. CASE Actors # {}
    BY <2>1, <2>3, IdleFits, NoneLost DEF Idle, Managing
  <2> QED  BY <2>2, <2>3
<1> QED  BY <1>1, <1>2, <1>3, <1>4, <1>5, <1>6 DEF Next, Writes, Ends, Besides

-----------------------------------------------------------------------------
(* Who may do what, on any tables the handlers leave.                           *)

\* The access tables as the handlers leave them.
AccessTables == [owner : Users, role : [Users -> Roles \cup {None}],
                 grant : [Users \X Targets -> {"editor", "viewer", None}]]

\* Without a grant the role in the form's workspace decides, or the form's creator is meant.
LEMMA GrantsAdd == \A S \in AccessTables : GrantsOnlyAdd(S)
<1> SUFFICES ASSUME NEW S \in AccessTables, NEW q \in OnForm, Decide(NoGrants(S), q).ok
             PROVE  Decide(S, q).ok
  BY DEF GrantsOnlyAdd
<1> DEFINE none == NoGrants(S)
<1>1. /\ q.user \in Users /\ q.path \in Targets /\ NamedForm(q) = q.path
      /\ q.path = "Private" \/ q.path = "Shared"
  BY DEF OnForm, Requests, NamedForm, Targets
<1>2. /\ none.owner = S.owner /\ none.role = S.role
      /\ none.grant[<<q.user, q.path>>] = None
  BY <1>1 DEF NoGrants, AccessTables
<1>3. InWorkspace(none, q, "Main") = InWorkspace(S, q, "Main")
  BY <1>2 DEF InWorkspace, RoleIn
<1>4. ~GrantCounts(none, q)
  BY <1>1, <1>2 DEF GrantCounts
<1> HIDE DEF none
<1>5. Decide(none, q).ok
  BY DEF none
<1>6. CASE q.path = "Private"
  <2>1. q.user = Creator
    BY <1>4, <1>5, <1>6 DEF Decide, Refuse
  <2>2. ~GrantCounts(S, q)
    BY <1>1, <1>6, <2>1 DEF GrantCounts, MembershipSuffices
  <2> QED  BY <1>6, <2>1, <2>2 DEF Decide, Allow
<1>7. CASE q.path = "Shared"
  <2>1. InWorkspace(S, q, "Main").ok
    BY <1>3, <1>4, <1>5, <1>7 DEF Decide
  <2>2. RoleIn(S, q.user, "Main") # None /\ Has(RoleIn(S, q.user, "Main"), q.asks)
    BY <2>1 DEF InWorkspace, Refuse
  <2>3. MembershipSuffices(S, q.user, "Shared", q.asks)
    BY <2>2 DEF MembershipSuffices, RoleIn
  <2>4. ~GrantCounts(S, q)
    BY <1>1, <1>7, <2>3 DEF GrantCounts
  <2> QED  BY <1>7, <2>1, <2>4 DEF Decide
<1> QED  BY <1>1, <1>6, <1>7

\* What the path names decides before any header is read.
LEMMA ResourcesDecide == \A S \in AccessTables : ResourceDecides(S)
<1> SUFFICES ASSUME NEW S \in AccessTables, NEW q \in OnForm
             PROVE  /\ Decide(S, q) = Decide(S, [q EXCEPT !.scope = None])
                    /\ q.path = "Private" /\ Decide(S, q).ok =>
                         q.user = Creator \/ S.grant[<<q.user, "Private">>] # None
  BY DEF ResourceDecides
<1> DEFINE p == [q EXCEPT !.scope = None]
<1>1. q \in Requests /\ q.path \in Targets /\ NamedForm(q) = q.path
  BY DEF OnForm, Requests, NamedForm
<1>2. p.user = q.user /\ p.asks = q.asks /\ p.path = q.path /\ p.query = q.query
  BY <1>1 DEF Requests
<1> HIDE DEF p
<1>3. q.path = "Private" \/ q.path = "Shared"
  BY <1>1 DEF Targets
<1>4. NamedForm(p) = NamedForm(q)
  BY <1>2 DEF NamedForm
<1>5. (GrantCounts(S, p) <=> GrantCounts(S, q)) /\ InWorkspace(S, p, "Main") = InWorkspace(S, q, "Main")
  BY <1>2, <1>4 DEF GrantCounts, InWorkspace
<1>6. Decide(S, q) = Decide(S, p)
  BY <1>2, <1>3, <1>4, <1>5 DEF Decide
<1>7. ASSUME q.path = "Private", Decide(S, q).ok
      PROVE  q.user = Creator \/ S.grant[<<q.user, "Private">>] # None
  <2>1. CASE GrantCounts(S, q)
    BY <1>1, <1>7, <2>1 DEF GrantCounts
  <2>2. CASE ~GrantCounts(S, q)
    BY <1>7, <2>2 DEF Decide, Refuse
  <2> QED  BY <2>1, <2>2
<1> QED  BY <1>6, <1>7 DEF p

\* Of all roles and grants only the owner's holds the permission to delete a form.
LEMMA OwnersDelete == \A S \in AccessTables : DeleteIsTheOwners(S)
<1> SUFFICES ASSUME NEW S \in AccessTables, NEW q \in Deletions, Decide(S, q).ok,
                    Decide(S, q).context = "Main"
             PROVE  S.role[q.user] = "owner" \/ S.owner = q.user
  BY DEF DeleteIsTheOwners
<1>1. q \in Requests /\ q.asks = <<"forms", "delete">> /\ q.user \in Users
  BY DEF Deletions, Requests
<1>2. ASSUME NEW r, r \in {"admin", "editor", "viewer"} PROVE ~Has(r, q.asks)
  <2>1. q.asks[1] = "forms"
    BY <1>1
  <2>2. {<<"*", "*">>, q.asks, <<q.asks[1], "*">>} =
          {<<"*", "*">>, <<"forms", "delete">>, <<"forms", "*">>}
    BY <1>1, <2>1
  <2>3. CASE r = "admin"
    <3>1. Granted(r) = {<<"forms", "write">>, <<"forms", "publish">>, <<"responses", "*">>, <<"team", "*">>}
      BY <2>3 DEF Granted
    <3> QED  BY <2>2, <3>1 DEF Has
  <2>4. CASE r = "editor"
    <3>1. Granted(r) = {<<"forms", "write">>, <<"responses", "read">>}
      BY <2>4 DEF Granted
    <3> QED  BY <2>2, <3>1 DEF Has
  <2>5. CASE r = "viewer"
    <3>1. Granted(r) = {<<"responses", "read">>}
      BY <2>5 DEF Granted
    <3> QED  BY <2>2, <3>1 DEF Has
  <2> QED  BY <1>2, <2>3, <2>4, <2>5
<1>3. ASSUME InWorkspace(S, q, "Main").ok
      PROVE  S.role[q.user] = "owner" \/ S.owner = q.user
  <2>1. RoleIn(S, q.user, "Main") # None /\ Has(RoleIn(S, q.user, "Main"), q.asks)
    BY <1>3 DEF InWorkspace, Refuse
  <2>2. S.role[q.user] \in Roles \cup {None}
    BY <1>1 DEF AccessTables
  <2> QED  BY <1>2, <2>1, <2>2 DEF RoleIn, Roles
<1>4. CASE GrantCounts(S, q)
  <2> DEFINE r == S.grant[<<q.user, NamedForm(q)>>]
  <2>1. r # None /\ NamedForm(q) \in Targets
    BY <1>1, <1>4 DEF GrantCounts, NamedForm, Requests, Targets
  <2>2. r \in {"editor", "viewer", None}
    BY <1>1, <2>1 DEF AccessTables
  <2>3. ~Has(r, q.asks)
    BY <1>2, <2>1, <2>2
  <2> QED  BY <1>4, <2>3 DEF Decide, Refuse
<1>5. CASE ~GrantCounts(S, q) /\ q.path = "Private"
  BY <1>5 DEF Decide, Refuse, Allow
<1>6. CASE ~GrantCounts(S, q) /\ q.path = "Shared"
  BY <1>3, <1>6 DEF Decide
<1>7. CASE ~GrantCounts(S, q) /\ q.path # "Private" /\ q.path # "Shared"
  <2>1. Decide(S, q) = WithoutResource(S, q)
    BY <1>7 DEF Decide
  <2>2. \A w : InWorkspace(S, q, w).ok => InWorkspace(S, q, w).context = w
    BY DEF InWorkspace, Refuse, Allow
  <2>3. CASE q.scope = "personal" /\ ~WorkspaceLevel(q.asks)
    BY <2>1, <2>3 DEF WithoutResource, Allow
  <2>4. CASE ~(q.scope = "personal" /\ ~WorkspaceLevel(q.asks))
    <3>1. PICK w \in {"Main", "Own"} : Decide(S, q) = InWorkspace(S, q, w)
      BY <2>1, <2>4 DEF WithoutResource
    <3>2. w = "Main"
      BY <2>2, <3>1
    <3> QED  BY <1>3, <3>1, <3>2
  <2> QED  BY <2>3, <2>4
<1> QED  BY <1>4, <1>5, <1>6, <1>7

-----------------------------------------------------------------------------
(* What the runs check, for any users, invitations and requests.                *)

\* The other scenes leave the people alone.
LEMMA PeopleAlone ==
  /\ WorkspaceInit => Init
  /\ [WorkspaceNext]_workspaceVars => [Next]_vars
BY DEF WorkspaceInit, WorkspaceNext, workspaceVars

\* An invitation makes one membership whatever overlaps it: sending again, revoking, declining,
\* claims given back, removals, requests cut short (acceptInvitation's conditional claim).
THEOREM UsedOnce == WorkspaceSpec => [](TypeOK /\ SingleUse)
<1>1. WorkspaceInit => PeopleInv
  BY PeopleInit, PeopleAlone
<1>2. PeopleInv /\ [WorkspaceNext]_workspaceVars => PeopleInv'
  BY PeopleStep, PeopleAlone
<1>3. PeopleInv => TypeOK /\ SingleUse
  BY DEF PeopleInv, Typed, RowsInv, UseInv, TypeOK, SingleUse, Rows, Statuses
<1> QED  BY <1>1, <1>2, <1>3, PTL DEF WorkspaceSpec

\* Where requests about roles do not overlap, the workspace keeps an owner: the guards of
\* updateMemberRole, removeMember and leaveWorkspace, and the order of transferOwnership's writes,
\* over every place such a request can stop at.
THEOREM RolesStay ==
  ASSUME OneManager
  PROVE  WorkspaceSpec => []RolesHold
<1>1. WorkspaceInit => PeopleInv /\ OwnerInv
  BY PeopleInit, OwnerInit, PeopleAlone
<1>2. PeopleInv /\ OwnerInv /\ [WorkspaceNext]_workspaceVars => (PeopleInv /\ OwnerInv)'
  BY PeopleStep, OwnerStep, PeopleAlone
<1>3. PeopleInv /\ OwnerInv => RolesHold
  <2>1. PeopleInv => TypeOK /\ SingleUse
    BY DEF PeopleInv, Typed, RowsInv, UseInv, TypeOK, SingleUse, Rows, Statuses
  <2>2. OwnerInv => SomeOwner
    BY DEF OwnerInv, Owns, SomeOwner
  <2> QED  BY <2>1, <2>2 DEF RolesHold
<1> QED  BY <1>1, <1>2, <1>3, PTL DEF WorkspaceSpec

\* On all tables left behind, by requests cut short too, requirePermission gives what a grant
\* only adds to, what the form decides and the headers do not, and to the owner alone what
\* deletes a form of the workspace.
THEOREM AccessDecided == WorkspaceSpec => []AccessHolds
<1>1. WorkspaceInit => PeopleInv
  BY PeopleInit, PeopleAlone
<1>2. PeopleInv /\ [WorkspaceNext]_workspaceVars => PeopleInv'
  BY PeopleStep, PeopleAlone
<1>3. PeopleInv => AccessHolds
  <2>1. PeopleInv => Tables \in AccessTables
    BY DEF PeopleInv, Typed, Tables, AccessTables
  <2> QED  BY <2>1, GrantsAdd, ResourcesDecide, OwnersDelete
           DEF AccessHolds, AccessIsGranted, AccessIsTheResources, AccessToDelete
<1> QED  BY <1>1, <1>2, <1>3, PTL DEF WorkspaceSpec

\* No step takes or changes a member's role but one of a request about roles: neither an
\* invitation, nor a sign-in, nor the owner's row that requirePermission gives back.
THEOREM RolesOnlyGiven == WorkspaceSpec => InvitesOnlyAdd
<1> DEFINE Taken == \A u \in Users : role[u] # None /\ role'[u] # role[u] =>
                       \E a \in Actors : request[a].kind \in Managing
<1>1. WorkspaceInit => PeopleInv
  BY PeopleInit, PeopleAlone
<1>2. PeopleInv /\ [WorkspaceNext]_workspaceVars => PeopleInv'
  BY PeopleStep, PeopleAlone
<1>3. PeopleInv /\ [Next]_vars => [Taken]_vars
  <2> SUFFICES ASSUME PeopleInv, Next, NEW u \in Users, role[u] # None, role'[u] # role[u]
               PROVE  \E a \in Actors : request[a].kind \in Managing
    OBVIOUS
  <2>1. role \in [Users -> Roles \cup {None}]
    BY DEF PeopleInv, Typed
  <2>2. ASSUME NEW a \in Actors,
               \/ Opens(a) \/ SendWrite(a) \/ SaveInvite(a) \/ Accept(a) \/ Claim(a) \/ Create(a)
               \/ CreateFails(a) \/ Ends(a)
        PROVE  FALSE
    BY <2>1, <2>2 DEF Opens, Send, Resend, Revoke, Decline, ChangeRole, Remove, Transfer, Leave,
       SendWrite, SaveInvite, Accept, Claim, Create, CreateFails, Ends, CutSessions, Successor,
       Crash, rest
  <2>3. ASSUME NEW a \in Actors, Writes(a)
        PROVE  request[a].kind \in Managing
    BY <2>3 DEF Writes, ChangeRoleWrite, RemoveWrite, TransferWrite, LeaveWrite, At, Managing
  <2>4. CASE Besides \/ \E i \in Invites : PassExpiry(i)
    BY <2>1, <2>4 DEF Besides, SignIn, Share, Heal, PassExpiry, rest
  <2> QED  BY <2>2, <2>3, <2>4 DEF Next, Opens, Writes, Ends, Besides
<1>4. PeopleInv /\ [WorkspaceNext]_workspaceVars => [Taken]_vars
  BY <1>3, PeopleAlone
<1>5. WorkspaceSpec => [][Taken]_vars
  BY <1>1, <1>2, <1>4, PTL DEF WorkspaceSpec
<1> QED  BY <1>5 DEF InvitesOnlyAdd

-----------------------------------------------------------------------------
(* The charts and the layouts people keep: Dashboards, two instances away.      *)

\* A definition names questions nobody touched only where it is valid.
Fresh(d) == Looking!Board!Named(d) \cap touched = {} => Looking!Board!Valid(d)

\* The fields of a row.
ChartFields == {"is", "owner", "shared", "ever", "def", "version", "by", "position"}

\* A chart was shared once if it is, and is its owner's work alone if it never was.
ChartFits(row) ==
  /\ DOMAIN row = ChartFields
  /\ row.def \in Designs /\ Fresh(row.def)
  /\ row.shared \in BOOLEAN /\ row.ever \in BOOLEAN
  /\ row.shared => row.ever
  /\ row.ever \/ row.by = row.owner
ChartInv ==
  /\ question \in [Questions -> {"choice", "number", "text", "gone"}]
  /\ chart = [c \in ChartIds |-> chart[c]]
  /\ \A c \in ChartIds : chart[c].is = "row" => ChartFits(chart[c])

\* What an update writes.
WriteFits(sets) ==
  \/ sets = [shared |-> TRUE, ever |-> TRUE]
  \/ sets = [shared |-> FALSE]
  \/ sets = [position |-> 0]
  \/ \E d \in Designs : sets = [def |-> d] /\ Fresh(d)

\* A page somebody has in front of them is the layout, or older, unless the layout was put
\* back to the standard one and counts from the start again.
Pages == [version : Nat, says : Nat]
NoNewer(page) ==
  page.version <= layout.version /\ (page.version = layout.version => page = layout)

\* A request has what it goes on with; an update is of a chart that was made, by its owner or
\* of a chart that was shared.
RequestFits(q) ==
  /\ q.at \in {"count", "insert"} =>
       q.who \in Members /\ q.def \in Designs /\ Fresh(q.def) /\ q.shared \in BOOLEAN
  /\ q.at = "save" =>
       /\ q.chart \in ChartIds /\ chart[q.chart].is # "none" /\ WriteFits(q.sets)
       /\ chart[q.chart].is = "row" =>
            (chart[q.chart].owner = q.who \/ chart[q.chart].ever)
  /\ q.at \in {"first", "swap"} =>
       /\ q.who \in Screens /\ q.base \in Pages /\ q.says \in Nat /\ q.read \in Nat
       /\ ~cleared => NoNewer(q.base)
RequestInv == hand = [h \in Hands |-> hand[h]] /\ \A h \in Hands : RequestFits(hand[h])

PageInv ==
  /\ layout \in Pages /\ seen \in [Screens -> Pages] /\ begun \in Nat
  /\ ~cleared => \A w \in Screens : NoNewer(seen[w])
  /\ blind => cleared

\* Who counted before somebody else inserted takes a place of the requests, not of the limit.
Inserting(p) == {h \in Hands : hand[h].at = "insert" /\ hand[h].who = p}
OwnInv ==
  \A p \in Members :
    /\ IsFiniteSet(Looking!Board!Own(p))
    /\ Cardinality(Looking!Board!Own(p)) + Cardinality(Inserting(p)) < Limit + Cardinality(Hands)

KeptInv == ChartInv /\ RequestInv /\ PageInv /\ OwnInv

\* The variables of Dashboards.
dashboardsVars ==
  <<question, touched, chart, layout, seen, hand, blind, cleared, begun, changes>>

\* What is assumed of the constants, and that the instances count alike.
LEMMA KeptAssumed ==
  /\ Admins \subseteq Members /\ Limit \in Nat \ {0} /\ IsFiniteSet(Hands) /\ None \notin Questions
  /\ \A d \in Designs : /\ d.levels \in Seq(Questions)
                        /\ {d.measure, d.filter} \subseteq Questions \cup {None}
                        /\ d.legacy => Len(d.levels) = 1 /\ d.measure = None /\ d.filter = None
<1>1. ASSUME NEW S, Looking!Board!IsFiniteSet(S) PROVE IsFiniteSet(S)
  BY <1>1 DEF Looking!Board!IsFiniteSet, IsFiniteSet
<1>2. Looking!Board!DashboardsAssumption
  BY WorkspaceAssumption DEF Looking!InsightAssumption
<1>3. IsFiniteSet(Hands)
  BY <1>1, <1>2, Zenon DEF Looking!Board!DashboardsAssumption
<1>4. /\ Admins \subseteq Members /\ Limit \in Nat \ {0} /\ None \notin Questions
  BY <1>2 DEF Looking!Board!DashboardsAssumption
<1>5. ASSUME NEW d \in Designs
      PROVE  /\ d.levels \in Seq(Questions)
             /\ {d.measure, d.filter} \subseteq Questions \cup {None}
             /\ d.legacy => Len(d.levels) = 1 /\ d.measure = None /\ d.filter = None
  BY <1>2 DEF Looking!Board!DashboardsAssumption
<1> QED  BY <1>3, <1>4, <1>5

LEMMA KeptCount == \A S : Looking!Board!Cardinality(S) = Cardinality(S)
BY DEF Looking!Board!Cardinality, Cardinality, Looking!Board!IsFiniteSet, IsFiniteSet

\* Nobody keeps anything at the start.
LEMMA KeptInit == Looking!Board!Init => KeptInv
<1> SUFFICES ASSUME Looking!Board!Init PROVE KeptInv
  OBVIOUS
<1>1. ChartInv
  BY DEF Looking!Board!Init, ChartInv
<1>2. RequestInv
  BY DEF Looking!Board!Init, Looking!Board!Idle, RequestInv, RequestFits
<1>3. PageInv
  BY DEF Looking!Board!Init, Looking!Board!Standard, PageInv, Pages, NoNewer
<1>4. OwnInv
  <2> SUFFICES ASSUME NEW p \in Members
               PROVE  /\ IsFiniteSet(Looking!Board!Own(p))
                      /\ Cardinality(Looking!Board!Own(p)) + Cardinality(Inserting(p))
                           < Limit + Cardinality(Hands)
    BY DEF OwnInv
  <2>1. Looking!Board!Own(p) = {} /\ Inserting(p) = {}
    BY DEF Looking!Board!Init, Looking!Board!Idle, Looking!Board!Own, Looking!Board!Rows, Inserting
  <2>2. Cardinality(Hands) \in Nat
    BY KeptAssumed, FS_CardinalityType
  <2> QED  BY <2>1, <2>2, FS_EmptySet, KeptAssumed
<1> QED  BY <1>1, <1>2, <1>3, <1>4 DEF KeptInv

\* What is kept while something else changes.
ChartsSame == chart' = chart /\ question' = question /\ touched' = touched
PageSame == layout' = layout /\ cleared' = cleared

LEMMA FreshStays ==
  ASSUME question' = question, touched' = touched
  PROVE  \A d : Fresh(d) => Fresh(d)'
BY DEF Fresh, Looking!Board!Named, Looking!Board!Valid, Looking!Board!Chartable

LEMMA ChartsStay ==
  ASSUME ChartInv, ChartsSame
  PROVE  ChartInv' /\ Looking!Board!Rows' = Looking!Board!Rows
         /\ \A p : Looking!Board!Own(p)' = Looking!Board!Own(p)
<1>1. \A row : ChartFits(row) => ChartFits(row)'
  BY FreshStays DEF ChartsSame, ChartFits
<1>2. ASSUME NEW c \in ChartIds, chart'[c].is = "row" PROVE ChartFits(chart[c])'
  <2>1. PICK row : row = chart[c]
    OBVIOUS
  <2>2. ChartFits(row)'
    BY <1>1, <1>2, <2>1 DEF ChartInv, ChartsSame
  <2> QED  BY <2>1, <2>2 DEF ChartsSame, ChartFits
<1> QED  BY <1>2 DEF ChartInv, ChartsSame, Looking!Board!Rows, Looking!Board!Own

\* A request that rests on what did not change still fits.
LEMMA RequestStays ==
  ASSUME ChartsSame, PageSame
  PROVE  \A q : RequestFits(q) => RequestFits(q)'
<1>1. \A sets : WriteFits(sets) => WriteFits(sets)'
  BY FreshStays DEF ChartsSame, WriteFits
<1>2. \A page : NoNewer(page) => NoNewer(page)'
  BY DEF NoNewer, PageSame
<1> QED  BY <1>1, <1>2, FreshStays DEF RequestFits, ChartsSame, PageSame

\* One hand takes up something else.
LEMMA HandMoves ==
  ASSUME RequestInv, NEW h \in Hands, NEW r, hand' = [hand EXCEPT ![h] = r],
         \A q : RequestFits(q) => RequestFits(q)', RequestFits(r)'
  PROVE  RequestInv'
<1>1. ASSUME NEW g \in Hands PROVE RequestFits(hand[g])'
  <2>1. PICK q : q = hand'[g]
    OBVIOUS
  <2>2. q = r \/ q = hand[g]
    BY <2>1 DEF RequestInv
  <2>3. RequestFits(q)'
    BY <2>2 DEF RequestInv
  <2> QED  BY <2>1, <2>3 DEF RequestFits
<1> QED  BY <1>1 DEF RequestInv

\* Who takes up no new chart, and inserts none, is no nearer to the limit.
LEMMA OwnStays ==
  ASSUME OwnInv,
         \A p \in Members : /\ Looking!Board!Own(p)' \subseteq Looking!Board!Own(p)
                            /\ Inserting(p)' \subseteq Inserting(p)
  PROVE  OwnInv'
<1> SUFFICES ASSUME NEW p \in Members
             PROVE  /\ IsFiniteSet(Looking!Board!Own(p)')
                    /\ Cardinality(Looking!Board!Own(p)') + Cardinality(Inserting(p)')
                         < Limit + Cardinality(Hands)
  BY DEF OwnInv
<1>1. IsFiniteSet(Looking!Board!Own(p)) /\ IsFiniteSet(Inserting(p)) /\ IsFiniteSet(Hands)
  BY KeptAssumed, FS_Subset DEF OwnInv, Inserting
<1>2. /\ IsFiniteSet(Looking!Board!Own(p)') /\ IsFiniteSet(Inserting(p)')
      /\ Cardinality(Looking!Board!Own(p)') <= Cardinality(Looking!Board!Own(p))
      /\ Cardinality(Inserting(p)') <= Cardinality(Inserting(p))
  BY <1>1, FS_Subset
<1>3. /\ Cardinality(Looking!Board!Own(p)) + Cardinality(Inserting(p)) < Limit + Cardinality(Hands)
  BY DEF OwnInv
<1> QED
  BY <1>1, <1>2, <1>3, FS_CardinalityType, KeptAssumed

-----------------------------------------------------------------------------
(* The requests about charts.                                                   *)

\* What a request rests on when only one chart changes, and stays a chart, or goes.
LEMMA RequestKeeps ==
  ASSUME NEW c \in ChartIds, chart = [b \in ChartIds |-> chart[b]],
         question' = question, touched' = touched, PageSame,
         \E row : chart' = [chart EXCEPT ![c] = row],
         chart[c].is # "none" => chart'[c].is # "none",
         chart[c].is # "none" /\ chart'[c].is = "row" =>
            /\ chart[c].is = "row" /\ chart'[c].owner = chart[c].owner
            /\ chart[c].ever => chart'[c].ever
  PROVE  \A q : RequestFits(q) => RequestFits(q)'
<1>1. \A sets : WriteFits(sets) => WriteFits(sets)'
  BY FreshStays DEF WriteFits
<1>2. \A page : NoNewer(page) => NoNewer(page)'
  BY DEF NoNewer, PageSame
<1>3. \A b \in ChartIds : b # c => chart'[b] = chart[b]
  OBVIOUS
<1> QED  BY <1>1, <1>2, <1>3, FreshStays DEF RequestFits, PageSame

\* A request that begins.
LEMMA ChartBegins ==
  ASSUME KeptInv, NEW h \in Hands, NEW p \in Members,
         \/ Looking!Board!Create(h, p) \/ Looking!Board!Duplicate(h, p) \/ Looking!Board!Update(h, p)
         \/ Looking!Board!Delete(h, p) \/ Looking!Board!Reorder(h, p)
  PROVE  /\ RequestInv' /\ ChartsSame /\ PageSame /\ seen' = seen /\ blind' = blind
         /\ begun' = begun + 1 /\ hand[h].at = "idle" /\ hand'[h].at # "insert"
         /\ \A g \in Hands : g # h => hand'[g] = hand[g]
<1>1. ChartsSame /\ PageSame /\ seen' = seen /\ blind' = blind
  BY DEF Looking!Board!Create, Looking!Board!Duplicate, Looking!Board!Update, Looking!Board!Delete,
     Looking!Board!Reorder, Looking!Board!FormUnchanged, Looking!Board!LayoutUnchanged, ChartsSame, PageSame
<1>2. \E q : /\ Looking!Board!Begin(h, q) /\ RequestFits(q) /\ q.at # "insert"
  <2>1. CASE Looking!Board!Create(h, p)
    <3>1. PICK d \in Designs, shared \in BOOLEAN :
            /\ Looking!Board!Valid(d)
            /\ Looking!Board!Begin(h, [at |-> "count", who |-> p, def |-> d, shared |-> shared])
      BY <2>1 DEF Looking!Board!Create
    <3>2. Fresh(d)
      BY <3>1 DEF Fresh
    <3> QED  BY <3>1, <3>2 DEF RequestFits
  <2>2. CASE Looking!Board!Duplicate(h, p)
    <3>1. PICK c \in Looking!Board!Rows :
            Looking!Board!Begin(h, [at |-> "count", who |-> p, def |-> chart[c].def, shared |-> FALSE])
      BY <2>2 DEF Looking!Board!Duplicate
    <3>2. ChartFits(chart[c])
      BY DEF KeptInv, ChartInv, Looking!Board!Rows
    <3>3. RequestFits([at |-> "count", who |-> p, def |-> chart[c].def, shared |-> FALSE])
      BY <3>2 DEF RequestFits, ChartFits
    <3> QED  BY <3>1, <3>3
  <2>3. CASE Looking!Board!Update(h, p)
    <3>1. PICK c \in Looking!Board!Rows, sets \in Looking!Board!Changes :
            /\ Looking!Board!MayEdit(p, c)
            /\ Looking!Board!Begin(h, [at |-> "save", who |-> p, chart |-> c, sets |-> sets,
                                       base |-> chart[c].version])
      BY <2>3 DEF Looking!Board!Update
    <3>2. WriteFits(sets)
      <4>1. CASE \E d \in Designs : Looking!Board!Valid(d) /\ sets = [def |-> d]
        BY <4>1 DEF WriteFits, Fresh
      <4> QED  BY <4>1 DEF Looking!Board!Changes, WriteFits
    <3>3. c \in ChartIds /\ chart[c].is = "row" /\ ChartFits(chart[c])
      BY DEF KeptInv, ChartInv, Looking!Board!Rows
    <3>4. chart[c].owner = p \/ chart[c].ever
      BY <3>1, <3>3 DEF Looking!Board!MayEdit, Looking!Board!Visible, ChartFits
    <3> QED  BY <3>1, <3>2, <3>3, <3>4 DEF RequestFits
  <2>4. CASE Looking!Board!Delete(h, p)
    <3>1. PICK c : Looking!Board!Begin(h, [at |-> "delete", who |-> p, chart |-> c])
      BY <2>4 DEF Looking!Board!Delete
    <3>2. RequestFits([at |-> "delete", who |-> p, chart |-> c])
      BY DEF RequestFits
    <3> QED  BY <3>1, <3>2
  <2>5. CASE Looking!Board!Reorder(h, p)
    <3>1. PICK order : Looking!Board!Begin(h, [at |-> "number", who |-> p, order |-> order])
      BY <2>5 DEF Looking!Board!Reorder
    <3>2. RequestFits([at |-> "number", who |-> p, order |-> order])
      BY DEF RequestFits
    <3> QED  BY <3>1, <3>2
  <2> QED  BY <2>1, <2>2, <2>3, <2>4, <2>5
<1>3. PICK q : Looking!Board!Begin(h, q) /\ RequestFits(q) /\ q.at # "insert"
  BY <1>2
<1>4. hand' = [hand EXCEPT ![h] = q] /\ hand[h].at = "idle" /\ begun' = begun + 1
  BY <1>3 DEF Looking!Board!Begin
<1>5. RequestFits(q)'
  BY <1>1, <1>3, RequestStays
<1>6. RequestInv'
  BY <1>1, <1>4, <1>5, RequestStays, HandMoves DEF KeptInv
<1> QED  BY <1>1, <1>3, <1>4, <1>6 DEF KeptInv, RequestInv

\* A request goes on or ends.
LEMMA EndFits ==
  ASSUME RequestInv, NEW h \in Hands, Looking!Board!End(h), \A q : RequestFits(q) => RequestFits(q)'
  PROVE  RequestInv' /\ hand' = [hand EXCEPT ![h] = [at |-> "idle"]]
<1>1. hand' = [hand EXCEPT ![h] = [at |-> "idle"]]
  BY DEF Looking!Board!End, Looking!Board!Idle
<1>2. PICK q : q = [at |-> "idle"]
  OBVIOUS
<1>3. RequestFits(q)'
  BY <1>2 DEF RequestFits
<1> QED  BY <1>1, <1>2, <1>3, HandMoves

\* What is counted against the limit when nothing is inserted, and no chart made.
LEMMA Inserters ==
  ASSUME RequestInv, NEW h \in Hands, NEW r, hand' = [hand EXCEPT ![h] = r]
  PROVE  /\ r.at # "insert" => \A p : Inserting(p)' \subseteq Inserting(p)
         /\ \A p : Inserting(p)' \subseteq Inserting(p) \cup {h}
         /\ \A p : p # r.who => Inserting(p)' \subseteq Inserting(p)
BY DEF RequestInv, Inserting

\* A request that begins leaves everything as it fits.
LEMMA ChartBeginsKeeps ==
  ASSUME KeptInv, NEW h \in Hands, NEW p \in Members,
         \/ Looking!Board!Create(h, p) \/ Looking!Board!Duplicate(h, p) \/ Looking!Board!Update(h, p)
         \/ Looking!Board!Delete(h, p) \/ Looking!Board!Reorder(h, p)
  PROVE  KeptInv'
<1>1. RequestInv' /\ ChartInv'
  BY ChartBegins, ChartsStay DEF KeptInv
<1>2. PageInv'
  BY ChartBegins DEF KeptInv, PageInv, PageSame, NoNewer
<1>3. \A u : Inserting(u)' \subseteq Inserting(u)
  BY ChartBegins DEF KeptInv, RequestInv, Inserting
<1>4. OwnInv'
  BY <1>3, ChartBegins, ChartsStay, OwnStays DEF KeptInv
<1> QED  BY <1>1, <1>2, <1>4 DEF KeptInv

\* Only fewer than the limit go on to insert, whoever else is on the way.
LEMMA CountOwnKeeps ==
  ASSUME KeptInv, NEW h \in Hands, Looking!Board!CountOwn(h)
  PROVE  KeptInv'
<1>1. ChartsSame /\ PageSame /\ seen' = seen /\ blind' = blind /\ begun' = begun
  BY DEF Looking!Board!CountOwn, Looking!Board!FormUnchanged, Looking!Board!LayoutUnchanged,
     ChartsSame, PageSame
<1>2. ChartInv' /\ PageInv' /\ \A p : Looking!Board!Own(p)' = Looking!Board!Own(p)
  BY <1>1, ChartsStay DEF KeptInv, PageInv, PageSame, NoNewer
<1>3. CASE Looking!Board!End(h)
  <2>1. RequestInv' /\ hand' = [hand EXCEPT ![h] = [at |-> "idle"]]
    BY <1>1, <1>3, RequestStays, EndFits DEF KeptInv
  <2>2. \A p : Inserting(p)' \subseteq Inserting(p)
    BY <2>1 DEF KeptInv, RequestInv, Inserting
  <2> QED  BY <1>2, <2>1, <2>2, OwnStays DEF KeptInv
<1>4. CASE ~Looking!Board!End(h)
  <2>1. PICK p, r : /\ p = hand[h].who
                    /\ r = [at |-> "insert", who |-> p, def |-> hand[h].def, shared |-> hand[h].shared,
                            position |-> Looking!Board!NextPlace(p)]
    OBVIOUS
  <2>2. /\ hand[h].at = "count" /\ hand' = [hand EXCEPT ![h] = r]
        /\ ~(Cardinality(Looking!Board!Own(p)) >= Limit)
    BY <1>4, <2>1, KeptCount DEF Looking!Board!CountOwn, Looking!Board!Inserts
  <2>3. RequestFits(hand[h])
    BY DEF KeptInv, RequestInv
  <2>4. p \in Members /\ RequestFits(r) /\ r.who = p
    BY <2>1, <2>2, <2>3 DEF RequestFits
  <2>5. RequestInv'
    BY <1>1, <2>2, <2>4, RequestStays, HandMoves DEF KeptInv
  <2>6. \A u : u # p => Inserting(u)' \subseteq Inserting(u)
    BY <2>2, <2>4, Inserters DEF KeptInv
  <2>7. IsFiniteSet(Inserting(p)') /\ Cardinality(Inserting(p)') <= Cardinality(Hands)
    BY KeptAssumed, FS_Subset DEF Inserting
  <2>8. OwnInv'
    <3> SUFFICES ASSUME NEW u \in Members
                 PROVE  /\ IsFiniteSet(Looking!Board!Own(u)')
                        /\ Cardinality(Looking!Board!Own(u)') + Cardinality(Inserting(u)')
                             < Limit + Cardinality(Hands)
      BY DEF OwnInv
    <3>1. CASE u = p
      <4>1. /\ IsFiniteSet(Looking!Board!Own(p)) /\ Looking!Board!Own(p)' = Looking!Board!Own(p)
            /\ Cardinality(Looking!Board!Own(p)) \in Nat /\ Cardinality(Inserting(p)') \in Nat
            /\ Cardinality(Hands) \in Nat
        BY <1>2, <2>4, <2>7, KeptAssumed, FS_CardinalityType DEF KeptInv, OwnInv
      <4> QED  BY <2>2, <2>7, <3>1, <4>1, KeptAssumed
    <3>2. CASE u # p
      <4>1. /\ IsFiniteSet(Inserting(u)) /\ IsFiniteSet(Looking!Board!Own(u))
            /\ Cardinality(Looking!Board!Own(u)) + Cardinality(Inserting(u)) < Limit + Cardinality(Hands)
        BY KeptAssumed, FS_Subset DEF KeptInv, OwnInv, Inserting
      <4>2. /\ IsFiniteSet(Inserting(u)') /\ Cardinality(Inserting(u)') <= Cardinality(Inserting(u))
        BY <2>6, <3>2, <4>1, FS_Subset
      <4> QED  BY <1>2, <4>1, <4>2, KeptAssumed, FS_CardinalityType
    <3> QED  BY <3>1, <3>2
  <2> QED  BY <1>2, <2>5, <2>8 DEF KeptInv
<1> QED  BY <1>3, <1>4

\* A chart that is inserted was counted.
LEMMA InsertKeeps ==
  ASSUME KeptInv, NEW h \in Hands, Looking!Board!Insert(h)
  PROVE  KeptInv'
<1>1. /\ question' = question /\ touched' = touched /\ PageSame /\ seen' = seen
      /\ blind' = blind /\ begun' = begun /\ hand[h].at = "insert" /\ Looking!Board!End(h)
  BY DEF Looking!Board!Insert, Looking!Board!FormUnchanged, Looking!Board!LayoutUnchanged, PageSame
<1>2. PICK c, row :
        /\ c \in ChartIds /\ chart[c].is = "none" /\ chart' = [chart EXCEPT ![c] = row]
        /\ row = [is |-> "row", owner |-> hand[h].who, shared |-> hand[h].shared, ever |-> hand[h].shared,
                  def |-> hand[h].def, version |-> 1, by |-> hand[h].who, position |-> hand[h].position]
  BY DEF Looking!Board!Insert
<1>3. RequestFits(hand[h]) /\ chart = [b \in ChartIds |-> chart[b]]
  BY DEF KeptInv, RequestInv, ChartInv
<1>4. ChartFits(row)
  BY <1>1, <1>2, <1>3 DEF RequestFits, ChartFits, ChartFields
<1>5. ChartInv'
  <2>1. \A x : ChartFits(x) => ChartFits(x)'
    BY <1>1, FreshStays DEF ChartFits
  <2>2. ASSUME NEW b \in ChartIds, chart'[b].is = "row" PROVE ChartFits(chart[b])'
    <3>1. PICK x : x = chart'[b]
      OBVIOUS
    <3>2. ChartFits(x)
      BY <1>2, <1>3, <1>4, <2>2, <3>1 DEF KeptInv, ChartInv
    <3>3. ChartFits(x)'
      BY <2>1, <3>2
    <3> QED  BY <3>1, <3>3 DEF ChartFits
  <2> QED  BY <1>1, <1>2, <1>3, <2>2 DEF KeptInv, ChartInv
<1>6. \A q : RequestFits(q) => RequestFits(q)'
  <2>1. chart'[c].is # "none"
    BY <1>2, <1>3
  <2> QED  BY <1>1, <1>2, <1>3, <2>1, RequestKeeps
<1>7. RequestInv' /\ hand' = [hand EXCEPT ![h] = [at |-> "idle"]]
  BY <1>1, <1>6, EndFits DEF KeptInv
<1>8. PageInv'
  BY <1>1 DEF KeptInv, PageInv, PageSame, NoNewer
<1>9. OwnInv'
  <2> SUFFICES ASSUME NEW u \in Members
               PROVE  /\ IsFiniteSet(Looking!Board!Own(u)')
                      /\ Cardinality(Looking!Board!Own(u)') + Cardinality(Inserting(u)')
                           < Limit + Cardinality(Hands)
    BY DEF OwnInv
  <2>1. /\ IsFiniteSet(Inserting(u)) /\ IsFiniteSet(Looking!Board!Own(u))
        /\ Cardinality(Looking!Board!Own(u)) + Cardinality(Inserting(u)) < Limit + Cardinality(Hands)
    BY KeptAssumed, FS_Subset DEF KeptInv, OwnInv, Inserting
  <2>2. CASE u = hand[h].who
    <3>1. Looking!Board!Own(u)' \subseteq Looking!Board!Own(u) \cup {c}
      BY <1>2, <1>3 DEF Looking!Board!Own, Looking!Board!Rows
    <3>2. Inserting(u)' = Inserting(u) \ {h} /\ h \in Inserting(u)
      BY <1>1, <1>7, <2>2 DEF KeptInv, RequestInv, Inserting
    <3>3. c \notin Looking!Board!Own(u)
      BY <1>2 DEF Looking!Board!Own, Looking!Board!Rows
    <3>4. /\ IsFiniteSet(Looking!Board!Own(u) \cup {c})
          /\ Cardinality(Looking!Board!Own(u) \cup {c}) = Cardinality(Looking!Board!Own(u)) + 1
      BY <2>1, <3>3, FS_AddElement, Zenon
    <3>5. IsFiniteSet(Inserting(u)') /\ Cardinality(Inserting(u)') = Cardinality(Inserting(u)) - 1
      BY <2>1, <3>2, FS_RemoveElement
    <3>6. /\ IsFiniteSet(Looking!Board!Own(u)')
          /\ Cardinality(Looking!Board!Own(u)') <= Cardinality(Looking!Board!Own(u)) + 1
      BY <3>1, <3>4, FS_Subset
    <3> QED  BY <2>1, <3>5, <3>6, KeptAssumed, FS_CardinalityType
  <2>3. CASE u # hand[h].who
    <3>1. Looking!Board!Own(u)' \subseteq Looking!Board!Own(u)
      BY <1>2, <1>3, <2>3 DEF Looking!Board!Own, Looking!Board!Rows
    <3>2. Inserting(u)' \subseteq Inserting(u)
      BY <1>7 DEF KeptInv, RequestInv, Inserting
    <3>3. /\ IsFiniteSet(Looking!Board!Own(u)') /\ IsFiniteSet(Inserting(u)')
          /\ Cardinality(Looking!Board!Own(u)') <= Cardinality(Looking!Board!Own(u))
          /\ Cardinality(Inserting(u)') <= Cardinality(Inserting(u))
      BY <2>1, <3>1, <3>2, FS_Subset
    <3> QED  BY <2>1, <3>3, KeptAssumed, FS_CardinalityType
  <2> QED  BY <2>2, <2>3
<1> QED  BY <1>5, <1>7, <1>8, <1>9 DEF KeptInv

\* A chart that was made stays made, its owner's, and shared once if it was.
ChartGoesOn(c) ==
  \E row :
    /\ chart'[c] = row
    /\ \/ row = chart[c]
       \/ /\ row.is # "none"
          /\ row.is = "row" => /\ chart[c].is = "row" /\ ChartFits(row)
                               /\ row.owner = chart[c].owner
                               /\ chart[c].ever => row.ever

LEMMA RowsChange ==
  ASSUME KeptInv, NEW h \in Hands, Looking!Board!End(h),
         question' = question, touched' = touched, PageSame, seen' = seen, blind' = blind, begun' = begun,
         chart' = [c \in ChartIds |-> chart'[c]], \A c \in ChartIds : ChartGoesOn(c)
  PROVE  KeptInv'
<1>1. ChartInv'
  <2>1. \A x : ChartFits(x) => ChartFits(x)'
    BY FreshStays DEF ChartFits
  <2>2. ASSUME NEW b \in ChartIds, chart'[b].is = "row" PROVE ChartFits(chart[b])'
    <3>1. PICK x : x = chart'[b]
      OBVIOUS
    <3>2. ChartFits(x)
      BY <2>2, <3>1 DEF KeptInv, ChartInv, ChartGoesOn
    <3>3. ChartFits(x)'
      BY <2>1, <3>2
    <3> QED  BY <3>1, <3>3 DEF ChartFits
  <2> QED  BY <2>2 DEF KeptInv, ChartInv
<1>2. \A q : RequestFits(q) => RequestFits(q)'
  <2> SUFFICES ASSUME NEW q, RequestFits(q) PROVE RequestFits(q)'
    OBVIOUS
  <2>1. WriteFits(q.sets) => WriteFits(q.sets)'
    BY FreshStays DEF WriteFits
  <2>2. NoNewer(q.base) => NoNewer(q.base)'
    BY DEF NoNewer, PageSame
  <2>3. ASSUME q.at = "save"
        PROVE  /\ chart'[q.chart].is # "none"
               /\ chart'[q.chart].is = "row" =>
                    (chart'[q.chart].owner = q.who \/ chart'[q.chart].ever)
    <3>1. /\ q.chart \in ChartIds /\ chart[q.chart].is # "none"
          /\ chart[q.chart].is = "row" =>
                    (chart[q.chart].owner = q.who \/ chart[q.chart].ever)
      BY <2>3 DEF RequestFits
    <3>2. ChartGoesOn(q.chart)
      BY <3>1
    <3> QED  BY <3>1, <3>2 DEF ChartGoesOn
  <2> QED  BY <2>1, <2>2, <2>3, FreshStays DEF RequestFits, PageSame
<1>3. RequestInv' /\ hand' = [hand EXCEPT ![h] = [at |-> "idle"]]
  BY <1>2, EndFits DEF KeptInv
<1>4. PageInv'
  BY DEF KeptInv, PageInv, PageSame, NoNewer
<1>5. OwnInv'
  <2> SUFFICES ASSUME NEW u \in Members
               PROVE  /\ Looking!Board!Own(u)' \subseteq Looking!Board!Own(u)
                      /\ Inserting(u)' \subseteq Inserting(u)
    BY OwnStays DEF KeptInv
  <2>1. Inserting(u)' \subseteq Inserting(u)
    BY <1>3 DEF KeptInv, RequestInv, Inserting
  <2>2. Looking!Board!Own(u)' \subseteq Looking!Board!Own(u)
    BY DEF Looking!Board!Own, Looking!Board!Rows, ChartGoesOn
  <2> QED  BY <2>1, <2>2
<1> QED  BY <1>1, <1>3, <1>4, <1>5 DEF KeptInv

\* An update writes what it sets into the row as it is by then.
LEMMA SaveKeeps ==
  ASSUME KeptInv, NEW h \in Hands, Looking!Board!Save(h)
  PROVE  KeptInv'
<1>1. /\ question' = question /\ touched' = touched /\ PageSame /\ seen' = seen
      /\ blind' = blind /\ begun' = begun /\ hand[h].at = "save" /\ Looking!Board!End(h)
  BY DEF Looking!Board!Save, Looking!Board!FormUnchanged, Looking!Board!LayoutUnchanged, PageSame
<1>2. RequestFits(hand[h]) /\ chart = [b \in ChartIds |-> chart[b]]
  BY DEF KeptInv, RequestInv, ChartInv
<1>3. CASE hand[h].chart \notin Looking!Board!Rows
  <2>1. chart' = chart
    BY <1>3 DEF Looking!Board!Save
  <2> QED  BY <1>1, <1>2, <2>1, RowsChange DEF ChartGoesOn
<1>4. CASE hand[h].chart \in Looking!Board!Rows
  <2>1. PICK c, q, old, row :
          /\ c = hand[h].chart /\ q = hand[h] /\ old = chart[c] /\ row = Looking!Board!Saved(old, q)
    OBVIOUS
  <2>2. chart' = [chart EXCEPT ![c] = row]
    BY <1>4, <2>1 DEF Looking!Board!Save
  <2>3. /\ c \in ChartIds /\ old.is = "row" /\ ChartFits(old) /\ WriteFits(q.sets)
        /\ old.owner = q.who \/ old.ever
    BY <1>1, <1>2, <1>4, <2>1 DEF RequestFits, Looking!Board!Rows, KeptInv, ChartInv
  <2>4. /\ DOMAIN row = ChartFields
        /\ row.by = q.who
        /\ \A f \in ChartFields \ {"by", "version"} :
             row[f] = IF f \in DOMAIN q.sets THEN q.sets[f] ELSE old[f]
    <3>1. \E v : row = [f \in DOMAIN old |->
                    CASE f = "by" -> q.who [] f = "version" -> v
                      [] f \in DOMAIN q.sets -> q.sets[f] [] OTHER -> old[f]]
      BY <2>1 DEF Looking!Board!Saved
    <3>2. PICK v : row = [f \in DOMAIN old |->
                    CASE f = "by" -> q.who [] f = "version" -> v
                      [] f \in DOMAIN q.sets -> q.sets[f] [] OTHER -> old[f]]
      BY <3>1
    <3>3. DOMAIN old = ChartFields
      BY <2>3 DEF ChartFits
    <3>4. DOMAIN row = ChartFields /\ row.by = q.who
      <4>1. "by" \notin DOMAIN q.sets
        <5>1. PICK sets : sets = q.sets
          OBVIOUS
        <5>2. CASE \E d \in Designs : sets = [def |-> d]
          BY <5>1, <5>2
        <5>3. CASE sets = [shared |-> TRUE, ever |-> TRUE] \/ sets = [shared |-> FALSE] \/ sets = [position |-> 0]
          BY <5>1, <5>3
        <5> QED  BY <2>3, <5>1, <5>2, <5>3 DEF WriteFits
      <4> QED  BY <3>2, <3>3, <4>1 DEF ChartFields
    <3>5. ASSUME NEW f \in ChartFields \ {"by", "version"}
          PROVE  row[f] = IF f \in DOMAIN q.sets THEN q.sets[f] ELSE old[f]
      <4>1. f # "by" /\ f # "version" /\ f \in DOMAIN old
        BY <3>3
      <4>2. CASE f \in DOMAIN q.sets
        BY <3>2, <4>1, <4>2
      <4>3. CASE f \notin DOMAIN q.sets
        BY <3>2, <4>1, <4>3
      <4> QED  BY <4>2, <4>3
    <3> QED  BY <3>4, <3>5
  <2>5. CASE q.sets = [shared |-> TRUE, ever |-> TRUE]
    <3>1. row.is = "row" /\ row.owner = old.owner /\ row.shared = TRUE /\ row.ever = TRUE /\ row.def = old.def
      BY <2>3, <2>4, <2>5 DEF ChartFields
    <3>2. ChartFits(row)
      BY <2>3, <2>4, <3>1 DEF ChartFits
    <3>3. ChartGoesOn(c) /\ \A b \in ChartIds : b # c => chart'[b] = chart[b]
      BY <1>2, <2>1, <2>2, <2>3, <3>1, <3>2 DEF ChartGoesOn
    <3> QED  BY <1>1, <1>2, <2>2, <3>3, RowsChange DEF ChartGoesOn
  <2>6. CASE q.sets = [shared |-> FALSE]
    <3>1. row.is = "row" /\ row.owner = old.owner /\ row.shared = FALSE /\ row.ever = old.ever /\ row.def = old.def
      BY <2>3, <2>4, <2>6 DEF ChartFields
    <3>2. ChartFits(row)
      BY <2>3, <2>4, <3>1 DEF ChartFits
    <3>3. ChartGoesOn(c) /\ \A b \in ChartIds : b # c => chart'[b] = chart[b]
      BY <1>2, <2>1, <2>2, <2>3, <3>1, <3>2 DEF ChartGoesOn
    <3> QED  BY <1>1, <1>2, <2>2, <3>3, RowsChange DEF ChartGoesOn
  <2>7. CASE q.sets = [position |-> 0]
    <3>1. row.is = "row" /\ row.owner = old.owner /\ row.shared = old.shared /\ row.ever = old.ever /\ row.def = old.def
      BY <2>3, <2>4, <2>7 DEF ChartFields
    <3>2. ChartFits(row)
      BY <2>3, <2>4, <3>1 DEF ChartFits
    <3>3. ChartGoesOn(c) /\ \A b \in ChartIds : b # c => chart'[b] = chart[b]
      BY <1>2, <2>1, <2>2, <2>3, <3>1, <3>2 DEF ChartGoesOn
    <3> QED  BY <1>1, <1>2, <2>2, <3>3, RowsChange DEF ChartGoesOn
  <2>8. CASE \E d \in Designs : q.sets = [def |-> d] /\ Fresh(d)
    <3> PICK d \in Designs : q.sets = [def |-> d] /\ Fresh(d)
      BY <2>8
    <3>1. row.is = "row" /\ row.owner = old.owner /\ row.shared = old.shared /\ row.ever = old.ever /\ row.def = d
      BY <2>3, <2>4 DEF ChartFields
    <3>2. ChartFits(row)
      BY <2>3, <2>4, <3>1 DEF ChartFits
    <3>3. ChartGoesOn(c) /\ \A b \in ChartIds : b # c => chart'[b] = chart[b]
      BY <1>2, <2>1, <2>2, <2>3, <3>1, <3>2 DEF ChartGoesOn
    <3> QED  BY <1>1, <1>2, <2>2, <3>3, RowsChange DEF ChartGoesOn
  <2> QED  BY <2>3, <2>5, <2>6, <2>7, <2>8 DEF WriteFits
<1> QED  BY <1>3, <1>4

\* A deleted chart is no row, and its place is not used again.
LEMMA DeleteRowKeeps ==
  ASSUME KeptInv, NEW h \in Hands, Looking!Board!DeleteRow(h)
  PROVE  KeptInv'
<1>1. /\ question' = question /\ touched' = touched /\ PageSame /\ seen' = seen
      /\ blind' = blind /\ begun' = begun /\ Looking!Board!End(h)
  BY DEF Looking!Board!DeleteRow, Looking!Board!FormUnchanged, Looking!Board!LayoutUnchanged, PageSame
<1>2. chart = [b \in ChartIds |-> chart[b]]
  BY DEF KeptInv, ChartInv
<1>3. chart' = [chart EXCEPT ![hand[h].chart] = [is |-> "gone"]]
  BY DEF Looking!Board!DeleteRow
<1>4. \A c \in ChartIds : chart'[c] = chart[c] \/ chart'[c] = [is |-> "gone"]
  BY <1>2, <1>3
<1>5. \A c \in ChartIds : ChartGoesOn(c)
  BY <1>4 DEF ChartGoesOn
<1> QED  BY <1>1, <1>2, <1>3, <1>5, RowsChange

\* An order only numbers the rows.
LEMMA NumberKeeps ==
  ASSUME KeptInv, NEW h \in Hands, Looking!Board!Number(h)
  PROVE  KeptInv'
<1>1. /\ question' = question /\ touched' = touched /\ PageSame /\ seen' = seen
      /\ blind' = blind /\ begun' = begun /\ Looking!Board!End(h)
  BY DEF Looking!Board!Number, Looking!Board!FormUnchanged, Looking!Board!LayoutUnchanged, PageSame
<1>2. /\ chart' = [c \in ChartIds |-> chart'[c]]
      /\ \A c \in ChartIds :
           \/ chart'[c] = chart[c]
           \/ chart[c].is = "row" /\ \E n : chart'[c] = [chart[c] EXCEPT !.position = n]
  <2>1. PICK place : chart' =
          [c \in ChartIds |->
             IF c \in Looking!Board!Rows /\ Looking!Board!Contains(hand[h].order, c)
             THEN [chart[c] EXCEPT !.position = place[c]] ELSE chart[c]]
    <3> DEFINE Place(c) == (CHOOSE i \in DOMAIN hand[h].order : hand[h].order[i] = c) - 1
    <3>1. chart' =
          [c \in ChartIds |->
             IF c \in Looking!Board!Rows /\ Looking!Board!Contains(hand[h].order, c)
             THEN [chart[c] EXCEPT !.position = Place(c)] ELSE chart[c]]
      BY DEF Looking!Board!Number
    <3> HIDE DEF Place
    <3>2. PICK place : place = [c \in ChartIds |-> Place(c)]
      OBVIOUS
    <3>3. \A c \in ChartIds : place[c] = Place(c)
      BY <3>2
    <3> QED  BY <3>1, <3>3
  <2>2. ASSUME NEW c \in ChartIds
        PROVE  \/ chart'[c] = chart[c]
               \/ chart[c].is = "row" /\ \E n : chart'[c] = [chart[c] EXCEPT !.position = n]
    BY <2>1 DEF Looking!Board!Rows
  <2> QED  BY <2>1, <2>2
<1>3. ASSUME NEW c \in ChartIds PROVE ChartGoesOn(c)
  <2>1. CASE chart'[c] = chart[c]
    BY <2>1 DEF ChartGoesOn
  <2>2. CASE chart'[c] # chart[c]
    <3>1. PICK n, old, row : /\ old = chart[c] /\ row = chart'[c] /\ row = [old EXCEPT !.position = n]
                             /\ old.is = "row"
      BY <1>2, <2>2
    <3>2. ChartFits(old)
      BY <3>1 DEF KeptInv, ChartInv
    <3>3. /\ DOMAIN row = ChartFields /\ row.is = old.is /\ row.owner = old.owner /\ row.shared = old.shared
          /\ row.ever = old.ever /\ row.def = old.def /\ row.by = old.by
      BY <3>1, <3>2 DEF ChartFits, ChartFields
    <3>4. ChartFits(row)
      BY <3>2, <3>3 DEF ChartFits
    <3> QED  BY <3>1, <3>3, <3>4 DEF ChartGoesOn
  <2> QED  BY <2>1, <2>2
<1> QED  BY <1>1, <1>2, <1>3, RowsChange

\* What a definition names are questions.
LEMMA NamedQuestions == \A d \in Designs : Looking!Board!Named(d) \subseteq Questions
<1> SUFFICES ASSUME NEW d \in Designs, NEW q \in Looking!Board!Named(d) PROVE q \in Questions
  OBVIOUS
<1>1. d.levels \in Seq(Questions) /\ {d.measure, d.filter} \subseteq Questions \cup {None}
  BY KeptAssumed
<1>2. \A i \in DOMAIN d.levels : d.levels[i] \in Questions
  BY <1>1
<1> QED  BY <1>1, <1>2 DEF Looking!Board!Named, Looking!Board!Range

\* A question that is touched is named by no definition that counts as fresh any more.
LEMMA ChangeQuestionKeeps ==
  ASSUME KeptInv, NEW x \in Questions, Looking!Board!ChangeQuestion(x)
  PROVE  KeptInv'
<1>1. /\ chart' = chart /\ hand' = hand /\ PageSame /\ seen' = seen /\ blind' = blind /\ begun' = begun
      /\ touched' = touched \cup {x}
  BY DEF Looking!Board!ChangeQuestion, PageSame
<1>2. PICK k \in {"choice", "number", "text", "gone"} : question' = [question EXCEPT ![x] = k]
  BY DEF Looking!Board!ChangeQuestion
<1>3. question \in [Questions -> {"choice", "number", "text", "gone"}]
  BY DEF KeptInv, ChartInv
<1>4. ASSUME NEW d \in Designs, Fresh(d) PROVE Fresh(d)'
  <2> SUFFICES ASSUME Looking!Board!Named(d) \cap (touched \cup {x}) = {}
               PROVE  Looking!Board!Valid(d)'
    BY <1>1 DEF Fresh, Looking!Board!Named
  <2>1. Looking!Board!Valid(d) /\ x \notin Looking!Board!Named(d)
    <3>1. PICK N : N = Looking!Board!Named(d)
      OBVIOUS
    <3>2. N \cap touched = {} /\ x \notin N
      BY <3>1
    <3> QED  BY <1>4, <3>1, <3>2 DEF Fresh
  <2>2. \A q \in Looking!Board!Named(d) : question'[q] = question[q]
    BY <1>2, <1>3, <2>1, NamedQuestions
  <2>3. d.measure # None => d.measure \in Looking!Board!Named(d)
    BY DEF Looking!Board!Named
  <2> QED  BY <2>1, <2>2, <2>3 DEF Looking!Board!Valid, Looking!Board!Named, Looking!Board!Chartable
<1>5. ChartInv'
  <2>1. ASSUME NEW row, ChartFits(row) PROVE ChartFits(row)'
    BY <1>4, <2>1 DEF ChartFits
  <2>2. ASSUME NEW c \in ChartIds, chart'[c].is = "row" PROVE ChartFits(chart[c])'
    <3>1. PICK row : row = chart[c]
      OBVIOUS
    <3>2. ChartFits(row)'
      BY <1>1, <2>1, <2>2, <3>1 DEF KeptInv, ChartInv
    <3> QED  BY <1>1, <3>1, <3>2 DEF ChartFits
  <2>3. question' \in [Questions -> {"choice", "number", "text", "gone"}]
    BY <1>2, <1>3
  <2> QED  BY <1>1, <2>2, <2>3 DEF KeptInv, ChartInv
<1>6. RequestInv'
  <2>1. ASSUME NEW q, RequestFits(q) PROVE RequestFits(q)'
    <3>1. WriteFits(q.sets) => WriteFits(q.sets)'
      BY <1>4 DEF WriteFits
    <3>2. NoNewer(q.base) => NoNewer(q.base)'
      BY <1>1 DEF NoNewer, PageSame
    <3> QED  BY <1>1, <1>4, <2>1, <3>1, <3>2 DEF RequestFits, PageSame
  <2>2. ASSUME NEW h \in Hands PROVE RequestFits(hand[h])'
    <3>1. PICK q : q = hand[h]
      OBVIOUS
    <3>2. RequestFits(q)'
      BY <2>1, <3>1 DEF KeptInv, RequestInv
    <3> QED  BY <1>1, <3>1, <3>2 DEF RequestFits
  <2> QED  BY <1>1, <2>2 DEF KeptInv, RequestInv
<1>7. PageInv'
  BY <1>1 DEF KeptInv, PageInv, PageSame, NoNewer
<1>8. OwnInv'
  BY <1>1, OwnStays DEF KeptInv, Looking!Board!Own, Looking!Board!Rows, Inserting
<1> QED  BY <1>5, <1>6, <1>7, <1>8 DEF KeptInv

-----------------------------------------------------------------------------
(* The layout.                                                                  *)

\* A layout that is written is newer than all that anybody has in front of them.
LayoutGrows ==
  \/ layout' = layout
  \/ layout'.version > layout.version

LEMMA RequestGrows ==
  ASSUME ChartsSame, LayoutGrows, layout \in Pages, layout' \in Pages, cleared' = cleared
  PROVE  \A q : RequestFits(q) => RequestFits(q)'
<1> SUFFICES ASSUME NEW q, RequestFits(q) PROVE RequestFits(q)'
  OBVIOUS
<1>1. WriteFits(q.sets) => WriteFits(q.sets)'
  BY FreshStays DEF ChartsSame, WriteFits
<1>2. q.base \in Pages /\ NoNewer(q.base) => NoNewer(q.base)'
  BY DEF NoNewer, LayoutGrows, Pages
<1> QED  BY <1>1, <1>2, FreshStays DEF RequestFits, ChartsSame

\* Charts, and who counted, are not the layout's.
LEMMA LayoutAlone ==
  ASSUME KeptInv, ChartsSame, NEW h \in Hands, NEW r, hand' = [hand EXCEPT ![h] = r], r.at # "insert"
  PROVE  ChartInv' /\ OwnInv'
<1>1. \A u : Inserting(u)' \subseteq Inserting(u)
  BY Inserters DEF KeptInv
<1> QED  BY <1>1, ChartsStay, OwnStays DEF KeptInv

\* A screen that is brought up to date shows the layout.
LEMMA LookKeeps ==
  ASSUME KeptInv, NEW w \in Screens, Looking!Board!Look(w)
  PROVE  KeptInv'
<1>1. /\ ChartsSame /\ PageSame /\ hand' = hand /\ blind' = blind /\ begun' = begun
      /\ seen' = [seen EXCEPT ![w] = layout]
  BY DEF Looking!Board!Look, Looking!Board!ChartsUnchanged, ChartsSame, PageSame
<1>2. ChartInv' /\ OwnInv'
  BY <1>1, ChartsStay, OwnStays DEF KeptInv, Inserting
<1>3. RequestInv'
  <2>1. ASSUME NEW h \in Hands PROVE RequestFits(hand[h])'
    <3>1. PICK q : q = hand[h]
      OBVIOUS
    <3>2. RequestFits(q)'
      BY <1>1, <3>1, RequestStays DEF KeptInv, RequestInv
    <3> QED  BY <1>1, <3>1, <3>2 DEF RequestFits
  <2> QED  BY <1>1, <2>1 DEF KeptInv, RequestInv
<1>4. PageInv'
  BY <1>1 DEF KeptInv, PageInv, PageSame, NoNewer, Pages
<1> QED  BY <1>2, <1>3, <1>4 DEF KeptInv

\* A save takes along what its screen shows.
LEMMA PutKeeps ==
  ASSUME KeptInv, NEW w \in Screens, NEW h \in Hands, Looking!Board!Put(h, w)
  PROVE  KeptInv'
<1>1. /\ ChartsSame /\ PageSame /\ blind' = blind /\ begun' = begun + 1 /\ seen' = seen
  BY DEF Looking!Board!Put, Looking!Board!Begin, Looking!Board!ChartsUnchanged,
     Looking!Board!LayoutUnchanged, ChartsSame, PageSame
<1>2. PICK q :
        /\ hand' = [hand EXCEPT ![h] = q]
        /\ q = [at |-> IF layout.version = 0 THEN "first" ELSE "swap", who |-> w, base |-> seen[w],
                says |-> begun, read |-> layout.version]
  BY DEF Looking!Board!Put, Looking!Board!Begin
<1>3. layout.version \in Nat /\ seen[w] \in Pages /\ begun \in Nat /\ (~cleared => NoNewer(seen[w]))
  BY DEF KeptInv, PageInv, Pages
<1>4. RequestFits(q) /\ q.at # "insert"
  BY <1>2, <1>3 DEF RequestFits
<1>5. ChartInv' /\ OwnInv'
  BY <1>1, <1>2, <1>4, LayoutAlone
<1>6. RequestInv'
  BY <1>1, <1>2, <1>4, RequestStays, HandMoves DEF KeptInv
<1>7. PageInv'
  BY <1>1 DEF KeptInv, PageInv, PageSame, NoNewer
<1> QED  BY <1>5, <1>6, <1>7 DEF KeptInv

\* The first save makes version 1, or shows what another made.
LEMMA PutFirstKeeps ==
  ASSUME KeptInv, NEW h \in Hands, Looking!Board!PutFirst(h)
  PROVE  KeptInv'
<1>1. /\ ChartsSame /\ cleared' = cleared /\ blind' = blind /\ begun' = begun /\ hand[h].at = "first"
      /\ Looking!Board!End(h)
  BY DEF Looking!Board!PutFirst, Looking!Board!ChartsUnchanged, ChartsSame
<1>2. RequestFits(hand[h]) /\ layout \in Pages
  BY DEF KeptInv, RequestInv, PageInv
<1>3. PICK w, says : w = hand[h].who /\ says = hand[h].says
  OBVIOUS
<1>4. w \in Screens /\ says \in Nat
  BY <1>1, <1>2, <1>3 DEF RequestFits
<1>5. /\ seen' = [seen EXCEPT ![w] = layout']
      /\ \/ layout' = layout
         \/ layout.version = 0 /\ layout' = [version |-> 1, says |-> says]
  BY <1>3 DEF Looking!Board!PutFirst
<1>6. layout' \in Pages /\ LayoutGrows
  BY <1>2, <1>4, <1>5 DEF Pages, LayoutGrows
<1>7. RequestInv' /\ hand' = [hand EXCEPT ![h] = [at |-> "idle"]]
  BY <1>1, <1>2, <1>6, RequestGrows, EndFits DEF KeptInv
<1>8. ChartInv' /\ OwnInv'
  <2>1. PICK r : r = [at |-> "idle"]
    OBVIOUS
  <2>2. hand' = [hand EXCEPT ![h] = r] /\ r.at # "insert"
    BY <1>7, <2>1
  <2> QED  BY <1>1, <2>2, LayoutAlone
<1>9. PageInv'
  BY <1>1, <1>4, <1>5, <1>6 DEF KeptInv, PageInv, LayoutGrows, NoNewer, Pages
<1> QED  BY <1>7, <1>8, <1>9 DEF KeptInv

\* Any other save goes over the layout its screen showed, or is told of a newer one.
LEMMA PutOverKeeps ==
  ASSUME KeptInv, NEW h \in Hands, Looking!Board!PutOver(h)
  PROVE  KeptInv'
<1>1. /\ ChartsSame /\ cleared' = cleared /\ begun' = begun /\ hand[h].at = "swap"
      /\ Looking!Board!End(h)
  BY DEF Looking!Board!PutOver, Looking!Board!ChartsUnchanged, ChartsSame
<1>2. RequestFits(hand[h]) /\ layout \in Pages
  BY DEF KeptInv, RequestInv, PageInv
<1>3. PICK w, says, base, read :
        w = hand[h].who /\ says = hand[h].says /\ base = hand[h].base /\ read = hand[h].read
  OBVIOUS
<1>4. w \in Screens /\ says \in Nat /\ base \in Pages /\ (~cleared => NoNewer(base))
  BY <1>1, <1>2, <1>3 DEF RequestFits
<1>5. /\ seen' = [seen EXCEPT ![w] = layout']
      /\ \/ layout' = layout /\ blind' = blind
         \/ /\ layout' = [version |-> layout.version + 1, says |-> says]
            /\ base.version = layout.version /\ blind' = (blind \/ base # layout)
  BY <1>3 DEF Looking!Board!PutOver
<1>6. layout' \in Pages /\ LayoutGrows
  BY <1>2, <1>4, <1>5 DEF Pages, LayoutGrows
<1>7. RequestInv' /\ hand' = [hand EXCEPT ![h] = [at |-> "idle"]]
  BY <1>1, <1>2, <1>6, RequestGrows, EndFits DEF KeptInv
<1>8. ChartInv' /\ OwnInv'
  <2>1. PICK r : r = [at |-> "idle"]
    OBVIOUS
  <2>2. hand' = [hand EXCEPT ![h] = r] /\ r.at # "insert"
    BY <1>7, <2>1
  <2> QED  BY <1>1, <2>2, LayoutAlone
<1>9. blind' => cleared'
  BY <1>1, <1>4, <1>5 DEF KeptInv, PageInv, NoNewer
<1>10. PageInv'
  BY <1>1, <1>4, <1>5, <1>6, <1>9 DEF KeptInv, PageInv, LayoutGrows, NoNewer, Pages
<1> QED  BY <1>7, <1>8, <1>10 DEF KeptInv

\* The layout is put back to the standard one, which is written down.
LEMMA PutBackKeeps ==
  ASSUME KeptInv, NEW w \in Screens, Looking!Board!PutBack(w)
  PROVE  KeptInv'
<1>1. /\ ChartsSame /\ hand' = hand /\ begun' = begun /\ cleared' = TRUE
      /\ layout' = Looking!Board!Standard /\ seen' = [seen EXCEPT ![w] = Looking!Board!Standard]
  BY DEF Looking!Board!PutBack, Looking!Board!ChartsUnchanged, ChartsSame
<1>2. ChartInv' /\ OwnInv'
  BY <1>1, ChartsStay, OwnStays DEF KeptInv, Inserting
<1>3. RequestInv'
  <2>1. ASSUME NEW q, RequestFits(q) PROVE RequestFits(q)'
    <3>1. WriteFits(q.sets) => WriteFits(q.sets)'
      BY <1>1, FreshStays DEF ChartsSame, WriteFits
    <3> QED  BY <1>1, <2>1, <3>1, FreshStays DEF RequestFits, ChartsSame
  <2>2. ASSUME NEW h \in Hands PROVE RequestFits(hand[h])'
    <3>1. PICK q : q = hand[h]
      OBVIOUS
    <3>2. RequestFits(q)'
      BY <2>1, <3>1 DEF KeptInv, RequestInv
    <3> QED  BY <1>1, <3>1, <3>2 DEF RequestFits
  <2> QED  BY <1>1, <2>2 DEF KeptInv, RequestInv
<1>4. PageInv'
  BY <1>1 DEF KeptInv, PageInv, Looking!Board!Standard, Pages
<1> QED  BY <1>2, <1>3, <1>4 DEF KeptInv

-----------------------------------------------------------------------------
(* What the runs check of what people keep.                                     *)

LEMMA KeptStep ==
  ASSUME KeptInv, [Looking!Board!ChartStep \/ Looking!Board!LayoutStep]_dashboardsVars
  PROVE  KeptInv'
<1>1. CASE Looking!Board!ChartStep
  <2>1. ASSUME NEW h \in Hands, NEW p \in Members,
               \/ Looking!Board!Create(h, p) \/ Looking!Board!Duplicate(h, p) \/ Looking!Board!Update(h, p)
               \/ Looking!Board!Delete(h, p) \/ Looking!Board!Reorder(h, p)
        PROVE  KeptInv'
    BY <2>1, ChartBeginsKeeps
  <2>2. ASSUME NEW h \in Hands,
               \/ Looking!Board!CountOwn(h) \/ Looking!Board!Insert(h) \/ Looking!Board!Save(h)
               \/ Looking!Board!DeleteRow(h) \/ Looking!Board!Number(h)
        PROVE  KeptInv'
    BY <2>2, CountOwnKeeps, InsertKeeps, SaveKeeps, DeleteRowKeeps, NumberKeeps
  <2> QED  BY <1>1, <2>1, <2>2, ChangeQuestionKeeps DEF Looking!Board!ChartStep
<1>2. CASE Looking!Board!LayoutStep
  BY <1>2, LookKeeps, PutBackKeeps, PutKeeps, PutFirstKeeps, PutOverKeeps DEF Looking!Board!LayoutStep
<1>3. CASE dashboardsVars' = dashboardsVars
  <2>1. ChartsSame /\ PageSame /\ hand' = hand /\ seen' = seen /\ blind' = blind /\ begun' = begun
    BY <1>3 DEF dashboardsVars, ChartsSame, PageSame
  <2>2. ChartInv' /\ OwnInv'
    BY <2>1, ChartsStay, OwnStays DEF KeptInv, Inserting
  <2>3. ASSUME NEW h \in Hands PROVE RequestFits(hand[h])'
    <3>1. PICK q : q = hand[h]
      OBVIOUS
    <3>2. RequestFits(q)'
      BY <2>1, <3>1, RequestStays DEF KeptInv, RequestInv
    <3> QED  BY <2>1, <3>1, <3>2 DEF RequestFits
  <2>4. RequestInv'
    BY <2>1, <2>3 DEF KeptInv, RequestInv
  <2>5. PageInv'
    BY <2>1 DEF KeptInv, PageInv, PageSame, NoNewer
  <2> QED  BY <2>2, <2>4, <2>5 DEF KeptInv
<1> QED  BY <1>1, <1>2, <1>3

\* What is kept is as it should be.
LEMMA KeptSound == KeptInv => Looking!KeptHolds
<1> SUFFICES ASSUME KeptInv PROVE Looking!KeptHolds
  OBVIOUS
<1>1. Looking!Board!ChartsBounded
  <2> SUFFICES ASSUME NEW p \in Members
               PROVE  Cardinality(Looking!Board!Own(p)) < Limit + Cardinality(Hands)
    BY KeptCount DEF Looking!Board!ChartsBounded
  <2>1. IsFiniteSet(Inserting(p)) /\ Cardinality(Inserting(p)) \in Nat
    BY KeptAssumed, FS_Subset, FS_CardinalityType DEF Inserting
  <2>2. /\ Cardinality(Looking!Board!Own(p)) \in Nat /\ Cardinality(Hands) \in Nat
        /\ Cardinality(Looking!Board!Own(p)) + Cardinality(Inserting(p)) < Limit + Cardinality(Hands)
    BY KeptAssumed, FS_CardinalityType DEF KeptInv, OwnInv
  <2> QED  BY <2>1, <2>2, KeptAssumed
<1>2. Looking!Board!PrivateIsOwn
  BY DEF KeptInv, ChartInv, ChartFits, Looking!Board!Rows, Looking!Board!PrivateIsOwn
<1>3. Looking!Board!UntouchedAnswers
  <2> SUFFICES ASSUME NEW d \in Designs, Fresh(d), Looking!Board!Named(d) \cap touched = {}
               PROVE  Looking!Board!Answer(d) = "answered"
    BY DEF KeptInv, ChartInv, ChartFits, Looking!Board!Rows, Looking!Board!UntouchedAnswers
  <2>1. Looking!Board!Valid(d)
    BY DEF Fresh
  <2>2. \A q \in Looking!Board!Named(d) : Looking!Board!Chartable(q) /\ question[q] # "gone"
    BY <2>1 DEF Looking!Board!Valid, Looking!Board!Chartable
  <2>3. \A i \in DOMAIN d.levels : d.levels[i] \in Looking!Board!Named(d)
    BY DEF Looking!Board!Named, Looking!Board!Range
  <2>4. d.legacy => 1 \in DOMAIN d.levels
    BY KeptAssumed
  <2> QED  BY <2>1, <2>2, <2>3, <2>4 DEF Looking!Board!Answer
<1>4. Looking!Board!LayoutsAreSeen
  BY DEF KeptInv, PageInv, Looking!Board!LayoutsAreSeen
<1> QED  BY <1>1, <1>2, <1>3, <1>4 DEF Looking!KeptHolds

\* Whoever keeps charts and layouts, in any order and side by side: a member passes the limit
\* of charts by the requests under way at most, a chart that was never shared is its owner's
\* work, one whose questions nobody touched is answered, and no layout is saved over one its
\* sender did not see (chart.controller.ts, dashboardLayout.service.ts).
THEOREM KeptStays == WorkspaceSpec => []KeptHolds
<1>1. WorkspaceInit => KeptInv
  BY KeptInit DEF WorkspaceInit, Looking!InsightInit
<1>2. KeptInv /\ [WorkspaceNext]_workspaceVars => KeptInv'
  <2>1. [WorkspaceNext]_workspaceVars =>
          [Looking!Board!ChartStep \/ Looking!Board!LayoutStep]_dashboardsVars
    BY DEF WorkspaceNext, workspaceVars, lookingVars, dashboardsVars, Looking!InsightNext,
       Looking!dashboardsOnly
  <2> QED  BY <2>1, KeptStep
<1>3. KeptInv => KeptHolds
  BY KeptSound DEF KeptHolds
<1> QED  BY <1>1, <1>2, <1>3, PTL DEF WorkspaceSpec
=============================================================================
