------------------------------ MODULE FoldProofs ------------------------------
(***************************************************************************)
(* What the other proofs share.  Induction, in the form they use it: the   *)
(* least member of a family of finite sets, the least and greatest of some *)
(* numbers, what holds of all numbers of a range, functions that recur     *)
(* over a range, and the sum of a column of a table.  And what appending   *)
(* to a table and updating a row of it do.                                 *)
(***************************************************************************)
EXTENDS Integers, FiniteSetsExt, FiniteSetTheorems, SequenceTheorems, TLAPS

----------------------------------------------------------------------------
(* Least and greatest members *)

\* Induction over a finite set: a nonempty family of its subsets has a least
\* member.
LEMMA LeastSubset ==
    ASSUME NEW S, IsFiniteSet(S), NEW F, F \subseteq SUBSET S, F # {}
    PROVE  \E T \in F : \A U \in F : U \subseteq T => U = T
  <1>1. IsWellFoundedOn(StrictSubsetOrdering(S), FiniteSubsetsOf(S))
    BY FS_StrictSubsetOrderingWellFounded
  <1>2. F \subseteq FiniteSubsetsOf(S)
    BY FS_Subset DEF FiniteSubsetsOf
  <1>3. PICK T \in F : \A U \in F : ~(<<U, T>> \in StrictSubsetOrdering(S))
    BY <1>1, <1>2, WFMin
  <1>4. QED
    BY <1>2, <1>3 DEF StrictSubsetOrdering, FiniteSubsetsOf

LEMMA MinIs ==
    ASSUME NEW S \in SUBSET Nat, S # {}
    PROVE  Min(S) \in S /\ \A x \in S : Min(S) <= x
  <1>1. PICK n \in S : TRUE
      OBVIOUS
  <1> DEFINE F == {0 .. k : k \in {k \in S : k <= n}}
  <1>2. F \subseteq SUBSET (0 .. n) /\ F # {}
      <2>1. n \in {k \in S : k <= n}
          OBVIOUS
      <2> QED
          BY <2>1
  <1> HIDE DEF F
  <1>3. PICK T \in F : \A U \in F : U \subseteq T => U = T
      <2> DEFINE N == 0 .. n
      <2>1. IsFiniteSet(N)
          BY FS_Interval
      <2>2. F \subseteq SUBSET N
          BY <1>2
      <2>3. F # {}
          BY <1>2
      <2> HIDE DEF N
      <2> QED
          BY <2>1, <2>2, <2>3, LeastSubset
  <1>4. PICK m \in S : m <= n /\ T = 0 .. m
      BY DEF F
  <1>5. ASSUME NEW x \in S, x < m PROVE FALSE
      <2>1. 0 .. x \in F
          BY <1>4, <1>5 DEF F
      <2>2. 0 .. x \subseteq T /\ m \in T /\ m \notin 0 .. x
          BY <1>4, <1>5
      <2> QED
          BY <1>3, <2>1, <2>2
  <1>6. \A x \in S : m <= x
      BY <1>5
  <1> QED
      BY <1>6 DEF Min

LEMMA MaxIs ==
    ASSUME NEW S \in SUBSET Nat, S # {}, NEW n \in Nat, \A x \in S : x <= n
    PROVE  Max(S) \in S /\ \A x \in S : x <= Max(S)
  <1> DEFINE F == {k .. n : k \in S}
  <1>1. F \subseteq SUBSET (0 .. n) /\ F # {}
      <2>1. \A k \in S : k \in Nat /\ k .. n \subseteq 0 .. n
          OBVIOUS
      <2> QED
          BY <2>1
  <1> HIDE DEF F
  <1>2. PICK T \in F : \A U \in F : U \subseteq T => U = T
      <2> DEFINE N == 0 .. n
      <2>1. IsFiniteSet(N)
          BY FS_Interval
      <2>2. F \subseteq SUBSET N
          BY <1>1
      <2>3. F # {}
          BY <1>1
      <2> HIDE DEF N
      <2> QED
          BY <2>1, <2>2, <2>3, LeastSubset
  <1>3. PICK m \in S : T = m .. n
      BY DEF F
  <1>4. ASSUME NEW x \in S, x > m PROVE FALSE
      <2>1. x .. n \in F
          BY DEF F
      <2>2. x .. n \subseteq T /\ m \in T /\ m \notin x .. n
          BY <1>3, <1>4
      <2> QED
          BY <1>2, <2>1, <2>2
  <1>5. \A x \in S : m >= x
      BY <1>4
  <1> QED
      BY <1>5 DEF Max

LEMMA MaxOfTwo ==
    ASSUME NEW a \in Int, NEW b \in Int
    PROVE  Max({a, b}) = IF a >= b THEN a ELSE b
  BY DEF Max

\* Finitely many numbers have a bound.
LEMMA FiniteBound ==
    ASSUME NEW S, S \subseteq Nat, IsFiniteSet(S)
    PROVE  \E n \in Nat : \A x \in S : x <= n
  <1> DEFINE F == {T \in SUBSET S : \A n \in Nat : \E x \in T : ~ x <= n}
  <1>1. SUFFICES ASSUME F # {} PROVE FALSE
    BY DEF F
  <1>2. F \subseteq SUBSET S
    OBVIOUS
  <1>3. PICK T \in F : \A U \in F : U \subseteq T => U = T
    <2> DEFINE N == S
    <2>1. IsFiniteSet(N) /\ F \subseteq SUBSET N /\ F # {}
      BY <1>1
    <2> HIDE DEF F, N
    <2>2. QED
      BY <2>1, LeastSubset
  <1>4. PICK x \in T : TRUE
    <2>1. 0 \in Nat
      OBVIOUS
    <2>2. QED
      BY <1>3, <2>1
  <1>5. T \ {x} \notin F
    BY <1>3, <1>4
  <1>6. PICK n \in Nat : \A y \in T \ {x} : y <= n
    BY <1>3, <1>5
  <1>7. x \in Nat /\ T \subseteq Nat
    BY <1>3, <1>4
  <1>8. \A y \in T : y <= n + x
    BY <1>6, <1>7
  <1>9. n + x \in Nat
    BY <1>7
  <1>10. \A k \in Nat : \E y \in T : ~ y <= k
    BY <1>3
  <1>11. QED
    BY <1>8, <1>9, <1>10

LEMMA GreatestValue ==
    ASSUME NEW S, IsFiniteSet(S), S # {}, NEW f \in [S -> Nat]
    PROVE  /\ Max(Range(f)) \in Nat
           /\ \A x \in S : f[x] <= Max(Range(f))
  <1>1. Range(f) = {f[x] : x \in S}
    BY DEF Range
  <1>2. Range(f) \subseteq Nat /\ Range(f) # {} /\ \A x \in S : f[x] \in Range(f)
    BY <1>1
  <1>3. f \in Surjection(S, Range(f))
    BY <1>1 DEF Surjection
  <1>4. IsFiniteSet(Range(f))
    BY <1>3, FS_Surjection
  <1>5. PICK n \in Nat : \A y \in Range(f) : y <= n
    BY <1>2, <1>4, FiniteBound
  <1>6. Max(Range(f)) \in Range(f) /\ \A y \in Range(f) : y <= Max(Range(f))
    BY <1>2, <1>5, MaxIs
  <1>7. QED
    BY <1>2, <1>6

----------------------------------------------------------------------------
(* Ranges *)

\* Induction over a range of integers.
LEMMA RangeInduction ==
    ASSUME NEW m \in Int, NEW n \in Int, NEW S, m \in S,
           \A i \in m .. n : i \in S /\ i < n => i + 1 \in S
    PROVE  m .. n \subseteq S
  <1> DEFINE B == {i \in m .. n : i \notin S}
             F == {m .. i : i \in B}
  <1>1. SUFFICES ASSUME B # {} PROVE FALSE
    OBVIOUS
  <1>2. F \subseteq SUBSET (m .. n) /\ F # {}
    BY <1>1
  <1>3. IsFiniteSet(m .. n)
    BY FS_Interval
  <1>4. PICK T \in F : \A U \in F : U \subseteq T => U = T
    <2> DEFINE N == m .. n
    <2>1. IsFiniteSet(N) /\ F \subseteq SUBSET N /\ F # {}
      BY <1>2, <1>3
    <2> HIDE DEF F, N
    <2>2. QED
      BY <2>1, LeastSubset
  <1>5. PICK i \in B : T = m .. i
    BY <1>4
  <1>6. i \in m .. n /\ i \notin S /\ i # m
    BY <1>5
  <1>7. i - 1 \in m .. n /\ i - 1 < n /\ (i - 1) + 1 = i
    BY <1>6
  <1>8. i - 1 \in B
    BY <1>6, <1>7
  <1>9. m .. (i - 1) \in F /\ m .. (i - 1) \subseteq T
    BY <1>5, <1>6, <1>8
  <1>10. m .. (i - 1) = m .. i
    BY <1>4, <1>5, <1>9
  <1>11. i \in m .. i /\ i \notin m .. (i - 1)
    BY <1>6
  <1>12. QED
    BY <1>10, <1>11

\* And from its end downwards.
LEMMA DownInduction ==
    ASSUME NEW m \in Int, NEW n \in Int, m <= n, NEW S, n \in S,
           \A i \in m .. n : i \in S /\ m < i => i - 1 \in S
    PROVE  m .. n \subseteq S
  <1> DEFINE R == {i \in m .. n : (m + n) - i \in S}
  <1>1. m \in R
    OBVIOUS
  <1>2. ASSUME NEW i \in m .. n, i \in R, i < n
        PROVE  i + 1 \in R
    <2>1. (m + n) - i \in m .. n /\ m < (m + n) - i
      BY <1>2
    <2>2. ((m + n) - i) - 1 \in S
      BY <1>2, <2>1
    <2>3. ((m + n) - i) - 1 = (m + n) - (i + 1) /\ i + 1 \in m .. n
      BY <1>2
    <2>4. QED
      BY <2>2, <2>3
  <1> HIDE DEF R
  <1>3. m .. n \subseteq R
    BY <1>1, <1>2, RangeInduction
  <1>4. ASSUME NEW j \in m .. n
        PROVE  j \in S
    <2>1. (m + n) - j \in m .. n /\ (m + n) - ((m + n) - j) = j
      OBVIOUS
    <2>2. (m + n) - j \in R
      BY <1>3, <2>1
    <2>3. QED
      BY <2>1, <2>2 DEF R
  <1>5. QED
    BY <1>4

\* g starts with b at m, and makes each of its values from the one before.
Recurs(g, b, F, m, n) ==
    /\ g = [i \in m .. n |-> g[i]]
    /\ g[m] = b
    /\ \A i \in (m + 1) .. n : g[i] = F[i][g[i - 1]]

\* What recurs over a range exists, and stays where its steps lead.
LEMMA Recursion ==
    ASSUME NEW m \in Int, NEW n \in Int, m <= n, NEW B, NEW b \in B, NEW F,
           \A i \in (m + 1) .. n : \A x \in B : F[i][x] \in B
    PROVE  \E g \in [m .. n -> B] : Recurs(g, b, F, m, n)
  <1> DEFINE S == {i \in m .. n : \E g \in [m .. i -> B] : Recurs(g, b, F, m, i)}
  <1>1. m \in S
    <2> DEFINE g == [i \in m .. m |-> b]
    <2>1. g \in [m .. m -> B] /\ g[m] = b /\ (m + 1) .. m = {} /\ m \in m .. n
      OBVIOUS
    <2>2. Recurs(g, b, F, m, m)
      BY <2>1 DEF Recurs
    <2>3. QED
      BY <2>1, <2>2
  <1>2. ASSUME NEW i \in m .. n, i \in S, i < n
        PROVE  i + 1 \in S
    <2>1. PICK f \in [m .. i -> B] : Recurs(f, b, F, m, i)
      BY <1>2
    <2> DEFINE g == [j \in m .. (i + 1) |-> IF j = i + 1 THEN F[i + 1][f[i]] ELSE f[j]]
    <2>2. i \in m .. i /\ i + 1 \in (m + 1) .. n /\ i + 1 \in m .. n
      BY <1>2
    <2>3. F[i + 1][f[i]] \in B
      BY <2>1, <2>2
    <2>4. \A j \in m .. (i + 1) : j = i + 1 \/ j \in m .. i
      OBVIOUS
    <2>5. g \in [m .. (i + 1) -> B]
      BY <2>3, <2>4
    <2>6. \A j \in m .. i : g[j] = f[j]
      OBVIOUS
    <2>7. g[i + 1] = F[i + 1][g[i]]
      BY <2>2, <2>6
    <2>8. g[m] = b
      BY <1>2, <2>1, <2>6 DEF Recurs
    <2>9. g = [j \in m .. (i + 1) |-> g[j]]
      OBVIOUS
    <2> HIDE DEF g
    <2>10. ASSUME NEW j \in (m + 1) .. (i + 1)
           PROVE  g[j] = F[j][g[j - 1]]
      <3>1. CASE j = i + 1
        BY <2>7, <3>1
      <3>2. CASE j # i + 1
        <4>1. j \in (m + 1) .. i /\ j \in m .. i /\ j - 1 \in m .. i
          BY <3>2
        <4>2. f[j] = F[j][f[j - 1]]
          BY <2>1, <4>1 DEF Recurs
        <4>3. QED
          BY <2>6, <4>1, <4>2
      <3>3. QED
        BY <3>1, <3>2
    <2>11. Recurs(g, b, F, m, i + 1)
      BY <2>8, <2>9, <2>10 DEF Recurs
    <2>12. QED
      BY <2>2, <2>5, <2>11
  <1> HIDE DEF S
  <1>3. n \in S
    <2>1. m .. n \subseteq S
      BY <1>1, <1>2, RangeInduction
    <2>2. QED
      BY <2>1
  <1>4. QED
    BY <1>3 DEF S

LEMMA RecursStays ==
    ASSUME NEW m \in Int, NEW n \in Int, m <= n, NEW B, NEW b \in B, NEW F,
           \A i \in (m + 1) .. n : \A x \in B : F[i][x] \in B,
           NEW g, Recurs(g, b, F, m, n)
    PROVE  g \in [m .. n -> B]
  <1> DEFINE S == {i \in m .. n : g[i] \in B}
  <1>1. m \in S
    BY DEF Recurs
  <1>2. ASSUME NEW i \in m .. n, i \in S, i < n
        PROVE  i + 1 \in S
    <2>1. i + 1 \in (m + 1) .. n /\ i + 1 \in m .. n /\ (i + 1) - 1 = i
      BY <1>2
    <2>2. g[i + 1] = F[i + 1][g[i]]
      BY <2>1 DEF Recurs
    <2>3. QED
      BY <1>2, <2>1, <2>2
  <1> HIDE DEF S
  <1>3. m .. n \subseteq S
    BY <1>1, <1>2, RangeInduction
  <1>4. \A i \in m .. n : g[i] \in B
    BY <1>3 DEF S
  <1>5. g = [i \in m .. n |-> g[i]]
    BY DEF Recurs
  <1>6. QED
    BY <1>4, <1>5

----------------------------------------------------------------------------
(* Sums of a column *)

\* The element a fold takes first.
First(s) == CHOOSE x \in s : TRUE

\* g sums f over every subset of S, the way a fold does.
Sums(g, f, S) ==
    /\ g = [s \in SUBSET S |-> g[s]]
    /\ g[{}] = 0
    /\ \A s \in (SUBSET S) \ {{}} : g[s] = f[First(s)] + g[s \ {First(s)}]

LEMMA FirstLemma ==
    ASSUME NEW s, s # {}
    PROVE  First(s) \in s /\ s \ {First(s)} # s
  BY DEF First

\* Two sums of functions that agree agree.
LEMMA SumsUnique ==
    ASSUME NEW S, IsFiniteSet(S), NEW f, NEW e, NEW g, NEW h,
           Sums(g, f, S), Sums(h, e, S), \A x \in S : f[x] = e[x]
    PROVE  g = h
  <1> DEFINE F == {s \in SUBSET S : g[s] # h[s]}
  <1>1. ASSUME F # {}
        PROVE  FALSE
    <2>1. PICK s \in F : \A r \in F : r \subseteq s => r = s
      <3>1. F \subseteq SUBSET S
        OBVIOUS
      <3> HIDE DEF F
      <3>2. QED
        BY <1>1, <3>1, LeastSubset
    <2>2. s # {}
      BY <2>1 DEF Sums
    <2>3. First(s) \in s /\ s \ {First(s)} # s
      BY <2>2, FirstLemma
    <2>4. g[s \ {First(s)}] = h[s \ {First(s)}]
      BY <2>1, <2>3
    <2>5. /\ s \in (SUBSET S) \ {{}} /\ f[First(s)] = e[First(s)]
          /\ g[s] # h[s]
      BY <2>2, <2>3
    <2>6. /\ g[s] = f[First(s)] + g[s \ {First(s)}]
          /\ h[s] = e[First(s)] + h[s \ {First(s)}]
      BY <2>5 DEF Sums
    <2>7. QED
      BY <2>4, <2>5, <2>6
  <1>2. QED
    BY <1>1 DEF Sums

\* A sum over S is a sum over its subsets.
LEMMA SumsRestrict ==
    ASSUME NEW S, NEW f, NEW g, Sums(g, f, S), NEW T \in SUBSET S
    PROVE  Sums([s \in SUBSET T |-> g[s]], f, T)
  <1>1. \A s \in (SUBSET T) \ {{}} : s \ {First(s)} \in SUBSET T
    OBVIOUS
  <1>2. QED
    BY <1>1 DEF Sums

LEMMA SumsExist ==
    ASSUME NEW S, IsFiniteSet(S), NEW f
    PROVE  \E g : Sums(g, f, S)
  <1> DEFINE F == {T \in SUBSET S : ~ \E g : Sums(g, f, T)}
  <1>1. ASSUME F # {}
        PROVE  FALSE
    <2>1. PICK T \in F : \A U \in F : U \subseteq T => U = T
      <3>1. F \subseteq SUBSET S
        OBVIOUS
      <3> HIDE DEF F
      <3>2. QED
        BY <1>1, <3>1, LeastSubset
    <2>2. \A U \in SUBSET T : U # T => \E g : Sums(g, f, U)
      BY <2>1
    <2> DEFINE sum(U) == CHOOSE g : Sums(g, f, U)
    <2>3. \A U \in SUBSET T : U # T => Sums(sum(U), f, U)
      BY <2>2
    <2>4. \A U \in SUBSET T : U # T =>
             \A V \in SUBSET U : [s \in SUBSET V |-> sum(U)[s]] = sum(V)
      <3>1. TAKE U \in SUBSET T
      <3>2. HAVE U # T
      <3>3. TAKE V \in SUBSET U
      <3>4. V \in SUBSET T /\ V # T
        BY <3>2
      <3>5. IsFiniteSet(V)
        BY FS_Subset
      <3>6. Sums(sum(V), f, V) /\ Sums([s \in SUBSET V |-> sum(U)[s]], f, V)
        BY <2>3, <3>2, <3>4, SumsRestrict
      <3> HIDE DEF sum
      <3>7. QED
        BY <3>5, <3>6, SumsUnique
    <2> DEFINE rest == T \ {First(T)}
               whole == IF T = {} THEN 0 ELSE f[First(T)] + sum(rest)[rest]
               g == [s \in SUBSET T |-> IF s = T THEN whole ELSE sum(s)[s]]
    <2>5. \A s \in SUBSET T : s # T => g[s] = sum(s)[s]
      OBVIOUS
    <2>6. g[T] = whole
      OBVIOUS
    <2> HIDE DEF sum
    <2>7. g[{}] = 0
      <3>1. CASE T = {}
        BY <2>6, <3>1
      <3>2. CASE T # {}
        BY <2>3, <2>5, <3>2 DEF Sums
      <3>3. QED
        BY <3>1, <3>2
    <2>8. ASSUME NEW s \in (SUBSET T) \ {{}}
          PROVE  g[s] = f[First(s)] + g[s \ {First(s)}]
      <3>1. /\ First(s) \in s /\ s \ {First(s)} # T
            /\ s \ {First(s)} \in SUBSET T /\ s \ {First(s)} \in SUBSET s
        <4>1. s # {} /\ s \subseteq T
          BY <2>8
        <4>2. First(s) \in s
          BY <4>1, FirstLemma
        <4> HIDE DEF g, whole, rest, sum, F
        <4>3. QED
          BY <4>1, <4>2
      <3>2. g[s \ {First(s)}] = sum(s \ {First(s)})[s \ {First(s)}]
        BY <2>5, <3>1
      <3>3. CASE s = T
        <4>1. T # {} /\ rest = s \ {First(s)} /\ First(T) = First(s)
          BY <3>3
        <4> HIDE DEF g, rest
        <4>2. QED
          BY <2>6, <3>2, <3>3, <4>1
      <3>4. CASE s # T
        <4>1. sum(s)[s] = f[First(s)] + sum(s)[s \ {First(s)}]
          BY <2>3, <3>4 DEF Sums
        <4>2. [r \in SUBSET (s \ {First(s)}) |-> sum(s)[r]] = sum(s \ {First(s)})
          BY <2>4, <3>1, <3>4
        <4>3. sum(s)[s \ {First(s)}] = sum(s \ {First(s)})[s \ {First(s)}]
          BY <4>2
        <4>4. QED
          BY <2>5, <3>2, <3>4, <4>1, <4>3
      <3>5. QED
        BY <3>3, <3>4
    <2>9. g = [s \in SUBSET T |-> g[s]]
      OBVIOUS
    <2> HIDE DEF g
    <2>10. Sums(g, f, T)
      BY <2>7, <2>8, <2>9 DEF Sums
    <2>11. QED
      BY <2>1, <2>10
  <1>2. QED
    BY <1>1

\* SumFunctionOnSet is such a sum.
LEMMA SumIsSums ==
    ASSUME NEW S, IsFiniteSet(S), NEW f, NEW g, Sums(g, f, S)
    PROVE  SumFunctionOnSet(f, S) = g[S]
  <1> DEFINE Step(h) == [s \in SUBSET S |->
                            IF s = {} THEN 0
                            ELSE f[CHOOSE x \in s : TRUE]
                                 + h[s \ {CHOOSE x \in s : TRUE}]]
             it == CHOOSE h : h = Step(h)
  <1>1. SumFunctionOnSet(f, S) = it[S]
    BY DEF SumFunctionOnSet, FoldFunctionOnSet, MapThenFoldSet
  <1>2. \A h : h = Step(h) <=> Sums(h, f, S)
    <2>1. ASSUME NEW h, h = Step(h)
          PROVE  Sums(h, f, S)
      <3>1. DOMAIN h = SUBSET S /\ h = [s \in SUBSET S |-> h[s]]
        BY <2>1
      <3>2. \A s \in SUBSET S : h[s] = Step(h)[s]
        BY <2>1
      <3>3. h[{}] = 0
        BY <3>2
      <3>4. \A s \in (SUBSET S) \ {{}} : h[s] = f[First(s)] + h[s \ {First(s)}]
        BY <3>2 DEF First
      <3> HIDE DEF Step
      <3>5. QED
        BY <3>1, <3>3, <3>4 DEF Sums
    <2>2. ASSUME NEW h, Sums(h, f, S)
          PROVE  h = Step(h)
      <3>1. h = [s \in SUBSET S |-> h[s]]
        BY <2>2 DEF Sums
      <3>2. \A s \in SUBSET S : h[s] = Step(h)[s]
        <4>1. TAKE s \in SUBSET S
        <4>2. CASE s = {}
          BY <2>2, <4>2 DEF Sums
        <4>3. CASE s # {}
          BY <2>2, <4>3 DEF Sums, First
        <4>4. QED
          BY <4>2, <4>3
      <3> HIDE DEF Step
      <3>3. Step(h) = [s \in SUBSET S |-> Step(h)[s]]
        BY DEF Step
      <3>4. QED
        BY <3>1, <3>2, <3>3
    <2>3. QED
      BY <2>1, <2>2
  <1> HIDE DEF Step
  <1>3. it = Step(it)
    BY <1>2
  <1>4. Sums(it, f, S)
    BY <1>2, <1>3
  <1> HIDE DEF it
  <1>5. it = g
    BY <1>4, SumsUnique
  <1>6. QED
    BY <1>1, <1>5

(***************************************************************************)
(* What the sum of a table's column is: nothing over no rows, and over     *)
(* some rows any one of them plus the rest.                                *)
(***************************************************************************)
LEMMA SumFacts ==
    ASSUME NEW S, IsFiniteSet(S), NEW f, \A x \in S : f[x] \in Int
    PROVE  /\ SumFunctionOnSet(f, {}) = 0
           /\ SumFunctionOnSet(f, S) \in Int
           /\ \A y \in S :
                 SumFunctionOnSet(f, S) = f[y] + SumFunctionOnSet(f, S \ {y})
  <1>1. PICK g : Sums(g, f, S)
    BY SumsExist
  <1>2. \A T \in SUBSET S : SumFunctionOnSet(f, T) = g[T]
    <2>1. TAKE T \in SUBSET S
    <2>2. IsFiniteSet(T)
      BY FS_Subset
    <2>3. Sums([s \in SUBSET T |-> g[s]], f, T)
      BY <1>1, SumsRestrict
    <2>4. QED
      BY <2>2, <2>3, SumIsSums
  <1> DEFINE F == {s \in SUBSET S : g[s] \notin Int}
             G == {s \in SUBSET S : \E y \in s : g[s] # f[y] + g[s \ {y}]}
  <1>3. ASSUME F # {}
        PROVE  FALSE
    <2>1. PICK s \in F : \A r \in F : r \subseteq s => r = s
      <3>1. F \subseteq SUBSET S
        OBVIOUS
      <3> HIDE DEF F
      <3>2. QED
        BY <1>3, <3>1, LeastSubset
    <2>2. s \in SUBSET S /\ s # {}
      <3>1. g[{}] = 0
        BY <1>1 DEF Sums
      <3>2. s \in SUBSET S /\ g[s] \notin Int
        BY <2>1
      <3> HIDE DEF F, G
      <3>3. g[s] # g[{}]
        BY <3>1, <3>2
      <3>4. QED
        BY <3>2, <3>3
    <2>3. First(s) \in s /\ s \ {First(s)} # s
      BY <2>2, FirstLemma
    <2>4. g[s \ {First(s)}] \in Int /\ f[First(s)] \in Int
      BY <2>1, <2>3
    <2>5. g[s] = f[First(s)] + g[s \ {First(s)}]
      BY <1>1, <2>2 DEF Sums
    <2>6. QED
      BY <2>1, <2>4, <2>5
  <1>4. ASSUME G # {}
        PROVE  FALSE
    <2>1. PICK s \in G : \A r \in G : r \subseteq s => r = s
      <3>1. G \subseteq SUBSET S
        OBVIOUS
      <3> HIDE DEF G
      <3>2. QED
        BY <1>4, <3>1, LeastSubset
    <2>2. PICK y \in s : g[s] # f[y] + g[s \ {y}]
      BY <2>1
    <2> DEFINE c == First(s)
    <2>3. s \in SUBSET S /\ c \in s
      BY <2>2, FirstLemma
    <2>4. g[s] = f[c] + g[s \ {c}]
      BY <1>1, <2>2, <2>3 DEF Sums
    <2> HIDE DEF c
    <2>5. y # c
      BY <2>2, <2>4
    <2>6. \A r \in SUBSET S : r \subseteq s /\ r # s => r \notin G
      BY <2>1
    <2>7. s \ {c} \notin G /\ s \ {y} \notin G
      BY <2>2, <2>3, <2>6
    <2>8. /\ g[s \ {c}] = f[y] + g[(s \ {c}) \ {y}]
          /\ g[s \ {y}] = f[c] + g[(s \ {y}) \ {c}]
      BY <2>2, <2>3, <2>5, <2>7
    <2>9. (s \ {c}) \ {y} = (s \ {y}) \ {c}
      OBVIOUS
    <2>10. f[c] \in Int /\ f[y] \in Int /\ g[(s \ {y}) \ {c}] \in Int
      BY <1>3, <2>2, <2>3
    <2> DEFINE rest == g[(s \ {y}) \ {c}]
    <2>11. g[s] = f[c] + (f[y] + rest) /\ g[s \ {y}] = f[c] + rest
      BY <2>4, <2>8, <2>9
    <2>12. g[s] # f[y] + (f[c] + rest)
      BY <2>2, <2>11
    <2>13. rest \in Int
      BY <2>10
    <2> HIDE DEF rest
    <2>14. QED
      BY <2>10, <2>11, <2>12, <2>13
  <1>5. g[{}] = 0 /\ g[S] \in Int
    BY <1>1, <1>3 DEF Sums
  <1>6. \A y \in S : g[S] = f[y] + g[S \ {y}]
    BY <1>4
  <1>7. QED
    BY <1>2, <1>5, <1>6

LEMMA SumAgree ==
    ASSUME NEW S, IsFiniteSet(S), NEW f, NEW e, \A x \in S : f[x] = e[x]
    PROVE  SumFunctionOnSet(f, S) = SumFunctionOnSet(e, S)
  <1>1. PICK g, h : Sums(g, f, S) /\ Sums(h, e, S)
    BY SumsExist
  <1>2. g = h
    BY <1>1, SumsUnique
  <1>3. QED
    BY <1>1, <1>2, SumIsSums

LEMMA SumEmpty ==
    ASSUME NEW f
    PROVE  SumFunctionOnSet(f, {}) = 0
  <1>1. IsFiniteSet({}) /\ \A x \in {} : f[x] \in Int
    BY FS_EmptySet
  <1>2. QED
    BY <1>1, SumFacts

\* One more row adds its value, whatever it was before.
LEMMA SumAdd ==
    ASSUME NEW S, IsFiniteSet(S), NEW f, NEW e, NEW y, y \notin S,
           \A x \in S : f[x] \in Int /\ e[x] = f[x], e[y] \in Int
    PROVE  SumFunctionOnSet(e, S \cup {y}) = e[y] + SumFunctionOnSet(f, S)
  <1>1. IsFiniteSet(S \cup {y})
    BY FS_AddElement
  <1>2. SumFunctionOnSet(e, S \cup {y})
           = e[y] + SumFunctionOnSet(e, (S \cup {y}) \ {y})
    BY <1>1, SumFacts
  <1>3. (S \cup {y}) \ {y} = S
    OBVIOUS
  <1>4. SumFunctionOnSet(e, S) = SumFunctionOnSet(f, S)
    BY SumAgree
  <1>5. QED
    BY <1>2, <1>3, <1>4

\* A sum of amounts that are not negative is not.
LEMMA SumNat ==
    ASSUME NEW S, IsFiniteSet(S), NEW f, \A x \in S : f[x] \in Nat
    PROVE  SumFunctionOnSet(f, S) \in Nat
  <1> DEFINE F == {T \in SUBSET S : SumFunctionOnSet(f, T) \notin Nat}
  <1>1. ASSUME F # {}
        PROVE  FALSE
    <2>1. PICK T \in F : \A U \in F : U \subseteq T => U = T
      <3>1. F \subseteq SUBSET S
        OBVIOUS
      <3> HIDE DEF F
      <3>2. QED
        BY <1>1, <3>1, LeastSubset
    <2>2. T \in SUBSET S /\ IsFiniteSet(T)
      BY FS_Subset
    <2>3. T # {}
      <3>1. IsFiniteSet({}) /\ SumFunctionOnSet(f, {}) = 0
        BY FS_EmptySet, SumEmpty
      <3>2. SumFunctionOnSet(f, T) \notin Nat
        BY <2>1
      <3>3. SumFunctionOnSet(f, T) # SumFunctionOnSet(f, {})
        BY <3>1, <3>2
      <3>4. QED
        BY <3>3
    <2>4. PICK y : y \in T
      BY <2>3
    <2>5. SumFunctionOnSet(f, T) = f[y] + SumFunctionOnSet(f, T \ {y})
      BY <2>2, <2>4, SumFacts
    <2>6. T \ {y} \in SUBSET S /\ T \ {y} \subseteq T /\ T \ {y} # T
      BY <2>2, <2>4
    <2>7. SumFunctionOnSet(f, T \ {y}) \in Nat
      BY <2>1, <2>6
    <2>8. f[y] \in Nat
      BY <2>2, <2>4
    <2>9. QED
      BY <2>1, <2>5, <2>7, <2>8
  <1>2. QED
    BY <1>1

\* A sum is the sum over a part and the sum over the rest.
LEMMA SumSplit ==
    ASSUME NEW S, IsFiniteSet(S), NEW f, \A x \in S : f[x] \in Int, NEW T \in SUBSET S
    PROVE  SumFunctionOnSet(f, S) = SumFunctionOnSet(f, T) + SumFunctionOnSet(f, S \ T)
  <1> DEFINE sum(U) == SumFunctionOnSet(f, U)
             F == {U \in SUBSET S : sum(S) # sum(U) + sum(S \ U)}
  <1>1. \A U \in SUBSET S : IsFiniteSet(U) /\ sum(U) \in Int /\ \A y \in U : sum(U) = f[y] + sum(U \ {y})
    <2>1. TAKE U \in SUBSET S
    <2>2. IsFiniteSet(U)
      BY FS_Subset
    <2>3. QED
      BY <2>2, SumFacts
  <1>2. ASSUME F # {}
        PROVE  FALSE
    <2>1. PICK U \in F : \A V \in F : V \subseteq U => V = U
      <3>1. F \subseteq SUBSET S
        OBVIOUS
      <3> HIDE DEF F
      <3>2. QED
        BY <1>2, <3>1, LeastSubset
    <2>2. U \in SUBSET S /\ sum(S) # sum(U) + sum(S \ U)
      BY <2>1
    <2>3. U # {}
      <3>1. SUFFICES ASSUME U = {} PROVE FALSE
        OBVIOUS
      <3>2. sum({}) = 0 /\ S \ {} = S
        BY SumEmpty
      <3> HIDE DEF sum
      <3>3. sum(S) = sum({}) + sum(S)
        BY <1>1, <3>2
      <3>4. QED
        BY <2>2, <3>1, <3>2, <3>3
    <2>4. PICK y : y \in U
      BY <2>3
    <2> DEFINE V == U \ {y}
    <2>5. V \in SUBSET S /\ V \subseteq U /\ V # U /\ y \in S \ V /\ (S \ V) \ {y} = S \ U
      BY <2>2, <2>4
    <2>6. sum(S) = sum(V) + sum(S \ V)
      BY <2>1, <2>5
    <2>7. sum(U) = f[y] + sum(V)
      BY <1>1, <2>2, <2>4
    <2>8. sum(S \ V) = f[y] + sum(S \ U)
      <3>1. S \ V \in SUBSET S
        OBVIOUS
      <3> HIDE DEF sum, V
      <3>2. sum(S \ V) = f[y] + sum((S \ V) \ {y})
        BY <1>1, <2>5, <3>1
      <3>3. QED
        BY <2>5, <3>2
    <2>9. sum(V) \in Int /\ f[y] \in Int /\ sum(S \ U) \in Int
      <3>1. S \ U \in SUBSET S
        OBVIOUS
      <3>2. QED
        BY <1>1, <2>2, <2>4, <2>5, <3>1
    <2> HIDE DEF sum, V, F
    <2>10. QED
      BY <2>2, <2>6, <2>7, <2>8, <2>9
  <1>3. QED
    BY <1>2

\* A sum does not depend on the names of what is summed over.
LEMMA SumReindex ==
    ASSUME NEW S, IsFiniteSet(S), NEW T, IsFiniteSet(T), NEW h \in Bijection(S, T),
           NEW f, NEW e, \A x \in S : f[x] = e[h[x]], \A y \in T : e[y] \in Int
    PROVE  SumFunctionOnSet(f, S) = SumFunctionOnSet(e, T)
  <1> DEFINE Image(U) == {h[x] : x \in U}
             F == {U \in SUBSET S : SumFunctionOnSet(f, U) # SumFunctionOnSet(e, Image(U))}
  <1>0. /\ \A x \in S : h[x] \in T
        /\ \A y \in T : \E x \in S : h[x] = y
        /\ \A x, y \in S : h[x] = h[y] => x = y
    BY DEF Bijection, Injection, Surjection, IsInjective
  <1>1. ASSUME F # {}
        PROVE  FALSE
    <2>1. PICK U \in F : \A V \in F : V \subseteq U => V = U
      <3>1. F \subseteq SUBSET S
        OBVIOUS
      <3> HIDE DEF F
      <3>2. QED
        BY <1>1, <3>1, LeastSubset
    <2>2. U \in SUBSET S /\ SumFunctionOnSet(f, U) # SumFunctionOnSet(e, Image(U))
      BY <2>1
    <2>3. U # {}
      <3>1. Image({}) = {}
        OBVIOUS
      <3>2. SumFunctionOnSet(f, {}) = SumFunctionOnSet(e, Image({}))
        BY <3>1, SumEmpty
      <3>3. QED
        BY <2>2, <3>2
    <2>4. PICK y : y \in U
      BY <2>3
    <2>5. U \ {y} \in SUBSET S /\ U \ {y} \subseteq U /\ U \ {y} # U
      BY <2>2, <2>4
    <2>6. SumFunctionOnSet(f, U \ {y}) = SumFunctionOnSet(e, Image(U \ {y}))
      BY <2>1, <2>5
    <2>7. SumFunctionOnSet(f, U) = f[y] + SumFunctionOnSet(f, U \ {y})
      <3>1. IsFiniteSet(U) /\ \A x \in U : f[x] \in Int
        BY <1>0, <2>2, FS_Subset
      <3> HIDE DEF F, Image
      <3>2. QED
        BY <2>4, <3>1, SumFacts
    <2>8. SumFunctionOnSet(e, Image(U)) = e[h[y]] + SumFunctionOnSet(e, Image(U) \ {h[y]})
      <3>1. Image(U) \subseteq T /\ h[y] \in Image(U)
        BY <1>0, <2>2, <2>4
      <3> HIDE DEF Image
      <3>2. IsFiniteSet(Image(U)) /\ \A x \in Image(U) : e[x] \in Int
        BY <3>1, FS_Subset
      <3>3. QED
        BY <3>1, <3>2, SumFacts
    <2>9. Image(U) \ {h[y]} = Image(U \ {y})
      BY <1>0, <2>2, <2>4
    <2>10. f[y] = e[h[y]]
      BY <2>2, <2>4
    <2> HIDE DEF Image
    <2>11. QED
      BY <2>2, <2>6, <2>7, <2>8, <2>9, <2>10
  <1>2. Image(S) = T
    BY <1>0
  <1> HIDE DEF Image
  <1>3. QED
    BY <1>1, <1>2

----------------------------------------------------------------------------
(* Rows of a table *)

LEMMA AppendLemma ==
    ASSUME NEW S, NEW s \in Seq(S), NEW e \in S
    PROVE  /\ Append(s, e) \in Seq(S)
           /\ DOMAIN Append(s, e) = DOMAIN s \cup {Len(s) + 1}
           /\ Len(s) + 1 \notin DOMAIN s
           /\ \A k \in DOMAIN s : Append(s, e)[k] = s[k] /\ k < Len(s) + 1
           /\ Append(s, e)[Len(s) + 1] = e
  BY AppendProperties, LenProperties

LEMMA UpdateLemma ==
    ASSUME NEW S, NEW s \in Seq(S), NEW k \in DOMAIN s, NEW e \in S
    PROVE  /\ [s EXCEPT ![k] = e] \in Seq(S)
           /\ DOMAIN [s EXCEPT ![k] = e] = DOMAIN s
           /\ \A j \in DOMAIN s : [s EXCEPT ![k] = e][j] = IF j = k THEN e ELSE s[j]
  BY ExceptSeq, LenProperties
=============================================================================
