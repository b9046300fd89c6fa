------------------------------ MODULE DataProofs ------------------------------
(***************************************************************************)
(* What the data that parameters are searched on and stored in promises:   *)
(* what a walk-forward window may see, and what the library of parameter   *)
(* sets holds, for any history, coins, passes, runs and faults.            *)
(***************************************************************************)
EXTENDS WalkForward, Regimes, DailyRun, History, FoldProofs, SequenceTheorems

----------------------------------------------------------------------------
(* Sequences *)

LEMMA SeqWiden ==
    ASSUME NEW S, NEW T, S \subseteq T, NEW s \in Seq(S)
    PROVE  s \in Seq(T)
BY SeqDef, SMT

----------------------------------------------------------------------------
(* The walk forward *)

\* The bars of a coin are in the order of their days.
PackedInv ==
    /\ today \in Nat
    /\ packed \in [Symbols -> Seq([ts : 1 .. today, eligible : BOOLEAN])]
    /\ \A c \in Symbols : \A i \in DOMAIN packed[c] :
         /\ packed[c][i].ts \in 1 .. today
         /\ \A j \in DOMAIN packed[c] : i < j => packed[c][i].ts < packed[c][j].ts

LEMMA PackedInit == WalkInit => PackedInv
BY DEF WalkInit, PackedInv

LEMMA PackedStep == PackedInv /\ [NextDay]_walkVars => PackedInv'
<1> SUFFICES ASSUME PackedInv, [NextDay]_walkVars PROVE PackedInv'
    OBVIOUS
<1>1. CASE UNCHANGED walkVars
    BY <1>1 DEF walkVars, PackedInv
<1>2. CASE NextDay
    <2>1. PICK printing \in SUBSET Symbols :
            packed' = [c \in Symbols |->
                         IF c \in printing
                         THEN Append(packed[c], [ts |-> today + 1, eligible |-> c \in Floored[today + 1]])
                         ELSE packed[c]]
        BY <1>2 DEF NextDay
    <2>2. today' = today + 1 /\ today' \in Nat
        BY <1>2 DEF NextDay, PackedInv
    <2> DEFINE Bars == [ts : 1 .. today', eligible : BOOLEAN]
    <2>3. [ts : 1 .. today, eligible : BOOLEAN] \subseteq Bars
        BY <2>2 DEF PackedInv
    <2>4. ASSUME NEW c \in Symbols
          PROVE  /\ packed'[c] \in Seq(Bars)
                 /\ \A i \in DOMAIN packed'[c] :
                      /\ packed'[c][i].ts \in 1 .. today'
                      /\ \A j \in DOMAIN packed'[c] : i < j => packed'[c][i].ts < packed'[c][j].ts
        <3>1. packed[c] \in Seq(Bars) /\ packed[c] \in Seq([ts : 1 .. today, eligible : BOOLEAN])
            <4>1. packed[c] \in Seq([ts : 1 .. today, eligible : BOOLEAN])
                BY DEF PackedInv
            <4> HIDE DEF Bars
            <4> QED
                BY <2>3, <4>1, SeqWiden
        <3>2. CASE c \in printing
            <4> DEFINE b == [ts |-> today + 1, eligible |-> c \in Floored[today + 1]]
            <4>1. packed'[c] = Append(packed[c], b)
                BY <2>1, <3>2
            <4>2. b \in Bars
                <5>1. today + 1 \in 1 .. today' /\ (c \in Floored[today + 1]) \in BOOLEAN
                    BY <2>2 DEF PackedInv
                <5> QED
                    BY <5>1
            <4>3. b.ts = today + 1
                OBVIOUS
            <4> HIDE DEF b, Bars
            <4>4. /\ packed'[c] \in Seq(Bars) /\ DOMAIN packed'[c] = 1 .. Len(packed[c]) + 1
                  /\ packed'[c][Len(packed[c]) + 1] = b /\ Len(packed[c]) \in Nat
                  /\ \A i \in 1 .. Len(packed[c]) : packed'[c][i] = packed[c][i]
                  /\ DOMAIN packed[c] = 1 .. Len(packed[c])
                BY <3>1, <4>1, <4>2, AppendProperties, LenProperties
            <4>5. ASSUME NEW i \in DOMAIN packed'[c] PROVE packed'[c][i].ts \in 1 .. today'
                <5>0. today \in Nat /\ today' = today + 1
                    BY <2>2 DEF PackedInv
                <5>1. CASE i = Len(packed[c]) + 1
                    <6>1. packed'[c][i].ts = today + 1
                        BY <4>3, <4>4, <5>1
                    <6> QED
                        BY <5>0, <6>1
                <5>2. CASE i \in DOMAIN packed[c]
                    <6>1. packed'[c][i] = packed[c][i]
                        BY <4>4, <5>2
                    <6>2. packed[c][i].ts \in 1 .. today
                        BY <5>2 DEF PackedInv
                    <6> QED
                        BY <5>0, <6>1, <6>2
                <5> QED
                    BY <4>4, <4>5, <5>1, <5>2
            <4>6. ASSUME NEW i \in DOMAIN packed'[c], NEW j \in DOMAIN packed'[c], i < j
                  PROVE  packed'[c][i].ts < packed'[c][j].ts
                <5>1. i \in DOMAIN packed[c] /\ packed'[c][i] = packed[c][i] /\ packed[c][i].ts \in 1 .. today
                    BY <4>4, <4>6 DEF PackedInv
                <5>2. CASE j = Len(packed[c]) + 1
                    BY <5>1, <5>2, <4>3, <4>4, <2>2 DEF PackedInv
                <5>3. CASE j \in DOMAIN packed[c]
                    BY <5>1, <5>3, <4>4, <4>6 DEF PackedInv
                <5> QED
                    BY <5>2, <5>3, <4>4
            <4> QED
                BY <4>4, <4>5, <4>6
        <3>3. CASE c \notin printing
            <4>1. packed'[c] = packed[c]
                BY <2>1, <3>3
            <4> QED
                BY <4>1, <3>1, <2>2 DEF PackedInv
        <3> QED
            BY <3>2, <3>3
    <2> HIDE DEF Bars
    <2>5. packed' \in [Symbols -> Seq(Bars)]
        BY <2>1, <2>4
    <2> QED
        BY <2>2, <2>4, <2>5 DEF PackedInv, Bars
<1> QED
    BY <1>1, <1>2

\* A coin's n-th bar is of day n at the earliest.
LEMMA BarsAre ==
    ASSUME PackedInv, NEW c \in Symbols
    PROVE  /\ Len(packed[c]) \in Nat /\ DOMAIN packed[c] = 1 .. Len(packed[c])
           /\ Len(packed[c]) <= today
<1>1. packed[c] \in Seq([ts : 1 .. today, eligible : BOOLEAN])
    BY DEF PackedInv
<1>2. Len(packed[c]) \in Nat /\ DOMAIN packed[c] = 1 .. Len(packed[c])
    BY <1>1, LenProperties
<1> DEFINE f == [i \in 1 .. Len(packed[c]) |-> packed[c][i].ts]
<1>3. f \in Injection(1 .. Len(packed[c]), 1 .. today)
    <2>1. f \in [1 .. Len(packed[c]) -> 1 .. today]
        BY <1>2 DEF PackedInv
    <2>2. \A i, j \in 1 .. Len(packed[c]) : f[i] = f[j] => i = j
        <3>1. ASSUME NEW i \in 1 .. Len(packed[c]), NEW j \in 1 .. Len(packed[c]), i < j
              PROVE  f[i] # f[j]
            <4>1. packed[c][i].ts < packed[c][j].ts /\ packed[c][i].ts \in 1 .. today
                BY <1>2, <3>1 DEF PackedInv
            <4> QED
                BY <4>1, <3>1
        <3> HIDE DEF f
        <3> QED
            BY <1>2, <3>1
    <2> QED
        BY <2>1, <2>2 DEF Injection, IsInjective
<1>4. today \in Nat
    BY DEF PackedInv
<1> HIDE DEF f
<1>5. Cardinality(1 .. Len(packed[c])) <= Cardinality(1 .. today)
    BY <1>3, <1>4, FS_Interval, FS_Injection
<1>6. Cardinality(1 .. Len(packed[c])) = Len(packed[c]) /\ Cardinality(1 .. today) = today
    <2>1. Cardinality(1 .. Len(packed[c])) = (IF 1 > Len(packed[c]) THEN 0 ELSE Len(packed[c]) - 1 + 1)
        <3> DEFINE b == Len(packed[c])
        <3>1. b \in Int
            BY <1>2
        <3> HIDE DEF b
        <3>2. Cardinality(1 .. b) = (IF 1 > b THEN 0 ELSE b - 1 + 1)
            BY <3>1, FS_Interval
        <3> QED
            BY <3>2 DEF b
    <2>2. Cardinality(1 .. today) = (IF 1 > today THEN 0 ELSE today - 1 + 1)
        BY <1>4, FS_Interval
    <2> QED
        BY <1>2, <1>4, <2>1, <2>2
<1> QED
    BY <1>2, <1>5, <1>6

LEMMA InsideIs ==
    ASSUME PackedInv, NEW c \in Symbols, NEW from, NEW to
    PROVE  /\ Inside(c, from, to) \subseteq 1 .. Len(packed[c])
           /\ IsFiniteSet(Inside(c, from, to))
           /\ Inside(c, from, to) \subseteq 1 .. today
<1>1. Inside(c, from, to) \subseteq 1 .. Len(packed[c])
    BY BarsAre DEF Inside
<1>2. Len(packed[c]) \in Nat /\ Len(packed[c]) <= today /\ today \in Nat
    BY BarsAre DEF PackedInv
<1>3. IsFiniteSet(1 .. Len(packed[c]))
    BY <1>2, FS_Interval
<1>4. IsFiniteSet(Inside(c, from, to))
    BY <1>1, <1>3, FS_Subset
<1> QED
    BY <1>1, <1>2, <1>4

\* The columns of a window go from its first bar, or a warm-up before it, to its
\* last.
LEMMA ColumnsAre ==
    ASSUME PackedInv, NEW from \in Nat, NEW to \in Nat, NEW c \in Symbols, NEW k \in Inside(c, from, to)
    PROVE  \E d \in Symbols, m \in Nat, lo \in 1 .. today :
               /\ m \in Inside(d, from, to) /\ Columns(from, to) = lo .. m
               /\ k <= m /\ (lo = 1 \/ lo <= k - WarmUp)
<1> DEFINE cols == UNION {Inside(e, from, to) : e \in Symbols}
<1>1. cols \subseteq 1 .. today /\ k \in cols /\ today \in Nat
    <2>1. \A x \in cols : \E e \in Symbols : x \in Inside(e, from, to)
        OBVIOUS
    <2>2. \A e \in Symbols : Inside(e, from, to) \subseteq 1 .. today
        BY InsideIs
    <2> QED
        BY <2>1, <2>2 DEF PackedInv
<1>2. cols # {} /\ cols \in SUBSET Nat /\ \A x \in cols : x <= today
    BY <1>1
<1>3. Columns(from, to) = Max({1, Min(cols) - WarmUp}) .. Max(cols)
    BY <1>2 DEF Columns
<1>4. PICK d \in Symbols : Max(cols) \in Inside(d, from, to)
    <2> HIDE DEF cols
    <2>1. Max(cols) \in cols
        BY <1>1, <1>2, MaxIs
    <2> QED
        BY <2>1 DEF cols
<1> HIDE DEF cols
<1>5. Max(cols) \in cols /\ k <= Max(cols) /\ Min(cols) \in cols /\ Min(cols) <= k
    <2>1. Max(cols) \in cols /\ \A x \in cols : x <= Max(cols)
        BY <1>1, <1>2, MaxIs
    <2>2. Min(cols) \in cols /\ \A x \in cols : Min(cols) <= x
        BY <1>2, MinIs
    <2> QED
        BY <1>1, <2>1, <2>2
<1>6. WarmUp \in Nat /\ Min(cols) \in 1 .. today /\ Max(cols) \in 1 .. today /\ k \in 1 .. today
    BY <1>1, <1>5, WalkForwardAssumption
<1> DEFINE lo == Max({1, Min(cols) - WarmUp})
<1>7. lo = IF 1 >= Min(cols) - WarmUp THEN 1 ELSE Min(cols) - WarmUp
    <2> DEFINE b == Min(cols) - WarmUp
    <2>1. b \in Int
        BY <1>6
    <2> HIDE DEF b
    <2>2. Max({1, b}) = IF 1 >= b THEN 1 ELSE b
        BY <2>1, MaxOfTwo
    <2> QED
        BY <2>2 DEF b
<1> HIDE DEF lo
<1>8. lo \in 1 .. today /\ (lo = 1 \/ lo <= k - WarmUp) /\ Max(cols) \in Nat
    BY <1>1, <1>5, <1>6, <1>7
<1> QED
    BY <1>3, <1>4, <1>5, <1>8 DEF lo

\* By the day the search is over, the coin with the most bars has all columns that
\* it could follow a trade through behind it.
LEMMA SeenIsPast ==
    ASSUME PackedInv, NEW from \in Nat, NEW test \in Nat, NEW to \in Nat, NEW c \in Symbols,
           Eldest(c, test)
    PROVE  Entries(c, test, to) \intersect Seen(c, from, test) = {}
<1> SUFFICES ASSUME NEW j \in Entries(c, test, to), j \in Seen(c, from, test) PROVE FALSE
    OBVIOUS
<1>1. j \in Inside(c, test, to)
    BY DEF Entries, Eligible
<1>2. j \in Columns(from, test) /\ j \in DOMAIN packed[c]
    BY DEF Seen, Sliced
<1>3. PICK d \in Symbols, m \in Nat : m \in Inside(d, from, test) /\ j <= m
    <2>1. UNION {Inside(e, from, test) : e \in Symbols} # {}
        BY <1>2 DEF Columns
    <2>2. PICK k \in UNION {Inside(e, from, test) : e \in Symbols} : TRUE
        BY <2>1
    <2>3. PICK d \in Symbols, m \in Nat, lo \in 1 .. today :
            m \in Inside(d, from, test) /\ Columns(from, test) = lo .. m
        <3>1. PICK e \in Symbols : k \in Inside(e, from, test)
            BY <2>2
        <3> QED
            BY <3>1, ColumnsAre
    <2> QED
        BY <1>2, <2>3
<1>4. 1 .. m \subseteq Inside(d, 0, test)
    <2> SUFFICES ASSUME NEW i \in 1 .. m PROVE i \in Inside(d, 0, test)
        OBVIOUS
    <2>1. m \in DOMAIN packed[d] /\ packed[d][m].ts < test /\ m \in 1 .. Len(packed[d])
        BY <1>3, BarsAre DEF Inside
    <2>2. i \in DOMAIN packed[d] /\ (i < m \/ i = m)
        BY <2>1, BarsAre
    <2>3. packed[d][i].ts \in 1 .. today /\ packed[d][m].ts \in 1 .. today /\ packed[d][i].ts <= packed[d][m].ts
        <3>1. packed[d][i].ts \in 1 .. today /\ packed[d][m].ts \in 1 .. today
            BY <2>1, <2>2 DEF PackedInv
        <3>2. i < m => packed[d][i].ts < packed[d][m].ts
            BY <2>1, <2>2 DEF PackedInv
        <3>3. today \in Nat
            BY DEF PackedInv
        <3> QED
            BY <2>2, <3>1, <3>2, <3>3
    <2> QED
        BY <2>1, <2>2, <2>3 DEF Inside, PackedInv
<1>5. Inside(c, 0, test) \subseteq 1 .. j - 1
    <2> SUFFICES ASSUME NEW i \in Inside(c, 0, test) PROVE i \in 1 .. j - 1
        OBVIOUS
    <2>1. /\ i \in DOMAIN packed[c] /\ packed[c][i].ts < test /\ packed[c][i].ts \in Nat
          /\ i \in 1 .. Len(packed[c])
        BY BarsAre DEF Inside, PackedInv
    <2>2. j \in 1 .. Len(packed[c]) /\ test <= packed[c][j].ts /\ packed[c][j].ts \in Nat
        <3>1. packed[c][j].ts \in 1 .. today
            BY <1>2 DEF PackedInv
        <3>2. test <= packed[c][j].ts
            BY <1>1 DEF Inside
        <3> QED
            BY <1>2, <3>1, <3>2, BarsAre
    <2>3. ~ (j < i) /\ j # i
        BY <1>2, <2>1, <2>2 DEF PackedInv
    <2> QED
        BY <2>1, <2>2, <2>3
<1>6. j \in Nat /\ j >= 1
    BY <1>2, BarsAre
<1>7. m <= Cardinality(Inside(d, 0, test))
    <2>1. IsFiniteSet(Inside(d, 0, test))
        BY InsideIs
    <2>2. Cardinality(1 .. m) <= Cardinality(Inside(d, 0, test))
        BY <1>4, <2>1, FS_Subset
    <2>3. Cardinality(1 .. m) = m
        BY <1>3, <1>6, FS_Interval
    <2> QED
        BY <2>2, <2>3
<1>8. Cardinality(Inside(c, 0, test)) <= j - 1
    <2> DEFINE N == 1 .. j - 1
    <2>1. IsFiniteSet(N) /\ Cardinality(N) = j - 1
        BY <1>6, FS_Interval
    <2> HIDE DEF N
    <2>2. Inside(c, 0, test) \in SUBSET N
        BY <1>5 DEF N
    <2>3. Cardinality(Inside(c, 0, test)) <= Cardinality(N)
        BY <2>1, <2>2, FS_Subset
    <2> QED
        BY <2>1, <2>3
<1>9. Cardinality(Inside(d, 0, test)) <= Cardinality(Inside(c, 0, test))
    BY DEF Eldest
<1>10. Cardinality(Inside(d, 0, test)) \in Nat /\ Cardinality(Inside(c, 0, test)) \in Nat
    BY InsideIs, FS_CardinalityType
<1> QED
    BY <1>3, <1>6, <1>7, <1>8, <1>9, <1>10

LEMMA Division ==
    ASSUME NEW a \in Nat, NEW s \in Nat \ {0}
    PROVE  a = s * (a \div s) + (a % s) /\ (a \div s) \in Int
<1>1. a = s * (a \div s) + (a % s)
    BY Z3
<1>2. (a \div s) \in Int
    BY Z3
<1> QED
    BY <1>1, <1>2

\* Windows begin whole steps apart.
LEMMA StepsApart ==
    ASSUME NEW a \in Nat, NEW b \in Nat, NEW s \in Nat \ {0}, a % s = 0, b % s = 0, a < b
    PROVE  a + s <= b
<1> DEFINE p == a \div s
           q == b \div s
<1>1. a = s * p + (a % s) /\ p \in Int
    BY Division
<1>2. b = s * q + (b % s) /\ q \in Int
    BY Division
<1> HIDE DEF p, q
<1>3. p \in Int /\ q \in Int /\ a = s * p /\ b = s * q
    BY <1>1, <1>2
<1>4. p < q
    <2>1. ASSUME q <= p PROVE FALSE
        <3>1. s * q <= s * p
            BY <1>3, <2>1, SMT
        <3> QED
            BY <1>3, <3>1
    <2> QED
        BY <1>3, <2>1
<1>5. s * (p + 1) <= s * q /\ s * (p + 1) = s * p + s
    BY <1>3, <1>4, SMT
<1> QED
    BY <1>3, <1>5

LEMMA Confined == PackedInv => SearchConfined
<1> SUFFICES ASSUME PackedInv, NEW from \in WindowStarts, NEW c \in Symbols
             PROVE  LET test == from + InDays
                        entries == Entries(c, test, test + OutDays)
                    IN  /\ Eldest(c, test) => entries \intersect Seen(c, from, test) = {}
                        /\ \A other \in WindowStarts \ {from} :
                             entries \intersect Entries(c, other + InDays, other + InDays + OutDays) = {}
                        /\ \A i \in entries :
                             Max({1, i - WarmUp}) .. i \subseteq Sliced(c, test, test + OutDays)
    BY DEF SearchConfined
<1> DEFINE test == from + InDays
           entries == Entries(c, test, test + OutDays)
<1>1. InDays \in Nat /\ OutDays \in Nat /\ StepDays \in Nat \ {0} /\ OutDays <= StepDays /\ WarmUp \in Nat
    BY WalkForwardAssumption
<1>2. /\ \A w \in WindowStarts : w \in Nat /\ w >= Min(Days) /\ (w - Min(Days)) % StepDays = 0
      /\ Days # {} /\ test \in Nat
    BY <1>1 DEF WindowStarts, PackedInv
<1>3. Eldest(c, test) => entries \intersect Seen(c, from, test) = {}
    BY <1>1, <1>2, SeenIsPast
<1>4. ASSUME NEW other \in WindowStarts \ {from}
      PROVE  entries \intersect Entries(c, other + InDays, other + InDays + OutDays) = {}
    <2> SUFFICES ASSUME NEW i \in entries, i \in Entries(c, other + InDays, other + InDays + OutDays)
                 PROVE  FALSE
        OBVIOUS
    <2>1. /\ from + InDays <= packed[c][i].ts /\ packed[c][i].ts < from + InDays + OutDays
          /\ other + InDays <= packed[c][i].ts /\ packed[c][i].ts < other + InDays + OutDays
          /\ i \in DOMAIN packed[c]
        BY DEF Entries, Eligible, Inside
    <2>2. packed[c][i].ts \in Nat
        BY <2>1 DEF PackedInv
    <2>3. Min(Days) \in Nat
        <3>1. Days \subseteq Nat
            BY DEF Days, PackedInv
        <3> QED
            BY <1>2, <3>1, MinIs
    <2> DEFINE a == from - Min(Days)
               b == other - Min(Days)
    <2>4. a \in Nat /\ b \in Nat /\ a % StepDays = 0 /\ b % StepDays = 0 /\ a # b
        BY <1>2, <2>3
    <2>5. a + StepDays <= b \/ b + StepDays <= a
        <3> HIDE DEF a, b
        <3>1. a < b \/ b < a
            BY <2>4
        <3> QED
            BY <1>1, <2>4, <3>1, StepsApart
    <2>6. from + StepDays <= other \/ other + StepDays <= from
        BY <1>1, <1>2, <2>3, <2>5
    <2> QED
        BY <1>1, <1>2, <2>1, <2>2, <2>6
<1>5. ASSUME NEW i \in entries
      PROVE  Max({1, i - WarmUp}) .. i \subseteq Sliced(c, test, test + OutDays)
    <2>1. i \in Inside(c, test, test + OutDays) /\ test + OutDays \in Nat
        BY <1>1, <1>2 DEF Entries, Eligible
    <2>2. PICK d \in Symbols, m \in Nat, lo \in 1 .. today :
            /\ Columns(test, test + OutDays) = lo .. m
            /\ i <= m /\ (lo = 1 \/ lo <= i - WarmUp)
        BY <1>2, <2>1, ColumnsAre
    <2>3. i \in 1 .. Len(packed[c]) /\ Len(packed[c]) \in Nat /\ DOMAIN packed[c] = 1 .. Len(packed[c])
        BY <2>1, InsideIs, BarsAre
    <2>4. Max({1, i - WarmUp}) = IF 1 >= i - WarmUp THEN 1 ELSE i - WarmUp
        <3> DEFINE b == i - WarmUp
        <3>1. b \in Int
            BY <1>1, <2>3
        <3> HIDE DEF b
        <3>2. Max({1, b}) = IF 1 >= b THEN 1 ELSE b
            BY <3>1, MaxOfTwo
        <3> QED
            BY <3>2 DEF b
    <2>5. \A k \in Max({1, i - WarmUp}) .. i : k \in lo .. m /\ k \in 1 .. Len(packed[c])
        BY <1>1, <2>2, <2>3, <2>4
    <2> QED
        BY <2>2, <2>3, <2>5 DEF Sliced
<1> QED
    BY <1>3, <1>4, <1>5

\* In a history of any length, for any coins, gaps and floors: no test trades from
\* a bar that its search has seen, of the coin with the most bars, two tests share
\* no bar, and every entry has its warm-up (plan_windows, Frames.window).
THEOREM Unseen == WalkSpec => []SearchConfined
<1> QED
    BY PackedInit, PackedStep, Confined, PTL DEF WalkSpec

\* The bars of each coin stay days of the history, with a day of their own
\* (solopt.frames).
THEOREM WalkTypeCorrect == WalkSpec => []WalkTypeOK
<1> DEFINE WalkInv == PackedInv /\ today \in 0 .. MaxDay
<1>1. WalkInit => WalkInv
    BY PackedInit, WalkForwardAssumption DEF WalkInit
<1>2. WalkInv /\ [NextDay]_walkVars => WalkInv'
    <2> SUFFICES ASSUME WalkInv, [NextDay]_walkVars PROVE WalkInv'
        OBVIOUS
    <2>1. today' \in 0 .. MaxDay
        BY WalkForwardAssumption DEF NextDay, walkVars
    <2> QED
        BY <2>1, PackedStep
<1>3. WalkInv => WalkTypeOK
    BY DEF PackedInv, WalkTypeOK
<1> QED
    BY <1>1, <1>2, <1>3, PTL DEF WalkSpec

----------------------------------------------------------------------------
(* The library of parameter sets *)

\* What RegimeSetsEarned rests on of the variables' types.
PassTypes ==
    /\ coinAt \in [Passes -> Nat] /\ heldModel \in [Passes -> Nat]
    /\ duty \in [Passes -> {"idle", "discover", "push", "search"}]
    /\ cluster \in [Passes -> Nat \ {0}]
    /\ found \in [Passes -> SUBSET [cluster : Nat, params : Sets, score : Scores]]
    /\ \A p \in Passes : coinAt[p] \in 1 .. Len(Batch[p])
    /\ models \in Seq([coin : Traded, size : KRange])
    /\ regimeModels \in [Traded -> Nat]

\* Rows as they were accepted, whole.
EarnedRows == {[fingerprint |-> a.params, row |-> a.row] : a \in earned}

\* The model m is one of coin c.
ModelOf(m, c) == m \in DOMAIN models /\ models[m].coin = c

\* A pass holds a model of the coin it is at, and what it found for a cluster was
\* accepted for that coin and cluster.
FoundRow(p, f) ==
    [fingerprint |-> f.params,
     row |-> [coin |-> Treated(p), cluster |-> f.cluster, region |-> NoRegion, score |-> f.score]]

PassInv(p) ==
    /\ duty[p] \in {"push", "search"} => ModelOf(heldModel[p], Treated(p))
    /\ duty[p] # "search" => found[p] = {}
    /\ \A f \in found[p] : FoundRow(p, f) \in EarnedRows

\* Nothing else is in the library, or still to be stored; a set of a cluster was
\* accepted with a model of its coin, one with a regime score for no cluster.
EarnedInv ==
    /\ library \subseteq EarnedRows /\ pending \in Seq(EarnedRows)
    /\ \A a \in earned :
         /\ a.row.region # NoRegion => a.row.cluster = NoCluster
         /\ a.row.cluster # NoCluster => ModelOf(a.model, a.row.coin)

\* The model in use of a coin, and the one a decision has read, is one of it.
ModelInv ==
    /\ \A c \in Traded : regimeModels[c] # 0 => ModelOf(regimeModels[c], c)
    /\ reading # <<>> => ModelOf(reading[2], reading[1])

RegimeInv == PassTypes /\ EarnedInv /\ ModelInv /\ \A p \in Passes : PassInv(p)

LEMMA RegimesInit == RegimeInit => RegimeInv
<1> SUFFICES ASSUME RegimeInit PROVE RegimeInv
    OBVIOUS
<1>1. \A p \in Passes : 1 \in 1 .. Len(Batch[p])
    <2> SUFFICES ASSUME NEW p \in Passes PROVE 1 \in 1 .. Len(Batch[p])
        OBVIOUS
    <2>1. Batch[p] \in Seq(Traded) /\ Batch[p] # <<>>
        BY RegimeAssumption DEF Traded
    <2> QED
        BY <2>1, EmptySeq, LenProperties
<1>2. PassTypes
    <2>1. models \in Seq([coin : Traded, size : KRange])
        BY DEF RegimeInit
    <2> QED
        BY <1>1, <2>1 DEF RegimeInit, PassTypes
<1>3. EarnedInv
    BY DEF RegimeInit, EarnedInv
<1>4. ModelInv
    BY DEF RegimeInit, ModelInv
<1>5. \A p \in Passes : PassInv(p)
    BY DEF RegimeInit, PassInv
<1> QED
    BY <1>2, <1>3, <1>4, <1>5 DEF RegimeInv

LEMMA TreatedIsTraded ==
    ASSUME PassTypes, NEW p \in Passes
    PROVE  Treated(p) \in Traded
<1>1. Batch[p] \in Seq(Traded)
    BY RegimeAssumption DEF Traded
<1>2. coinAt[p] \in DOMAIN Batch[p]
    BY <1>1, LenProperties DEF PassTypes
<1> QED
    BY <1>2 DEF Treated, Traded

\* Nothing a step leaves alone is undone by what it accepts or discovers.
Grown == EarnedRows \subseteq EarnedRows' /\ \A m, c : ModelOf(m, c) => ModelOf(m, c)'

LEMMA PassStays ==
    ASSUME NEW p \in Passes, PassInv(p), Grown,
           coinAt'[p] = coinAt[p], heldModel'[p] = heldModel[p], duty'[p] = duty[p],
           found'[p] = found[p]
    PROVE  PassInv(p)'
<1>1. Treated(p)' = Treated(p)
    BY DEF Treated
<1>2. \A f : FoundRow(p, f)' = FoundRow(p, f)
    BY <1>1 DEF FoundRow
<1> QED
    BY <1>1, <1>2 DEF PassInv, Grown

LEMMA ModelsStay ==
    ASSUME ModelInv, Grown, UNCHANGED <<regimeModels, reading>>
    PROVE  ModelInv'
BY DEF ModelInv, Grown

LEMMA StoreStays ==
    ASSUME EarnedInv, Grown, library' \subseteq EarnedRows', UNCHANGED <<pending, earned>>
    PROVE  EarnedInv'
<1>1. EarnedRows' = EarnedRows
    BY DEF EarnedRows
<1> QED
    BY <1>1 DEF EarnedInv, Grown

\* A step of one pass that stores nothing and accepts nothing.
LEMMA OnePass ==
    ASSUME RegimeInv, NEW p \in Passes, UNCHANGED <<library, regimeModels, pending, reading, models, earned>>,
           coinAt' \in [Passes -> Nat], heldModel' \in [Passes -> Nat],
           duty' \in [Passes -> {"idle", "discover", "push", "search"}],
           cluster' \in [Passes -> Nat \ {0}],
           found' \in [Passes -> SUBSET [cluster : Nat, params : Sets, score : Scores]],
           coinAt'[p] \in 1 .. Len(Batch[p]), PassInv(p)',
           \A q \in Passes \ {p} : /\ coinAt'[q] = coinAt[q] /\ heldModel'[q] = heldModel[q]
                                   /\ duty'[q] = duty[q] /\ found'[q] = found[q]
    PROVE  RegimeInv'
<1>1. Grown
    BY DEF Grown, EarnedRows, ModelOf
<1>2. \A q \in Passes \ {p} : PassInv(q)'
    BY <1>1, PassStays DEF RegimeInv
<1>3. PassTypes'
    BY DEF RegimeInv, PassTypes
<1>4. EarnedInv' /\ ModelInv'
    <2>1. library' \subseteq EarnedRows'
        BY DEF RegimeInv, EarnedInv, EarnedRows
    <2> QED
        BY <1>1, <2>1, StoreStays, ModelsStay DEF RegimeInv
<1> QED
    BY <1>2, <1>3, <1>4 DEF RegimeInv

\* The next coin starts from nothing.
LEMMA NextCoinIs ==
    ASSUME RegimeInv, NEW p \in Passes, NextCoin(p) \/ Over(p)
    PROVE  /\ coinAt' \in [Passes -> Nat] /\ heldModel' \in [Passes -> Nat]
           /\ duty' \in [Passes -> {"idle", "discover", "push", "search"}]
           /\ cluster' \in [Passes -> Nat \ {0}]
           /\ found' \in [Passes -> SUBSET [cluster : Nat, params : Sets, score : Scores]]
           /\ coinAt'[p] \in 1 .. Len(Batch[p]) /\ PassInv(p)'
           /\ \A q \in Passes \ {p} : /\ coinAt'[q] = coinAt[q] /\ heldModel'[q] = heldModel[q]
                                      /\ duty'[q] = duty[q] /\ found'[q] = found[q]
<1>1. PICK at \in 1 .. Len(Batch[p]), next \in {"idle", "discover"} :
        coinAt' = [coinAt EXCEPT ![p] = at] /\ duty' = [duty EXCEPT ![p] = next] /\ Forget(p)
    <2>1. coinAt[p] \in 1 .. Len(Batch[p]) /\ Len(Batch[p]) \in Nat
        BY RegimeAssumption, LenProperties DEF RegimeInv, PassTypes
    <2>2. CASE Over(p)
        <3>1. 1 \in 1 .. Len(Batch[p])
            BY <2>1
        <3> QED
            BY <2>2, <3>1 DEF Over
    <2>3. CASE NextCoin(p) /\ ~Over(p)
        <3>1. coinAt[p] # Len(Batch[p]) /\ coinAt' = [coinAt EXCEPT ![p] = coinAt[p] + 1]
              /\ duty' = [duty EXCEPT ![p] = "discover"] /\ Forget(p)
            BY <2>3 DEF NextCoin
        <3>2. coinAt[p] + 1 \in 1 .. Len(Batch[p])
            BY <2>1, <3>1
        <3> QED
            BY <3>1, <3>2
    <2> QED
        BY <2>2, <2>3
<1>2. /\ heldModel' = [heldModel EXCEPT ![p] = 0] /\ cluster' = [cluster EXCEPT ![p] = 1]
      /\ found' = [found EXCEPT ![p] = {}]
    BY <1>1 DEF Forget
<1>3. Len(Batch[p]) \in Nat
    BY RegimeAssumption, LenProperties
<1>4. duty'[p] = next /\ found'[p] = {}
    BY <1>1, <1>2 DEF RegimeInv, PassTypes
<1>5. PassInv(p)'
    BY <1>4 DEF PassInv
<1> QED
    BY <1>1, <1>2, <1>3, <1>5 DEF RegimeInv, PassTypes

LEMMA AppendsModel ==
    ASSUME PassTypes, NEW m \in [coin : Traded, size : KRange], models' = Append(models, m)
    PROVE  /\ models' \in Seq([coin : Traded, size : KRange])
           /\ \A k, c : ModelOf(k, c) => ModelOf(k, c)'
           /\ Len(models) + 1 \in DOMAIN models' /\ models'[Len(models) + 1] = m
           /\ Len(models) + 1 \in Nat
<1>1. models \in Seq([coin : Traded, size : KRange])
    BY DEF PassTypes
<1>2. /\ models' \in Seq([coin : Traded, size : KRange]) /\ Len(models) \in Nat
      /\ DOMAIN models = 1 .. Len(models) /\ DOMAIN models' = 1 .. Len(models) + 1
      /\ models'[Len(models) + 1] = m
      /\ \A k \in 1 .. Len(models) : models'[k] = models[k]
    BY <1>1, AppendProperties, LenProperties
<1>3. Len(models) + 1 \in DOMAIN models' /\ \A k \in DOMAIN models : k \in DOMAIN models'
    BY <1>2
<1>4. ASSUME NEW k, NEW c, ModelOf(k, c) PROVE ModelOf(k, c)'
    <2>1. k \in DOMAIN models /\ models[k].coin = c
        BY <1>4 DEF ModelOf
    <2>2. models'[k] = models[k] /\ k \in DOMAIN models'
        BY <1>2, <1>3, <2>1
    <2> QED
        BY <2>1, <2>2 DEF ModelOf
<1> QED
    BY <1>2, <1>3, <1>4

\* A model that is discovered is one of the coin the pass is at.
LEMMA DiscoverKeeps ==
    ASSUME RegimeInv, NEW p \in Passes, DiscoverRegimes(p)
    PROVE  RegimeInv'
<1>1. UNCHANGED <<library, regimeModels, pending, reading, earned>> /\ duty[p] = "discover"
    BY DEF DiscoverRegimes, regimeStore
<1>2. CASE NextCoin(p) /\ UNCHANGED models
    BY <1>1, <1>2, NextCoinIs, OnePass
<1>3. CASE ~(NextCoin(p) /\ UNCHANGED models)
    <2>1. PICK size \in KRange :
            /\ models' = Append(models, [coin |-> Treated(p), size |-> size])
            /\ heldModel' = [heldModel EXCEPT ![p] = Len(models) + 1]
            /\ duty' = [duty EXCEPT ![p] = "push"]
            /\ UNCHANGED <<coinAt, cluster, found>>
        BY <1>3 DEF DiscoverRegimes
    <2> DEFINE m == [coin |-> Treated(p), size |-> size]
    <2>2. m \in [coin : Traded, size : KRange] /\ m.coin = Treated(p) /\ PassTypes
        BY TreatedIsTraded DEF RegimeInv
    <2> HIDE DEF m
    <2>3. /\ models' \in Seq([coin : Traded, size : KRange])
          /\ \A k, c : ModelOf(k, c) => ModelOf(k, c)'
          /\ Len(models) + 1 \in DOMAIN models' /\ models'[Len(models) + 1] = m
          /\ Len(models) + 1 \in Nat
        <3>1. models' = Append(models, m)
            BY <2>1 DEF m
        <3> QED
            BY <2>2, <3>1, AppendsModel
    <2>4. Grown /\ EarnedRows' = EarnedRows
        BY <1>1, <2>3 DEF Grown, EarnedRows
    <2>5. PassTypes'
        BY <1>1, <2>1, <2>3 DEF RegimeInv, PassTypes
    <2>6. EarnedInv' /\ ModelInv'
        BY <1>1, <2>4, StoreStays, ModelsStay DEF RegimeInv, EarnedInv
    <2>7. PassInv(p)'
        <3>1. /\ heldModel'[p] = Len(models) + 1 /\ duty'[p] = "push" /\ found'[p] = {}
              /\ Treated(p)' = Treated(p)
            BY <1>1, <2>1 DEF RegimeInv, PassTypes, PassInv, Treated
        <3>2. ModelOf(heldModel[p], Treated(p))'
            BY <2>2, <2>3, <3>1 DEF ModelOf
        <3> QED
            BY <3>1, <3>2 DEF PassInv
    <2>8. \A q \in Passes \ {p} : PassInv(q)'
        BY <2>1, <2>4, PassStays DEF RegimeInv, PassTypes
    <2> QED
        BY <2>5, <2>6, <2>7, <2>8 DEF RegimeInv
<1> QED
    BY <1>2, <1>3

LEMMA DispatchKeeps ==
    ASSUME RegimeInv, NEW p \in Passes, Dispatch(p)
    PROVE  RegimeInv'
<1>1. /\ UNCHANGED <<library, regimeModels, coinAt, heldModel, cluster, found, pending, reading,
                     models, earned>>
      /\ duty[p] = "idle" /\ duty' = [duty EXCEPT ![p] = "discover"]
    BY DEF Dispatch, regimeStore
<1>2. duty'[p] = "discover" /\ found'[p] = {}
    BY <1>1 DEF RegimeInv, PassTypes, PassInv
<1>3. PassInv(p)'
    BY <1>2 DEF PassInv
<1>4. /\ coinAt' \in [Passes -> Nat] /\ heldModel' \in [Passes -> Nat]
      /\ duty' \in [Passes -> {"idle", "discover", "push", "search"}]
      /\ cluster' \in [Passes -> Nat \ {0}]
      /\ found' \in [Passes -> SUBSET [cluster : Nat, params : Sets, score : Scores]]
      /\ coinAt'[p] \in 1 .. Len(Batch[p])
      /\ \A q \in Passes \ {p} : /\ coinAt'[q] = coinAt[q] /\ heldModel'[q] = heldModel[q]
                                 /\ duty'[q] = duty[q] /\ found'[q] = found[q]
    BY <1>1 DEF RegimeInv, PassTypes
<1> QED
    BY <1>1, <1>3, <1>4, OnePass

\* A model of the coin replaces the one in use, or the push failed.
LEMMA PushModelKeeps ==
    ASSUME RegimeInv, NEW p \in Passes, PushModel(p)
    PROVE  RegimeInv'
<1>1. /\ UNCHANGED <<library, coinAt, heldModel, cluster, found, pending, reading, models, earned>>
      /\ duty[p] = "push" /\ duty' = [duty EXCEPT ![p] = "search"]
      /\ regimeModels' = regimeModels \/ regimeModels' = [regimeModels EXCEPT ![Treated(p)] = heldModel[p]]
    BY DEF PushModel
<1>2. ModelOf(heldModel[p], Treated(p)) /\ heldModel[p] \in Nat /\ found[p] = {}
    BY <1>1 DEF RegimeInv, PassTypes, PassInv
<1>3. \A m, c : ModelOf(m, c)' = ModelOf(m, c)
    BY <1>1 DEF ModelOf
<1>4. Grown
    BY <1>1, <1>3 DEF Grown, EarnedRows
<1>5. PassTypes'
    BY <1>1, <1>2 DEF RegimeInv, PassTypes
<1>6. EarnedInv'
    <2>1. library' \subseteq EarnedRows'
        BY <1>1 DEF RegimeInv, EarnedInv, EarnedRows
    <2> QED
        BY <1>1, <1>4, <2>1, StoreStays DEF RegimeInv
<1>7. ModelInv'
    <2>1. \A c \in Traded : regimeModels'[c] = regimeModels[c]
                            \/ (c = Treated(p) /\ regimeModels'[c] = heldModel[p])
        BY <1>1 DEF RegimeInv, PassTypes
    <2> QED
        BY <1>1, <1>2, <1>3, <2>1 DEF RegimeInv, ModelInv
<1>8. PassInv(p)'
    <2>1. duty'[p] = "search" /\ Treated(p)' = Treated(p)
        BY <1>1 DEF RegimeInv, PassTypes, Treated
    <2>2. ModelOf(heldModel[p], Treated(p))'
        BY <1>1, <1>2, <2>1 DEF ModelOf
    <2> QED
        BY <1>1, <1>2, <2>1, <2>2 DEF PassInv
<1>9. \A q \in Passes \ {p} : PassInv(q)'
    BY <1>1, <1>4, PassStays DEF RegimeInv, PassTypes
<1> QED
    BY <1>5, <1>6, <1>7, <1>8, <1>9 DEF RegimeInv

LEMMA LosesOne ==
    ASSUME RegimeInv, NEW p \in Passes, CoinReported(p) \/ PodLost(p)
    PROVE  RegimeInv'
<1>1. UNCHANGED <<library, regimeModels, pending, reading, models, earned>>
    BY DEF CoinReported, PodLost, regimeStore
<1>2. NextCoin(p) \/ Over(p)
    BY DEF CoinReported, PodLost
<1> QED
    BY <1>1, <1>2, NextCoinIs, OnePass

\* What a search accepts is accepted for the coin, the cluster and the model the
\* pass is at.
LEMMA SearchKeeps ==
    ASSUME RegimeInv, NEW p \in Passes, SearchRegime(p)
    PROVE  RegimeInv'
<1>1. /\ UNCHANGED <<library, regimeModels, coinAt, duty, heldModel, pending, reading, models>>
      /\ duty[p] = "search" /\ cluster' = [cluster EXCEPT ![p] = cluster[p] + 1]
    BY DEF SearchRegime, regimeStore
<1>2. /\ ModelOf(heldModel[p], Treated(p)) /\ heldModel[p] \in Nat /\ cluster[p] \in Nat \ {0}
      /\ found[p] \subseteq [cluster : Nat, params : Sets, score : Scores]
    BY <1>1 DEF RegimeInv, PassTypes, PassInv
<1>3. /\ cluster' \in [Passes -> Nat \ {0}]
      /\ Treated(p)' = Treated(p) /\ heldModel'[p] = heldModel[p] /\ duty'[p] = "search"
      /\ \A k, c : ModelOf(k, c)' = ModelOf(k, c)
    BY <1>1 DEF RegimeInv, PassTypes, Treated, ModelOf
<1>4. CASE UNCHANGED <<found, earned>>
    <2>1. PassInv(p)'
        BY <1>1, <1>4, PassStays DEF RegimeInv, Grown, EarnedRows, ModelOf
    <2> QED
        BY <1>1, <1>3, <1>4, <2>1, OnePass DEF RegimeInv, PassTypes
<1>5. CASE ~UNCHANGED <<found, earned>>
    <2>1. PICK params \in Sets, score \in Scores :
            /\ found' = [found EXCEPT ![p] = found[p] \union
                           {[cluster |-> cluster[p], params |-> params, score |-> score]}]
            /\ earned' = earned \union
                  {[params |-> params, model |-> heldModel[p],
                    row |-> [coin |-> Treated(p), cluster |-> cluster[p], region |-> NoRegion,
                             score |-> score]]}
        BY <1>5 DEF SearchRegime
    <2> DEFINE f == [cluster |-> cluster[p], params |-> params, score |-> score]
               a == [params |-> params, model |-> heldModel[p],
                     row |-> [coin |-> Treated(p), cluster |-> cluster[p], region |-> NoRegion,
                              score |-> score]]
    <2>2. /\ f \in [cluster : Nat, params : Sets, score : Scores]
          /\ FoundRow(p, f) = [fingerprint |-> a.params, row |-> a.row]
          /\ a.row.region = NoRegion /\ a.model = heldModel[p] /\ a.row.coin = Treated(p)
        BY <1>2 DEF FoundRow
    <2>3. earned' = earned \union {a} /\ found' = [found EXCEPT ![p] = found[p] \union {f}]
        BY <2>1
    <2> HIDE DEF a, f
    <2>4. EarnedRows \subseteq EarnedRows' /\ FoundRow(p, f) \in EarnedRows'
        BY <2>2, <2>3 DEF EarnedRows
    <2>5. Grown
        BY <1>3, <2>4 DEF Grown
    <2>6. /\ found' \in [Passes -> SUBSET [cluster : Nat, params : Sets, score : Scores]]
          /\ found'[p] = found[p] \union {f} /\ \A q \in Passes \ {p} : found'[q] = found[q]
        BY <1>2, <2>2, <2>3 DEF RegimeInv, PassTypes
    <2>7. PassTypes'
        BY <1>1, <1>3, <2>6 DEF RegimeInv, PassTypes
    <2>8. EarnedInv'
        <3>1. library' \subseteq EarnedRows'
            BY <1>1, <2>4 DEF RegimeInv, EarnedInv
        <3>2. pending' \in Seq(EarnedRows')
            BY <1>1, <2>4, SeqWiden DEF RegimeInv, EarnedInv
        <3>3. ASSUME NEW b \in earned'
              PROVE  /\ b.row.region # NoRegion => b.row.cluster = NoCluster
                     /\ b.row.cluster # NoCluster => ModelOf(b.model, b.row.coin)'
            <4>1. CASE b = a
                BY <1>2, <1>3, <2>2, <4>1
            <4>2. CASE b \in earned
                BY <1>3, <4>2 DEF RegimeInv, EarnedInv
            <4> QED
                BY <2>3, <4>1, <4>2
        <3> QED
            BY <3>1, <3>2, <3>3 DEF EarnedInv
    <2>9. PassInv(p)'
        <3>1. ModelOf(heldModel[p], Treated(p))'
            BY <1>2, <1>3 DEF ModelOf
        <3>2. ASSUME NEW g \in found'[p] PROVE FoundRow(p, g)' \in EarnedRows'
            <4>1. FoundRow(p, g)' = FoundRow(p, g)
                BY <1>3 DEF FoundRow
            <4>2. CASE g = f
                BY <2>4, <4>1, <4>2
            <4>3. CASE g \in found[p]
                BY <2>4, <4>1, <4>3 DEF RegimeInv, PassInv
            <4> QED
                BY <2>6, <3>2, <4>2, <4>3
        <3> QED
            BY <1>3, <3>1, <3>2 DEF PassInv
    <2>10. \A q \in Passes \ {p} : PassInv(q)'
        BY <1>1, <2>5, <2>6, PassStays DEF RegimeInv
    <2> QED
        BY <1>1, <2>5, <2>7, <2>8, <2>9, <2>10, ModelsStay DEF RegimeInv
<1> QED
    BY <1>4, <1>5

\* A row that is stored is the new one, or that of the set before, whole.
LEMMA UpsertEarned ==
    ASSUME NEW params, NEW row, Upsert(params, row), library \subseteq EarnedRows,
           [fingerprint |-> params, row |-> row] \in EarnedRows
    PROVE  library' \subseteq EarnedRows
<1> DEFINE S == StoredRows(params)
           kept == IF S = {} THEN row ELSE Evidence((CHOOSE e \in S : TRUE).row, row)
<1>1. library' = (library \ S) \union {[fingerprint |-> params, row |-> kept]}
    BY DEF Upsert
<1>2. \A e \in S : e \in library /\ e.fingerprint = params
    BY DEF StoredRows
<1>3. [fingerprint |-> params, row |-> kept] \in EarnedRows
    <2>1. CASE S = {}
        BY <2>1
    <2>2. CASE S # {}
        <3> DEFINE old == CHOOSE e \in S : TRUE
        <3>1. old \in S
            BY <2>2
        <3> HIDE DEF old
        <3>2. old \in EarnedRows /\ old.fingerprint = params
            BY <1>2, <3>1
        <3>3. old = [fingerprint |-> params, row |-> old.row]
            BY <3>2 DEF EarnedRows
        <3>4. kept \in {old.row, row}
            BY <2>2 DEF old, Evidence
        <3> QED
            BY <3>2, <3>3, <3>4
    <2> QED
        BY <2>1, <2>2
<1> HIDE DEF kept, S
<1> QED
    BY <1>1, <1>3

\* A set that is stored was accepted; the rows of the others stay.
LEMMA PushEntryKeeps ==
    ASSUME RegimeInv, NEW p \in Passes, PushEntry(p)
    PROVE  RegimeInv'
<1>1. UNCHANGED <<regimeModels, coinAt, duty, heldModel, cluster, pending, reading, models, earned>>
    BY DEF PushEntry
<1>2. PICK e \in found[p] :
        /\ found' = [found EXCEPT ![p] = found[p] \ {e}]
        /\ \/ Upsert(e.params, [coin |-> Treated(p), cluster |-> e.cluster, region |-> NoRegion,
                                score |-> e.score])
           \/ UNCHANGED library
    BY DEF PushEntry
<1>3. library \subseteq EarnedRows /\ FoundRow(p, e) \in EarnedRows
    BY DEF RegimeInv, EarnedInv, PassInv
<1>4. library' \subseteq EarnedRows
    BY <1>2, <1>3, UpsertEarned DEF FoundRow
<1>5. Grown /\ EarnedRows' = EarnedRows
    BY <1>1 DEF Grown, EarnedRows, ModelOf
<1>6. /\ found' \in [Passes -> SUBSET [cluster : Nat, params : Sets, score : Scores]]
      /\ found'[p] \subseteq found[p] /\ \A q \in Passes \ {p} : found'[q] = found[q]
    BY <1>2 DEF RegimeInv, PassTypes
<1>7. PassTypes'
    BY <1>1, <1>6 DEF RegimeInv, PassTypes
<1>8. EarnedInv' /\ ModelInv'
    BY <1>1, <1>4, <1>5, StoreStays, ModelsStay DEF RegimeInv
<1>9. PassInv(p)'
    <2>1. Treated(p)' = Treated(p) /\ \A f : FoundRow(p, f)' = FoundRow(p, f)
        BY <1>1 DEF Treated, FoundRow
    <2> QED
        BY <1>1, <1>5, <1>6, <2>1 DEF RegimeInv, PassInv, Grown
<1>10. \A q \in Passes \ {p} : PassInv(q)'
    BY <1>1, <1>5, <1>6, PassStays DEF RegimeInv
<1> QED
    BY <1>7, <1>8, <1>9, <1>10 DEF RegimeInv

LEMMA TradedIsFinite == IsFiniteSet(Traded)
<1> DEFINE BatchCoins(p) == {Batch[p][i] : i \in DOMAIN Batch[p]}
           all == [p \in Passes |-> BatchCoins(p)]
<1>1. ASSUME NEW p \in Passes PROVE IsFiniteSet(BatchCoins(p))
    <2> DEFINE at == [i \in DOMAIN Batch[p] |-> Batch[p][i]]
    <2>1. Len(Batch[p]) \in Nat /\ DOMAIN Batch[p] = 1 .. Len(Batch[p])
        BY RegimeAssumption, LenProperties
    <2>2. IsFiniteSet(DOMAIN Batch[p])
        BY <2>1, FS_Interval
    <2>3. at \in Surjection(DOMAIN Batch[p], BatchCoins(p))
        BY DEF Surjection
    <2> QED
        BY <2>2, <2>3, FS_Surjection
<1>2. IsFiniteSet({BatchCoins(p) : p \in Passes})
    <2>1. all \in Surjection(Passes, {BatchCoins(p) : p \in Passes})
        BY DEF Surjection
    <2> QED
        BY <2>1, FS_Surjection, RegimeAssumption
<1>3. \A T \in {BatchCoins(p) : p \in Passes} : IsFiniteSet(T)
    BY <1>1
<1>4. IsFiniteSet(UNION {BatchCoins(p) : p \in Passes})
    BY <1>2, <1>3, FS_UNION
<1> QED
    BY <1>4 DEF Traded

\* A step of the daily run, of the store or of the engine leaves the passes alone.
LEMMA PassesStay ==
    ASSUME RegimeInv, UNCHANGED <<passVars, models, regimeModels>>, Grown
    PROVE  PassTypes' /\ \A p \in Passes : PassInv(p)'
<1>1. UNCHANGED <<coinAt, duty, heldModel, cluster, found, models, regimeModels>>
    BY DEF passVars
<1>2. PassTypes'
    BY <1>1 DEF RegimeInv, PassTypes
<1> QED
    BY <1>1, <1>2, PassStays DEF RegimeInv

\* The entries of an accepted run are all accepted with it.
LEMMA DailyAcceptedKeeps ==
    ASSUME RegimeInv, DailyAccepted
    PROVE  RegimeInv'
<1>1. UNCHANGED <<library, regimeModels, passVars, reading, models>>
    BY DEF DailyAccepted, regimeStore
<1>2. PICK score \in Scores, whole \in Sets, own \in [Traded -> Sets],
          region \in [Traded -> Regions], coins \in SUBSET Traded :
         LET entry(c) == [fingerprint |-> own[c],
                          row |-> [coin |-> c, cluster |-> NoCluster, region |-> region[c],
                                   score |-> score]]
             market == [fingerprint |-> whole,
                        row |-> [coin |-> Market, cluster |-> NoCluster, region |-> NoRegion,
                                 score |-> score]]
         IN  /\ pending' \in {<<market>> \o s :
                               s \in {t \in [1 .. Cardinality(coins) -> {entry(c) : c \in coins}] :
                                        \A c \in coins : \E i \in DOMAIN t : t[i] = entry(c)}}
             /\ earned' = earned \union
                   {[params |-> e.fingerprint, row |-> e.row, model |-> 0] :
                      e \in {market} \union {entry(c) : c \in coins}}
    BY DEF DailyAccepted
<1> DEFINE entry(c) == [fingerprint |-> own[c],
                        row |-> [coin |-> c, cluster |-> NoCluster, region |-> region[c],
                                 score |-> score]]
           market == [fingerprint |-> whole,
                      row |-> [coin |-> Market, cluster |-> NoCluster, region |-> NoRegion,
                               score |-> score]]
           entries == {entry(c) : c \in coins}
           new == {[params |-> e.fingerprint, row |-> e.row, model |-> 0] : e \in {market} \union entries}
<1>3. /\ earned' = earned \union new
      /\ \E s \in [1 .. Cardinality(coins) -> entries] : pending' = <<market>> \o s
    BY <1>2
<1>4. \A e \in {market} \union entries :
        /\ e = [fingerprint |-> e.fingerprint, row |-> e.row] /\ e.row.cluster = NoCluster
    OBVIOUS
<1> HIDE DEF market, entries, entry
<1>5. EarnedRows \subseteq EarnedRows' /\ {market} \union entries \subseteq EarnedRows'
    <2>1. \A e \in {market} \union entries :
            [params |-> e.fingerprint, row |-> e.row, model |-> 0] \in earned'
        BY <1>3
    <2>2. EarnedRows \subseteq EarnedRows'
        BY <1>3 DEF EarnedRows
    <2>3. ASSUME NEW e \in {market} \union entries PROVE e \in EarnedRows'
        <3>1. [fingerprint |-> e.fingerprint, row |-> e.row] \in EarnedRows'
            <4> DEFINE a == [params |-> e.fingerprint, row |-> e.row, model |-> 0]
            <4>1. a \in earned' /\ a.params = e.fingerprint /\ a.row = e.row
                BY <2>1
            <4> HIDE DEF a
            <4> QED
                BY <4>1 DEF EarnedRows
        <3> QED
            BY <1>4, <3>1
    <2> QED
        BY <2>2, <2>3
<1>6. \A m, c : ModelOf(m, c)' = ModelOf(m, c)
    BY <1>1 DEF ModelOf
<1>7. Grown
    BY <1>5, <1>6 DEF Grown
<1>8. pending' \in Seq(EarnedRows')
    <2>1. PICK s \in [1 .. Cardinality(coins) -> entries] : pending' = <<market>> \o s
        BY <1>3
    <2>2. Cardinality(coins) \in Nat
        BY TradedIsFinite, FS_Subset, FS_CardinalityType
    <2>3. s \in [1 .. Cardinality(coins) -> EarnedRows']
        BY <1>5
    <2>4. s \in Seq(EarnedRows') /\ <<market>> \in Seq(EarnedRows')
        BY <1>5, <2>2, <2>3
    <2> QED
        BY <2>1, <2>4, ConcatProperties
<1>9. EarnedInv'
    <2>1. library' \subseteq EarnedRows'
        BY <1>1, <1>5 DEF RegimeInv, EarnedInv
    <2>2. ASSUME NEW a \in earned'
          PROVE  /\ a.row.region # NoRegion => a.row.cluster = NoCluster
                 /\ a.row.cluster # NoCluster => ModelOf(a.model, a.row.coin)'
        <3>1. CASE a \in new
            BY <1>4, <3>1
        <3>2. CASE a \in earned
            BY <1>6, <3>2 DEF RegimeInv, EarnedInv
        <3> QED
            BY <1>3, <3>1, <3>2
    <2> QED
        BY <1>8, <2>1, <2>2 DEF EarnedInv
<1>10. ModelInv'
    BY <1>1, <1>7, ModelsStay DEF RegimeInv
<1> QED
    BY <1>1, <1>7, <1>9, <1>10, PassesStay DEF RegimeInv

\* What is stored of it was accepted; what is not is dropped.
LEMMA DailyStoresKeep ==
    ASSUME RegimeInv, StoreDaily \/ DailyStops
    PROVE  RegimeInv'
<1>1. UNCHANGED <<regimeModels, passVars, reading, models, earned>> /\ pending # <<>>
    BY DEF StoreDaily, DailyStops, regimeStore
<1>2. Grown /\ EarnedRows' = EarnedRows /\ \A m, c : ModelOf(m, c)' = ModelOf(m, c)
    BY <1>1 DEF Grown, EarnedRows, ModelOf
<1>3. pending \in Seq(EarnedRows) /\ library \subseteq EarnedRows
    BY DEF RegimeInv, EarnedInv
<1>4. Head(pending) \in EarnedRows /\ Tail(pending) \in Seq(EarnedRows)
    BY <1>1, <1>3, HeadTailProperties
<1>5. library' \subseteq EarnedRows /\ pending' \in Seq(EarnedRows)
    <2>1. CASE StoreDaily
        <3>1. Head(pending) = [fingerprint |-> Head(pending).fingerprint, row |-> Head(pending).row]
            BY <1>4 DEF EarnedRows
        <3>2. Upsert(Head(pending).fingerprint, Head(pending).row) /\ pending' = Tail(pending)
            BY <2>1 DEF StoreDaily
        <3> QED
            BY <1>3, <1>4, <3>1, <3>2, UpsertEarned
    <2>2. CASE DailyStops
        BY <1>3, <2>2, EmptySeq DEF DailyStops, regimeStore
    <2> QED
        BY <2>1, <2>2
<1>6. EarnedInv'
    BY <1>1, <1>2, <1>5 DEF RegimeInv, EarnedInv
<1>7. ModelInv'
    BY <1>1, <1>2, ModelsStay DEF RegimeInv
<1> QED
    BY <1>1, <1>2, <1>6, <1>7, PassesStay DEF RegimeInv

\* Pruning only takes away; a decision reads the model in use.
LEMMA ReadersKeep ==
    ASSUME RegimeInv, PruneLibrary \/ (\E c \in Traded : Classify(c)) \/ Decide
    PROVE  RegimeInv'
<1>1. UNCHANGED <<regimeModels, passVars, pending, models, earned>> /\ library' \subseteq library
    BY DEF PruneLibrary, Classify, Decide, regimeStore
<1>2. Grown /\ EarnedRows' = EarnedRows /\ \A m, c : ModelOf(m, c)' = ModelOf(m, c)
    BY <1>1 DEF Grown, EarnedRows, ModelOf
<1>3. EarnedInv'
    BY <1>1, <1>2 DEF RegimeInv, EarnedInv
<1>4. ModelInv'
    <2>1. \/ reading' = reading \/ reading' = <<>>
          \/ \E c \in Traded : regimeModels[c] # 0 /\ reading' = <<c, regimeModels[c]>>
        BY DEF PruneLibrary, Classify, Decide
    <2> QED
        BY <1>1, <1>2, <2>1 DEF RegimeInv, ModelInv
<1> QED
    BY <1>1, <1>2, <1>3, <1>4, PassesStay DEF RegimeInv

LEMMA RegimeStep == RegimeInv /\ [RegimeNext]_regimeVars => RegimeInv'
<1> SUFFICES ASSUME RegimeInv, [RegimeNext]_regimeVars PROVE RegimeInv'
    OBVIOUS
<1>1. CASE UNCHANGED regimeVars
    BY <1>1 DEF regimeVars, RegimeInv, PassTypes, EarnedInv, EarnedRows, ModelInv, ModelOf, PassInv,
                FoundRow, Treated
<1>2. ASSUME NEW p \in Passes,
             \/ Dispatch(p) \/ DiscoverRegimes(p) \/ PushModel(p) \/ SearchRegime(p)
             \/ PushEntry(p) \/ CoinReported(p) \/ PodLost(p)
      PROVE  RegimeInv'
    BY <1>2, DispatchKeeps, DiscoverKeeps, PushModelKeeps, SearchKeeps, PushEntryKeeps, LosesOne
<1>3. CASE DailyAccepted \/ StoreDaily \/ DailyStops
    BY <1>3, DailyAcceptedKeeps, DailyStoresKeep
<1>4. CASE PruneLibrary \/ (\E c \in Traded : Classify(c)) \/ Decide
    BY <1>4, ReadersKeep
<1> QED
    BY <1>1, <1>2, <1>3, <1>4 DEF RegimeNext

LEMMA EarnedThere == RegimeInv => RegimeSetsEarned
<1> SUFFICES ASSUME RegimeInv, NEW c \in Traded, NEW region \in Regions, NEW share \in Shares(c),
                    NEW s \in ScopedSets(c, share, region)
             PROVE  \E e \in earned :
                        /\ e.params = s[2].fingerprint /\ e.row.coin = c /\ e.row.cluster = s[1]
                        /\ e.row.score = s[2].row.score
                        /\ s[1] # NoCluster /\ Cardinality(Discovered(c)) = 1 => e.model = reading[2]
    BY DEF RegimeSetsEarned
<1>1. \A e \in library : \E a \in earned : a.params = e.fingerprint /\ a.row = e.row
    BY DEF RegimeInv, EarnedInv, EarnedRows
<1>2. CASE s \in Blend(c, share)
    <2>1. PICK k \in share : \E e \in ClusterEntries(c, k) : s = <<k, e>>
        BY <1>2 DEF Blend
    <2> PICK e \in ClusterEntries(c, k) : s = <<k, e>>
        BY <2>1
    <2>2. e \in library /\ e.row.coin = c /\ e.row.cluster = k
        BY DEF ClusterEntries
    <2>3. PICK a \in earned : a.params = e.fingerprint /\ a.row = e.row
        BY <1>1, <2>2
    <2>4. reading # <<>> /\ reading[1] = c
        BY DEF Shares
    <2>5. ASSUME k # NoCluster, Cardinality(Discovered(c)) = 1 PROVE a.model = reading[2]
        <3>1. a.model \in Discovered(c) /\ reading[2] \in Discovered(c)
            BY <2>2, <2>3, <2>4, <2>5 DEF RegimeInv, EarnedInv, ModelInv, ModelOf, Discovered
        <3>2. IsFiniteSet(Discovered(c))
            <4>1. models \in Seq([coin : Traded, size : KRange])
                BY DEF RegimeInv, PassTypes
            <4>2. Len(models) \in Nat /\ DOMAIN models = 1 .. Len(models)
                BY <4>1, LenProperties
            <4>3. IsFiniteSet(DOMAIN models)
                BY <4>2, FS_Interval
            <4>4. Discovered(c) \in SUBSET DOMAIN models
                BY DEF Discovered
            <4> QED
                BY <4>3, <4>4, FS_Subset
        <3>3. PICK m : Discovered(c) = {m}
            BY <2>5, <3>2, FS_Singleton
        <3> QED
            BY <3>1, <3>3
    <2> QED
        BY <2>2, <2>3, <2>5
<1>3. CASE s \in Nearest(c, region)
    <2>1. PICK e \in NearestEntries(c, region) : s = <<NoCluster, e>>
        BY <1>3 DEF Nearest
    <2>2. e \in library /\ e.row.coin = c /\ e.row.region # NoRegion
        BY DEF NearestEntries
    <2>3. PICK a \in earned : a.params = e.fingerprint /\ a.row = e.row
        BY <1>1, <2>2
    <2>4. a.row.cluster = NoCluster
        BY <2>2, <2>3 DEF RegimeInv, EarnedInv
    <2> QED
        BY <2>1, <2>2, <2>3, <2>4
<1> QED
    BY <1>2, <1>3 DEF ScopedSets

\* For any passes, batches, models and daily runs: what an entry is traded on was
\* accepted for its coin, a set of a blend for the cluster it stands for and, of a
\* coin discovered once, with the very model its shares were measured with
\* (Engine._regime_scoped_cfg, store.upsert_library_entry).
THEOREM SetsEarned == RegimeSpec => []RegimeSetsEarned
<1> QED
    BY RegimesInit, RegimeStep, EarnedThere, PTL DEF RegimeSpec

\* No model has more clusters than MaxClusters.
LEMMA MostClusters ==
    /\ MaxClusters \in Nat \ {0}
    /\ \A k \in KRange : k \in 1 .. MaxClusters
<1>1. KRange \in SUBSET Nat /\ KRange # {} /\ KRange \subseteq Nat \ {0}
    BY RegimeAssumption
<1>2. PICK n \in Nat : \A k \in KRange : k <= n
    BY <1>1, FiniteBound, RegimeAssumption
<1>3. Max(KRange) \in KRange /\ \A k \in KRange : k <= Max(KRange)
    BY <1>1, <1>2, MaxIs
<1>4. MaxClusters \in KRange /\ \A k \in KRange : k <= MaxClusters
    BY <1>3 DEF MaxClusters
<1> QED
    BY <1>1, <1>4

\* What RegimeTypeOK says beyond RegimeInv.
ClusterTypes ==
    /\ earned \subseteq [params : Sets, row : Row, model : Nat]
    /\ cluster \in [Passes -> 1 .. MaxClusters + 1]
    /\ \A p \in Passes : \A f \in found[p] : f.cluster \in 1 .. MaxClusters
    /\ reading \in {<<>>} \union (Traded \X Nat)

\* A set that is accepted for a cluster of a pass's model.
LEMMA SearchTypes ==
    ASSUME RegimeInv, ClusterTypes, NEW p \in Passes, SearchRegime(p)
    PROVE  ClusterTypes'
<1>1. /\ duty[p] = "search" /\ cluster[p] <= models[heldModel[p]].size
      /\ cluster' = [cluster EXCEPT ![p] = cluster[p] + 1]
      /\ UNCHANGED <<heldModel, coinAt, reading, models>>
    BY DEF SearchRegime
<1>2. cluster[p] \in 1 .. MaxClusters
    <2>1. models[heldModel[p]] \in [coin : Traded, size : KRange]
        <3>1. heldModel[p] \in DOMAIN models /\ models \in Seq([coin : Traded, size : KRange])
            BY <1>1 DEF RegimeInv, PassInv, ModelOf, PassTypes
        <3> QED
            BY <3>1, ElementOfSeq, LenProperties
    <2>2. models[heldModel[p]].size \in 1 .. MaxClusters
        BY <2>1, MostClusters
    <2> QED
        BY <1>1, <2>2, MostClusters DEF ClusterTypes
<1>3. cluster' \in [Passes -> 1 .. MaxClusters + 1]
    BY <1>1, <1>2, MostClusters DEF ClusterTypes
<1>4. CASE UNCHANGED <<found, earned>>
    BY <1>1, <1>3, <1>4 DEF ClusterTypes
<1>5. CASE ~ UNCHANGED <<found, earned>>
    <2>1. PICK params \in Sets, score \in Scores :
            /\ found' = [found EXCEPT ![p] = found[p] \union
                           {[cluster |-> cluster[p], params |-> params, score |-> score]}]
            /\ earned' = earned \union
                  {[params |-> params, model |-> heldModel[p],
                    row |-> [coin |-> Treated(p), cluster |-> cluster[p], region |-> NoRegion,
                             score |-> score]]}
        BY <1>5 DEF SearchRegime
    <2>2. \A q \in Passes : \A f \in found'[q] : f.cluster \in 1 .. MaxClusters
        <3>1. found \in [Passes -> SUBSET [cluster : Nat, params : Sets, score : Scores]]
            BY DEF RegimeInv, PassTypes
        <3>2. \A q \in Passes : \A f \in found'[q] : f \in found[q] \/ f.cluster = cluster[p]
            BY <2>1, <3>1
        <3> QED
            BY <1>2, <3>2 DEF ClusterTypes
    <2>3. earned' \subseteq [params : Sets, row : Row, model : Nat]
        <3> DEFINE row == [coin |-> Treated(p), cluster |-> cluster[p], region |-> NoRegion,
                           score |-> score]
        <3>1. Treated(p) \in Traded /\ heldModel[p] \in Nat
            BY TreatedIsTraded DEF RegimeInv, PassTypes
        <3>2. cluster[p] \in 0 .. MaxClusters
            BY <1>2, MostClusters
        <3>3. row \in Row
            BY <3>1, <3>2 DEF Row
        <3> HIDE DEF row
        <3>4. [params |-> params, model |-> heldModel[p], row |-> row]
                \in [params : Sets, row : Row, model : Nat]
            BY <3>1, <3>3
        <3>5. earned' = earned \union {[params |-> params, model |-> heldModel[p], row |-> row]}
            BY <2>1 DEF row
        <3> QED
            BY <3>4, <3>5 DEF ClusterTypes
    <2> QED
        BY <1>1, <1>3, <2>2, <2>3 DEF ClusterTypes
<1> QED
    BY <1>4, <1>5

LEMMA AcceptedTypes ==
    ASSUME ClusterTypes, DailyAccepted
    PROVE  ClusterTypes'
<1>1. UNCHANGED <<cluster, found, reading>>
    BY DEF DailyAccepted, passVars
<1>2. PICK score \in Scores, whole \in Sets, own \in [Traded -> Sets],
          region \in [Traded -> Regions], coins \in SUBSET Traded :
         LET entry(c) == [fingerprint |-> own[c],
                          row |-> [coin |-> c, cluster |-> NoCluster, region |-> region[c],
                                   score |-> score]]
             market == [fingerprint |-> whole,
                        row |-> [coin |-> Market, cluster |-> NoCluster, region |-> NoRegion,
                                 score |-> score]]
         IN  /\ pending' \in {<<market>> \o s :
                               s \in {t \in [1 .. Cardinality(coins) -> {entry(c) : c \in coins}] :
                                        \A c \in coins : \E i \in DOMAIN t : t[i] = entry(c)}}
             /\ earned' = earned \union
                   {[params |-> e.fingerprint, row |-> e.row, model |-> 0] :
                      e \in {market} \union {entry(c) : c \in coins}}
    BY DEF DailyAccepted
<1> DEFINE rowOf(c) == [coin |-> c, cluster |-> NoCluster, region |-> region[c], score |-> score]
           entry(c) == [fingerprint |-> own[c], row |-> rowOf(c)]
           marketRow == [coin |-> Market, cluster |-> NoCluster, region |-> NoRegion, score |-> score]
           market == [fingerprint |-> whole, row |-> marketRow]
           entries == {market} \union {entry(c) : c \in coins}
<1>3. earned' = earned \union {[params |-> e.fingerprint, row |-> e.row, model |-> 0] : e \in entries}
    BY <1>2
<1>4. \A e \in entries : e.fingerprint \in Sets /\ e.row \in Row
    <2>1. NoCluster \in 0 .. MaxClusters
        BY MostClusters DEF NoCluster
    <2>2. marketRow \in Row
        BY <2>1 DEF Row
    <2>3. \A c \in coins : rowOf(c) \in Row /\ own[c] \in Sets
        BY <2>1 DEF Row
    <2> HIDE DEF marketRow, rowOf
    <2> QED
        BY <2>2, <2>3
<1> HIDE DEF entries
<1>5. earned' \subseteq [params : Sets, row : Row, model : Nat]
    BY <1>3, <1>4 DEF ClusterTypes
<1> QED
    BY <1>1, <1>5 DEF ClusterTypes

LEMMA ClusterStep == RegimeInv /\ ClusterTypes /\ [RegimeNext]_regimeVars => ClusterTypes'
<1> SUFFICES ASSUME RegimeInv, ClusterTypes, [RegimeNext]_regimeVars PROVE ClusterTypes'
    OBVIOUS
<1>0. /\ found \in [Passes -> SUBSET [cluster : Nat, params : Sets, score : Scores]]
      /\ cluster \in [Passes -> 1 .. MaxClusters + 1] /\ 1 \in 1 .. MaxClusters + 1
      /\ regimeModels \in [Traded -> Nat]
    BY MostClusters DEF RegimeInv, PassTypes, ClusterTypes
<1>f. ASSUME NEW p \in Passes, NextCoin(p) \/ Over(p), UNCHANGED <<earned, reading>>
      PROVE  ClusterTypes'
    <2>1. cluster' = [cluster EXCEPT ![p] = 1] /\ found' = [found EXCEPT ![p] = {}]
        BY <1>f DEF NextCoin, Over, Forget
    <2>2. \A q \in Passes : found'[q] \subseteq found[q]
        BY <1>0, <2>1
    <2> QED
        BY <1>0, <1>f, <2>1, <2>2 DEF ClusterTypes
<1>1. ASSUME NEW p \in Passes, Dispatch(p) \/ PushModel(p) PROVE ClusterTypes'
    BY <1>1 DEF Dispatch, PushModel, ClusterTypes
<1>2. ASSUME NEW p \in Passes, DiscoverRegimes(p) \/ CoinReported(p) \/ PodLost(p)
      PROVE  ClusterTypes'
    <2>1. CASE NextCoin(p) \/ Over(p)
        BY <1>2, <1>f, <2>1 DEF DiscoverRegimes, CoinReported, PodLost
    <2>2. CASE ~ (NextCoin(p) \/ Over(p))
        BY <1>2, <2>2 DEF DiscoverRegimes, CoinReported, PodLost, ClusterTypes
    <2> QED
        BY <2>1, <2>2
<1>3. ASSUME NEW p \in Passes, PushEntry(p) PROVE ClusterTypes'
    <2>1. PICK e : found' = [found EXCEPT ![p] = found[p] \ {e}]
        BY <1>3 DEF PushEntry
    <2>2. \A q \in Passes : found'[q] \subseteq found[q]
        BY <1>0, <2>1
    <2> QED
        BY <1>3, <2>2 DEF PushEntry, ClusterTypes
<1>4. CASE StoreDaily \/ DailyStops \/ PruneLibrary \/ Decide \/ UNCHANGED regimeVars
    BY <1>4 DEF StoreDaily, DailyStops, PruneLibrary, Decide, regimeVars, passVars, ClusterTypes
<1>5. ASSUME NEW c \in Traded, Classify(c) PROVE ClusterTypes'
    BY <1>0, <1>5 DEF Classify, passVars, ClusterTypes
<1> QED
    BY <1>1, <1>2, <1>3, <1>4, <1>5, SearchTypes, AcceptedTypes DEF RegimeNext

\* The library's rows, the passes' finds and the models they come from are what
\* the store declares, for any passes, batches and daily runs: a row's cluster is
\* one that discovery can make (solopt.store, wfmc.run_regime_pass).
THEOREM RegimeTypeCorrect == RegimeSpec => []RegimeTypeOK
<1>1. RegimeInit => ClusterTypes
    BY MostClusters DEF RegimeInit, ClusterTypes
<1>2. RegimeInv /\ ClusterTypes => RegimeTypeOK
    <2> SUFFICES ASSUME RegimeInv, ClusterTypes PROVE RegimeTypeOK
        OBVIOUS
    <2>1. EarnedRows \subseteq Rows
        BY DEF ClusterTypes, EarnedRows, Rows
    <2>2. library \subseteq Rows /\ pending \in Seq(Rows)
        BY <2>1, SeqWiden DEF RegimeInv, EarnedInv
    <2>3. \A p \in Passes :
            found[p] \subseteq [cluster : 1 .. MaxClusters, params : Sets, score : Scores]
        <3> SUFFICES ASSUME NEW p \in Passes, NEW f \in found[p]
                     PROVE  f \in [cluster : 1 .. MaxClusters, params : Sets, score : Scores]
            OBVIOUS
        <3>1. f \in [cluster : Nat, params : Sets, score : Scores] /\ f.cluster \in 1 .. MaxClusters
            BY DEF RegimeInv, PassTypes, ClusterTypes
        <3> QED
            BY <3>1
    <2> QED
        BY <2>2, <2>3 DEF RegimeInv, PassTypes, ClusterTypes, RegimeTypeOK
<1> QED
    BY <1>1, <1>2, RegimesInit, RegimeStep, ClusterStep, PTL DEF RegimeSpec

----------------------------------------------------------------------------
(* The daily runs *)

RunRecord ==
    [scheduled : Nat, step : {"pull", "start", "number"} \union Building \union Numbered \union Ended,
     left : SUBSET Universe, open : {<<>>} \union (Universe \X Nat), tests : [Universe -> Nat],
     missed : SUBSET Universe, alone : BOOLEAN, id : Nat, shares : BOOLEAN]

\* What the invariants rest on of the variables' types.
DailyTypes ==
    /\ utcDay \in Nat /\ lastDaily \in Nat /\ runCounter \in Nat
    /\ historyOf \in [Universe -> Nat] /\ bundleFile \in [Universe -> Int]
    /\ recorded \subseteq Universe /\ routed \subseteq Universe
    /\ runRows \subseteq [id : Nat, shows : Nat]
    /\ dailies \in Seq(RunRecord)

DailyInv == DailyTypes /\ DaysInv /\ DirectoryInv /\ IdsInv

LEMMA DailyStarts == DailyInit => DailyInv
<1> SUFFICES ASSUME DailyInit PROVE DailyInv
    OBVIOUS
<1>1. dailies = <<>> /\ DOMAIN dailies = {} /\ runRows = {} /\ lastDaily = 0 /\ utcDay = 1
    BY DEF DailyInit
<1>2. DailyTypes
    <2>1. historyOf \in [Universe -> Nat] /\ bundleFile \in [Universe -> Int]
        BY DEF DailyInit
    <2>2. dailies \in Seq(RunRecord)
        BY <1>1
    <2> QED
        BY <1>1, <2>1, <2>2 DEF DailyInit, DailyTypes
<1> QED
    BY <1>1, <1>2 DEF DailyInv, DaysInv, DirectoryInv, IdsInv

LEMMA RunIs ==
    ASSUME DailyTypes, NEW r \in DOMAIN dailies
    PROVE  /\ dailies[r] \in RunRecord /\ DOMAIN dailies = 1 .. Len(dailies) /\ Len(dailies) \in Nat
           /\ r \in Nat \ {0}
BY LenProperties, ElementOfSeq DEF DailyTypes

LEMMA BecomeIs ==
    ASSUME DailyTypes, NEW r \in DOMAIN dailies, NEW d \in RunRecord, Become(r, d)
    PROVE  /\ dailies' \in Seq(RunRecord) /\ DOMAIN dailies' = DOMAIN dailies
           /\ dailies'[r] = d /\ \A q \in DOMAIN dailies \ {r} : dailies'[q] = dailies[q]
BY ExceptSeq DEF Become, DailyTypes

LEMMA BegunIs ==
    ASSUME NEW day \in Nat, NEW to \in {"pull", "start"}
    PROVE  Begun(day, to) \in RunRecord
BY DEF Begun, RunRecord

\* A run dies, and has no id unless it wrote the counter.
LEMMA DiedIs ==
    ASSUME NEW d \in RunRecord
    PROVE  /\ Died(d) \in RunRecord
           /\ d.step \in Ended => Died(d) = d
           /\ d.step \notin Ended =>
                /\ Died(d).step = "failed" /\ Died(d).tests = [s \in Universe |-> 0]
                /\ Died(d).id = IF d.step = "number" THEN 0 ELSE d.id
           /\ Died(d).scheduled = d.scheduled /\ Died(d).shares = d.shares
           /\ Died(d).missed = d.missed /\ Died(d).alone = d.alone
<1>1. CASE d.step \in Ended
    BY <1>1 DEF Died
<1>2. CASE d.step \notin Ended
    <2> DEFINE e == [d EXCEPT !.step = "failed", !.left = {}, !.open = <<>>,
                              !.tests = [s \in Universe |-> 0],
                              !.id = IF d.step = "number" THEN 0 ELSE d.id]
    <2>1. Died(d) = e
        BY <1>2 DEF Died
    <2>2. /\ e.step = "failed" /\ e.tests = [s \in Universe |-> 0]
          /\ e.id = IF d.step = "number" THEN 0 ELSE d.id
          /\ e.scheduled = d.scheduled /\ e.shares = d.shares /\ e.missed = d.missed
          /\ e.alone = d.alone
        BY DEF RunRecord
    <2>3. e \in RunRecord
        BY DEF RunRecord, Ended
    <2> QED
        BY <1>2, <2>1, <2>2, <2>3
<1> QED
    BY <1>1, <1>2

\* A run keeps what the invariants say of it, or loses some.
RunStays(r) ==
    /\ \A s \in Universe : dailies'[r].tests[s] \in {0, dailies[r].tests[s]}
    /\ dailies'[r].missed = dailies[r].missed
    /\ dailies'[r].alone => dailies[r].alone
    /\ dailies'[r].step \in {"pull", "start"} =>
         dailies[r].step \in {"pull", "start"} /\ dailies'[r].open = dailies[r].open
    /\ dailies'[r].step \in Building =>
         /\ dailies'[r].step = dailies[r].step /\ dailies'[r].left = dailies[r].left
         /\ dailies'[r].open = dailies[r].open /\ dailies'[r].tests = dailies[r].tests

\* The history and the record of tokens only grow.
StoreGrows == recorded \subseteq recorded' /\ \A s \in Universe : historyOf'[s] >= historyOf[s]

NobodyEnters ==
    \A q \in DOMAIN dailies' :
        dailies'[q].step \in Building => q \in DOMAIN dailies /\ dailies[q].step \in Building

LEMMA UndisturbedStays ==
    ASSUME DailyTypes, DailyTypes', NEW r \in DOMAIN dailies, r \in DOMAIN dailies', Undisturbed(r),
           RunStays(r), StoreGrows, NobodyEnters,
           UNCHANGED directoryVars \/ ~ (dailies[r].alone /\ dailies[r].step \in Building)
    PROVE  Undisturbed(r)'
<1>1. /\ dailies[r].tests \in [Universe -> Nat] /\ dailies'[r].tests \in [Universe -> Nat]
      /\ historyOf \in [Universe -> Nat] /\ historyOf' \in [Universe -> Nat]
    <2>1. dailies[r] \in RunRecord /\ dailies'[r] \in RunRecord
        BY RunIs, LenProperties, ElementOfSeq DEF DailyTypes
    <2> QED
        BY <2>1 DEF RunRecord, DailyTypes
<1>2. ASSUME NEW s \in Universe, dailies'[r].tests[s] > 0
      PROVE  historyOf'[s] >= dailies'[r].tests[s] /\ s \in recorded'
    <2>1. dailies'[r].tests[s] = dailies[r].tests[s] /\ dailies[r].tests[s] \in Nat
          /\ historyOf[s] \in Nat /\ historyOf'[s] \in Nat
        BY <1>1, <1>2 DEF RunStays
    <2>2. historyOf[s] >= dailies[r].tests[s] /\ s \in recorded
        BY <1>2, <2>1 DEF Undisturbed
    <2> QED
        BY <2>1, <2>2 DEF StoreGrows
<1>3. /\ dailies'[r].alone => dailies'[r].missed = {}
      /\ dailies'[r].step \in {"pull", "start"} =>
           dailies'[r].missed = {} /\ dailies'[r].open = <<>>
    BY DEF RunStays, Undisturbed
<1>4. ASSUME dailies'[r].alone, dailies'[r].step \in Building
      PROVE  /\ Others(r)' = {}
             /\ \A s \in Universe : dailies'[r].tests[s] > 0 => Kept(r, s)'
    <2>1. dailies[r].alone /\ dailies[r].step \in Building /\ UNCHANGED directoryVars
        BY <1>4 DEF RunStays, NobodyEnters
    <2>2. Others(r)' = {}
        BY <2>1 DEF NobodyEnters, Others, Undisturbed
    <2>3. ASSUME NEW s \in Universe PROVE Kept(r, s)' = Kept(r, s)
        BY <1>4, <2>1 DEF RunStays, Kept, directoryVars
    <2>4. dailies'[r].tests = dailies[r].tests
        BY <1>4 DEF RunStays
    <2> QED
        BY <2>1, <2>2, <2>3, <2>4 DEF Undisturbed
<1> QED
    BY <1>2, <1>3, <1>4 DEF Undisturbed

LEMMA DaysStay ==
    ASSUME DailyTypes, DaysInv, DOMAIN dailies' = DOMAIN dailies, lastDaily' = lastDaily,
           utcDay' \in Nat, utcDay <= utcDay',
           \A q \in DOMAIN dailies : dailies'[q].scheduled = dailies[q].scheduled
    PROVE  DaysInv'
<1>1. lastDaily' <= utcDay'
    BY DEF DaysInv, DailyTypes
<1> QED
    BY <1>1 DEF DaysInv

\* Runs with an id keep it, and no run gets one.
IdStays(q) ==
    /\ HasId(q)' <=> HasId(q)
    /\ HasId(q) => dailies'[q].id = dailies[q].id /\ dailies'[q].shares = dailies[q].shares
    /\ dailies'[q].step = "reported" <=> dailies[q].step = "reported"
    /\ dailies'[q].step \in {"pull", "start"} \union Building => dailies'[q].id = 0
    /\ dailies'[q].step \in Numbered \union {"reported"} => dailies'[q].id # 0

LEMMA IdsStay ==
    ASSUME IdsInv, DOMAIN dailies' = DOMAIN dailies, runRows' \subseteq runRows,
           \A q \in DOMAIN dailies : IdStays(q)
    PROVE  IdsInv'
<1>1. \A q \in DOMAIN dailies : dailies[q].step = "reported" => HasId(q)
    BY DEF IdsInv, HasId, Ended
<1>2. ASSUME NEW r \in DOMAIN dailies
      PROVE  /\ HasId(r)' /\ ~ dailies'[r].shares =>
                  \A q \in DOMAIN dailies \ {r} : HasId(q)' => dailies'[q].id # dailies'[r].id
             /\ dailies'[r].step = "reported" /\ ~ dailies'[r].shares =>
                  \A row \in RowOf(r)' : row.shows = r
    BY <1>1 DEF IdsInv, IdStays, RowOf
<1>3. ASSUME NEW row \in runRows
      PROVE  /\ \E r \in DOMAIN dailies : HasId(r)' /\ dailies'[r].id = row.id
             /\ row.shows # 0 => /\ row.shows \in DOMAIN dailies /\ dailies'[row.shows].id = row.id
                                 /\ dailies'[row.shows].step = "reported"
    BY <1>1 DEF IdsInv, IdStays
<1> QED
    BY <1>2, <1>3 DEF IdsInv, IdStays

\* A step that changes no run.
LEMMA NoRunChanges ==
    ASSUME DailyInv, DailyTypes', UNCHANGED <<dailies, lastDaily, directoryVars>>, StoreGrows,
           utcDay <= utcDay', runRows' \subseteq runRows
    PROVE  DailyInv'
<1>1. DaysInv'
    BY DaysStay DEF DailyInv, DailyTypes
<1>2. DirectoryInv'
    <2>1. NobodyEnters /\ \A r \in DOMAIN dailies : RunStays(r)
        BY DEF NobodyEnters, RunStays
    <2> QED
        BY <2>1, UndisturbedStays DEF DailyInv, DirectoryInv
<1>3. IdsInv'
    <2>1. \A q \in DOMAIN dailies : IdStays(q)
        BY DEF IdStays, HasId, DailyInv, IdsInv
    <2> QED
        BY <2>1, IdsStay DEF DailyInv
<1> QED
    BY <1>1, <1>2, <1>3 DEF DailyInv

LEMMA MarketKeeps ==
    ASSUME DailyInv,
           \/ MidnightPasses \/ PersistUniverse \/ RecordHistory
           \/ (\E s \in Universe : HistoryGrows(s)) \/ (\E row \in runRows : Prune(row))
    PROVE  DailyInv'
<1>1. UNCHANGED <<dailies, lastDaily, directoryVars, runCounter>> /\ runRows' \subseteq runRows
    BY DEF MidnightPasses, PersistUniverse, RecordHistory, HistoryGrows, Prune, reportVars
<1>2. utcDay' \in Nat /\ utcDay <= utcDay' /\ recorded \subseteq recorded'
    BY DEF MidnightPasses, PersistUniverse, RecordHistory, HistoryGrows, Prune, marketVars,
           DailyInv, DailyTypes
<1>3. historyOf' \in [Universe -> Nat] /\ \A s \in Universe : historyOf'[s] >= historyOf[s]
    <2>1. historyOf \in [Universe -> Nat]
        BY DEF DailyInv, DailyTypes
    <2>2. historyOf' = historyOf \/ \E s \in Universe : historyOf' = [historyOf EXCEPT ![s] = historyOf[s] + 1]
        BY DEF MidnightPasses, PersistUniverse, RecordHistory, HistoryGrows, Newer, Prune, marketVars
    <2> QED
        BY <2>1, <2>2
<1>4. DailyTypes'
    <2>1. recorded' \subseteq Universe /\ routed' \subseteq Universe
        BY DEF MidnightPasses, PersistUniverse, RecordHistory, HistoryGrows, Prune, marketVars,
               DailyInv, DailyTypes
    <2> QED
        BY <1>1, <1>2, <1>3, <2>1 DEF DailyInv, DailyTypes, directoryVars
<1> QED
    BY <1>1, <1>2, <1>3, <1>4, NoRunChanges DEF StoreGrows

\* A step of one run; while it writes, no other has the directory to itself.
LEMMA OneRun ==
    ASSUME DailyInv, DailyTypes', NEW r \in DOMAIN dailies, DOMAIN dailies' = DOMAIN dailies,
           \A q \in DOMAIN dailies \ {r} : dailies'[q] = dailies[q],
           UNCHANGED <<lastDaily, marketVars>>, dailies'[r].scheduled = dailies[r].scheduled,
           dailies'[r].step \in Building => dailies[r].step \in Building,
           Undisturbed(r)', UNCHANGED directoryVars \/ dailies[r].step \in Building
    PROVE  DaysInv' /\ DirectoryInv'
<1>1. UNCHANGED <<utcDay, recorded, historyOf>>
    BY DEF marketVars
<1>2. DaysInv'
    BY <1>1, DaysStay DEF DailyInv, DailyTypes
<1>3. StoreGrows /\ NobodyEnters
    <2>1. StoreGrows
        <3>1. historyOf \in [Universe -> Nat]
            BY DEF DailyInv, DailyTypes
        <3> QED
            BY <1>1, <3>1 DEF StoreGrows
    <2>2. NobodyEnters
        BY DEF NobodyEnters
    <2> QED
        BY <2>1, <2>2
<1>4. ASSUME NEW q \in DOMAIN dailies \ {r} PROVE Undisturbed(q)'
    <2>1. RunStays(q) /\ Undisturbed(q)
        BY <1>4 DEF RunStays, DailyInv, DirectoryInv
    <2>2. UNCHANGED directoryVars \/ ~ (dailies[q].alone /\ dailies[q].step \in Building)
        BY <1>4, <2>1 DEF Undisturbed, Others
    <2> QED
        BY <1>3, <2>1, <2>2, UndisturbedStays DEF DailyInv
<1> QED
    BY <1>2, <1>4 DEF DirectoryInv

LEMMA OneRunsId ==
    ASSUME DailyInv, NEW r \in DOMAIN dailies, DOMAIN dailies' = DOMAIN dailies,
           \A q \in DOMAIN dailies \ {r} : dailies'[q] = dailies[q],
           runRows' \subseteq runRows, IdStays(r)
    PROVE  IdsInv'
<1>1. \A q \in DOMAIN dailies \ {r} : IdStays(q)
    BY DEF IdStays, HasId, DailyInv, IdsInv
<1> QED
    BY <1>1, IdsStay DEF DailyInv

\* A run begins: scheduled, it is the first of its day.
LEMMA BeginKeeps ==
    ASSUME DailyInv, MaybeDailyWfmc \/ RunWfmcDaily
    PROVE  DailyInv'
<1>1. PICK day \in Nat, to \in {"pull", "start"} :
        /\ dailies' = Append(dailies, Begun(day, to))
        /\ \/ day = 0 /\ lastDaily' = lastDaily
           \/ day = utcDay /\ lastDaily' = utcDay /\ lastDaily # utcDay
    BY DEF MaybeDailyWfmc, RunWfmcDaily, DailyInv, DailyTypes
<1>2. UNCHANGED <<utcDay, recorded, historyOf, routed, directoryVars, bundleFile, snapshots, runRows,
                  runCounter>>
    BY DEF MaybeDailyWfmc, RunWfmcDaily, marketVars, reportVars, directoryVars
<1>3. Begun(day, to) \in RunRecord
    BY BegunIs
<1>a. PICK n \in Nat : n = Len(dailies) + 1
    BY LenProperties DEF DailyInv, DailyTypes
<1>4. /\ dailies' \in Seq(RunRecord) /\ DOMAIN dailies' = DOMAIN dailies \union {n}
      /\ n \notin DOMAIN dailies /\ dailies'[n] = Begun(day, to)
      /\ \A q \in DOMAIN dailies : dailies'[q] = dailies[q]
    <2>1. dailies \in Seq(RunRecord) /\ Len(dailies) \in Nat
        BY LenProperties DEF DailyInv, DailyTypes
    <2>2. /\ dailies' \in Seq(RunRecord) /\ Len(dailies') = Len(dailies) + 1
          /\ \A i \in 1 .. Len(dailies) : dailies'[i] = dailies[i]
          /\ dailies'[Len(dailies) + 1] = Begun(day, to)
        BY <1>1, <1>3, <2>1, AppendProperties
    <2>3. DOMAIN dailies = 1 .. Len(dailies) /\ DOMAIN dailies' = 1 .. Len(dailies) + 1
        BY <2>1, <2>2, LenProperties
    <2> QED
        BY <1>a, <2>1, <2>2, <2>3
<1>5. /\ dailies'[n].scheduled = day /\ dailies'[n].step = to /\ dailies'[n].id = 0
      /\ dailies'[n].tests = [s \in Universe |-> 0] /\ dailies'[n].missed = {}
      /\ dailies'[n].open = <<>>
    BY <1>4 DEF Begun
<1>6. DailyTypes'
    BY <1>1, <1>2, <1>4 DEF DailyInv, DailyTypes
<1>7. DaysInv'
    <2>1. \A q \in DOMAIN dailies : dailies[q].scheduled \in Nat /\ dailies[q].scheduled <= lastDaily
        <3> SUFFICES ASSUME NEW q \in DOMAIN dailies
                     PROVE  dailies[q].scheduled \in Nat /\ dailies[q].scheduled <= lastDaily
            OBVIOUS
        <3>1. dailies[q] \in RunRecord
            BY RunIs DEF DailyInv
        <3> QED
            BY <3>1 DEF RunRecord, DailyInv, DaysInv
    <2>2. lastDaily' \in Nat /\ lastDaily <= lastDaily' /\ lastDaily' <= utcDay' /\ day <= lastDaily'
          /\ (day # 0 => lastDaily < day)
        BY <1>1, <1>2 DEF DailyInv, DaysInv, DailyTypes
    <2>3. \A q \in DOMAIN dailies : day # 0 => dailies[q].scheduled # day
        BY <2>1, <2>2 DEF DailyInv, DailyTypes
    <2>4. \A q \in DOMAIN dailies : dailies[q].scheduled <= lastDaily'
        BY <2>1, <2>2 DEF DailyInv, DailyTypes
    <2> QED
        BY <1>4, <1>5, <2>1, <2>2, <2>3, <2>4 DEF DailyInv, DaysInv
<1>8. DirectoryInv'
    <2>1. StoreGrows /\ NobodyEnters
        BY <1>2, <1>4, <1>5 DEF StoreGrows, NobodyEnters, Building, DailyInv, DailyTypes
    <2>2. ASSUME NEW q \in DOMAIN dailies PROVE Undisturbed(q)'
        <3>1. RunStays(q) /\ Undisturbed(q) /\ q \in DOMAIN dailies'
            BY <1>4 DEF RunStays, DailyInv, DirectoryInv
        <3> QED
            BY <1>2, <1>6, <2>1, <3>1, UndisturbedStays DEF DailyInv
    <2>3. Undisturbed(n)'
        BY <1>5 DEF Undisturbed, Building
    <2> QED
        BY <1>4, <2>2, <2>3 DEF DirectoryInv
<1>9. IdsInv'
    <2>1. \A q \in DOMAIN dailies : (HasId(q)' <=> HasId(q)) /\ RowOf(q)' = RowOf(q)
        BY <1>2, <1>4 DEF HasId, RowOf
    <2>2. ~HasId(n)'
        BY <1>5 DEF HasId
    <2>3. ASSUME NEW q \in DOMAIN dailies'
          PROVE  /\ dailies'[q].step \in {"pull", "start"} \union Building => dailies'[q].id = 0
                 /\ dailies'[q].step \in Numbered \union {"reported"} => dailies'[q].id # 0
                 /\ HasId(q)' /\ ~ dailies'[q].shares =>
                      \A o \in DOMAIN dailies' \ {q} : HasId(o)' => dailies'[o].id # dailies'[q].id
                 /\ dailies'[q].step = "reported" /\ ~ dailies'[q].shares =>
                      \A row \in RowOf(q)' : row.shows = q
        <3>1. CASE q = n
            BY <1>5, <2>2, <3>1 DEF Numbered
        <3>2. CASE q \in DOMAIN dailies
            BY <1>4, <2>1, <2>2, <3>2 DEF DailyInv, IdsInv
        <3> QED
            BY <1>4, <3>1, <3>2
    <2>4. ASSUME NEW row \in runRows'
          PROVE  /\ \E q \in DOMAIN dailies' : HasId(q)' /\ dailies'[q].id = row.id
                 /\ row.shows # 0 => /\ row.shows \in DOMAIN dailies'
                                     /\ dailies'[row.shows].id = row.id
                                     /\ dailies'[row.shows].step = "reported"
        BY <1>2, <1>4, <2>1 DEF DailyInv, IdsInv
    <2> QED
        BY <2>3, <2>4 DEF IdsInv
<1> QED
    BY <1>6, <1>7, <1>8, <1>9 DEF DailyInv

\* The steps outside the directory: a run that goes on, draws a number, has a
\* search, or dies.
LEMMA OutsideKeeps ==
    ASSUME DailyInv, NEW r \in DOMAIN dailies, NEW d \in RunRecord, Become(r, d),
           UNCHANGED <<lastDaily, marketVars, directoryVars>>,
           d.scheduled = dailies[r].scheduled, d.missed = dailies[r].missed, d.alone = dailies[r].alone,
           \A s \in Universe : d.tests[s] \in {0, dailies[r].tests[s]}, d.step \notin Building,
           d.step \in {"pull", "start"} =>
             dailies[r].step \in {"pull", "start"} /\ d.open = dailies[r].open,
           runRows' \subseteq runRows, runCounter' \in Nat, IdStays(r)
    PROVE  DailyInv'
<1>1. /\ dailies' \in Seq(RunRecord) /\ DOMAIN dailies' = DOMAIN dailies
      /\ dailies'[r] = d /\ \A q \in DOMAIN dailies \ {r} : dailies'[q] = dailies[q]
    BY BecomeIs DEF DailyInv
<1>2. DailyTypes'
    BY <1>1 DEF DailyInv, DailyTypes, marketVars, directoryVars
<1>3. Undisturbed(r)'
    <2>1. RunStays(r) /\ Undisturbed(r)
        BY <1>1 DEF RunStays, DailyInv, DirectoryInv
    <2>2. UNCHANGED <<recorded, historyOf>> /\ historyOf \in [Universe -> Nat]
        BY DEF marketVars, DailyInv, DailyTypes
    <2>3. StoreGrows
        BY <2>2 DEF StoreGrows
    <2>4. NobodyEnters
        BY <1>1 DEF NobodyEnters
    <2> QED
        BY <1>1, <1>2, <2>1, <2>3, <2>4, UndisturbedStays DEF DailyInv
<1>4. DaysInv' /\ DirectoryInv'
    BY <1>1, <1>2, <1>3, OneRun
<1>5. IdsInv'
    BY <1>1, OneRunsId
<1> QED
    BY <1>2, <1>4, <1>5 DEF DailyInv

LEMMA PulledKeeps ==
    ASSUME DailyInv, NEW r \in DOMAIN dailies, Pulled(r)
    PROVE  DailyInv'
<1> DEFINE d == [dailies[r] EXCEPT !.step = "start"]
<1>1. dailies[r] \in RunRecord /\ dailies[r].step = "pull" /\ Become(r, d)
    BY RunIs DEF DailyInv, Pulled, Stands, GoTo
<1>2. /\ d \in RunRecord /\ d.step = "start" /\ d.id = dailies[r].id /\ d.open = dailies[r].open
      /\ d.scheduled = dailies[r].scheduled /\ d.missed = dailies[r].missed
      /\ d.alone = dailies[r].alone /\ d.tests = dailies[r].tests
    BY <1>1 DEF RunRecord
<1> HIDE DEF d
<1>3. UNCHANGED <<lastDaily, marketVars, directoryVars, runRows, runCounter>>
    BY DEF Pulled, reportVars
<1>4. dailies'[r] = d
    BY <1>1, <1>2, BecomeIs DEF DailyInv
<1>5. IdStays(r)
    BY <1>1, <1>2, <1>4 DEF IdStays, HasId, Numbered, Ended, Building, DailyInv, IdsInv
<1> QED
    BY <1>1, <1>2, <1>3, <1>5, OutsideKeeps DEF Building, DailyInv, DailyTypes

LEMMA ReadRunIdKeeps ==
    ASSUME DailyInv, NEW r \in DOMAIN dailies, ReadRunId(r)
    PROVE  DailyInv'
<1> DEFINE d == [dailies[r] EXCEPT !.id = runCounter + 1]
<1>1. dailies[r] \in RunRecord /\ dailies[r].step = "number" /\ Become(r, d) /\ runCounter \in Nat
    BY RunIs DEF DailyInv, DailyTypes, ReadRunId, Stands
<1>2. /\ d \in RunRecord /\ d.step = "number"
      /\ d.scheduled = dailies[r].scheduled /\ d.missed = dailies[r].missed
      /\ d.alone = dailies[r].alone /\ d.tests = dailies[r].tests
    BY <1>1 DEF RunRecord
<1> HIDE DEF d
<1>3. UNCHANGED <<lastDaily, marketVars, directoryVars, runRows, runCounter>>
    BY DEF ReadRunId, reportVars
<1>4. dailies'[r] = d
    BY <1>1, <1>2, BecomeIs DEF DailyInv
<1>5. IdStays(r)
    BY <1>1, <1>2, <1>4 DEF IdStays, HasId, Numbered, Ended, Building
<1> QED
    BY <1>1, <1>2, <1>3, <1>5, OutsideKeeps DEF Building

\* A thread that dies takes no number with it that it has not written.
LEMMA DiedStays ==
    ASSUME DailyInv, NEW r \in DOMAIN dailies, dailies'[r] = Died(dailies[r])
    PROVE  IdStays(r) /\ RunStays(r) /\ (dailies'[r].step \in Building => dailies[r].step \in Building)
<1>1. dailies[r] \in RunRecord
    BY RunIs DEF DailyInv
<1>2. CASE dailies[r].step \in Ended
    <2>1. dailies'[r] = dailies[r]
        BY <1>1, <1>2, DiedIs
    <2> QED
        BY <2>1 DEF IdStays, RunStays, HasId, DailyInv, IdsInv
<1>3. CASE dailies[r].step \notin Ended
    <2>1. /\ dailies'[r].step = "failed" /\ dailies'[r].tests = [s \in Universe |-> 0]
          /\ dailies'[r].id = IF dailies[r].step = "number" THEN 0 ELSE dailies[r].id
          /\ dailies'[r].shares = dailies[r].shares /\ dailies'[r].missed = dailies[r].missed
          /\ dailies'[r].alone = dailies[r].alone
        BY <1>1, <1>3, DiedIs
    <2>2. RunStays(r)
        BY <2>1 DEF RunStays, Building
    <2>3. IdStays(r)
        <3>1. dailies[r].step \in {"pull", "start"} \union Building => dailies[r].id = 0
            BY DEF DailyInv, IdsInv
        <3>2. dailies[r].step \in {"pull", "start", "number"} \union Building \union Numbered
            BY <1>1, <1>3 DEF RunRecord
        <3> QED
            BY <1>3, <2>1, <3>1, <3>2 DEF IdStays, HasId, Numbered, Ended, Building
    <2> QED
        BY <2>1, <2>2, <2>3 DEF Building
<1> QED
    BY <1>2, <1>3

LEMMA FailsKeeps ==
    ASSUME DailyInv, NEW r \in DOMAIN dailies, Fails(r)
    PROVE  DailyInv'
<1> DEFINE d == Died(dailies[r])
<1>1. dailies[r] \in RunRecord /\ dailies[r].step \notin Ended /\ Become(r, d)
    BY RunIs DEF DailyInv, Fails
<1>2. /\ d \in RunRecord /\ d.step = "failed" /\ d.tests = [s \in Universe |-> 0]
      /\ d.scheduled = dailies[r].scheduled /\ d.missed = dailies[r].missed
      /\ d.alone = dailies[r].alone
    BY <1>1, DiedIs
<1>3. dailies'[r] = d
    BY <1>1, <1>2, BecomeIs DEF DailyInv
<1>4. IdStays(r)
    BY <1>3, DiedStays
<1> HIDE DEF d
<1>5. UNCHANGED <<lastDaily, marketVars, directoryVars, runRows, runCounter>>
    BY DEF Fails, reportVars
<1> QED
    BY <1>1, <1>2, <1>4, <1>5, OutsideKeeps DEF Building, DailyInv, DailyTypes

LEMMA RestartKeeps ==
    ASSUME DailyInv, WorkerRestarts
    PROVE  DailyInv'
<1>1. /\ dailies' = [q \in DOMAIN dailies |-> Died(dailies[q])]
      /\ UNCHANGED <<lastDaily, marketVars, directoryVars, runRows, runCounter>>
    BY DEF WorkerRestarts, reportVars
<1>2. \A q \in DOMAIN dailies : dailies'[q] = Died(dailies[q]) /\ dailies'[q] \in RunRecord
                                /\ dailies'[q].scheduled = dailies[q].scheduled
    BY <1>1, RunIs, DiedIs DEF DailyInv
<1>3. dailies' \in Seq(RunRecord) /\ DOMAIN dailies' = DOMAIN dailies
    <2>1. DOMAIN dailies = 1 .. Len(dailies) /\ Len(dailies) \in Nat
        BY LenProperties DEF DailyInv, DailyTypes
    <2>2. dailies' \in [1 .. Len(dailies) -> RunRecord]
        BY <1>1, <1>2, <2>1
    <2> QED
        BY <1>1, <2>1, <2>2
<1>4. DailyTypes'
    BY <1>1, <1>3 DEF DailyInv, DailyTypes, marketVars, directoryVars
<1>5. UNCHANGED <<utcDay, recorded, historyOf>>
    BY <1>1 DEF marketVars
<1>6. \A q \in DOMAIN dailies : IdStays(q) /\ RunStays(q)
                                /\ (dailies'[q].step \in Building => dailies[q].step \in Building)
    BY <1>2, DiedStays
<1>7. DaysInv'
    BY <1>1, <1>2, <1>3, <1>5, DaysStay DEF DailyInv, DailyTypes
<1>8. DirectoryInv'
    <2>1. StoreGrows /\ NobodyEnters
        BY <1>3, <1>5, <1>6 DEF StoreGrows, NobodyEnters, DailyInv, DailyTypes
    <2> QED
        BY <1>1, <1>3, <1>4, <1>6, <2>1, UndisturbedStays DEF DailyInv, DirectoryInv
<1>9. IdsInv'
    BY <1>1, <1>3, <1>6, IdsStay DEF DailyInv
<1> QED
    BY <1>4, <1>7, <1>8, <1>9 DEF DailyInv

\* The counter is written: whoever has the number, knows of it.
LEMMA WriteRunIdKeeps ==
    ASSUME DailyInv, NEW r \in DOMAIN dailies, WriteRunId(r)
    PROVE  DailyInv'
<1> DEFINE same == {q \in DOMAIN dailies \ {r} : dailies[q].id = dailies[r].id}
           knows(q) == dailies[q].shares \/ (q \in same \/ (q = r /\ same # {}))
           now(q) == [dailies[q] EXCEPT !.shares = knows(q),
                                        !.step = IF q = r THEN "search" ELSE dailies[q].step]
<1>1. /\ dailies' = [q \in DOMAIN dailies |-> now(q)]
      /\ dailies[r].step = "number" /\ dailies[r].id # 0
    BY DEF WriteRunId, Stands
<1>2. runCounter' = dailies[r].id /\ UNCHANGED <<lastDaily, marketVars, directoryVars, runRows>>
    BY DEF WriteRunId
<1>3. ASSUME NEW q \in DOMAIN dailies
      PROVE  /\ dailies'[q] \in RunRecord
             /\ dailies'[q].shares = knows(q)
             /\ dailies'[q].step = IF q = r THEN "search" ELSE dailies[q].step
             /\ dailies'[q].scheduled = dailies[q].scheduled /\ dailies'[q].left = dailies[q].left
             /\ dailies'[q].open = dailies[q].open /\ dailies'[q].tests = dailies[q].tests
             /\ dailies'[q].missed = dailies[q].missed /\ dailies'[q].alone = dailies[q].alone
             /\ dailies'[q].id = dailies[q].id
    <2>1. dailies[q] \in RunRecord
        BY RunIs DEF DailyInv
    <2>2. knows(q) \in BOOLEAN
        BY <2>1 DEF RunRecord
    <2>3. dailies'[q] = now(q)
        BY <1>1
    <2> HIDE DEF knows, same
    <2>4. now(q) \in RunRecord
        BY <2>1, <2>2 DEF RunRecord, Numbered
    <2>5. /\ now(q).shares = knows(q)
          /\ now(q).step = IF q = r THEN "search" ELSE dailies[q].step
          /\ now(q).scheduled = dailies[q].scheduled /\ now(q).left = dailies[q].left
          /\ now(q).open = dailies[q].open /\ now(q).tests = dailies[q].tests
          /\ now(q).missed = dailies[q].missed /\ now(q).alone = dailies[q].alone
          /\ now(q).id = dailies[q].id
        BY <2>1 DEF RunRecord
    <2> QED
        BY <2>3, <2>4, <2>5
<1>4. DOMAIN dailies' = DOMAIN dailies /\ dailies' \in Seq(RunRecord)
    <2>1. DOMAIN dailies = 1 .. Len(dailies) /\ Len(dailies) \in Nat
        BY LenProperties DEF DailyInv, DailyTypes
    <2>2. DOMAIN dailies' = DOMAIN dailies /\ dailies' = [q \in DOMAIN dailies |-> dailies'[q]]
        BY <1>1
    <2>3. dailies' \in [1 .. Len(dailies) -> RunRecord]
        BY <1>3, <2>1, <2>2
    <2> QED
        BY <2>1, <2>2, <2>3
<1> HIDE DEF now
<1>5. DailyTypes'
    <2>1. dailies[r].id \in Nat
        BY RunIs DEF DailyInv, RunRecord
    <2> QED
        BY <1>2, <1>4, <2>1 DEF DailyInv, DailyTypes, marketVars, directoryVars
<1>6. UNCHANGED <<utcDay, recorded, historyOf>> /\ historyOf \in [Universe -> Nat] /\ utcDay \in Nat
    BY <1>2 DEF marketVars, DailyInv, DailyTypes
<1>7. DaysInv'
    BY <1>2, <1>3, <1>4, <1>6, DaysStay DEF DailyInv
<1>8. DirectoryInv'
    <2>1. StoreGrows
        BY <1>6 DEF StoreGrows
    <2>2. NobodyEnters /\ \A q \in DOMAIN dailies : RunStays(q)
        BY <1>3, <1>4 DEF NobodyEnters, RunStays, Building
    <2> QED
        BY <1>2, <1>4, <1>5, <2>1, <2>2, UndisturbedStays DEF DailyInv, DirectoryInv
<1>9. IdsInv'
    <2>1. /\ HasId(r)' /\ \A q \in DOMAIN dailies \ {r} : HasId(q)' <=> HasId(q)
          /\ \A q \in DOMAIN dailies : RowOf(q)' = RowOf(q)
        BY <1>1, <1>2, <1>3 DEF HasId, Numbered, RowOf
    <2>2. ASSUME NEW x \in DOMAIN dailies, HasId(x)', ~ dailies'[x].shares,
                 NEW q \in DOMAIN dailies \ {x}, HasId(q)'
          PROVE  dailies'[q].id # dailies'[x].id
        <3>1. ~knows(x)
            BY <1>3, <2>2
        <3>2. CASE x = r
            BY <1>3, <3>1, <3>2
        <3>3. CASE x # r /\ q = r
            BY <1>3, <3>1, <3>3
        <3>4. CASE x # r /\ q # r
            BY <1>3, <2>1, <2>2, <3>1, <3>4 DEF DailyInv, IdsInv
        <3> QED
            BY <3>2, <3>3, <3>4
    <2>3. ASSUME NEW x \in DOMAIN dailies
          PROVE  /\ dailies'[x].step \in {"pull", "start"} \union Building => dailies'[x].id = 0
                 /\ dailies'[x].step \in Numbered \union {"reported"} => dailies'[x].id # 0
                 /\ dailies'[x].step = "reported" /\ ~ dailies'[x].shares =>
                      \A row \in RowOf(x)' : row.shows = x
        <3>1. CASE x = r
            <4>1. dailies'[x].step = "search" /\ dailies'[x].id # 0
                BY <1>1, <1>3, <3>1
            <4> QED
                BY <4>1 DEF Building
        <3>2. CASE x # r
            <4>1. /\ dailies'[x].step = dailies[x].step /\ dailies'[x].id = dailies[x].id
                  /\ ~ dailies'[x].shares => ~ dailies[x].shares
                BY <1>3, <3>2
            <4> QED
                BY <2>1, <4>1 DEF DailyInv, IdsInv
        <3> QED
            BY <3>1, <3>2
    <2>4. ASSUME NEW row \in runRows'
          PROVE  /\ \E q \in DOMAIN dailies : HasId(q)' /\ dailies'[q].id = row.id
                 /\ row.shows # 0 => /\ row.shows \in DOMAIN dailies
                                     /\ dailies'[row.shows].id = row.id
                                     /\ dailies'[row.shows].step = "reported"
        <3>1. \E q \in DOMAIN dailies : HasId(q) /\ dailies[q].id = row.id
            BY <1>2 DEF DailyInv, IdsInv
        <3>2. \E q \in DOMAIN dailies : HasId(q)' /\ dailies'[q].id = row.id
            BY <1>3, <2>1, <3>1
        <3>3. row.shows # 0 => /\ row.shows \in DOMAIN dailies /\ dailies[row.shows].id = row.id
                               /\ dailies[row.shows].step = "reported"
            BY <1>2 DEF DailyInv, IdsInv
        <3> QED
            BY <1>1, <1>3, <3>2, <3>3
    <2> HIDE DEF knows, same
    <2> QED
        BY <1>4, <2>2, <2>3, <2>4 DEF IdsInv
<1> QED
    BY <1>5, <1>7, <1>8, <1>9 DEF DailyInv

\* A row of the run is new, or the run's feed failed.
LEMMA SearchRunKeeps ==
    ASSUME DailyInv, NEW r \in DOMAIN dailies, Search(r)
    PROVE  DailyInv'
<1> DEFINE d == [dailies[r] EXCEPT !.step = "report"]
<1>1. dailies[r] \in RunRecord /\ dailies[r].step = "search" /\ Become(r, d)
    BY RunIs DEF DailyInv, Search, Stands, GoTo
<1>2. /\ d \in RunRecord /\ d.step = "report" /\ d.id = dailies[r].id /\ d.shares = dailies[r].shares
      /\ d.scheduled = dailies[r].scheduled /\ d.missed = dailies[r].missed
      /\ d.alone = dailies[r].alone /\ d.tests = dailies[r].tests
    BY <1>1 DEF RunRecord, Numbered
<1> HIDE DEF d
<1>3. UNCHANGED <<lastDaily, marketVars, directoryVars, runCounter>> /\ runCounter \in Nat
    BY DEF Search, DailyInv, DailyTypes
<1>4. /\ dailies'[r] = d /\ DOMAIN dailies' = DOMAIN dailies /\ dailies' \in Seq(RunRecord)
      /\ \A q \in DOMAIN dailies \ {r} : dailies'[q] = dailies[q]
    BY <1>1, <1>2, BecomeIs DEF DailyInv
<1>5. dailies[r].id # 0 /\ HasId(r) /\ HasId(r)'
    BY <1>1, <1>2, <1>4 DEF HasId, Numbered, DailyInv, IdsInv
<1>6. IdStays(r)
    BY <1>1, <1>2, <1>4, <1>5 DEF IdStays, Building
<1>7. CASE UNCHANGED runRows
    BY <1>1, <1>2, <1>3, <1>6, <1>7, OutsideKeeps DEF Building
<1>8. CASE runRows' = runRows \union {[id |-> dailies[r].id, shows |-> 0]}
    <2> DEFINE new == [id |-> dailies[r].id, shows |-> 0]
    <2>1. DailyTypes'
        <3>1. dailies[r].id \in Nat
            BY <1>1 DEF RunRecord
        <3>2. runRows' \subseteq [id : Nat, shows : Nat]
            BY <1>8, <3>1 DEF DailyInv, DailyTypes
        <3> QED
            BY <1>3, <1>4, <3>2 DEF DailyInv, DailyTypes, marketVars, directoryVars
    <2>2. Undisturbed(r)'
        <3>1. RunStays(r) /\ Undisturbed(r)
            BY <1>2, <1>4 DEF RunStays, Building, DailyInv, DirectoryInv
        <3>2. UNCHANGED <<recorded, historyOf>> /\ historyOf \in [Universe -> Nat]
            BY <1>3 DEF marketVars, DailyInv, DailyTypes
        <3>3. StoreGrows
            BY <3>2 DEF StoreGrows
        <3>4. NobodyEnters
            BY <1>2, <1>4 DEF NobodyEnters, Building
        <3> QED
            BY <1>3, <1>4, <2>1, <3>1, <3>3, <3>4, UndisturbedStays DEF DailyInv
    <2>3. DaysInv' /\ DirectoryInv'
        BY <1>2, <1>3, <1>4, <2>1, <2>2, OneRun DEF Building
    <2>4. \A q \in DOMAIN dailies : /\ dailies'[q].id = dailies[q].id /\ (HasId(q)' <=> HasId(q))
                                    /\ dailies'[q].shares = dailies[q].shares
                                    /\ dailies'[q].step = "reported" <=> dailies[q].step = "reported"
        BY <1>1, <1>2, <1>4, <1>5 DEF HasId
    <2>5. ASSUME NEW x \in DOMAIN dailies
          PROVE  /\ dailies'[x].step \in {"pull", "start"} \union Building => dailies'[x].id = 0
                 /\ dailies'[x].step \in Numbered \union {"reported"} => dailies'[x].id # 0
                 /\ HasId(x)' /\ ~ dailies'[x].shares =>
                      \A q \in DOMAIN dailies \ {x} : HasId(q)' => dailies'[q].id # dailies'[x].id
        BY <1>2, <1>4, <1>5, <2>4 DEF DailyInv, IdsInv, Building
    <2>6. ASSUME NEW x \in DOMAIN dailies, dailies'[x].step = "reported", ~ dailies'[x].shares,
                 NEW row \in RowOf(x)'
          PROVE  row.shows = x
        <3>1. x # r /\ HasId(x) /\ dailies[x].step = "reported" /\ ~ dailies[x].shares
              /\ dailies'[x].id = dailies[x].id
            BY <1>1, <2>4, <2>6 DEF HasId, Ended, DailyInv, IdsInv
        <3>2. dailies[x].id # dailies[r].id
            BY <1>5, <3>1 DEF DailyInv, IdsInv
        <3>3. row \in RowOf(x)
            BY <1>8, <2>6, <3>1, <3>2 DEF RowOf
        <3> QED
            BY <3>1, <3>3 DEF DailyInv, IdsInv
    <2>7. ASSUME NEW row \in runRows'
          PROVE  /\ \E q \in DOMAIN dailies : HasId(q)' /\ dailies'[q].id = row.id
                 /\ row.shows # 0 => /\ row.shows \in DOMAIN dailies
                                     /\ dailies'[row.shows].id = row.id
                                     /\ dailies'[row.shows].step = "reported"
        <3>1. CASE row = new
            BY <1>5, <2>4, <3>1
        <3>2. CASE row \in runRows
            BY <2>4, <3>2 DEF DailyInv, IdsInv
        <3> QED
            BY <1>8, <3>1, <3>2
    <2> QED
        BY <1>4, <2>1, <2>3, <2>5, <2>6, <2>7 DEF DailyInv, IdsInv
<1> QED
    BY <1>7, <1>8 DEF Search

\* The row of the run's id shows the run.
LEMMA ReportKeeps ==
    ASSUME DailyInv, NEW r \in DOMAIN dailies, Report(r)
    PROVE  DailyInv'
<1> DEFINE d == [dailies[r] EXCEPT !.step = "reported"]
           shown(row) == [row EXCEPT !.shows = r]
<1>1. dailies[r] \in RunRecord /\ dailies[r].step = "report" /\ Become(r, d)
    BY RunIs DEF DailyInv, Report, Stands, GoTo
<1>2. /\ d \in RunRecord /\ d.step = "reported" /\ d.id = dailies[r].id
      /\ d.shares = dailies[r].shares
      /\ d.scheduled = dailies[r].scheduled /\ d.missed = dailies[r].missed
      /\ d.alone = dailies[r].alone /\ d.tests = dailies[r].tests
    BY <1>1 DEF RunRecord, Ended
<1> HIDE DEF d
<1>3. UNCHANGED <<lastDaily, marketVars, directoryVars, runCounter>> /\ runCounter \in Nat
      /\ runRows \subseteq [id : Nat, shows : Nat] /\ r \in Nat \ {0}
    BY RunIs DEF Report, DailyInv, DailyTypes
<1>4. /\ dailies'[r] = d /\ DOMAIN dailies' = DOMAIN dailies /\ dailies' \in Seq(RunRecord)
      /\ \A q \in DOMAIN dailies \ {r} : dailies'[q] = dailies[q]
    BY <1>1, <1>2, BecomeIs DEF DailyInv
<1>5. dailies[r].id # 0 /\ HasId(r) /\ HasId(r)'
    BY <1>1, <1>2, <1>4 DEF HasId, Numbered, Ended, DailyInv, IdsInv
<1>6. runRows' = {IF row \in RowOf(r) THEN shown(row) ELSE row : row \in runRows}
    BY DEF Report
<1>7. ASSUME NEW row \in runRows'
      PROVE  /\ row \in [id : Nat, shows : Nat]
             /\ \/ row.id = dailies[r].id /\ row.shows = r
                \/ row.id # dailies[r].id /\ row \in runRows
             /\ \E old \in runRows : old.id = row.id
    <2>1. PICK old \in runRows : row = IF old \in RowOf(r) THEN shown(old) ELSE old
        BY <1>6
    <2>2. old \in [id : Nat, shows : Nat]
        BY <1>3
    <2>3. CASE old \in RowOf(r)
        <3>1. shown(old) \in [id : Nat, shows : Nat] /\ shown(old).id = old.id /\ shown(old).shows = r
            BY <1>3, <2>2
        <3>2. old.id = dailies[r].id
            BY <2>3 DEF RowOf
        <3> QED
            BY <2>1, <2>3, <3>1, <3>2
    <2>4. CASE old \notin RowOf(r)
        BY <2>1, <2>2, <2>4 DEF RowOf
    <2> QED
        BY <2>3, <2>4
<1> HIDE DEF shown
<1>8. DailyTypes'
    BY <1>3, <1>4, <1>7 DEF DailyInv, DailyTypes, marketVars, directoryVars
<1>9. Undisturbed(r)'
    <2>1. RunStays(r) /\ Undisturbed(r)
        BY <1>2, <1>4 DEF RunStays, Building, DailyInv, DirectoryInv
    <2>2. UNCHANGED <<recorded, historyOf>> /\ historyOf \in [Universe -> Nat]
        BY <1>3 DEF marketVars, DailyInv, DailyTypes
    <2>3. StoreGrows
        BY <2>2 DEF StoreGrows
    <2>4. NobodyEnters
        BY <1>2, <1>4 DEF NobodyEnters, Building
    <2> QED
        BY <1>3, <1>4, <1>8, <2>1, <2>3, <2>4, UndisturbedStays DEF DailyInv
<1>10. DaysInv' /\ DirectoryInv'
    BY <1>2, <1>3, <1>4, <1>8, <1>9, OneRun DEF Building
<1>11. \A q \in DOMAIN dailies : /\ dailies'[q].id = dailies[q].id /\ (HasId(q)' <=> HasId(q))
                                 /\ dailies'[q].shares = dailies[q].shares
                                 /\ dailies[q].step = "reported" => dailies'[q].step = "reported"
    BY <1>1, <1>2, <1>4, <1>5 DEF HasId
<1>12. ASSUME NEW x \in DOMAIN dailies
       PROVE  /\ dailies'[x].step \in {"pull", "start"} \union Building => dailies'[x].id = 0
              /\ dailies'[x].step \in Numbered \union {"reported"} => dailies'[x].id # 0
              /\ HasId(x)' /\ ~ dailies'[x].shares =>
                   \A q \in DOMAIN dailies \ {x} : HasId(q)' => dailies'[q].id # dailies'[x].id
    BY <1>2, <1>4, <1>5, <1>11 DEF DailyInv, IdsInv, Building
<1>13. ASSUME NEW x \in DOMAIN dailies, dailies'[x].step = "reported", ~ dailies'[x].shares,
              NEW row \in RowOf(x)'
       PROVE  row.shows = x
    <2>1. row \in runRows' /\ row.id = dailies[x].id
        BY <1>11, <1>13 DEF RowOf
    <2>2. CASE x = r
        BY <1>7, <2>1, <2>2
    <2>3. CASE x # r
        <3>1. HasId(x) /\ dailies[x].step = "reported" /\ ~ dailies[x].shares
            BY <1>4, <1>11, <1>13, <2>3 DEF HasId, Ended, DailyInv, IdsInv
        <3>2. dailies[x].id # dailies[r].id
            BY <1>5, <2>3, <3>1 DEF DailyInv, IdsInv
        <3>3. row \in RowOf(x)
            BY <1>7, <2>1, <3>2 DEF RowOf
        <3> QED
            BY <3>1, <3>3 DEF DailyInv, IdsInv
    <2> QED
        BY <2>2, <2>3
<1>14. ASSUME NEW row \in runRows'
       PROVE  /\ \E q \in DOMAIN dailies : HasId(q)' /\ dailies'[q].id = row.id
              /\ row.shows # 0 => /\ row.shows \in DOMAIN dailies
                                  /\ dailies'[row.shows].id = row.id
                                  /\ dailies'[row.shows].step = "reported"
    <2>1. \E q \in DOMAIN dailies : HasId(q)' /\ dailies'[q].id = row.id
        BY <1>7, <1>11 DEF DailyInv, IdsInv
    <2>2. CASE row.id = dailies[r].id /\ row.shows = r
        BY <1>2, <1>4, <2>1, <2>2
    <2>3. CASE row \in runRows
        BY <1>11, <2>1, <2>3 DEF DailyInv, IdsInv
    <2> QED
        BY <1>7, <2>2, <2>3
<1> QED
    BY <1>4, <1>8, <1>10, <1>12, <1>13, <1>14 DEF DailyInv, IdsInv

----------------------------------------------------------------------------
(* The bundle directory *)

\* What the steps of a run in the directory have in common.
LEMMA WritingKeeps ==
    ASSUME DailyInv, NEW r \in DOMAIN dailies, NEW d \in RunRecord, Become(r, d),
           UNCHANGED <<lastDaily, marketVars, reportVars>>, dailies[r].step \in Building,
           d.scheduled = dailies[r].scheduled, d.alone = dailies[r].alone, d.id = dailies[r].id,
           d.step \in Building \union {"number", "failed"},
           bundleFile' \in [Universe -> Int],
           \A s \in Universe : d.tests[s] \in {0, dailies[r].tests[s]},
           d.alone => /\ d.missed = {}
                      /\ d.step \in Building =>
                           \A s \in Universe : dailies[r].tests[s] > 0 => Kept(r, s)'
    PROVE  DailyInv'
<1>1. /\ dailies' \in Seq(RunRecord) /\ DOMAIN dailies' = DOMAIN dailies
      /\ dailies'[r] = d /\ \A q \in DOMAIN dailies \ {r} : dailies'[q] = dailies[q]
    BY BecomeIs DEF DailyInv
<1>2. UNCHANGED <<utcDay, recorded, routed, historyOf, runRows, runCounter>>
    BY DEF marketVars, reportVars
<1>3. DailyTypes'
    BY <1>1, <1>2 DEF DailyInv, DailyTypes
<1>4. IdStays(r)
    <2>1. dailies[r].id = 0 /\ dailies[r].step # "reported"
        BY DEF DailyInv, IdsInv, Building
    <2> QED
        BY <1>1, <2>1 DEF IdStays, HasId, Numbered, Building
<1>5. IdsInv'
    BY <1>1, <1>2, <1>4, OneRunsId
<1>6. Undisturbed(r)'
    <2>1. Undisturbed(r) /\ dailies[r].tests \in [Universe -> Nat] /\ d.tests \in [Universe -> Nat]
        BY RunIs DEF DailyInv, DirectoryInv, RunRecord
    <2>2. ASSUME NEW s \in Universe, d.tests[s] > 0
          PROVE  dailies[r].tests[s] = d.tests[s]
        BY <2>2
    <2>3. ASSUME NEW s \in Universe, d.tests[s] > 0
          PROVE  historyOf'[s] >= d.tests[s] /\ s \in recorded'
        BY <1>2, <2>1, <2>2, <2>3 DEF Undisturbed
    <2>4. ASSUME d.alone, d.step \in Building PROVE Others(r)' = {}
        <3>1. Others(r) = {}
            BY <2>1, <2>4 DEF Undisturbed
        <3> QED
            BY <1>1, <3>1 DEF Others
    <2> QED
        BY <1>1, <2>2, <2>3, <2>4 DEF Undisturbed, Building
<1>7. DaysInv' /\ DirectoryInv'
    BY <1>1, <1>2, <1>3, <1>6, OneRun
<1> QED
    BY <1>3, <1>5, <1>7 DEF DailyInv

\* Alone, a run finds in the directory what it wrote.
LEMMA KeptWhileAlone ==
    ASSUME DailyInv, NEW r \in DOMAIN dailies, dailies[r].alone, dailies[r].step \in Building,
           NEW s \in Universe, dailies[r].tests[s] > 0
    PROVE  Kept(r, s) /\ Others(r) = {} /\ historyOf[s] >= dailies[r].tests[s] /\ s \in recorded
           /\ dailies[r].tests[s] \in Nat /\ historyOf[s] \in Nat /\ bundleFile[s] \in Int
BY RunIs DEF DailyInv, DirectoryInv, Undisturbed, DailyTypes, RunRecord

LEMMA OpenFileKeeps ==
    ASSUME DailyInv, NEW r \in DOMAIN dailies, OpenFile(r)
    PROVE  DailyInv'
<1>1. PICK t \in ToWrite(r) :
        /\ bundleFile' = [bundleFile EXCEPT ![t] = Partial]
        /\ Become(r, [dailies[r] EXCEPT !.left = dailies[r].left \ {t}, !.open = <<t, historyOf[t]>>])
    BY DEF OpenFile
<1> DEFINE d == [dailies[r] EXCEPT !.left = dailies[r].left \ {t}, !.open = <<t, historyOf[t]>>]
<1>2. /\ dailies[r] \in RunRecord /\ dailies[r].step = "write" /\ dailies[r].open = <<>>
      /\ UNCHANGED <<lastDaily, marketVars, reportVars>>
    BY RunIs DEF OpenFile, Stands, DailyInv
<1>3. t \in Universe /\ t \in dailies[r].left /\ historyOf[t] \in Nat /\ bundleFile \in [Universe -> Int]
    BY <1>2 DEF ToWrite, RunRecord, DailyInv, DailyTypes
<1>4. /\ d.left = dailies[r].left \ {t} /\ d.open = <<t, historyOf[t]>> /\ d.step = "write"
      /\ d.tests = dailies[r].tests /\ d.missed = dailies[r].missed /\ d.alone = dailies[r].alone
      /\ d.scheduled = dailies[r].scheduled /\ d.id = dailies[r].id
    BY <1>2 DEF RunRecord
<1>5. d \in RunRecord
    BY <1>2, <1>3 DEF RunRecord
<1>6. Become(r, d)
    BY <1>1
<1> HIDE DEF d
<1>7. dailies'[r] = d
    BY <1>5, <1>6, BecomeIs DEF DailyInv
<1>8. bundleFile' \in [Universe -> Int] /\ \A s \in Universe \ {t} : bundleFile'[s] = bundleFile[s]
    BY <1>1, <1>3 DEF Partial
<1>9. ASSUME d.alone
      PROVE  /\ d.missed = {}
             /\ \A s \in Universe : dailies[r].tests[s] > 0 => Kept(r, s)'
    <2>1. dailies[r].missed = {}
        BY <1>4, <1>9 DEF DailyInv, DirectoryInv, Undisturbed
    <2>2. ASSUME NEW s \in Universe, dailies[r].tests[s] > 0 PROVE Kept(r, s)'
        <3>1. /\ Kept(r, s) /\ historyOf[s] >= dailies[r].tests[s]
            BY <1>2, <1>4, <1>9, <2>2, KeptWhileAlone DEF Building
        <3>2. s \in dailies[r].left \/ bundleFile[s] >= dailies[r].tests[s]
            BY <1>2, <3>1 DEF Kept
        <3>3. CASE s = t
            <4>1. d.open # <<>> /\ d.open[1] = s /\ d.open[2] >= d.tests[s]
                BY <1>4, <3>1, <3>3
            <4> QED
                BY <1>4, <1>7, <4>1 DEF Kept
        <3>4. CASE s # t
            <4>1. (s \in d.left \/ bundleFile'[s] >= d.tests[s]) /\ d.open[1] # s
                BY <1>4, <1>8, <3>2, <3>4
            <4> QED
                BY <1>4, <1>7, <4>1 DEF Kept
        <3> QED
            BY <3>3, <3>4
    <2> QED
        BY <1>4, <2>1, <2>2
<1> QED
    BY <1>2, <1>4, <1>5, <1>6, <1>8, <1>9, WritingKeeps DEF Building

\* Nobody else has spoilt the file of a run that is alone.
LEMMA CloseFileKeeps ==
    ASSUME DailyInv, NEW r \in DOMAIN dailies, CloseFile(r)
    PROVE  DailyInv'
<1> DEFINE t == dailies[r].open[1]
           w == dailies[r].open[2]
           d == [dailies[r] EXCEPT !.open = <<>>]
<1>1. /\ dailies[r] \in RunRecord /\ dailies[r].step = "write" /\ dailies[r].open # <<>>
      /\ UNCHANGED <<lastDaily, marketVars, reportVars>> /\ Become(r, d)
    BY RunIs DEF CloseFile, Stands, DailyInv
<1>2. t \in Universe /\ w \in Nat /\ bundleFile \in [Universe -> Int]
    BY <1>1 DEF RunRecord, DailyInv, DailyTypes
<1>3. PICK v \in {w, Partial} :
        /\ bundleFile' = [bundleFile EXCEPT ![t] = v]
        /\ Others(r) = {} => v = w
    BY DEF CloseFile
<1>4. /\ d.left = dailies[r].left /\ d.open = <<>> /\ d.step = "write"
      /\ d.tests = dailies[r].tests /\ d.missed = dailies[r].missed /\ d.alone = dailies[r].alone
      /\ d.scheduled = dailies[r].scheduled /\ d.id = dailies[r].id
    BY <1>1 DEF RunRecord
<1>5. d \in RunRecord
    BY <1>1 DEF RunRecord
<1> HIDE DEF d
<1>6. dailies'[r] = d
    BY <1>1, <1>5, BecomeIs DEF DailyInv
<1>7. /\ bundleFile' \in [Universe -> Int] /\ bundleFile'[t] = v
      /\ \A s \in Universe \ {t} : bundleFile'[s] = bundleFile[s]
    BY <1>2, <1>3 DEF Partial
<1>8. ASSUME d.alone
      PROVE  /\ d.missed = {}
             /\ \A s \in Universe : dailies[r].tests[s] > 0 => Kept(r, s)'
    <2>1. dailies[r].missed = {}
        BY <1>4, <1>8 DEF DailyInv, DirectoryInv, Undisturbed
    <2>2. ASSUME NEW s \in Universe, dailies[r].tests[s] > 0 PROVE Kept(r, s)'
        <3>1. Kept(r, s) /\ Others(r) = {}
            BY <1>1, <1>4, <1>8, <2>2, KeptWhileAlone DEF Building
        <3>2. IF dailies[r].open[1] = s THEN dailies[r].open[2] >= dailies[r].tests[s]
              ELSE s \in dailies[r].left \/ bundleFile[s] >= dailies[r].tests[s]
            BY <1>1, <3>1 DEF Kept
        <3>3. CASE t = s
            <4>1. bundleFile'[s] >= d.tests[s]
                BY <1>3, <1>4, <1>7, <3>1, <3>2, <3>3
            <4> QED
                BY <1>4, <1>6, <4>1 DEF Kept
        <3>4. CASE t # s
            <4>1. s \in d.left \/ bundleFile'[s] >= d.tests[s]
                BY <1>4, <1>7, <3>2, <3>4
            <4> QED
                BY <1>4, <1>6, <4>1 DEF Kept
        <3> QED
            BY <3>3, <3>4
    <2> QED
        BY <1>4, <2>1, <2>2
<1> HIDE DEF t, w
<1> QED
    BY <1>1, <1>4, <1>5, <1>7, <1>8, WritingKeeps DEF Building

\* All is written that was left to write; the snapshots are to name the tokens on
\* record, those a run tests among them.
LEMMA SnapshotsKeep ==
    ASSUME DailyInv, NEW r \in DOMAIN dailies, OpenSnapshots(r) \/ CloseSnapshots(r)
    PROVE  DailyInv'
<1>1. /\ dailies[r] \in RunRecord /\ bundleFile' = bundleFile /\ bundleFile \in [Universe -> Int]
      /\ UNCHANGED <<lastDaily, marketVars, reportVars>>
    BY RunIs DEF OpenSnapshots, CloseSnapshots, DailyInv, DailyTypes
<1>2. ASSUME dailies[r].alone PROVE dailies[r].missed = {}
    BY <1>2 DEF DailyInv, DirectoryInv, Undisturbed
<1>3. CASE OpenSnapshots(r)
    <2> DEFINE d == [dailies[r] EXCEPT !.step = "snapshots", !.left = recorded]
    <2>1. /\ dailies[r].step = "write" /\ dailies[r].open = <<>> /\ ToWrite(r) = {} /\ Become(r, d)
        BY <1>3 DEF OpenSnapshots, Stands
    <2>2. /\ d.left = recorded /\ d.step = "snapshots"
          /\ d.tests = dailies[r].tests /\ d.missed = dailies[r].missed /\ d.alone = dailies[r].alone
          /\ d.scheduled = dailies[r].scheduled /\ d.id = dailies[r].id
        BY <1>1 DEF RunRecord
    <2>3. d \in RunRecord
        BY <1>1 DEF RunRecord, Building, DailyInv, DailyTypes
    <2> HIDE DEF d
    <2>4. dailies'[r] = d
        BY <2>1, <2>3, BecomeIs DEF DailyInv
    <2>5. ASSUME d.alone, NEW s \in Universe, dailies[r].tests[s] > 0 PROVE Kept(r, s)'
        <3>1. /\ Kept(r, s) /\ historyOf[s] >= dailies[r].tests[s] /\ s \in recorded
              /\ dailies[r].tests[s] \in Nat /\ historyOf[s] \in Nat
            BY <2>1, <2>2, <2>5, KeptWhileAlone DEF Building
        <3>2. s \notin dailies[r].left
            BY <2>1, <2>5, <3>1 DEF ToWrite
        <3>3. bundleFile[s] >= dailies[r].tests[s]
            BY <2>1, <3>1, <3>2 DEF Kept
        <3> QED
            BY <1>1, <2>2, <2>4, <3>1, <3>3 DEF Kept
    <2> QED
        BY <1>1, <1>2, <2>1, <2>2, <2>3, <2>5, WritingKeeps DEF Building
<1>4. CASE CloseSnapshots(r)
    <2> DEFINE d == [dailies[r] EXCEPT !.step = "written", !.left = {}]
    <2>1. /\ dailies[r].step = "snapshots" /\ Become(r, d)
          /\ Others(r) = {} => snapshots' = dailies[r].left
        BY <1>4 DEF CloseSnapshots, Stands
    <2>2. /\ d.step = "written"
          /\ d.tests = dailies[r].tests /\ d.missed = dailies[r].missed /\ d.alone = dailies[r].alone
          /\ d.scheduled = dailies[r].scheduled /\ d.id = dailies[r].id
        BY <1>1 DEF RunRecord
    <2>3. d \in RunRecord
        BY <1>1 DEF RunRecord, Building
    <2> HIDE DEF d
    <2>4. dailies'[r] = d
        BY <2>1, <2>3, BecomeIs DEF DailyInv
    <2>5. ASSUME d.alone, NEW s \in Universe, dailies[r].tests[s] > 0 PROVE Kept(r, s)'
        <3>1. Kept(r, s) /\ Others(r) = {}
            BY <2>1, <2>2, <2>5, KeptWhileAlone DEF Building
        <3>2. s \in dailies[r].left /\ bundleFile[s] >= dailies[r].tests[s]
            BY <2>1, <3>1 DEF Kept
        <3> QED
            BY <1>1, <2>1, <2>2, <2>4, <3>1, <3>2 DEF Kept
    <2> QED
        BY <1>1, <1>2, <2>1, <2>2, <2>3, <2>5, WritingKeeps DEF Building
<1> QED
    BY <1>3, <1>4

\* The panel holds every token a run alone is to test, with its history.
LEMMA LoadPanelKeeps ==
    ASSUME DailyInv, NEW r \in DOMAIN dailies, LoadPanel(r)
    PROVE  DailyInv'
<1> DEFINE had == dailies[r].tests
           lost == {s \in Universe : had[s] > 0 /\ ~ (s \in Panel /\ bundleFile[s] >= had[s])}
           next == IF Panel = {} THEN "failed" ELSE "number"
           d == [dailies[r] EXCEPT !.step = next, !.tests = [s \in Universe |-> 0], !.missed = lost]
<1>1. /\ dailies[r] \in RunRecord /\ dailies[r].step = "written" /\ Become(r, d)
      /\ UNCHANGED <<lastDaily, marketVars, reportVars, directoryVars>>
      /\ bundleFile \in [Universe -> Int]
    BY RunIs DEF LoadPanel, Stands, DailyInv, DailyTypes
<1>2. lost \in SUBSET Universe /\ next \in {"failed", "number"}
    OBVIOUS
<1>3. dailies[r].alone => lost = {}
    <2> SUFFICES ASSUME dailies[r].alone, NEW s \in Universe, had[s] > 0
                 PROVE  s \in Panel /\ bundleFile[s] >= had[s]
        OBVIOUS
    <2>1. Kept(r, s) /\ had[s] \in Nat /\ bundleFile[s] \in Int
        BY <1>1, KeptWhileAlone DEF Building
    <2>2. s \in snapshots /\ bundleFile[s] >= had[s]
        BY <1>1, <2>1 DEF Kept
    <2>3. bundleFile[s] # 0 /\ bundleFile[s] # Partial
        BY <2>1, <2>2 DEF Partial
    <2> QED
        BY <2>2, <2>3 DEF Panel, TestFiles
<1> HIDE DEF lost, next
<1>4. /\ d.step = next /\ d.tests = [s \in Universe |-> 0] /\ d.missed = lost
      /\ d.alone = dailies[r].alone
      /\ d.scheduled = dailies[r].scheduled /\ d.id = dailies[r].id
    BY <1>1 DEF RunRecord
<1>5. d \in RunRecord
    BY <1>1, <1>2 DEF RunRecord, Ended
<1> HIDE DEF d
<1>6. d.step \notin Building /\ bundleFile' = bundleFile
    BY <1>1, <1>2, <1>4 DEF Building, directoryVars
<1> QED
    BY <1>1, <1>2, <1>3, <1>4, <1>5, <1>6, WritingKeeps DEF Building

\* A run that finds the directory free has all its tokens left to do; one that does
\* not is not alone, nor is whoever is there.
LEMMA ReadPairMapKeeps ==
    ASSUME DailyInv, NEW r \in DOMAIN dailies, ReadPairMap(r)
    PROVE  DailyInv'
<1>1. /\ dailies[r] \in RunRecord /\ dailies[r].step = "start"
      /\ UNCHANGED <<lastDaily, marketVars, directoryVars, runRows, runCounter>>
      /\ runCounter \in Nat
    BY RunIs DEF ReadPairMap, Stands, reportVars, DailyInv, DailyTypes
<1>2. CASE routed = {}
    <2> DEFINE d == [dailies[r] EXCEPT !.step = "failed"]
    <2>1. Become(r, d)
        BY <1>2 DEF ReadPairMap, GoTo
    <2>2. /\ d \in RunRecord /\ d.step = "failed" /\ d.id = dailies[r].id
          /\ d.scheduled = dailies[r].scheduled /\ d.missed = dailies[r].missed
          /\ d.alone = dailies[r].alone /\ d.tests = dailies[r].tests
        BY <1>1 DEF RunRecord, Ended
    <2> HIDE DEF d
    <2>3. dailies'[r] = d
        BY <2>1, <2>2, BecomeIs DEF DailyInv
    <2>4. IdStays(r)
        <3>1. dailies[r].id = 0
            BY <1>1 DEF DailyInv, IdsInv
        <3> QED
            BY <1>1, <2>2, <2>3, <3>1 DEF IdStays, HasId, Numbered, Building
    <2> QED
        BY <1>1, <2>1, <2>2, <2>4, OutsideKeeps DEF Building
<1>3. CASE routed # {}
    <2> DEFINE tested == [s \in Universe |-> IF s \in routed \intersect recorded
                                             THEN historyOf[s] ELSE 0]
               free == Others(r) = {}
               mine == [dailies[r] EXCEPT !.step = "write", !.left = routed, !.alone = free,
                                          !.tests = tested]
               now(q) == IF q = r THEN mine
                         ELSE [dailies[q] EXCEPT !.alone = @ /\ q \notin Others(r)]
    <2>1. dailies' = [q \in DOMAIN dailies |-> now(q)]
        BY <1>3 DEF ReadPairMap
    <2>2. /\ routed \subseteq Universe /\ historyOf \in [Universe -> Nat]
          /\ tested \in [Universe -> Nat] /\ free \in BOOLEAN
        BY DEF DailyInv, DailyTypes
    <2>3. /\ mine.step = "write" /\ mine.left = routed /\ mine.alone = free /\ mine.tests = tested
          /\ mine.missed = dailies[r].missed /\ mine.id = dailies[r].id /\ mine.open = dailies[r].open
          /\ mine.scheduled = dailies[r].scheduled /\ mine.shares = dailies[r].shares
        BY <1>1 DEF RunRecord
    <2>4. mine \in RunRecord
        <3> HIDE DEF tested, free
        <3> QED
            BY <1>1, <2>2 DEF RunRecord, Building
    <2>5. ASSUME NEW q \in DOMAIN dailies \ {r}
          PROVE  /\ now(q) \in RunRecord
                 /\ now(q).alone = (dailies[q].alone /\ q \notin Others(r))
                 /\ now(q).step = dailies[q].step /\ now(q).left = dailies[q].left
                 /\ now(q).open = dailies[q].open /\ now(q).tests = dailies[q].tests
                 /\ now(q).missed = dailies[q].missed /\ now(q).id = dailies[q].id
                 /\ now(q).scheduled = dailies[q].scheduled /\ now(q).shares = dailies[q].shares
        <3> DEFINE a == dailies[q].alone /\ q \notin Others(r)
        <3>1. dailies[q] \in RunRecord /\ now(q) = [dailies[q] EXCEPT !.alone = a] /\ a \in BOOLEAN
            BY <2>5, RunIs DEF DailyInv, RunRecord
        <3> HIDE DEF a, now
        <3>2. now(q) \in RunRecord /\ now(q).alone = a
            BY <3>1 DEF RunRecord
        <3>3. /\ now(q).step = dailies[q].step /\ now(q).left = dailies[q].left
              /\ now(q).open = dailies[q].open /\ now(q).tests = dailies[q].tests
              /\ now(q).missed = dailies[q].missed /\ now(q).id = dailies[q].id
              /\ now(q).scheduled = dailies[q].scheduled /\ now(q).shares = dailies[q].shares
            BY <3>1 DEF RunRecord
        <3> QED
            BY <3>2, <3>3 DEF a
    <2>6. /\ DOMAIN dailies' = DOMAIN dailies /\ dailies'[r] = mine
          /\ \A q \in DOMAIN dailies \ {r} : dailies'[q] = now(q)
        BY <2>1
    <2>7. dailies' \in Seq(RunRecord)
        <3>1. DOMAIN dailies = 1 .. Len(dailies) /\ Len(dailies) \in Nat
            BY LenProperties DEF DailyInv, DailyTypes
        <3>2. \A q \in DOMAIN dailies : now(q) \in RunRecord
            BY <2>4, <2>5
        <3> HIDE DEF now
        <3>3. dailies' \in [1 .. Len(dailies) -> RunRecord]
            BY <2>1, <3>1, <3>2
        <3> QED
            BY <3>1, <3>3
    <2> HIDE DEF now, mine
    <2>8. DailyTypes'
        BY <1>1, <2>7 DEF DailyInv, DailyTypes, marketVars, directoryVars
    <2>9. UNCHANGED <<utcDay, recorded, historyOf>> /\ utcDay \in Nat
        BY <1>1 DEF marketVars, DailyInv, DailyTypes
    <2>10. DaysInv'
        BY <1>1, <2>3, <2>5, <2>6, <2>9, DaysStay DEF DailyInv
    <2>11. IdsInv'
        <3>1. \A q \in DOMAIN dailies \ {r} : IdStays(q)
            BY <2>5, <2>6 DEF IdStays, HasId, DailyInv, IdsInv
        <3>2. IdStays(r)
            <4>1. dailies[r].id = 0
                BY <1>1 DEF DailyInv, IdsInv
            <4> QED
                BY <1>1, <2>3, <2>6, <4>1 DEF IdStays, HasId, Numbered, Ended, Building
        <3> QED
            BY <1>1, <2>6, <3>1, <3>2, IdsStay DEF DailyInv
    <2>12. Undisturbed(r)'
        <3>1. ASSUME NEW s \in Universe, tested[s] > 0
              PROVE  historyOf'[s] >= tested[s] /\ s \in recorded' /\ s \in routed
            BY <2>2, <2>9, <3>1
        <3>2. dailies[r].missed = {} /\ dailies[r].open = <<>>
            BY <1>1 DEF DailyInv, DirectoryInv, Undisturbed
        <3>3. Others(r)' = Others(r)
            BY <2>5, <2>6 DEF Others
        <3>4. \A s \in Universe : tested[s] > 0 => Kept(r, s)'
            BY <2>3, <2>6, <3>1, <3>2 DEF Kept
        <3> HIDE DEF tested
        <3> QED
            BY <2>3, <2>6, <3>1, <3>2, <3>3, <3>4 DEF Undisturbed
    <2>13. ASSUME NEW q \in DOMAIN dailies \ {r} PROVE Undisturbed(q)'
        <3>1. /\ Undisturbed(q)
              /\ dailies[q].step \in Building => q \in Others(r)
            BY DEF DailyInv, DirectoryInv, Others
        <3>2. /\ dailies'[q].alone = (dailies[q].alone /\ q \notin Others(r))
              /\ dailies'[q].step = dailies[q].step /\ dailies'[q].open = dailies[q].open
              /\ dailies'[q].tests = dailies[q].tests /\ dailies'[q].missed = dailies[q].missed
            BY <2>5, <2>6, <2>13
        <3>3. dailies'[q].alone => dailies[q].alone /\ dailies'[q].step \notin Building
            BY <3>1, <3>2
        <3> QED
            BY <2>9, <3>1, <3>2, <3>3 DEF Undisturbed
    <2> QED
        BY <2>6, <2>8, <2>10, <2>11, <2>12, <2>13 DEF DailyInv, DirectoryInv
<1> QED
    BY <1>2, <1>3

LEMMA DailyStep == DailyInv /\ [DailyNext]_dailyVars => DailyInv'
<1> SUFFICES ASSUME DailyInv, [DailyNext]_dailyVars PROVE DailyInv'
    OBVIOUS
<1>1. CASE UNCHANGED dailyVars
    <2>1. /\ UNCHANGED <<utcDay, lastDaily, routed, recorded, historyOf, bundleFile, snapshots,
                         runCounter, runRows, dailies>>
        BY <1>1 DEF dailyVars
    <2>2. DailyTypes' /\ StoreGrows
        BY <2>1 DEF DailyInv, DailyTypes, StoreGrows
    <2>3. utcDay <= utcDay'
        BY <2>1 DEF DailyInv, DailyTypes
    <2> QED
        BY <2>1, <2>2, <2>3, NoRunChanges DEF directoryVars
<1>2. CASE \/ MidnightPasses \/ PersistUniverse \/ RecordHistory
           \/ (\E s \in Universe : HistoryGrows(s)) \/ (\E row \in runRows : Prune(row))
    BY <1>2, MarketKeeps
<1>3. CASE MaybeDailyWfmc \/ RunWfmcDaily
    BY <1>3, BeginKeeps
<1>4. ASSUME NEW r \in DOMAIN dailies,
             \/ Pulled(r) \/ ReadPairMap(r) \/ OpenFile(r) \/ CloseFile(r) \/ OpenSnapshots(r)
             \/ CloseSnapshots(r) \/ LoadPanel(r) \/ ReadRunId(r) \/ WriteRunId(r) \/ Search(r)
             \/ Report(r) \/ Fails(r)
      PROVE  DailyInv'
    BY <1>4, PulledKeeps, ReadPairMapKeeps, OpenFileKeeps, CloseFileKeeps, SnapshotsKeep,
       LoadPanelKeeps, ReadRunIdKeeps, WriteRunIdKeeps, SearchRunKeeps, ReportKeeps, FailsKeeps
<1>5. CASE WorkerRestarts
    BY <1>5, RestartKeeps
<1> QED
    BY <1>1, <1>2, <1>3, <1>4, <1>5 DEF DailyNext

LEMMA StoreTested == DailyInv => DailyRunsTestTheStore
<1> SUFFICES ASSUME DailyInv, NEW r \in DOMAIN dailies
             PROVE  /\ dailies[r].alone => dailies[r].missed = {}
                    /\ \A q \in DOMAIN dailies \ {r} :
                         dailies[r].scheduled # 0 => dailies[q].scheduled # dailies[r].scheduled
                    /\ ~ dailies[r].shares =>
                         \A row \in RowOf(r) :
                           dailies[r].step \in Numbered \union Ended =>
                             row.shows = (IF dailies[r].step = "reported" THEN r ELSE 0)
    BY DEF DailyRunsTestTheStore
<1>1. dailies[r].alone => dailies[r].missed = {}
    BY DEF DailyInv, DirectoryInv, Undisturbed
<1>2. \A q \in DOMAIN dailies \ {r} :
        dailies[r].scheduled # 0 => dailies[q].scheduled # dailies[r].scheduled
    BY DEF DailyInv, DaysInv
<1>3. ASSUME ~ dailies[r].shares, NEW row \in RowOf(r), dailies[r].step \in Numbered \union Ended
      PROVE  row.shows = (IF dailies[r].step = "reported" THEN r ELSE 0)
    <2>1. row \in runRows /\ row.id = dailies[r].id
        BY DEF RowOf
    <2>2. PICK q \in DOMAIN dailies : HasId(q) /\ dailies[q].id = row.id
        BY <2>1 DEF DailyInv, IdsInv
    <2>3. HasId(r)
        BY <1>3, <2>1, <2>2 DEF HasId
    <2>4. CASE dailies[r].step = "reported"
        BY <1>3, <2>4 DEF DailyInv, IdsInv
    <2>5. CASE dailies[r].step # "reported"
        <3> SUFFICES ASSUME row.shows # 0 PROVE FALSE
            BY <2>5
        <3>1. /\ row.shows \in DOMAIN dailies /\ dailies[row.shows].id = row.id
              /\ dailies[row.shows].step = "reported"
            BY <2>1 DEF DailyInv, IdsInv
        <3>2. HasId(row.shows) /\ row.shows # r
            BY <2>1, <2>3, <2>5, <3>1 DEF HasId, Ended
        <3> QED
            BY <1>3, <2>1, <2>3, <3>1, <3>2 DEF DailyInv, IdsInv
    <2> QED
        BY <2>4, <2>5
<1> QED
    BY <1>1, <1>2, <1>3

\* For any tokens, any number of runs and any upsets: a run alone in the directory
\* tests the store, each scheduled run has its day, and a row shows its own run
\* unless the id was drawn twice (materialize_bundle, Engine._maybe_daily_wfmc,
\* next_run_id).
THEOREM StoreIsTested == DailySpec => []DailyRunsTestTheStore
<1> QED
    BY DailyStarts, DailyStep, StoreTested, PTL DEF DailySpec

\* Runs that wrote the counter.
IdHolders == {r \in DOMAIN dailies : HasId(r)}

\* The counter never passes the number of runs that wrote it, however their reads
\* and writes cross; a run that has read it may be one ahead.
CounterInv ==
    /\ runCounter <= Cardinality(IdHolders)
    /\ \A r \in DOMAIN dailies :
         dailies[r].id <= Cardinality(IdHolders) + (IF dailies[r].step = "number" THEN 1 ELSE 0)

\* A run keeps an id it has; one it had not written it may lose, or draw.
Draws(q) ==
    /\ HasId(q) => HasId(q)'
    /\ \/ dailies'[q].id = 0
       \/ dailies'[q].id = dailies[q].id /\ (dailies[q].step = "number" => dailies'[q].step = "number")
       \/ dailies'[q].step = "number" /\ dailies'[q].id = runCounter + 1

LEMMA SameDraws ==
    ASSUME NEW q, dailies'[q] = dailies[q]
    PROVE  Draws(q)
BY DEF Draws, HasId

LEMMA SomeOf ==
    ASSUME NEW n \in Nat, NEW S \in SUBSET (1 .. n)
    PROVE  /\ IsFiniteSet(S) /\ Cardinality(S) \in Nat /\ Cardinality(S) <= n
           /\ \A r \in (1 .. n) \ S : Cardinality(S) + 1 <= n
<1>1. IsFiniteSet(1 .. n) /\ Cardinality(1 .. n) = n
    BY FS_Interval
<1>2. IsFiniteSet(S) /\ Cardinality(S) \in Nat /\ Cardinality(S) <= n
    BY <1>1, FS_Subset, FS_CardinalityType
<1>3. ASSUME NEW r \in (1 .. n) \ S PROVE Cardinality(S) + 1 <= n
    <2>1. Cardinality(S) # n
        BY <1>1, FS_Subset
    <2> QED
        BY <1>2, <2>1
<1> QED
    BY <1>2, <1>3

LEMMA HoldersAre ==
    ASSUME DailyInv
    PROVE  /\ IsFiniteSet(IdHolders) /\ Cardinality(IdHolders) \in Nat
           /\ Cardinality(IdHolders) <= Len(dailies)
           /\ \A r \in DOMAIN dailies \ IdHolders : Cardinality(IdHolders) + 1 <= Len(dailies)
<1>1. DOMAIN dailies = 1 .. Len(dailies) /\ Len(dailies) \in Nat
    BY LenProperties DEF DailyInv, DailyTypes
<1>2. IdHolders \in SUBSET (1 .. Len(dailies))
    BY <1>1 DEF IdHolders
<1> QED
    BY <1>1, <1>2, SomeOf

LEMMA HoldersGrow ==
    ASSUME DailyInv, DailyInv', IdHolders \subseteq IdHolders'
    PROVE  /\ Cardinality(IdHolders) <= Cardinality(IdHolders')
           /\ \A r \in IdHolders' \ IdHolders : Cardinality(IdHolders) + 1 <= Cardinality(IdHolders')
<1>1. /\ IsFiniteSet(IdHolders) /\ Cardinality(IdHolders) \in Nat
      /\ IsFiniteSet(IdHolders') /\ Cardinality(IdHolders') \in Nat
    <2>1. DOMAIN dailies' = 1 .. Len(dailies') /\ Len(dailies') \in Nat
        BY LenProperties DEF DailyInv, DailyTypes
    <2>2. IdHolders' \in SUBSET (1 .. Len(dailies'))
        BY <2>1 DEF IdHolders
    <2>3. IsFiniteSet(IdHolders') /\ Cardinality(IdHolders') \in Nat
        BY <2>1, <2>2, SomeOf
    <2> QED
        BY <2>3, HoldersAre
<1>2. Cardinality(IdHolders) <= Cardinality(IdHolders')
    BY <1>1, FS_Subset
<1>3. ASSUME NEW r \in IdHolders' \ IdHolders PROVE Cardinality(IdHolders) + 1 <= Cardinality(IdHolders')
    <2>1. Cardinality(IdHolders) # Cardinality(IdHolders')
        BY <1>1, <1>3, FS_Subset
    <2> QED
        BY <1>1, <1>2, <2>1
<1> QED
    BY <1>2, <1>3

\* All steps but the one that writes the counter leave it as it is.
LEMMA RunDraws ==
    ASSUME DailyInv, NEW r \in DOMAIN dailies,
           \/ Pulled(r) \/ OpenFile(r) \/ CloseFile(r) \/ OpenSnapshots(r)
           \/ CloseSnapshots(r) \/ LoadPanel(r) \/ ReadRunId(r) \/ Search(r)
           \/ Report(r) \/ Fails(r)
    PROVE  /\ runCounter' = runCounter /\ DOMAIN dailies' = DOMAIN dailies
           /\ \A q \in DOMAIN dailies : Draws(q)
<1>1. dailies[r] \in RunRecord
    BY RunIs DEF DailyInv
<1>2. PICK d : Become(r, d) /\ d.id = dailies'[r].id /\ d.step = dailies'[r].step
               /\ dailies'[r] = d
    BY DEF Pulled, OpenFile, CloseFile, OpenSnapshots, CloseSnapshots, LoadPanel, ReadRunId, Search,
           Report, Fails, GoTo, Become
<1>3. DOMAIN dailies' = DOMAIN dailies /\ \A q \in DOMAIN dailies \ {r} : dailies'[q] = dailies[q]
    BY <1>2 DEF Become
<1>4. runCounter' = runCounter
    BY DEF Pulled, OpenFile, CloseFile, OpenSnapshots, CloseSnapshots, LoadPanel, ReadRunId, Search,
           Report, Fails, reportVars
<1>5. Draws(r)
    <2>0. /\ dailies[r].step \in {"pull", "start"} \union Building => dailies[r].id = 0
          /\ dailies'[r] = d
        BY <1>2 DEF DailyInv, IdsInv
    <2>1. CASE Pulled(r) \/ OpenFile(r) \/ CloseFile(r) \/ OpenSnapshots(r) \/ CloseSnapshots(r)
        <3>1. dailies[r].step \in {"pull", "start"} \union Building
            BY <2>1 DEF Pulled, OpenFile, CloseFile, OpenSnapshots, CloseSnapshots, Stands, Building
        <3>2. \/ Become(r, [dailies[r] EXCEPT !.step = "start"])
              \/ \E left, open : Become(r, [dailies[r] EXCEPT !.left = left, !.open = open])
              \/ Become(r, [dailies[r] EXCEPT !.open = <<>>])
              \/ \E to, left : Become(r, [dailies[r] EXCEPT !.step = to, !.left = left])
            BY <2>1 DEF Pulled, OpenFile, CloseFile, OpenSnapshots, CloseSnapshots, GoTo
        <3>3. \A e : Become(r, e) => dailies'[r] = e
            BY DEF Become
        <3>4. dailies'[r].id = dailies[r].id
            <4> HIDE DEF Become
            <4> QED
                BY <1>1, <3>2, <3>3 DEF RunRecord
        <3> QED
            BY <2>0, <3>1, <3>4 DEF Draws, HasId
    <2>2. CASE LoadPanel(r)
        <3>1. dailies'[r].id = dailies[r].id /\ dailies[r].step \in Building
            BY <1>1, <2>2 DEF LoadPanel, Become, Stands, RunRecord, Building
        <3> QED
            BY <2>0, <3>1 DEF Draws, HasId
    <2>3. CASE ReadRunId(r)
        <3>1. /\ dailies'[r].id = runCounter + 1 /\ dailies'[r].step = "number"
              /\ dailies[r].step = "number"
            BY <1>1, <2>3 DEF ReadRunId, Become, Stands, RunRecord
        <3> QED
            BY <3>1 DEF Draws, HasId, Numbered, Ended
    <2>4. CASE Search(r) \/ Report(r)
        <3>1. /\ dailies'[r].id = dailies[r].id /\ dailies[r].step \in Numbered
              /\ dailies'[r].step \in Numbered \union Ended
            BY <1>1, <2>4 DEF Search, Report, GoTo, Become, Stands, RunRecord, Numbered, Ended
        <3> QED
            BY <3>1 DEF Draws, HasId, Numbered
    <2>5. CASE Fails(r)
        <3>1. dailies'[r] = Died(dailies[r]) /\ dailies[r].step \notin Ended
            BY <2>5 DEF Fails, Become
        <3>2. dailies'[r].step = "failed"
              /\ dailies'[r].id = IF dailies[r].step = "number" THEN 0 ELSE dailies[r].id
            BY <1>1, <3>1, DiedIs
        <3> QED
            BY <3>1, <3>2 DEF Draws, HasId, Numbered, Ended
    <2> QED
        BY <2>1, <2>2, <2>3, <2>4, <2>5
<1> QED
    BY <1>3, <1>4, <1>5, SameDraws

LEMMA OthersDraw ==
    ASSUME DailyInv, [DailyNext]_dailyVars, ~ \E r \in DOMAIN dailies : WriteRunId(r)
    PROVE  /\ runCounter' = runCounter /\ DOMAIN dailies \subseteq DOMAIN dailies'
           /\ \A q \in DOMAIN dailies : Draws(q)
           /\ \A q \in DOMAIN dailies' \ DOMAIN dailies : dailies'[q].id = 0
<1>1. CASE \/ MidnightPasses \/ PersistUniverse \/ RecordHistory
           \/ (\E s \in Universe : HistoryGrows(s)) \/ (\E row \in runRows : Prune(row))
           \/ UNCHANGED dailyVars
    <2>1. UNCHANGED <<dailies, runCounter>>
        BY <1>1 DEF MidnightPasses, PersistUniverse, RecordHistory, HistoryGrows, Prune, reportVars,
                    dailyVars
    <2> QED
        BY <2>1, SameDraws
<1>2. CASE MaybeDailyWfmc \/ RunWfmcDaily
    <2>1. runCounter' = runCounter
          /\ \E day \in Nat, to \in {"pull", "start"} : dailies' = Append(dailies, Begun(day, to))
        BY <1>2 DEF MaybeDailyWfmc, RunWfmcDaily, reportVars, DailyInv, DailyTypes
    <2>2. PICK day \in Nat, to \in {"pull", "start"} : dailies' = Append(dailies, Begun(day, to))
        BY <2>1
    <2>3. Begun(day, to) \in RunRecord /\ Begun(day, to).id = 0
        BY BegunIs DEF Begun
    <2>4. dailies \in Seq(RunRecord) /\ Len(dailies) \in Nat /\ DOMAIN dailies = 1 .. Len(dailies)
        BY LenProperties DEF DailyInv, DailyTypes
    <2>5. /\ DOMAIN dailies' = 1 .. Len(dailies) + 1
          /\ \A i \in 1 .. Len(dailies) : dailies'[i] = dailies[i]
          /\ dailies'[Len(dailies) + 1] = Begun(day, to)
        BY <2>2, <2>3, <2>4, AppendProperties, LenProperties
    <2>6. \A q \in DOMAIN dailies' \ DOMAIN dailies : q = Len(dailies) + 1
        BY <2>4, <2>5
    <2>7. DOMAIN dailies \subseteq DOMAIN dailies'
        BY <2>4, <2>5
    <2> QED
        BY <2>1, <2>3, <2>4, <2>5, <2>6, <2>7, SameDraws
<1>3. ASSUME NEW r \in DOMAIN dailies,
             \/ Pulled(r) \/ OpenFile(r) \/ CloseFile(r) \/ OpenSnapshots(r)
             \/ CloseSnapshots(r) \/ LoadPanel(r) \/ ReadRunId(r) \/ Search(r)
             \/ Report(r) \/ Fails(r)
      PROVE  /\ runCounter' = runCounter /\ DOMAIN dailies' = DOMAIN dailies
             /\ \A q \in DOMAIN dailies : Draws(q)
    BY <1>3, RunDraws
<1>4. ASSUME NEW r \in DOMAIN dailies, ReadPairMap(r)
      PROVE  /\ runCounter' = runCounter /\ DOMAIN dailies' = DOMAIN dailies
             /\ \A q \in DOMAIN dailies : Draws(q)
    <2>0. \A q \in DOMAIN dailies : dailies[q] \in RunRecord
        BY RunIs DEF DailyInv
    <2>1. runCounter' = runCounter /\ dailies[r].step = "start"
        BY <1>4 DEF ReadPairMap, Stands, reportVars
    <2>2. CASE routed = {}
        <3>1. /\ DOMAIN dailies' = DOMAIN dailies /\ dailies'[r].id = dailies[r].id
              /\ \A q \in DOMAIN dailies \ {r} : dailies'[q] = dailies[q]
            BY <1>4, <2>0, <2>2 DEF ReadPairMap, GoTo, Become, RunRecord
        <3>2. Draws(r)
            BY <2>1, <3>1 DEF Draws, HasId, Numbered, Ended
        <3> QED
            BY <2>1, <3>1, <3>2, SameDraws
    <2>3. CASE routed # {}
        <3> DEFINE going == [dailies[r] EXCEPT
                               !.step = "write", !.left = routed, !.alone = Others(r) = {},
                               !.tests = [s \in Universe |-> IF s \in routed \intersect recorded
                                                            THEN historyOf[s] ELSE 0]]
                   seen(q) == [dailies[q] EXCEPT !.alone = dailies[q].alone /\ q \notin Others(r)]
        <3>1. dailies' = [q \in DOMAIN dailies |-> IF q = r THEN going ELSE seen(q)]
            BY <1>4, <2>3 DEF ReadPairMap
        <3>2. \A q \in DOMAIN dailies \ {r} : seen(q).id = dailies[q].id /\ seen(q).step = dailies[q].step
            BY <2>0 DEF RunRecord
        <3>3. going.id = dailies[r].id
            BY <2>0 DEF RunRecord
        <3> HIDE DEF going, seen
        <3>4. /\ DOMAIN dailies' = DOMAIN dailies /\ dailies'[r].id = dailies[r].id
              /\ \A q \in DOMAIN dailies \ {r} : /\ dailies'[q].id = dailies[q].id
                                               /\ dailies'[q].step = dailies[q].step
            BY <3>1, <3>2, <3>3
        <3>5. Draws(r)
            BY <2>1, <3>4 DEF Draws, HasId, Numbered, Ended
        <3>6. \A q \in DOMAIN dailies \ {r} : Draws(q)
            BY <3>4 DEF Draws, HasId
        <3> QED
            BY <2>1, <3>4, <3>5, <3>6
    <2> QED
        BY <2>2, <2>3
<1>5. CASE WorkerRestarts
    <2>1. /\ dailies' = [q \in DOMAIN dailies |-> Died(dailies[q])] /\ runCounter' = runCounter
        BY <1>5 DEF WorkerRestarts, reportVars
    <2>2. ASSUME NEW q \in DOMAIN dailies PROVE Draws(q)
        <3>1. dailies[q] \in RunRecord /\ dailies'[q] = Died(dailies[q])
            BY <2>1, RunIs DEF DailyInv
        <3>2. CASE dailies[q].step \in Ended
            BY <3>1, <3>2, DiedIs, SameDraws
        <3>3. CASE dailies[q].step \notin Ended
            <4>1. dailies'[q].step = "failed"
                  /\ dailies'[q].id = IF dailies[q].step = "number" THEN 0 ELSE dailies[q].id
                BY <3>1, <3>3, DiedIs
            <4> QED
                BY <4>1 DEF Draws, HasId, Numbered, Ended
        <3> QED
            BY <3>2, <3>3
    <2> QED
        BY <2>1, <2>2
<1> QED
    BY <1>1, <1>2, <1>3, <1>4, <1>5 DEF DailyNext

LEMMA CounterStep ==
    ASSUME DailyInv, CounterInv, [DailyNext]_dailyVars
    PROVE  CounterInv'
<1>0. DailyInv'
    BY DailyStep
<1>1. /\ runCounter \in Nat /\ Cardinality(IdHolders) \in Nat
      /\ \A q \in DOMAIN dailies : dailies[q].id \in Nat
    <2>1. \A q \in DOMAIN dailies : dailies[q].id \in Nat
        BY RunIs DEF DailyInv, RunRecord
    <2> QED
        BY <2>1, HoldersAre DEF DailyInv, DailyTypes
<1>2. Cardinality(IdHolders') \in Nat
    <2>1. DOMAIN dailies' = 1 .. Len(dailies') /\ Len(dailies') \in Nat
        BY <1>0, LenProperties DEF DailyInv, DailyTypes
    <2>2. IdHolders' \in SUBSET (1 .. Len(dailies'))
        BY <2>1 DEF IdHolders
    <2> QED
        BY <2>1, <2>2, SomeOf
<1>3. CASE ~ \E r \in DOMAIN dailies : WriteRunId(r)
    <2>1. /\ runCounter' = runCounter /\ DOMAIN dailies \subseteq DOMAIN dailies'
          /\ \A q \in DOMAIN dailies : Draws(q)
          /\ \A q \in DOMAIN dailies' \ DOMAIN dailies : dailies'[q].id = 0
        BY <1>3, OthersDraw
    <2>2. IdHolders \subseteq IdHolders'
        BY <2>1 DEF IdHolders, Draws
    <2>3. Cardinality(IdHolders) <= Cardinality(IdHolders')
        BY <1>0, <2>2, HoldersGrow
    <2>4. runCounter' <= Cardinality(IdHolders')
        BY <1>1, <1>2, <2>1, <2>3 DEF CounterInv
    <2>5. ASSUME NEW q \in DOMAIN dailies'
          PROVE  dailies'[q].id <= Cardinality(IdHolders') + (IF dailies'[q].step = "number" THEN 1 ELSE 0)
        <3>1. CASE dailies'[q].id = 0
            BY <1>2, <3>1
        <3>2. CASE /\ q \in DOMAIN dailies /\ dailies'[q].id = dailies[q].id
                   /\ dailies[q].step = "number" => dailies'[q].step = "number"
            BY <1>1, <1>2, <2>3, <3>2 DEF CounterInv
        <3>3. CASE dailies'[q].step = "number" /\ dailies'[q].id = runCounter + 1
            BY <1>1, <1>2, <2>1, <2>4, <3>3
        <3> QED
            BY <2>1, <3>1, <3>2, <3>3 DEF Draws
    <2> QED
        BY <2>4, <2>5 DEF CounterInv
<1>4. ASSUME NEW r \in DOMAIN dailies, WriteRunId(r) PROVE CounterInv'
    <2>1. /\ dailies[r].step = "number" /\ dailies[r].id # 0 /\ runCounter' = dailies[r].id
          /\ DOMAIN dailies' = DOMAIN dailies
        BY <1>4 DEF WriteRunId, Stands
    <2>2. \A q \in DOMAIN dailies :
            /\ dailies'[q].id = dailies[q].id
            /\ dailies'[q].step = IF q = r THEN "search" ELSE dailies[q].step
        <3> DEFINE same == {q \in DOMAIN dailies \ {r} : dailies[q].id = dailies[r].id}
                   knows(q) == dailies[q].shares \/ (q \in same \/ (q = r /\ same # {}))
                   now(q) == [dailies[q] EXCEPT !.shares = knows(q),
                                                !.step = IF q = r THEN "search" ELSE dailies[q].step]
        <3>1. dailies' = [q \in DOMAIN dailies |-> now(q)]
            BY <1>4 DEF WriteRunId
        <3>2. \A q \in DOMAIN dailies : dailies[q] \in RunRecord
            BY RunIs DEF DailyInv
        <3> HIDE DEF knows
        <3>3. \A q \in DOMAIN dailies :
                now(q).id = dailies[q].id /\ now(q).step = IF q = r THEN "search" ELSE dailies[q].step
            BY <3>2 DEF RunRecord
        <3> HIDE DEF now
        <3> QED
            BY <3>1, <3>3
    <2>3. IdHolders \subseteq IdHolders' /\ r \in IdHolders' \ IdHolders
        BY <2>1, <2>2 DEF IdHolders, HasId, Numbered, Ended
    <2>4. Cardinality(IdHolders) + 1 <= Cardinality(IdHolders')
        BY <1>0, <2>3, HoldersGrow
    <2>5. \A q \in DOMAIN dailies : dailies[q].id <= Cardinality(IdHolders) + 1
        BY <1>1 DEF CounterInv
    <2>6. \A q \in DOMAIN dailies' : dailies'[q].id <= Cardinality(IdHolders')
        BY <1>1, <1>2, <2>1, <2>2, <2>4, <2>5
    <2> QED
        BY <1>1, <1>2, <2>1, <2>2, <2>6 DEF CounterInv
<1> QED
    BY <1>3, <1>4

\* What a run remembers of the store are versions of a token's history.
Snug(d) ==
    d.open \in {<<>>} \union (Universe \X Versions) /\ d.tests \in [Universe -> Versions]

\* What DailyTypeOK says beyond DailyInv and CounterInv.
VersionTypes ==
    /\ utcDay \in 1 .. MaxToday /\ upsets \in 0 .. MaxUpsets
    /\ historyOf \in [Universe -> Versions] /\ snapshots \subseteq Universe
    /\ bundleFile \in [Universe -> Versions \union {Partial}]
    /\ Len(dailies) <= MaxDailies
    /\ \A r \in DOMAIN dailies : Snug(dailies[r])

LEMMA NoTests == 0 \in Versions /\ [s \in Universe |-> 0] \in [Universe -> Versions]
BY DailyAssumption DEF Versions

LEMMA DiedSnug ==
    ASSUME NEW d \in RunRecord, Snug(d)
    PROVE  Snug(Died(d))
<1>1. CASE d.step \in Ended
    BY <1>1, DiedIs
<1>2. CASE d.step \notin Ended
    <2>1. Died(d).open = <<>> /\ Died(d).tests = [s \in Universe |-> 0]
        BY <1>2 DEF Died, RunRecord
    <2> QED
        BY <2>1, NoTests DEF Snug
<1> QED
    BY <1>1, <1>2

\* A step of one run.
LEMMA RunSnug ==
    ASSUME DailyInv, VersionTypes, NEW r \in DOMAIN dailies,
           \/ Pulled(r) \/ OpenFile(r) \/ CloseFile(r) \/ OpenSnapshots(r)
           \/ CloseSnapshots(r) \/ LoadPanel(r) \/ ReadRunId(r) \/ Search(r)
           \/ Report(r) \/ Fails(r)
    PROVE  /\ DOMAIN dailies' = DOMAIN dailies /\ \A q \in DOMAIN dailies : Snug(dailies'[q])
<1>1. dailies[r] \in RunRecord /\ Snug(dailies[r])
    BY RunIs DEF DailyInv, VersionTypes
<1>2. PICK d : Become(r, d) /\ dailies'[r] = d
    BY DEF Pulled, OpenFile, CloseFile, OpenSnapshots, CloseSnapshots, LoadPanel, ReadRunId, Search,
           Report, Fails, GoTo, Become
<1>3. DOMAIN dailies' = DOMAIN dailies /\ \A q \in DOMAIN dailies \ {r} : dailies'[q] = dailies[q]
    BY <1>2 DEF Become
<1>4. Snug(dailies'[r])
    <2>1. CASE Pulled(r) \/ OpenSnapshots(r) \/ CloseSnapshots(r) \/ ReadRunId(r) \/ Search(r) \/ Report(r)
        <3>1. dailies'[r].open = dailies[r].open /\ dailies'[r].tests = dailies[r].tests
            BY <1>1, <2>1 DEF Pulled, OpenSnapshots, CloseSnapshots, ReadRunId, Search, Report, GoTo,
                              Become, RunRecord
        <3> QED
            BY <1>1, <3>1 DEF Snug
    <2>2. CASE OpenFile(r)
        <3> DEFINE s == CHOOSE s \in ToWrite(r) : TRUE
        <3>1. s \in Universe
            BY <1>1, <2>2 DEF OpenFile, ToWrite, RunRecord
        <3>2. dailies' = [dailies EXCEPT ![r] = [dailies[r] EXCEPT !.left = dailies[r].left \ {s},
                                                                   !.open = <<s, historyOf[s]>>]]
            BY <2>2 DEF OpenFile, Become
        <3> HIDE DEF s
        <3>3. dailies'[r].open = <<s, historyOf[s]>> /\ dailies'[r].tests = dailies[r].tests
            BY <1>1, <3>2 DEF RunRecord
        <3>4. <<s, historyOf[s]>> \in Universe \X Versions
            BY <3>1 DEF VersionTypes
        <3> QED
            BY <1>1, <3>3, <3>4 DEF Snug
    <2>3. CASE CloseFile(r)
        <3>1. dailies'[r].open = <<>> /\ dailies'[r].tests = dailies[r].tests
            BY <1>1, <2>3 DEF CloseFile, Become, RunRecord
        <3> QED
            BY <1>1, <3>1 DEF Snug
    <2>4. CASE LoadPanel(r)
        <3>1. dailies'[r].open = dailies[r].open /\ dailies'[r].tests = [s \in Universe |-> 0]
            BY <1>1, <2>4 DEF LoadPanel, Become, RunRecord
        <3> QED
            BY <1>1, <3>1, NoTests DEF Snug
    <2>5. CASE Fails(r)
        <3>1. dailies'[r] = Died(dailies[r])
            BY <2>5 DEF Fails, Become
        <3> QED
            BY <1>1, <3>1, DiedSnug
    <2> QED
        BY <2>1, <2>2, <2>3, <2>4, <2>5
<1> QED
    BY <1>3, <1>4 DEF VersionTypes

LEMMA VersionsStep ==
    ASSUME DailyInv, VersionTypes, [DailyNext]_dailyVars
    PROVE  VersionTypes'
<1>0. /\ DOMAIN dailies = 1 .. Len(dailies) /\ Len(dailies) \in Nat
      /\ DOMAIN dailies' = 1 .. Len(dailies') /\ Len(dailies') \in Nat
    <2>1. DailyInv'
        BY DailyStep
    <2> QED
        BY <2>1, LenProperties DEF DailyInv, DailyTypes
<1>1. utcDay' \in 1 .. MaxToday
    <2>1. utcDay' = utcDay \/ (utcDay < MaxToday /\ utcDay' = utcDay + 1)
        BY DEF DailyNext, MidnightPasses, PersistUniverse, RecordHistory,
           HistoryGrows, MaybeDailyWfmc, RunWfmcDaily, Pulled, ReadPairMap, OpenFile, CloseFile,
           OpenSnapshots, CloseSnapshots, LoadPanel, ReadRunId, WriteRunId, Search, Report, Fails,
           Prune, WorkerRestarts, marketVars, dailyVars
    <2>2. utcDay \in 1 .. MaxToday /\ MaxToday \in Nat
        BY DailyAssumption DEF VersionTypes
    <2> QED
        BY <2>1, <2>2
<1>2. upsets' \in 0 .. MaxUpsets
    <2>1. upsets' = upsets \/ Upset
        BY DEF DailyNext, MidnightPasses, PersistUniverse, RecordHistory,
           HistoryGrows, MaybeDailyWfmc, RunWfmcDaily, Pulled, ReadPairMap, OpenFile, CloseFile,
           OpenSnapshots, CloseSnapshots, LoadPanel, ReadRunId, WriteRunId, Search, Report, Fails,
           Prune, WorkerRestarts, dailyVars
    <2> QED
        BY <2>1, DailyAssumption DEF VersionTypes, Upset
<1>3. historyOf' \in [Universe -> Versions]
    <2>1. CASE UNCHANGED historyOf
        BY <2>1 DEF VersionTypes
    <2>2. CASE \E s \in Universe : HistoryGrows(s)
        <3>1. PICK s \in Universe : /\ historyOf[s] < MaxCandles
                                     /\ historyOf' = [historyOf EXCEPT ![s] = historyOf[s] + 1]
            BY <2>2 DEF HistoryGrows, Newer
        <3>2. historyOf[s] + 1 \in Versions
            BY <3>1, DailyAssumption DEF VersionTypes, Versions
        <3> QED
            BY <3>1, <3>2 DEF VersionTypes
    <2> QED
        BY <2>1, <2>2 DEF DailyNext, MidnightPasses, PersistUniverse, RecordHistory, MaybeDailyWfmc,
           RunWfmcDaily, Pulled, ReadPairMap, OpenFile, CloseFile, OpenSnapshots, CloseSnapshots,
           LoadPanel, ReadRunId, WriteRunId, Search, Report, Fails, Prune, WorkerRestarts, marketVars,
           dailyVars
<1>4. bundleFile' \in [Universe -> Versions \union {Partial}]
    <2>1. CASE UNCHANGED bundleFile
        BY <2>1 DEF VersionTypes
    <2>2. ASSUME NEW r \in DOMAIN dailies, OpenFile(r)
          PROVE  bundleFile' \in [Universe -> Versions \union {Partial}]
        BY <2>2 DEF OpenFile, VersionTypes
    <2>3. ASSUME NEW r \in DOMAIN dailies, CloseFile(r)
          PROVE  bundleFile' \in [Universe -> Versions \union {Partial}]
        <3>1. dailies[r].open \in Universe \X Versions
            BY <2>3 DEF CloseFile, VersionTypes, Snug
        <3>2. PICK v \in {dailies[r].open[2], Partial} :
                bundleFile' = [bundleFile EXCEPT ![dailies[r].open[1]] = v]
            BY <2>3 DEF CloseFile
        <3>3. v \in Versions \union {Partial}
            BY <3>1, <3>2
        <3> QED
            BY <3>2, <3>3 DEF VersionTypes
    <2> QED
        BY <2>1, <2>2, <2>3 DEF DailyNext, MidnightPasses, PersistUniverse, RecordHistory, HistoryGrows,
           MaybeDailyWfmc, RunWfmcDaily, Pulled, ReadPairMap, OpenSnapshots, CloseSnapshots,
           LoadPanel, ReadRunId, WriteRunId, Search, Report, Fails, Prune, WorkerRestarts,
           directoryVars, dailyVars
<1>5. snapshots' \subseteq Universe
    <2>1. CASE UNCHANGED snapshots
        BY <2>1 DEF VersionTypes
    <2>2. ASSUME NEW r \in DOMAIN dailies, OpenSnapshots(r) \/ CloseSnapshots(r)
          PROVE  snapshots' \subseteq Universe
        <3>1. recorded \subseteq Universe /\ dailies[r].left \subseteq Universe
            BY RunIs DEF DailyInv, DailyTypes, RunRecord
        <3> QED
            BY <2>2, <3>1 DEF OpenSnapshots, CloseSnapshots
    <2> QED
        BY <2>1, <2>2 DEF DailyNext, MidnightPasses, PersistUniverse, RecordHistory, HistoryGrows,
           MaybeDailyWfmc, RunWfmcDaily, Pulled, ReadPairMap, OpenFile, CloseFile,
           LoadPanel, ReadRunId, WriteRunId, Search, Report, Fails, Prune, WorkerRestarts,
           directoryVars, dailyVars
<1>6. Len(dailies') <= MaxDailies /\ \A q \in DOMAIN dailies' : Snug(dailies'[q])
    <2>0. \A q \in DOMAIN dailies : dailies[q] \in RunRecord /\ Snug(dailies[q])
        BY RunIs DEF DailyInv, VersionTypes
    <2>a. ASSUME DOMAIN dailies' = DOMAIN dailies PROVE Len(dailies') <= MaxDailies
        BY <1>0, <2>a DEF VersionTypes
    <2>1. CASE UNCHANGED dailies
        BY <2>1 DEF VersionTypes
    <2>2. CASE MaybeDailyWfmc \/ RunWfmcDaily
        <3>1. /\ Len(dailies) < MaxDailies
              /\ \E day \in Nat, to \in {"pull", "start"} : dailies' = Append(dailies, Begun(day, to))
            BY <2>2 DEF MaybeDailyWfmc, RunWfmcDaily, DailyInv, DailyTypes
        <3>2. PICK day \in Nat, to \in {"pull", "start"} : dailies' = Append(dailies, Begun(day, to))
            BY <3>1
        <3>3. Begun(day, to) \in RunRecord
            BY BegunIs
        <3>4. Snug(Begun(day, to))
            BY NoTests DEF Begun, Snug
        <3>5. dailies \in Seq(RunRecord)
            BY DEF DailyInv, DailyTypes
        <3>6. /\ Len(dailies') = Len(dailies) + 1
              /\ \A i \in 1 .. Len(dailies) : dailies'[i] = dailies[i]
              /\ dailies'[Len(dailies) + 1] = Begun(day, to)
            BY <3>2, <3>3, <3>5, AppendProperties
        <3>7. Len(dailies') <= MaxDailies
            BY <1>0, <3>1, <3>6, DailyAssumption
        <3>8. \A q \in DOMAIN dailies' : q \in 1 .. Len(dailies) \/ q = Len(dailies) + 1
            BY <1>0, <3>6
        <3> QED
            BY <1>0, <2>0, <3>4, <3>6, <3>7, <3>8
    <2>3. ASSUME NEW r \in DOMAIN dailies,
                 \/ Pulled(r) \/ OpenFile(r) \/ CloseFile(r) \/ OpenSnapshots(r)
                 \/ CloseSnapshots(r) \/ LoadPanel(r) \/ ReadRunId(r) \/ Search(r)
                 \/ Report(r) \/ Fails(r)
          PROVE  Len(dailies') <= MaxDailies /\ \A q \in DOMAIN dailies' : Snug(dailies'[q])
        BY <2>3, <2>a, RunSnug
    <2>4. ASSUME NEW r \in DOMAIN dailies, ReadPairMap(r)
          PROVE  Len(dailies') <= MaxDailies /\ \A q \in DOMAIN dailies' : Snug(dailies'[q])
        <3>1. CASE routed = {}
            <4>1. /\ DOMAIN dailies' = DOMAIN dailies
                  /\ \A q \in DOMAIN dailies : /\ dailies'[q].open = dailies[q].open
                                              /\ dailies'[q].tests = dailies[q].tests
                <5> DEFINE d == [dailies[r] EXCEPT !.step = "failed"]
                <5>1. dailies' = [dailies EXCEPT ![r] = d]
                    BY <2>4, <3>1 DEF ReadPairMap, GoTo, Become
                <5>2. d.open = dailies[r].open /\ d.tests = dailies[r].tests
                    BY <2>0 DEF RunRecord
                <5> HIDE DEF d
                <5> QED
                    BY <5>1, <5>2
            <4> QED
                BY <2>0, <2>a, <4>1 DEF Snug
        <3>2. CASE routed # {}
            <4> DEFINE tests == [s \in Universe |-> IF s \in routed \intersect recorded
                                                    THEN historyOf[s] ELSE 0]
                       going == [dailies[r] EXCEPT
                                   !.step = "write", !.left = routed, !.alone = Others(r) = {},
                                   !.tests = tests]
                       seen(q) == [dailies[q] EXCEPT !.alone = dailies[q].alone /\ q \notin Others(r)]
            <4>1. dailies' = [q \in DOMAIN dailies |-> IF q = r THEN going ELSE seen(q)]
                BY <2>4, <3>2 DEF ReadPairMap
            <4>2. \A q \in DOMAIN dailies \ {r} : seen(q).open = dailies[q].open
                                                /\ seen(q).tests = dailies[q].tests
                BY <2>0 DEF RunRecord
            <4>3. tests \in [Universe -> Versions]
                BY NoTests DEF VersionTypes
            <4> HIDE DEF tests
            <4>4. going.open = dailies[r].open /\ going.tests = tests
                BY <2>0 DEF RunRecord
            <4> HIDE DEF going, seen
            <4> QED
                BY <2>0, <2>a, <4>1, <4>2, <4>3, <4>4 DEF Snug
        <3> QED
            BY <3>1, <3>2
    <2>5. ASSUME NEW r \in DOMAIN dailies, WriteRunId(r)
          PROVE  Len(dailies') <= MaxDailies /\ \A q \in DOMAIN dailies' : Snug(dailies'[q])
        <3> DEFINE same == {q \in DOMAIN dailies \ {r} : dailies[q].id = dailies[r].id}
                   knows(q) == dailies[q].shares \/ (q \in same \/ (q = r /\ same # {}))
                   now(q) == [dailies[q] EXCEPT !.shares = knows(q),
                                                !.step = IF q = r THEN "search" ELSE dailies[q].step]
        <3>1. dailies' = [q \in DOMAIN dailies |-> now(q)]
            BY <2>5 DEF WriteRunId
        <3> HIDE DEF knows
        <3>2. \A q \in DOMAIN dailies : now(q).open = dailies[q].open /\ now(q).tests = dailies[q].tests
            BY <2>0 DEF RunRecord
        <3> HIDE DEF now
        <3> QED
            BY <2>0, <2>a, <3>1, <3>2 DEF Snug
    <2>6. CASE WorkerRestarts
        <3>1. dailies' = [q \in DOMAIN dailies |-> Died(dailies[q])]
            BY <2>6 DEF WorkerRestarts
        <3> QED
            BY <2>0, <2>a, <3>1, DiedSnug
    <2> QED
        BY <2>1, <2>2, <2>3, <2>4, <2>5, <2>6 DEF DailyNext, MidnightPasses, PersistUniverse,
           RecordHistory, HistoryGrows, Prune, dailyVars
<1> QED
    BY <1>1, <1>2, <1>3, <1>4, <1>5, <1>6 DEF VersionTypes

\* For any tokens and any number of runs that begin, die and overlap: no more ids
\* are drawn than runs wrote the counter, and rows, files and runs hold versions
\* of tokens' histories (next_run_id, materialize_bundle).
THEOREM DailyTypeCorrect == DailySpec => []DailyTypeOK
<1> DEFINE Inv == DailyInv /\ CounterInv /\ VersionTypes
<1>1. DailyInit => Inv
    <2> SUFFICES ASSUME DailyInit PROVE Inv
        OBVIOUS
    <2>1. dailies = <<>> /\ DOMAIN dailies = {} /\ Len(dailies) = 0 /\ runCounter = 0
        BY DEF DailyInit
    <2>2. IdHolders = {} /\ Cardinality(IdHolders) = 0
        BY <2>1, FS_EmptySet DEF IdHolders
    <2>3. CounterInv
        BY <2>1, <2>2 DEF CounterInv
    <2>4. VersionTypes
        <3>1. {0, 1} \subseteq Versions
            BY DailyAssumption DEF Versions
        <3>2. historyOf \in [Universe -> Versions] /\ bundleFile \in [Universe -> Versions]
              /\ snapshots = {} /\ utcDay = 1 /\ upsets = 0
            BY <3>1 DEF DailyInit
        <3> QED
            BY <2>1, <3>2, DailyAssumption DEF VersionTypes
    <2> QED
        BY <2>3, <2>4, DailyStarts
<1>2. Inv /\ [DailyNext]_dailyVars => Inv'
    BY DailyStep, CounterStep, VersionsStep
<1>3. Inv => DailyTypeOK
    <2> SUFFICES ASSUME DailyInv, CounterInv, VersionTypes PROVE DailyTypeOK
        OBVIOUS
    <2>0. /\ DOMAIN dailies = 1 .. Len(dailies) /\ Len(dailies) \in Nat
          /\ utcDay \in Nat /\ lastDaily \in Nat /\ runCounter \in Nat
          /\ MaxToday \in Nat /\ MaxDailies \in Nat
        BY LenProperties, DailyAssumption DEF DailyInv, DailyTypes
    <2>1. lastDaily \in 0 .. MaxToday
        BY <2>0 DEF DailyInv, DaysInv, VersionTypes
    <2>2. runCounter \in 0 .. MaxDailies
        BY <2>0, HoldersAre DEF CounterInv, VersionTypes
    <2>3. ASSUME NEW r \in DOMAIN dailies PROVE dailies[r] \in DailyRecord
        <3>1. dailies[r] \in RunRecord /\ Snug(dailies[r])
            BY RunIs DEF DailyInv, VersionTypes
        <3>2. dailies[r].scheduled \in 0 .. MaxToday
            <4>1. dailies[r].scheduled \in Nat /\ dailies[r].scheduled <= lastDaily
                BY <3>1 DEF RunRecord, DailyInv, DaysInv
            <4> QED
                BY <2>0, <2>1, <4>1
        <3>3. dailies[r].id \in 0 .. MaxDailies
            <4>1. dailies[r].id \in Nat /\ Cardinality(IdHolders) \in Nat
                BY <3>1, HoldersAre DEF RunRecord
            <4>2. CASE dailies[r].step = "number"
                <5>1. r \in DOMAIN dailies \ IdHolders
                    BY <4>2 DEF IdHolders, HasId, Numbered, Ended
                <5>2. Cardinality(IdHolders) + 1 <= Len(dailies)
                    BY <5>1, HoldersAre
                <5> QED
                    BY <2>0, <4>1, <4>2, <5>2 DEF CounterInv, VersionTypes
            <4>3. CASE dailies[r].step # "number"
                BY <2>0, <4>1, <4>3, HoldersAre DEF CounterInv, VersionTypes
            <4> QED
                BY <4>2, <4>3
        <3> QED
            BY <3>1, <3>2, <3>3 DEF RunRecord, DailyRecord, Snug
    <2>4. dailies \in Seq(DailyRecord)
        <3>1. dailies \in [1 .. Len(dailies) -> DailyRecord]
            <4>1. dailies = [r \in DOMAIN dailies |-> dailies[r]]
                BY LenProperties DEF DailyInv, DailyTypes
            <4> QED
                BY <2>0, <2>3, <4>1
        <3> QED
            BY <2>0, <3>1, SeqDef
    <2>5. runRows \subseteq [id : 1 .. MaxDailies, shows : 0 .. MaxDailies]
        <3> SUFFICES ASSUME NEW row \in runRows
                     PROVE  row \in [id : 1 .. MaxDailies, shows : 0 .. MaxDailies]
            OBVIOUS
        <3>1. row \in [id : Nat, shows : Nat]
            BY DEF DailyInv, DailyTypes
        <3>2. row.id \in 1 .. MaxDailies
            <4>1. PICK r \in DOMAIN dailies : HasId(r) /\ dailies[r].id = row.id
                BY DEF DailyInv, IdsInv
            <4>2. dailies[r].id \in 0 .. MaxDailies /\ dailies[r].id # 0
                BY <2>3, <4>1 DEF DailyRecord, HasId
            <4> QED
                BY <4>1, <4>2
        <3>3. row.shows \in 0 .. MaxDailies
            <4>1. row.shows = 0 \/ row.shows \in DOMAIN dailies
                BY DEF DailyInv, IdsInv
            <4> QED
                BY <2>0, <4>1 DEF VersionTypes
        <3> QED
            BY <3>1, <3>2, <3>3
    <2> QED
        BY <2>1, <2>2, <2>4, <2>5 DEF DailyTypeOK, DailyInv, DailyTypes, VersionTypes
<1> QED
    BY <1>1, <1>2, <1>3, PTL DEF DailySpec

----------------------------------------------------------------------------
(* Candle history: History.DoneMeansStored *)

HistoryTypes ==
    /\ minute \in Minutes
    /\ priced \in [Coins -> SUBSET Minutes]
    /\ file \in [Coins -> [Months -> Files]] /\ tmpFile \in [Coins -> [Months -> Files]]
    /\ threadAt \in [Writers -> Points]
    /\ todoCoins \in [Writers -> Seq(Coins)]
    /\ fetched \in [Writers -> Candles] /\ existing \in [Writers -> Candles]
    /\ cursor \in [Pulls -> Minutes] /\ started \in [Writers -> Minutes]
    /\ outcome \in [Pulls -> {"none", "done", "cancelled", "failed"}]
    /\ stop \in BOOLEAN /\ clashed \in BOOLEAN

HistoryInv == HistoryTypes /\ ThreadInv /\ MergeInv /\ PullInv

\* Candles are minutes of some kind.
LEMMA CandlesAre ==
    ASSUME NEW candles, DOMAIN candles \subseteq Minutes,
           candles \in [DOMAIN candles -> Kinds]
    PROVE  candles \in Candles
BY DEF Candles

LEMMA CandlesHave ==
    ASSUME NEW candles \in Candles
    PROVE  /\ DOMAIN candles \subseteq Minutes
           /\ candles \in [DOMAIN candles -> Kinds]
BY DEF Candles

LEMMA NoCandlesAre == NoCandles \in Candles /\ DOMAIN NoCandles = {}
<1>1. DOMAIN NoCandles = {}
    BY DEF NoCandles
<1>2. NoCandles \in [{} -> Kinds]
    BY DEF NoCandles
<1>3. {} \in SUBSET Minutes
    OBVIOUS
<1> QED
    BY <1>1, <1>2, <1>3 DEF Candles

LEMMA OnlyIs ==
    ASSUME NEW candles \in Candles, NEW ts
    PROVE  /\ Only(candles, ts) \in Candles
           /\ DOMAIN Only(candles, ts) = DOMAIN candles \intersect ts
<1> DEFINE o == Only(candles, ts)
<1>1. DOMAIN o = DOMAIN candles \intersect ts
    BY DEF Only
<1>2. o \in [DOMAIN o -> Kinds]
    BY <1>1, CandlesHave DEF Only
<1>3. DOMAIN o \subseteq Minutes
    BY <1>1, CandlesHave
<1> HIDE DEF o
<1>4. o \in Candles
    BY <1>2, <1>3, CandlesAre
<1> QED
    BY <1>1, <1>4 DEF o

LEMMA OverlaidIs ==
    ASSUME NEW new \in Candles, NEW old \in Candles
    PROVE  /\ Overlaid(new, old) \in Candles
           /\ DOMAIN Overlaid(new, old) = (DOMAIN new) \union (DOMAIN old)
<1> DEFINE o == Overlaid(new, old)
<1>1. DOMAIN o = (DOMAIN new) \union (DOMAIN old)
    BY DEF Overlaid
<1>2. o \in [DOMAIN o -> Kinds]
    BY <1>1, CandlesHave DEF Overlaid
<1>3. DOMAIN o \subseteq Minutes
    BY <1>1, CandlesHave
<1> HIDE DEF o
<1>4. o \in Candles
    BY <1>2, <1>3, CandlesAre
<1> QED
    BY <1>1, <1>4 DEF o

LEMMA InMonthIs ==
    ASSUME NEW candles \in Candles, NEW m
    PROVE  /\ InMonth(candles, m) \in Candles
           /\ DOMAIN InMonth(candles, m) = {t \in DOMAIN candles : Month(t) = m}
<1>1. DOMAIN candles \subseteq Minutes
    BY CandlesHave
<1> DEFINE ts == {t \in Minutes : Month(t) = m}
<1>2. /\ Only(candles, ts) \in Candles
      /\ DOMAIN Only(candles, ts) = DOMAIN candles \intersect ts
    <2> HIDE DEF ts
    <2> QED
        BY OnlyIs
<1>3. DOMAIN candles \intersect ts = {t \in DOMAIN candles : Month(t) = m}
    BY <1>1
<1> QED
    BY <1>2, <1>3 DEF InMonth

LEMMA MergedMonthIs ==
    ASSUME HistoryTypes, NEW w \in Writers, DOMAIN fetched[w] # {}
    PROVE  MergedMonth(w) \in Months
<1>1. DOMAIN fetched[w] \subseteq Minutes
    BY CandlesHave DEF HistoryTypes
<1>2. DOMAIN fetched[w] \in SUBSET Nat
    BY <1>1 DEF Minutes
<1>3. Min(DOMAIN fetched[w]) \in DOMAIN fetched[w]
    BY <1>2, MinIs
<1> QED
    BY <1>1, <1>3 DEF MergedMonth, Months

LEMMA CoinIs ==
    ASSUME HistoryTypes, ThreadInv, NEW w \in Writers, threadAt[w] # "idle"
    PROVE  /\ Coin(w) \in Coins
           /\ Tail(todoCoins[w]) \in Seq(Coins)
           /\ \A c \in Coins \ {Tail(todoCoins[w])[i] : i \in DOMAIN Tail(todoCoins[w])} :
                c = Coin(w) \/ c \notin {todoCoins[w][i] : i \in DOMAIN todoCoins[w]}
<1> DEFINE s == todoCoins[w]
<1>1. s \in Seq(Coins) /\ s # <<>>
    BY DEF HistoryTypes, ThreadInv, Working
<1>2. Head(s) \in Coins /\ Tail(s) \in Seq(Coins)
    BY <1>1
<1>3. ASSUME NEW i \in DOMAIN s, s[i] # Head(s)
      PROVE  \E j \in DOMAIN Tail(s) : Tail(s)[j] = s[i]
    <2>1. i \in 1 .. Len(s) /\ i # 1
        BY <1>1, <1>3
    <2>2. i - 1 \in DOMAIN Tail(s) /\ Tail(s)[i - 1] = s[i]
        BY <1>1, <2>1
    <2> QED
        BY <2>2
<1> HIDE DEF s
<1>4. \A c \in Coins \ {Tail(s)[i] : i \in DOMAIN Tail(s)} :
        c = Head(s) \/ c \notin {s[i] : i \in DOMAIN s}
    BY <1>3
<1> QED
    BY <1>2, <1>4 DEF s, Coin

\* Both ways out of a merge: the next month of the coin, or the coin is done.
LEMMA MergeRowsIs ==
    ASSUME HistoryTypes, ThreadInv, NEW w \in Writers, threadAt[w] # "idle",
           NEW rows \in Candles, MergeRows(w, rows)
    PROVE  /\ threadAt' \in [Writers -> Points]
           /\ todoCoins' \in [Writers -> Seq(Coins)]
           /\ fetched' \in [Writers -> Candles] /\ existing' \in [Writers -> Candles]
           /\ outcome' \in [Pulls -> {"none", "done", "cancelled", "failed"}]
           /\ \A x \in Writers \ {w} :
                /\ threadAt'[x] = threadAt[x] /\ todoCoins'[x] = todoCoins[x]
                /\ fetched'[x] = fetched[x] /\ existing'[x] = existing[x]
           /\ \A p \in Pulls \ {w} : outcome'[p] = outcome[p]
           /\ \/ /\ DOMAIN rows # {} /\ threadAt'[w] = "read" /\ fetched'[w] = rows
                 /\ todoCoins' = todoCoins /\ existing' = existing /\ outcome' = outcome
              \/ /\ DOMAIN rows = {} /\ threadAt'[w] = "coin" /\ fetched'[w] = NoCandles
                 /\ todoCoins'[w] = Tail(todoCoins[w]) /\ Tail(todoCoins[w]) # <<>>
                 /\ outcome' = outcome
              \/ /\ DOMAIN rows = {} /\ threadAt'[w] = "idle" /\ fetched'[w] = NoCandles
                 /\ todoCoins'[w] = <<>>
                 /\ w \in Pulls =>
                      \/ outcome'[w] = "cancelled"
                      \/ outcome'[w] = "done" /\ ~stop /\ Tail(todoCoins[w]) = <<>>
<1>1. Tail(todoCoins[w]) \in Seq(Coins)
    BY CoinIs
<1>2. CASE DOMAIN rows # {}
    BY <1>2 DEF HistoryTypes, MergeRows, Points
<1>3. CASE DOMAIN rows = {}
    <2>1. CoinDone(w)
        BY <1>3 DEF MergeRows
    <2> DEFINE others == Tail(todoCoins[w])
               over == IF w \in Pulls THEN stop \/ others = <<>> ELSE others = <<>>
               how == IF w \in Pulls /\ stop THEN "cancelled" ELSE "done"
    <2>2. /\ todoCoins' = [todoCoins EXCEPT ![w] = IF over THEN <<>> ELSE others]
          /\ threadAt' = [threadAt EXCEPT ![w] = IF over THEN "idle" ELSE "coin"]
          /\ fetched' = [fetched EXCEPT ![w] = NoCandles]
          /\ existing' = [existing EXCEPT ![w] = NoCandles]
          /\ outcome' = IF w \in Pulls /\ over THEN [outcome EXCEPT ![w] = how] ELSE outcome
        BY <2>1 DEF CoinDone
    <2>3. over \in BOOLEAN /\ how \in {"none", "done", "cancelled", "failed"}
        BY DEF HistoryTypes
    <2>4. <<>> \in Seq(Coins) /\ others \in Seq(Coins)
        BY <1>1
    <2>5. over => w \notin Pulls \/ stop \/ others = <<>>
        OBVIOUS
    <2>6. ~over => others # <<>>
        OBVIOUS
    <2>7. how = "cancelled" \/ (how = "done" /\ (w \in Pulls => ~stop))
        BY DEF HistoryTypes
    <2>8. w \in Pulls /\ over /\ ~stop => others = <<>>
        OBVIOUS
    <2> HIDE DEF others, over, how
    <2>9. /\ threadAt' \in [Writers -> Points]
          /\ fetched' \in [Writers -> Candles] /\ existing' \in [Writers -> Candles]
          /\ outcome' \in [Pulls -> {"none", "done", "cancelled", "failed"}]
        BY <2>2, <2>3, NoCandlesAre DEF HistoryTypes, Points
    <2>10. todoCoins' \in [Writers -> Seq(Coins)]
        BY <2>2, <2>4 DEF HistoryTypes
    <2>11. /\ \A x \in Writers \ {w} :
                /\ threadAt'[x] = threadAt[x] /\ todoCoins'[x] = todoCoins[x]
                /\ fetched'[x] = fetched[x] /\ existing'[x] = existing[x]
           /\ \A p \in Pulls \ {w} : outcome'[p] = outcome[p]
        BY <2>2 DEF HistoryTypes
    <2>12. fetched'[w] = NoCandles
        BY <2>2 DEF HistoryTypes
    <2>13. CASE over
        <3>1. threadAt'[w] = "idle" /\ todoCoins'[w] = <<>>
            BY <2>2, <2>13 DEF HistoryTypes
        <3>2. w \in Pulls => outcome'[w] = how
            BY <2>2, <2>13 DEF HistoryTypes
        <3> QED
            BY <1>3, <2>7, <2>8, <2>9, <2>10, <2>11, <2>12, <2>13, <3>1, <3>2 DEF others
    <2>14. CASE ~over
        <3>1. threadAt'[w] = "coin" /\ todoCoins'[w] = others /\ outcome' = outcome
            BY <2>2, <2>14 DEF HistoryTypes
        <3> QED
            BY <1>3, <2>6, <2>9, <2>10, <2>11, <2>12, <2>14, <3>1 DEF others
    <2> QED
        BY <2>13, <2>14
<1> QED
    BY <1>2, <1>3

\* A step of one thread leaves the others as they are; a stop may be taken back
\* from the pulls it counts in revived.
OnlyMoves(w) ==
    /\ \A x \in Writers \ {w} :
         /\ threadAt'[x] = threadAt[x] /\ todoCoins'[x] = todoCoins[x]
         /\ fetched'[x] = fetched[x] /\ existing'[x] = existing[x]
         /\ started'[x] = started[x]
    /\ \A p \in Pulls \ {w} :
         /\ cursor'[p] = cursor[p] /\ outcome'[p] = outcome[p]
         /\ p \in revived' \/ threadAt[p] = "idle" \/ (stop => stop')
    /\ minute' = minute
    /\ skipped \subseteq skipped' /\ revived \subseteq revived'
    /\ clashed => clashed'

StoredGrows == \A c \in Coins : Stored(c) \subseteq Stored(c)'

LEMMA FilesStay ==
    ASSUME UNCHANGED file
    PROVE  StoredGrows
BY DEF StoredGrows, Stored, ReadTable

\* A pull whose own state stands keeps what it has, if the store grows.
LEMMA PullStays ==
    ASSUME HistoryInv, NEW p \in Pulls, ~clashed' => StoredGrows,
           threadAt'[p] = threadAt[p], todoCoins'[p] = todoCoins[p],
           fetched'[p] = fetched[p], started'[p] = started[p],
           cursor'[p] = cursor[p], outcome'[p] = outcome[p],
           p \in revived' \/ threadAt[p] = "idle" \/ (stop => stop'),
           minute \in Nat, minute' \in Nat, minute <= minute',
           skipped \subseteq skipped', revived \subseteq revived', clashed => clashed',
           p \notin skipped' \union revived', ~clashed'
    PROVE  PullSound(p)'
<1>1. PullSound(p)
    BY DEF HistoryInv, PullInv
<1>2. \A c \in Coins : Covered(p, c) => Covered(p, c)'
    BY DEF StoredGrows, Covered
<1>3. PagedBack(p) => PagedBack(p)'
    <2>1. cursor[p] \in Nat
        BY DEF HistoryInv, HistoryTypes, Minutes
    <2> QED
        BY <2>1 DEF PagedBack, Coin
<1>4. outcome'[p] = "done" => \A c \in Coins : Covered(p, c)'
    BY <1>1, <1>2 DEF PullSound
<1>5. ASSUME threadAt'[p] # "idle", ~stop'
      PROVE  /\ \A c \in Coins \ {todoCoins'[p][i] : i \in DOMAIN todoCoins'[p]} :
                  Covered(p, c)'
             /\ threadAt'[p] = "page" => PagedBack(p)'
             /\ threadAt'[p] \in {"read", "write", "rename"} =>
                  Listing[Coin(p)'] \intersect (0 .. started'[p])
                    \subseteq Stored(Coin(p))' \union DOMAIN fetched'[p]
    <2>1. threadAt[p] # "idle" /\ ~stop
        BY <1>5
    <2>2. Coin(p) \in Coins /\ Coin(p)' = Coin(p)
        <3>1. p \in Writers
            BY DEF Writers
        <3>2. Coin(p) \in Coins
            BY <2>1, <3>1, CoinIs DEF HistoryInv
        <3> QED
            BY <3>2 DEF Coin
    <2>3. Stored(Coin(p)) \subseteq Stored(Coin(p))'
        <3>1. PICK c \in Coins : c = Coin(p)
            BY <2>2
        <3>2. Stored(c) \subseteq Stored(c)'
            BY DEF StoredGrows
        <3>3. Stored(Coin(p)) = Stored(c) /\ Stored(Coin(p))' = Stored(c)'
            BY <2>2, <3>1
        <3> QED
            BY <3>2, <3>3
    <2> QED
        BY <1>1, <1>2, <1>3, <2>1, <2>2, <2>3 DEF PullSound
<1> QED
    BY <1>4, <1>5 DEF PullSound

LEMMA OthersStay ==
    ASSUME HistoryInv, HistoryTypes', NEW w \in Writers, OnlyMoves(w), ~clashed' => StoredGrows
    PROVE  /\ \A x \in Writers \ {w} : Working(x)'
           /\ \A p \in Pulls \ {w} : p \notin skipped' \union revived' /\ ~clashed' => PullSound(p)'
<1>1. minute \in Nat /\ minute' = minute
    BY DEF HistoryInv, HistoryTypes, OnlyMoves, Minutes
<1>2. ASSUME NEW x \in Writers \ {w} PROVE Working(x)'
    BY <1>1 DEF HistoryInv, ThreadInv, Working, OnlyMoves
<1>3. ASSUME NEW p \in Pulls \ {w}, p \notin skipped' \union revived', ~clashed'
      PROVE  PullSound(p)'
    <2>1. p \in Writers \ {w}
        BY DEF Writers
    <2>2. /\ threadAt'[p] = threadAt[p] /\ todoCoins'[p] = todoCoins[p]
          /\ fetched'[p] = fetched[p] /\ started'[p] = started[p]
          /\ cursor'[p] = cursor[p] /\ outcome'[p] = outcome[p]
          /\ p \in revived' \/ threadAt[p] = "idle" \/ (stop => stop')
          /\ skipped \subseteq skipped' /\ revived \subseteq revived' /\ (clashed => clashed')
        BY <2>1 DEF OnlyMoves
    <2> QED
        BY <1>1, <1>3, <2>2, PullStays
<1> QED
    BY <1>2, <1>3

\* The month another thread merges is as it was, unless it is this thread's.
LEMMA OthersMerge ==
    ASSUME HistoryInv, NEW w \in Writers, OnlyMoves(w), ~clashed',
           NEW x \in Writers \ {w}, threadAt'[x] \in {"write", "rename"},
           threadAt'[w] \in {"write", "rename"} =>
             Coin(w)' # Coin(x) \/ MergedMonth(w)' # MergedMonth(x),
           file'[Coin(x)][MergedMonth(x)] = file[Coin(x)][MergedMonth(x)],
           tmpFile'[Coin(x)][MergedMonth(x)] = tmpFile[Coin(x)][MergedMonth(x)]
    PROVE  MergesAlone(x)'
<1>1. MergesAlone(x)
    BY DEF HistoryInv, MergeInv, OnlyMoves
<1>2. \A y \in Writers \ {w} :
        Coin(y)' = Coin(y) /\ MergedMonth(y)' = MergedMonth(y) /\ threadAt'[y] = threadAt[y]
    BY DEF OnlyMoves, Coin, MergedMonth
<1>3. Merging(Coin(x), MergedMonth(x))' = {x}
    <2>1. Merging(Coin(x), MergedMonth(x)) = {x}
        BY <1>1 DEF MergesAlone
    <2>2. \A y \in Writers : y \in Merging(Coin(x), MergedMonth(x))' <=>
            threadAt'[y] \in {"write", "rename"} /\ Coin(y)' = Coin(x)
              /\ MergedMonth(y)' = MergedMonth(x)
        BY <1>2 DEF Merging
    <2>3. \A y \in Writers : y \in Merging(Coin(x), MergedMonth(x)) <=>
            threadAt[y] \in {"write", "rename"} /\ Coin(y) = Coin(x)
              /\ MergedMonth(y) = MergedMonth(x)
        BY DEF Merging
    <2>4. Merging(Coin(x), MergedMonth(x))' \subseteq Writers
        BY DEF Merging
    <2>5. w \notin Merging(Coin(x), MergedMonth(x))'
        BY <2>2
    <2>6. \A y \in Writers \ {w} : y \in Merging(Coin(x), MergedMonth(x))' <=> y = x
        BY <1>2, <2>1, <2>2, <2>3
    <2> QED
        BY <2>4, <2>5, <2>6
<1>4. Combined(x)' = Combined(x)
    BY <1>2 DEF OnlyMoves, Combined
<1>5. /\ ReadTable(file[Coin(x)][MergedMonth(x)])' = ReadTable(file[Coin(x)][MergedMonth(x)])
      /\ ReadTable(tmpFile[Coin(x)][MergedMonth(x)])' = ReadTable(tmpFile[Coin(x)][MergedMonth(x)])
    BY <1>2 DEF ReadTable
<1>6. existing'[x] = existing[x] /\ threadAt'[x] = threadAt[x]
    BY DEF OnlyMoves
<1> QED
    BY <1>1, <1>3, <1>4, <1>5, <1>6 DEF MergesAlone

\* A step of one thread that leaves the files alone and does not begin to merge.
LEMMA OneThread ==
    ASSUME HistoryInv, HistoryTypes', NEW w \in Writers, OnlyMoves(w), UNCHANGED files,
           threadAt'[w] \notin {"write", "rename"}, Working(w)',
           w \in Pulls /\ w \notin skipped' \union revived' /\ ~clashed' => PullSound(w)'
    PROVE  HistoryInv'
<1>1. ~clashed' => StoredGrows
    BY FilesStay DEF files
<1>2. ThreadInv'
    BY <1>1, OthersStay DEF ThreadInv
<1>3. PullInv'
    BY <1>1, OthersStay DEF PullInv
<1>4. ASSUME ~clashed', NEW x \in Writers, threadAt'[x] \in {"write", "rename"}
      PROVE  MergesAlone(x)'
    BY <1>4, OthersMerge DEF files
<1>5. MergeInv'
    BY <1>4 DEF MergeInv
<1> QED
    BY <1>2, <1>3, <1>5 DEF HistoryInv

LEMMA Threads ==
    /\ Pulls \subseteq Writers /\ Daily \in Writers /\ Loop \in Writers
    /\ Daily \notin Pulls /\ Loop \notin Pulls
BY HistoryAssumption DEF Writers

LEMMA PairsAre == Pairs \in Seq(Coins) /\ Pairs # <<>> /\ Coins = {Pairs[i] : i \in DOMAIN Pairs}
BY HistoryAssumption DEF Coins

LEMMA HistoryStarts == HistoryInit => HistoryInv
<1> SUFFICES ASSUME HistoryInit PROVE HistoryInv
    OBVIOUS
<1>1. NoFile \in Files
    BY NoCandlesAre DEF NoFile, Files
<1>2. HistoryTypes
    <2>1. MaxMinute \in Nat \ {0}
        BY HistoryAssumption
    <2>2. 0 \in Minutes /\ minute \in Minutes
        BY <2>1 DEF Minutes, HistoryInit
    <2>3. priced \in [Coins -> SUBSET Minutes]
        BY DEF HistoryInit
    <2>4. file \in [Coins -> [Months -> Files]] /\ tmpFile \in [Coins -> [Months -> Files]]
        BY <1>1 DEF HistoryInit
    <2>5. fetched \in [Writers -> Candles] /\ existing \in [Writers -> Candles]
        BY NoCandlesAre DEF HistoryInit
    <2>6. todoCoins \in [Writers -> Seq(Coins)]
        BY DEF HistoryInit
    <2> QED
        BY <2>2, <2>3, <2>4, <2>5, <2>6 DEF HistoryInit, HistoryTypes, Points, Minutes
<1>3. ThreadInv
    BY NoCandlesAre DEF HistoryInit, ThreadInv, Working
<1>4. MergeInv
    BY DEF HistoryInit, MergeInv
<1>5. PullInv
    BY Threads DEF HistoryInit, PullInv, PullSound
<1> QED
    BY <1>2, <1>3, <1>4, <1>5 DEF HistoryInv

\* Beginning work takes the coins in their order; all are still to do.
LEMMA BeginsWork ==
    ASSUME HistoryInv, NEW w \in Writers, threadAt[w] = "idle",
           w \in Pulls => outcome[w] # "done",
           threadAt' = [threadAt EXCEPT ![w] = "coin"],
           todoCoins' = [todoCoins EXCEPT ![w] = Pairs],
           started' = [started EXCEPT ![w] = minute],
           stop' \in BOOLEAN, stop' = stop \/ {q \in Pulls : threadAt[q] # "idle"} \subseteq revived',
           revived \subseteq revived',
           UNCHANGED <<minute, priced, files, fetched, existing, cursor, outcome,
                       skipped, clashed>>
    PROVE  HistoryInv'
<1>1. Pairs \in Seq(Coins) /\ Pairs # <<>> /\ Coins = {Pairs[i] : i \in DOMAIN Pairs}
    BY PairsAre
<1>2. HistoryTypes'
    BY <1>1 DEF HistoryInv, HistoryTypes, Points, files
<1>3. /\ threadAt'[w] = "coin" /\ todoCoins'[w] = Pairs /\ started'[w] = minute
      /\ \A x \in Writers \ {w} : /\ threadAt'[x] = threadAt[x] /\ todoCoins'[x] = todoCoins[x]
                                  /\ started'[x] = started[x]
    BY DEF HistoryInv, HistoryTypes
<1>4. OnlyMoves(w)
    BY <1>3, Threads DEF OnlyMoves
<1>5. minute \in Nat
    BY DEF HistoryInv, HistoryTypes, Minutes
<1>6. Working(w)'
    BY <1>1, <1>3, <1>5 DEF HistoryInv, ThreadInv, Working
<1>7. w \in Pulls => PullSound(w)'
    BY <1>1, <1>3 DEF PullSound
<1> QED
    BY <1>2, <1>3, <1>4, <1>6, <1>7, OneThread

LEMMA StartPullKeeps ==
    ASSUME HistoryInv, NEW p \in Pulls, StartPull(p)
    PROVE  HistoryInv'
<1>1. stop' = stop \/ {q \in Pulls : threadAt[q] # "idle"} \subseteq revived'
    BY DEF StartPull, HistoryInv, HistoryTypes
<1>2. revived \subseteq revived' /\ stop' \in BOOLEAN
    BY DEF StartPull
<1> QED
    BY <1>1, <1>2, Threads, BeginsWork DEF StartPull

LEMMA BeginnersKeep ==
    ASSUME HistoryInv, BeginDaily \/ RollUp
    PROVE  HistoryInv'
<1>1. stop \in BOOLEAN
    BY DEF HistoryInv, HistoryTypes
<1>2. CASE BeginDaily
    BY <1>1, <1>2, Threads, BeginsWork DEF BeginDaily, Move
<1>3. CASE RollUp
    BY <1>1, <1>3, Threads, BeginsWork DEF RollUp, Move
<1> QED
    BY <1>2, <1>3

LEMMA StopPullKeeps ==
    ASSUME HistoryInv, StopPull
    PROVE  HistoryInv'
<1>1. HistoryTypes'
    BY DEF StopPull, HistoryInv, HistoryTypes, files, memory
<1>2. ThreadInv'
    BY DEF StopPull, HistoryInv, ThreadInv, Working, memory
<1>3. MergeInv'
    BY DEF StopPull, HistoryInv, MergeInv, MergesAlone, Merging, MergedMonth, Combined, Coin,
           ReadTable, files, memory
<1>4. PullInv'
    <2>1. \A p \in Pulls : PullSound(p) => PullSound(p)'
        BY DEF StopPull, PullSound, Covered, Stored, ReadTable, files, memory
    <2> QED
        BY <2>1 DEF StopPull, HistoryInv, PullInv
<1> QED
    BY <1>1, <1>2, <1>3, <1>4 DEF HistoryInv

LEMMA CancelKeeps ==
    ASSUME HistoryInv, NEW p \in Pulls, Cancel(p)
    PROVE  HistoryInv'
<1>1. HistoryTypes'
    BY Threads DEF Cancel, Move, HistoryInv, HistoryTypes, Points, files
<1>2. /\ threadAt[p] = "coin" /\ threadAt'[p] = "idle" /\ todoCoins'[p] = <<>>
      /\ outcome'[p] = "cancelled"
      /\ \A x \in Writers \ {p} : threadAt'[x] = threadAt[x] /\ todoCoins'[x] = todoCoins[x]
      /\ \A q \in Pulls \ {p} : outcome'[q] = outcome[q]
    BY Threads DEF Cancel, Move, HistoryInv, HistoryTypes
<1>3. OnlyMoves(p)
    BY <1>2, Threads DEF OnlyMoves, Cancel
<1>4. Working(p)'
    BY <1>2, Threads DEF Cancel, HistoryInv, ThreadInv, Working
<1>5. PullSound(p)'
    BY <1>2 DEF PullSound
<1>6. UNCHANGED files
    BY DEF Cancel
<1> QED
    BY <1>1, <1>2, <1>3, <1>4, <1>5, <1>6, Threads, OneThread

LEMMA BeginCoinKeeps ==
    ASSUME HistoryInv, NEW p \in Pulls, BeginCoin(p)
    PROVE  HistoryInv'
<1>1. HistoryTypes'
    BY Threads DEF BeginCoin, Move, HistoryInv, HistoryTypes, Points, files
<1>2. /\ threadAt[p] = "coin" /\ threadAt'[p] = "page" /\ cursor'[p] = minute
      /\ \A x \in Writers \ {p} : threadAt'[x] = threadAt[x]
      /\ \A q \in Pulls \ {p} : cursor'[q] = cursor[q]
    BY Threads DEF BeginCoin, Move, HistoryInv, HistoryTypes
<1>3. OnlyMoves(p)
    BY <1>2, Threads DEF OnlyMoves, BeginCoin
<1>4. Working(p)'
    BY <1>2, Threads DEF BeginCoin, HistoryInv, ThreadInv, Working
<1>5. minute \in Nat
    BY DEF HistoryInv, HistoryTypes, Minutes
<1>6. PagedBack(p)'
    BY <1>2, <1>5, Threads DEF BeginCoin, HistoryInv, ThreadInv, Working, PagedBack
<1>7. ASSUME p \notin skipped' \union revived', ~clashed' PROVE PullSound(p)'
    <2>1. PullSound(p) /\ ~stop
        BY <1>7 DEF BeginCoin, HistoryInv, PullInv
    <2> QED
        BY <1>2, <1>6, <2>1
        DEF BeginCoin, PullSound, Covered, Stored, ReadTable, files
<1>8. UNCHANGED files
    BY DEF BeginCoin
<1> QED
    BY <1>1, <1>2, <1>3, <1>4, <1>7, <1>8, Threads, OneThread

LEMMA BucketsKeep ==
    ASSUME HistoryInv, Buckets
    PROVE  HistoryInv'
<1> DEFINE c == Coin(Loop)
           closed == {t \in priced[c] : started[Loop] - Lookback <= t /\ t < started[Loop]}
           rows == [t \in closed |-> "ticks"]
<1>1. /\ threadAt[Loop] = "coin" /\ threadAt' = [threadAt EXCEPT ![Loop] = "latest"]
      /\ fetched' = [fetched EXCEPT ![Loop] = rows]
      /\ UNCHANGED <<minute, priced, files, todoCoins, existing, cursor,
                     started, stop, outcome, skipped, revived, clashed>>
    BY DEF Buckets, Move
<1>2. rows \in Candles
    <2>1. c \in Coins
        BY <1>1, Threads, CoinIs DEF HistoryInv
    <2>2. closed \subseteq Minutes
        BY <2>1 DEF HistoryInv, HistoryTypes
    <2> HIDE DEF closed
    <2>3. DOMAIN rows = closed /\ rows \in [closed -> Kinds]
        BY DEF Kinds
    <2> HIDE DEF rows
    <2> QED
        BY <2>2, <2>3, CandlesAre
<1> HIDE DEF rows
<1>3. HistoryTypes'
    BY <1>1, <1>2 DEF HistoryInv, HistoryTypes, Points, files
<1>4. /\ threadAt'[Loop] = "latest"
      /\ \A x \in Writers \ {Loop} : threadAt'[x] = threadAt[x] /\ fetched'[x] = fetched[x]
    BY <1>1, Threads DEF HistoryInv, HistoryTypes
<1>5. OnlyMoves(Loop)
    BY <1>1, <1>4, Threads DEF OnlyMoves
<1>6. Working(Loop)'
    BY <1>1, <1>4, Threads DEF HistoryInv, ThreadInv, Working
<1> QED
    BY <1>1, <1>3, <1>4, <1>5, <1>6, Threads, OneThread

\* A thread that merges rows, or is done with the coin, when what it had of the coin
\* is stored or among the rows.
LEMMA MergeRowsKeep ==
    ASSUME HistoryInv, NEW w \in Writers, threadAt[w] # "idle",
           NEW rows \in Candles, MergeRows(w, rows),
           UNCHANGED <<minute, priced, started, stop, revived, clashed>>,
           skipped \subseteq skipped', cursor' \in [Pulls -> Minutes],
           \A q \in Pulls \ {w} : cursor'[q] = cursor[q],
           file' \in [Coins -> [Months -> Files]], tmpFile' \in [Coins -> [Months -> Files]],
           ~clashed => StoredGrows,
           NEW coin \in Coins, coin = Coin(w),
           w \in Pulls /\ w \notin skipped' \union revived /\ ~clashed /\ ~stop =>
             Listing[coin] \intersect (0 .. started[w]) \subseteq Stored(coin)' \union DOMAIN rows
    PROVE  /\ HistoryTypes' /\ OnlyMoves(w) /\ Working(w)'
           /\ threadAt'[w] \notin {"write", "rename"}
           /\ w \in Pulls /\ w \notin skipped' \union revived' /\ ~clashed' => PullSound(w)'
<1>1. /\ threadAt' \in [Writers -> Points]
      /\ todoCoins' \in [Writers -> Seq(Coins)]
      /\ fetched' \in [Writers -> Candles] /\ existing' \in [Writers -> Candles]
      /\ outcome' \in [Pulls -> {"none", "done", "cancelled", "failed"}]
      /\ \A x \in Writers \ {w} :
           /\ threadAt'[x] = threadAt[x] /\ todoCoins'[x] = todoCoins[x]
           /\ fetched'[x] = fetched[x] /\ existing'[x] = existing[x]
      /\ \A p \in Pulls \ {w} : outcome'[p] = outcome[p]
      /\ \/ /\ DOMAIN rows # {} /\ threadAt'[w] = "read" /\ fetched'[w] = rows
            /\ todoCoins' = todoCoins /\ existing' = existing /\ outcome' = outcome
         \/ /\ DOMAIN rows = {} /\ threadAt'[w] = "coin" /\ fetched'[w] = NoCandles
            /\ todoCoins'[w] = Tail(todoCoins[w]) /\ Tail(todoCoins[w]) # <<>>
            /\ outcome' = outcome
         \/ /\ DOMAIN rows = {} /\ threadAt'[w] = "idle" /\ fetched'[w] = NoCandles
            /\ todoCoins'[w] = <<>>
            /\ w \in Pulls =>
                 \/ outcome'[w] = "cancelled"
                 \/ outcome'[w] = "done" /\ ~stop /\ Tail(todoCoins[w]) = <<>>
    BY MergeRowsIs DEF HistoryInv
<1>2. HistoryTypes'
    BY <1>1 DEF HistoryInv, HistoryTypes
<1>3. OnlyMoves(w)
    BY <1>1, Threads DEF OnlyMoves
<1>4. todoCoins[w] # <<>> /\ started[w] <= minute
    BY DEF HistoryInv, ThreadInv, Working
<1>5. Working(w)'
    <2>1. started'[w] <= minute'
        BY <1>4
    <2>2. todoCoins' = todoCoins => todoCoins'[w] # <<>>
        BY <1>4
    <2> QED
        BY <1>1, <2>1, <2>2, NoCandlesAre DEF Working
<1>6. ASSUME w \in Pulls, w \notin skipped' \union revived', ~clashed'
      PROVE  PullSound(w)'
    <2>1. PullSound(w) /\ StoredGrows
        BY <1>6 DEF HistoryInv, PullInv
    <2>2. \A c \in Coins : Covered(w, c) => Covered(w, c)'
        BY <2>1 DEF StoredGrows, Covered
    <2>3. /\ Coin(w) \in Coins
          /\ \A c \in Coins \ {Tail(todoCoins[w])[i] : i \in DOMAIN Tail(todoCoins[w])} :
               c = Coin(w) \/ c \notin {todoCoins[w][i] : i \in DOMAIN todoCoins[w]}
        BY CoinIs DEF HistoryInv
    <2>4. CASE threadAt'[w] = "read"
        <3>1. /\ fetched'[w] = rows /\ todoCoins' = todoCoins /\ outcome' = outcome
            BY <1>1, <2>4
        <3>2. Coin(w)' = Coin(w)
            BY <3>1 DEF Coin
        <3>3. outcome'[w] = "done" => \A c \in Coins : Covered(w, c)'
            BY <2>1, <2>2, <3>1 DEF PullSound
        <3>4. ASSUME ~stop'
              PROVE  \A c \in Coins \ {todoCoins'[w][i] : i \in DOMAIN todoCoins'[w]} :
                       Covered(w, c)'
            BY <2>1, <2>2, <3>1, <3>4 DEF PullSound
        <3>5. ASSUME ~stop'
              PROVE  Listing[Coin(w)'] \intersect (0 .. started'[w])
                       \subseteq Stored(Coin(w))' \union DOMAIN fetched'[w]
            <4>1. Listing[coin] \intersect (0 .. started[w]) \subseteq Stored(coin)' \union DOMAIN rows
                BY <1>6, <3>5
            <4>2. Coin(w)' = coin
                BY <3>2
            <4>3. Stored(Coin(w))' = Stored(coin)'
                BY <4>2
            <4> QED
                BY <3>1, <4>1, <4>2, <4>3
        <3> QED
            BY <2>4, <3>3, <3>4, <3>5 DEF PullSound
    <2>5. ASSUME DOMAIN rows = {}, ~stop
          PROVE  \A c \in Coins \ {Tail(todoCoins[w])[i] : i \in DOMAIN Tail(todoCoins[w])} :
                   Covered(w, c)'
        <3>1. Listing[coin] \intersect (0 .. started[w]) \subseteq Stored(coin)'
            BY <1>6, <2>5
        <3>2. Covered(w, coin)'
            BY <3>1 DEF Covered
        <3>3. \A d \in Coins : d \notin {todoCoins[w][i] : i \in DOMAIN todoCoins[w]} => Covered(w, d)'
            BY <2>1, <2>2, <2>5 DEF PullSound
        <3> QED
            BY <2>3, <3>2, <3>3
    <2>6. CASE threadAt'[w] = "coin"
        <3>1. DOMAIN rows = {} /\ todoCoins'[w] = Tail(todoCoins[w]) /\ outcome' = outcome
            BY <1>1, <2>6
        <3>2. outcome'[w] = "done" => \A c \in Coins : Covered(w, c)'
            BY <2>1, <2>2, <3>1 DEF PullSound
        <3> QED
            BY <2>5, <2>6, <3>1, <3>2 DEF PullSound
    <2>7. CASE threadAt'[w] = "idle"
        <3>1. \/ outcome'[w] = "cancelled"
              \/ outcome'[w] = "done" /\ ~stop /\ Tail(todoCoins[w]) = <<>> /\ DOMAIN rows = {}
            BY <1>1, <1>6, <2>7
        <3>2. outcome'[w] = "done" => \A c \in Coins : Covered(w, c)'
            BY <2>5, <3>1
        <3> QED
            BY <2>7, <3>2 DEF PullSound
    <2> QED
        BY <1>1, <2>4, <2>6, <2>7
<1> QED
    BY <1>1, <1>2, <1>3, <1>5, <1>6

\* What a merge that touches no file keeps.
LEMMA MergesKeep ==
    ASSUME HistoryInv, NEW w \in Writers, threadAt[w] # "idle",
           NEW rows \in Candles, MergeRows(w, rows),
           UNCHANGED <<minute, priced, files, started, stop, revived, clashed>>,
           skipped \subseteq skipped', cursor' \in [Pulls -> Minutes],
           \A q \in Pulls \ {w} : cursor'[q] = cursor[q],
           w \in Pulls /\ w \notin skipped' \union revived /\ ~clashed /\ ~stop =>
             Listing[Coin(w)] \intersect (0 .. started[w])
               \subseteq Stored(Coin(w)) \union DOMAIN rows
    PROVE  HistoryInv'
<1>1. PICK coin \in Coins : coin = Coin(w)
    BY CoinIs DEF HistoryInv
<1>2. UNCHANGED file /\ UNCHANGED tmpFile
    BY DEF files
<1>3. StoredGrows
    BY <1>2, FilesStay
<1>4. Stored(Coin(w)) \subseteq Stored(coin)'
    BY <1>1, <1>3 DEF StoredGrows
<1>5. file' \in [Coins -> [Months -> Files]] /\ tmpFile' \in [Coins -> [Months -> Files]]
    BY <1>2 DEF HistoryInv, HistoryTypes
<1>6. w \in Pulls /\ w \notin skipped' \union revived /\ ~clashed /\ ~stop =>
        Listing[coin] \intersect (0 .. started[w]) \subseteq Stored(coin)' \union DOMAIN rows
    BY <1>1, <1>4
<1>7. /\ HistoryTypes' /\ OnlyMoves(w) /\ Working(w)'
      /\ threadAt'[w] \notin {"write", "rename"}
      /\ w \in Pulls /\ w \notin skipped' \union revived' /\ ~clashed' => PullSound(w)'
    BY <1>1, <1>3, <1>5, <1>6, MergeRowsKeep
<1> QED
    BY <1>7, OneThread

LEMMA CursorsAre ==
    ASSUME HistoryInv, NEW p \in Pulls, NoCursor(p)
    PROVE  cursor' \in [Pulls -> Minutes] /\ \A q \in Pulls \ {p} : cursor'[q] = cursor[q]
<1>1. 0 \in Minutes
    BY HistoryAssumption DEF Minutes
<1> QED
    BY <1>1 DEF NoCursor, HistoryInv, HistoryTypes

LEMMA StopsKeep ==
    ASSUME HistoryInv, NEW p \in Pulls, GiveUpPage(p) \/ StopPaging(p)
    PROVE  HistoryInv'
<1>1. p \in Writers /\ fetched[p] \in Candles /\ threadAt[p] # "idle"
    BY Threads DEF GiveUpPage, StopPaging, HistoryInv, HistoryTypes
<1>2. cursor' \in [Pulls -> Minutes] /\ \A q \in Pulls \ {p} : cursor'[q] = cursor[q]
    BY CursorsAre DEF GiveUpPage, StopPaging
<1>3. CASE GiveUpPage(p)
    BY <1>1, <1>2, <1>3, MergesKeep DEF GiveUpPage
<1>4. CASE StopPaging(p)
    BY <1>1, <1>2, <1>4, MergesKeep DEF StopPaging
<1> QED
    BY <1>3, <1>4

LEMMA AppendNewerKeeps ==
    ASSUME HistoryInv, NEW w \in Writers, AppendNewer(w)
    PROVE  HistoryInv'
<1> DEFINE rows == Only(fetched[w], {t \in Minutes : t > LatestTs(Coin(w))})
<1>1. rows \in Candles
    BY OnlyIs DEF HistoryInv, HistoryTypes
<1>2. MergeRows(w, rows) /\ threadAt[w] # "idle" /\ w \notin Pulls
    BY DEF AppendNewer
<1>3. /\ UNCHANGED <<minute, priced, files, started, stop, revived, clashed>>
      /\ skipped \subseteq skipped'
      /\ cursor' \in [Pulls -> Minutes] /\ \A q \in Pulls \ {w} : cursor'[q] = cursor[q]
    BY DEF AppendNewer, HistoryInv, HistoryTypes
<1> HIDE DEF rows
<1> QED
    BY <1>1, <1>2, <1>3, MergesKeep

LEMMA CatchUpKeeps ==
    ASSUME HistoryInv, CatchUp
    PROVE  HistoryInv'
<1> DEFINE c == Coin(Daily)
           window == {t \in Listing[c] : Since(c) <= t /\ t <= started[Daily]}
           Caught(upto) == [t \in {u \in window : u <= upto} |-> IF t = minute THEN "part" ELSE "real"]
<1>1. /\ threadAt[Daily] = "coin"
      /\ \E upto : IF DOMAIN Caught(upto) = {} THEN CoinDone(Daily)
                   ELSE /\ threadAt' = [threadAt EXCEPT ![Daily] = "latest"]
                        /\ fetched' = [fetched EXCEPT ![Daily] = Caught(upto)]
                        /\ UNCHANGED <<todoCoins, existing, progress, outcome>>
      /\ UNCHANGED <<minute, priced, files, cursor, started, stop, bounds,
                     skipped, revived, clashed>>
    BY DEF CatchUp
<1>2. PICK upto : IF DOMAIN Caught(upto) = {} THEN CoinDone(Daily)
                  ELSE /\ threadAt' = [threadAt EXCEPT ![Daily] = "latest"]
                       /\ fetched' = [fetched EXCEPT ![Daily] = Caught(upto)]
                       /\ UNCHANGED <<todoCoins, existing, progress, outcome>>
    BY <1>1
<1> DEFINE rows == Caught(upto)
<1>3. rows \in Candles
    <2>1. c \in Coins
        BY <1>1, Threads, CoinIs DEF HistoryInv
    <2>2. Listing[c] \subseteq Minutes
        BY <2>1, HistoryAssumption
    <2> DEFINE ts == {u \in window : u <= upto}
    <2>3. ts \subseteq Minutes
        BY <2>2
    <2> HIDE DEF ts
    <2>4. DOMAIN rows = ts /\ rows \in [ts -> Kinds]
        BY DEF Kinds, ts
    <2> HIDE DEF rows
    <2> QED
        BY <2>3, <2>4, CandlesAre
<1>4. \/ DOMAIN rows = {} /\ CoinDone(Daily)
      \/ /\ threadAt' = [threadAt EXCEPT ![Daily] = "latest"]
         /\ fetched' = [fetched EXCEPT ![Daily] = rows]
         /\ UNCHANGED <<todoCoins, existing, progress, outcome>>
    BY <1>2
<1> HIDE DEF rows
<1>5. CASE DOMAIN rows = {} /\ CoinDone(Daily)
    <2>1. MergeRows(Daily, rows)
        BY <1>5 DEF MergeRows
    <2>2. cursor' \in [Pulls -> Minutes] /\ \A q \in Pulls \ {Daily} : cursor'[q] = cursor[q]
        BY <1>1 DEF HistoryInv, HistoryTypes
    <2> QED
        BY <1>1, <1>3, <2>1, <2>2, Threads, MergesKeep
<1>6. CASE /\ threadAt' = [threadAt EXCEPT ![Daily] = "latest"]
           /\ fetched' = [fetched EXCEPT ![Daily] = rows]
           /\ UNCHANGED <<todoCoins, existing, progress, outcome>>
    <2>1. HistoryTypes'
        BY <1>1, <1>3, <1>6 DEF HistoryInv, HistoryTypes, Points, files
    <2>2. /\ threadAt'[Daily] = "latest"
          /\ \A x \in Writers \ {Daily} : threadAt'[x] = threadAt[x] /\ fetched'[x] = fetched[x]
        BY <1>6, Threads DEF HistoryInv, HistoryTypes
    <2>3. OnlyMoves(Daily)
        BY <1>1, <1>6, <2>2, Threads DEF OnlyMoves
    <2>4. Working(Daily)'
        BY <1>1, <1>6, <2>2, Threads DEF HistoryInv, ThreadInv, Working
    <2> QED
        BY <1>1, <2>1, <2>2, <2>3, <2>4, Threads, OneThread
<1> QED
    BY <1>4, <1>5, <1>6

LEMMA RenameFailsKeeps ==
    ASSUME HistoryInv, NEW w \in Writers, RenameFails(w)
    PROVE  HistoryInv'
<1>1. /\ threadAt' = [threadAt EXCEPT ![w] = "idle"]
      /\ todoCoins' = [todoCoins EXCEPT ![w] = <<>>]
      /\ fetched' = [fetched EXCEPT ![w] = NoCandles]
      /\ existing' = [existing EXCEPT ![w] = NoCandles]
      /\ outcome' = IF w \in Pulls THEN [outcome EXCEPT ![w] = "failed"] ELSE outcome
      /\ UNCHANGED <<minute, priced, files, cursor, started, stop, skipped, revived, clashed>>
    BY DEF RenameFails
<1>2. HistoryTypes'
    <2>1. outcome' \in [Pulls -> {"none", "done", "cancelled", "failed"}]
        BY <1>1 DEF HistoryInv, HistoryTypes
    <2> QED
        BY <1>1, <2>1, NoCandlesAre DEF HistoryInv, HistoryTypes, Points, files
<1>3. /\ threadAt'[w] = "idle" /\ fetched'[w] = NoCandles
      /\ w \in Pulls => outcome'[w] = "failed"
      /\ \A x \in Writers \ {w} :
           /\ threadAt'[x] = threadAt[x] /\ todoCoins'[x] = todoCoins[x]
           /\ fetched'[x] = fetched[x] /\ existing'[x] = existing[x]
      /\ \A q \in Pulls \ {w} : outcome'[q] = outcome[q]
    BY <1>1 DEF HistoryInv, HistoryTypes
<1>4. OnlyMoves(w)
    BY <1>1, <1>3, Threads DEF OnlyMoves
<1>5. Working(w)'
    BY <1>1, <1>3, NoCandlesAre DEF HistoryInv, ThreadInv, Working
<1>6. w \in Pulls => PullSound(w)'
    BY <1>3 DEF PullSound
<1> QED
    BY <1>1, <1>2, <1>3, <1>4, <1>5, <1>6, OneThread

LEMMA MinutePassesKeeps ==
    ASSUME HistoryInv, MinutePasses
    PROVE  HistoryInv'
<1>1. /\ minute < MaxMinute /\ minute' = minute + 1
      /\ UNCHANGED <<files, threadAt, memory, stop, outcome, skipped, revived, clashed>>
    BY DEF MinutePasses
<1>2. minute \in Minutes /\ minute' \in Minutes /\ minute \in Nat /\ minute' \in Nat
    BY <1>1, HistoryAssumption DEF HistoryInv, HistoryTypes, Minutes
<1>3. priced' \in [Coins -> SUBSET Minutes]
    BY <1>2 DEF MinutePasses, HistoryInv, HistoryTypes
<1>4. HistoryTypes'
    BY <1>1, <1>2, <1>3 DEF HistoryInv, HistoryTypes, files, memory
<1>5. ThreadInv'
    <2>1. \A w \in Writers : started[w] \in Nat
        BY DEF HistoryInv, HistoryTypes, Minutes
    <2> QED
        BY <1>1, <1>2, <2>1 DEF HistoryInv, ThreadInv, Working, memory
<1>6. MergeInv'
    BY <1>1 DEF HistoryInv, MergeInv, MergesAlone, Merging, MergedMonth, Combined, Coin,
                ReadTable, files, memory
<1>7. PullInv'
    <2>1. StoredGrows
        BY <1>1, FilesStay DEF files
    <2>2. ASSUME NEW p \in Pulls, p \notin skipped' \union revived', ~clashed'
          PROVE  PullSound(p)'
        <3>1. minute <= minute'
            BY <1>1, <1>2
        <3>2. /\ threadAt'[p] = threadAt[p] /\ todoCoins'[p] = todoCoins[p]
              /\ fetched'[p] = fetched[p] /\ started'[p] = started[p]
              /\ cursor'[p] = cursor[p] /\ outcome'[p] = outcome[p]
              /\ stop' = stop /\ skipped' = skipped /\ revived' = revived /\ clashed' = clashed
            BY <1>1 DEF memory
        <3> QED
            BY <1>2, <2>1, <2>2, <3>1, <3>2, PullStays
    <2> QED
        BY <2>2 DEF PullInv
<1> QED
    BY <1>4, <1>5, <1>6, <1>7 DEF HistoryInv

LEMMA WorkerGoneKeeps ==
    ASSUME HistoryInv, WorkerGone
    PROVE  HistoryInv'
<1>1. /\ threadAt' = [w \in Writers |-> "idle"] /\ todoCoins' = [w \in Writers |-> <<>>]
      /\ fetched' = [w \in Writers |-> NoCandles] /\ existing' = [w \in Writers |-> NoCandles]
      /\ cursor' = [w \in Pulls |-> 0] /\ stop' = FALSE
      /\ UNCHANGED <<minute, priced, files, started, outcome, skipped, revived, clashed>>
    BY DEF WorkerGone
<1>2. HistoryTypes'
    <2>1. 0 \in Minutes
        BY HistoryAssumption DEF Minutes
    <2>2. todoCoins' \in [Writers -> Seq(Coins)]
        BY <1>1
    <2> QED
        BY <1>1, <2>1, <2>2, NoCandlesAre DEF HistoryInv, HistoryTypes, Points, files
<1>3. ThreadInv'
    BY <1>1, NoCandlesAre DEF HistoryInv, ThreadInv, Working
<1>4. MergeInv'
    BY <1>1 DEF MergeInv
<1>5. PullInv'
    <2>1. \A p \in Pulls : threadAt'[p] = "idle"
        BY <1>1, Threads
    <2>2. \A p \in Pulls : PullSound(p) => PullSound(p)'
        BY <1>1, <2>1 DEF PullSound, Covered, Stored, ReadTable, files
    <2> QED
        BY <1>1, <2>2 DEF HistoryInv, PullInv
<1> QED
    BY <1>2, <1>3, <1>4, <1>5 DEF HistoryInv

\* A page holds every candle of its window that has at most Page minutes before it.
LEMMA KlinesHave ==
    ASSUME HistoryTypes, NEW c \in Coins, NEW from \in Int, NEW to \in Nat, to <= minute
    PROVE  LET page == Klines(c, from, to)
           IN  /\ page \in Candles
               /\ DOMAIN page \subseteq {t \in Listing[c] : from <= t /\ t <= to}
               /\ \A t \in Listing[c] :
                    from <= t /\ t <= to /\ (t < from + Page \/ t < Page) => t \in DOMAIN page
<1> DEFINE window == {t \in Listing[c] : from <= t /\ t <= to /\ t <= minute}
           ts == {t \in window : Cardinality({u \in window : u <= t}) <= Page}
           page == Klines(c, from, to)
<1>1. Listing[c] \subseteq Minutes /\ Page \in Nat
    BY HistoryAssumption
<1>2. DOMAIN page = ts /\ page \in [ts -> Kinds]
    BY DEF Klines, Kinds
<1>3. page \in Candles
    <2>1. ts \subseteq Minutes
        BY <1>1
    <2> HIDE DEF page, ts
    <2> QED
        BY <1>2, <2>1, CandlesAre
<1>4. ts \subseteq {t \in Listing[c] : from <= t /\ t <= to}
    OBVIOUS
<1>5. ASSUME NEW t \in Listing[c], from <= t, t <= to, t < from + Page \/ t < Page
      PROVE  t \in ts
    <2>1. t \in Nat /\ minute \in Nat
        BY <1>1 DEF HistoryTypes, Minutes
    <2>2. t \in window
        BY <1>5, <2>1
    <2> DEFINE before == {u \in window : u <= t}
               low == IF t < Page THEN 0 ELSE from
               all == low .. t
    <2>3. before \subseteq all
        BY <1>1, <2>1 DEF Minutes
    <2>4. IsFiniteSet(all) /\ Cardinality(all) = t - low + 1
        <3>1. low \in Int /\ low <= t
            BY <1>5, <2>1
        <3> HIDE DEF low
        <3>2. IsFiniteSet(low .. t) /\ Cardinality(low .. t) = IF low > t THEN 0 ELSE t - low + 1
            BY <2>1, <3>1, FS_Interval
        <3> QED
            BY <2>1, <3>1, <3>2
    <2> HIDE DEF before, all
    <2>5. IsFiniteSet(before) /\ Cardinality(before) <= Cardinality(all)
        BY <2>3, <2>4, FS_Subset
    <2>6. Cardinality(before) \in Nat
        BY <2>5, FS_CardinalityType
    <2>7. Cardinality(before) <= Page
        BY <1>1, <1>5, <2>1, <2>4, <2>5, <2>6
    <2> QED
        BY <2>2, <2>7 DEF before
<1> QED
    BY <1>2, <1>3, <1>4, <1>5

\* Paging back: a page is never empty while there is more, so a pull that stops by
\* itself holds all there was.
LEMMA PageBackKeeps ==
    ASSUME HistoryInv, NEW p \in Pulls, PageBack(p)
    PROVE  HistoryInv'
<1> DEFINE end == cursor[p]
           from == IF DOMAIN fetched[p] = {} THEN end - Page + 1 ELSE end - Page
           page == Klines(Coin(p), from, end)
           earliest == Min(DOMAIN page)
           both == Overlaid(page, fetched[p])
<1>1. /\ threadAt[p] = "page" /\ ~stop
      /\ \/ DOMAIN page = {} /\ MergeRows(p, fetched[p]) /\ NoCursor(p)
         \/ /\ DOMAIN page # {} /\ earliest >= end /\ DOMAIN fetched[p] # {}
            /\ MergeRows(p, both) /\ NoCursor(p)
         \/ /\ DOMAIN page # {}
            /\ fetched' = [fetched EXCEPT ![p] = both]
            /\ cursor' = [cursor EXCEPT ![p] = earliest]
            /\ UNCHANGED <<threadAt, todoCoins, existing, outcome>>
      /\ UNCHANGED <<minute, priced, files, started, stop, skipped, revived, clashed>>
    BY DEF PageBack
<1>2. /\ p \in Writers /\ Coin(p) \in Coins /\ fetched[p] \in Candles
      /\ end \in Minutes /\ end \in Nat /\ minute \in Nat /\ started[p] \in Nat
      /\ Page \in Nat \ {0}
    <2>1. p \in Writers
        BY Threads
    <2>2. Coin(p) \in Coins
        BY <1>1, <2>1, CoinIs DEF HistoryInv
    <2>3. Page \in Nat \ {0} /\ MaxMinute \in Nat
        BY HistoryAssumption
    <2> QED
        BY <2>1, <2>2, <2>3 DEF HistoryInv, HistoryTypes, Minutes
<1>3. from \in Int
    BY <1>2
<1>4. ASSUME end <= minute
      PROVE  /\ page \in Candles
             /\ DOMAIN page \subseteq {t \in Listing[Coin(p)] : from <= t /\ t <= end}
             /\ \A t \in Listing[Coin(p)] :
                  from <= t /\ t <= end /\ (t < from + Page \/ t < Page) => t \in DOMAIN page
    <2> HIDE DEF from, end
    <2> QED
        BY <1>2, <1>3, <1>4, KlinesHave DEF HistoryInv
<1>5. Listing[Coin(p)] \subseteq Nat
    BY <1>2, HistoryAssumption DEF Minutes
<1>6. page \in Candles
    <2>1. DOMAIN page \subseteq Minutes /\ page \in [DOMAIN page -> Kinds]
        BY <1>2, HistoryAssumption DEF Klines, Kinds
    <2> HIDE DEF page
    <2> QED
        BY <2>1, CandlesAre
<1>7. both \in Candles /\ DOMAIN both = (DOMAIN page) \union (DOMAIN fetched[p])
    <2> HIDE DEF page
    <2> QED
        BY <1>2, <1>6, OverlaidIs
<1>8. DOMAIN page # {} => earliest \in DOMAIN page /\ (\A t \in DOMAIN page : earliest <= t)
    <2>1. DOMAIN page \in SUBSET Nat
        <3> HIDE DEF page
        <3> QED
            BY <1>6, CandlesHave DEF Minutes
    <2> HIDE DEF page
    <2> QED
        BY <2>1, MinIs
<1> DEFINE held == Listing[Coin(p)] \intersect (0 .. started[p])
<1>9. ASSUME PagedBack(p)
      PROVE  /\ DOMAIN page # {}
             /\ earliest >= end /\ DOMAIN fetched[p] # {} => held \subseteq DOMAIN both
             /\ Listing[Coin(p)] \intersect (earliest .. started[p]) \subseteq DOMAIN both
             /\ earliest <= minute
    <2>1. end <= minute
        BY <1>9 DEF PagedBack
    <2>2. /\ DOMAIN page \subseteq {t \in Listing[Coin(p)] : from <= t /\ t <= end}
          /\ \A t \in Listing[Coin(p)] :
               from <= t /\ t <= end /\ (t < from + Page \/ t < Page) => t \in DOMAIN page
        BY <1>4, <2>1
    <2>3. /\ DOMAIN fetched[p] = {} => from = end - Page + 1 /\ started[p] <= end
          /\ DOMAIN fetched[p] # {} =>
               /\ from = end - Page
               /\ Listing[Coin(p)] \intersect (end .. started[p]) \subseteq DOMAIN fetched[p]
        BY <1>9 DEF PagedBack
    <2>4. \A t \in Minutes : \E u \in Listing[Coin(p)] : t - Page < u /\ u <= t
        BY <1>2, HistoryAssumption
    <2> HIDE DEF from, page, both
    <2>5. ASSUME DOMAIN fetched[p] # {}, end # 0
          PROVE  \E u \in DOMAIN page : u < end
        <3>1. end - 1 \in Minutes
            <4>1. MaxMinute \in Nat
                BY HistoryAssumption
            <4> QED
                BY <1>2, <2>5, <4>1 DEF Minutes
        <3>2. PICK u \in Listing[Coin(p)] : end - 1 - Page < u /\ u <= end - 1
            BY <2>4, <3>1
        <3>3. u \in Nat
            BY <1>5
        <3> QED
            BY <1>2, <2>2, <2>3, <2>5, <3>2, <3>3
    <2>6. DOMAIN page # {}
        <3>1. PICK u \in Listing[Coin(p)] : end - Page < u /\ u <= end
            BY <1>2, <2>4
        <3>2. u \in Nat
            BY <1>5
        <3>3. CASE DOMAIN fetched[p] = {}
            BY <1>2, <2>2, <2>3, <3>1, <3>2, <3>3
        <3>4. CASE DOMAIN fetched[p] # {} /\ end # 0
            BY <2>5, <3>4
        <3>5. CASE DOMAIN fetched[p] # {} /\ end = 0
            BY <1>2, <2>2, <2>3, <3>1, <3>2, <3>5
        <3> QED
            BY <3>3, <3>4, <3>5
    <2>7. earliest \in DOMAIN page /\ (\A t \in DOMAIN page : earliest <= t)
        BY <1>8, <2>6
    <2>8. earliest \in Nat /\ from <= earliest /\ earliest <= end
        BY <1>5, <2>2, <2>7
    <2> HIDE DEF earliest
    <2>9. earliest <= minute
        BY <1>2, <2>1, <2>8
    <2>10. ASSUME NEW t \in Listing[Coin(p)], earliest <= t, t <= started[p]
           PROVE  t \in DOMAIN both
        <3>1. t \in Nat
            BY <1>5
        <3>2. CASE DOMAIN fetched[p] = {}
            BY <1>2, <1>3, <1>7, <2>2, <2>3, <2>8, <2>10, <3>1, <3>2
        <3>3. CASE DOMAIN fetched[p] # {} /\ t >= end
            BY <1>2, <1>7, <2>3, <2>10, <3>1, <3>3
        <3>4. CASE DOMAIN fetched[p] # {} /\ t < end
            BY <1>2, <1>3, <1>7, <2>2, <2>3, <2>8, <2>10, <3>1, <3>4
        <3> QED
            BY <1>2, <3>1, <3>2, <3>3, <3>4
    <2>11. ASSUME earliest >= end, DOMAIN fetched[p] # {} PROVE held \subseteq DOMAIN both
        <3>1. end = 0
            BY <1>2, <1>5, <2>2, <2>5, <2>7, <2>8, <2>11
        <3> QED
            BY <1>2, <1>5, <2>8, <2>10, <3>1
    <2> QED
        BY <1>5, <2>6, <2>8, <2>9, <2>10, <2>11
<1>10. p \notin skipped' \union revived' /\ ~clashed' => PullSound(p) /\ PagedBack(p)
    BY <1>1 DEF HistoryInv, PullInv, PullSound
<1> HIDE DEF page, both, from, earliest
<1>11. CASE DOMAIN page = {} /\ MergeRows(p, fetched[p]) /\ NoCursor(p)
    <2>1. cursor' \in [Pulls -> Minutes] /\ \A q \in Pulls \ {p} : cursor'[q] = cursor[q]
        BY <1>11, CursorsAre
    <2>2. p \notin skipped' \union revived /\ ~clashed => FALSE
        BY <1>1, <1>9, <1>10, <1>11
    <2> QED
        BY <1>1, <1>2, <1>11, <2>1, <2>2, MergesKeep
<1>12. CASE /\ DOMAIN page # {} /\ earliest >= end /\ DOMAIN fetched[p] # {}
            /\ MergeRows(p, both) /\ NoCursor(p)
    <2>1. cursor' \in [Pulls -> Minutes] /\ \A q \in Pulls \ {p} : cursor'[q] = cursor[q]
        BY <1>12, CursorsAre
    <2>2. p \notin skipped' \union revived /\ ~clashed =>
            Listing[Coin(p)] \intersect (0 .. started[p]) \subseteq Stored(Coin(p)) \union DOMAIN both
        BY <1>1, <1>9, <1>10, <1>12
    <2> QED
        BY <1>1, <1>2, <1>7, <1>12, <2>1, <2>2, MergesKeep
<1>13. CASE /\ DOMAIN page # {}
            /\ fetched' = [fetched EXCEPT ![p] = both]
            /\ cursor' = [cursor EXCEPT ![p] = earliest]
            /\ UNCHANGED <<threadAt, todoCoins, existing, outcome>>
    <2>1. earliest \in Minutes
        BY <1>6, <1>8, <1>13, CandlesHave
    <2>2. HistoryTypes'
        BY <1>1, <1>2, <1>7, <1>13, <2>1 DEF HistoryInv, HistoryTypes, files
    <2>3. /\ fetched'[p] = both /\ cursor'[p] = earliest
          /\ \A x \in Writers \ {p} : fetched'[x] = fetched[x]
          /\ \A q \in Pulls \ {p} : cursor'[q] = cursor[q]
        BY <1>2, <1>13 DEF HistoryInv, HistoryTypes
    <2>4. OnlyMoves(p)
        BY <1>1, <1>13, <2>3, Threads DEF OnlyMoves
    <2>5. Working(p)'
        BY <1>1, <1>2, <1>13 DEF HistoryInv, ThreadInv, Working
    <2>6. ASSUME p \notin skipped' \union revived', ~clashed' PROVE PullSound(p)'
        <3>1. PullSound(p) /\ PagedBack(p)
            BY <1>10, <2>6
        <3>2. DOMAIN both # {}
            BY <1>7, <1>13
        <3>3. PagedBack(p)'
            <4>1. Coin(p)' = Coin(p)
                BY <1>13 DEF Coin
            <4>2. cursor'[p] <= minute'
                BY <1>1, <1>9, <2>3, <3>1
            <4>3. Listing[Coin(p)'] \intersect (cursor'[p] .. started'[p]) \subseteq DOMAIN fetched'[p]
                BY <1>1, <1>9, <2>3, <3>1, <4>1
            <4>4. DOMAIN fetched'[p] # {}
                BY <2>3, <3>2
            <4> QED
                BY <4>2, <4>3, <4>4 DEF PagedBack
        <3>4. \A c \in Coins : Covered(p, c) <=> Covered(p, c)'
            BY <1>1 DEF Covered, Stored, ReadTable, files
        <3> QED
            BY <1>1, <1>13, <3>1, <3>3, <3>4 DEF PullSound
    <2>7. threadAt'[p] \notin {"write", "rename"}
        BY <1>1, <1>13
    <2> QED
        BY <1>1, <1>2, <2>2, <2>4, <2>5, <2>6, <2>7, OneThread
<1> QED
    BY <1>1, <1>11, <1>12, <1>13

\* What a thread that merges is at.
LEMMA MergesMonth ==
    ASSUME HistoryInv, NEW w \in Writers, threadAt[w] \in {"read", "write", "rename"}
    PROVE  /\ Coin(w) \in Coins /\ MergedMonth(w) \in Months
           /\ fetched[w] \in Candles /\ existing[w] \in Candles
           /\ Combined(w) \in Candles
           /\ DOMAIN Combined(w) =
                DOMAIN existing[w] \union {t \in DOMAIN fetched[w] : Month(t) = MergedMonth(w)}
<1>1. Coin(w) \in Coins
    BY CoinIs DEF HistoryInv
<1>2. MergedMonth(w) \in Months
    BY MergedMonthIs DEF HistoryInv, ThreadInv, Working
<1>3. fetched[w] \in Candles /\ existing[w] \in Candles
    BY DEF HistoryInv, HistoryTypes
<1>4. /\ InMonth(fetched[w], MergedMonth(w)) \in Candles
      /\ DOMAIN InMonth(fetched[w], MergedMonth(w)) = {t \in DOMAIN fetched[w] : Month(t) = MergedMonth(w)}
    BY <1>3, InMonthIs
<1>5. /\ Combined(w) \in Candles
      /\ DOMAIN Combined(w) = (DOMAIN InMonth(fetched[w], MergedMonth(w))) \union (DOMAIN existing[w])
    BY <1>3, <1>4, OverlaidIs DEF Combined
<1> QED
    BY <1>1, <1>2, <1>3, <1>4, <1>5

LEMMA TablesAre ==
    ASSUME NEW f \in Files
    PROVE  ReadTable(f) \in Candles
BY DEF Files, ReadTable

LEMMA ReadMonthKeeps ==
    ASSUME HistoryInv, NEW w \in Writers, ReadMonth(w)
    PROVE  HistoryInv'
<1> DEFINE c == Coin(w)
           m == MergedMonth(w)
<1>1. /\ threadAt[w] = "read" /\ threadAt' = [threadAt EXCEPT ![w] = "write"]
      /\ existing' = [existing EXCEPT ![w] = ReadTable(file[c][m])]
      /\ clashed' = (clashed \/ Merging(c, m) # {})
      /\ UNCHANGED <<minute, priced, files, todoCoins, fetched, cursor, started, stop,
                     outcome, skipped, revived>>
    BY DEF ReadMonth, Move
<1>2. c \in Coins /\ m \in Months
    BY <1>1, MergesMonth
<1> HIDE DEF c, m
<1>3. file[c][m] \in Files
    BY <1>2 DEF HistoryInv, HistoryTypes
<1>4. ReadTable(file[c][m]) \in Candles
    BY <1>3, TablesAre
<1>5. HistoryTypes'
    BY <1>1, <1>4 DEF HistoryInv, HistoryTypes, Points, files
<1>6. /\ threadAt'[w] = "write" /\ existing'[w] = ReadTable(file[c][m])
      /\ \A x \in Writers \ {w} : threadAt'[x] = threadAt[x] /\ existing'[x] = existing[x]
    BY <1>1 DEF HistoryInv, HistoryTypes
<1>7. OnlyMoves(w)
    BY <1>1, <1>6, Threads DEF OnlyMoves
<1>8. StoredGrows
    BY <1>1, FilesStay DEF files
<1>9. /\ \A x \in Writers \ {w} : Working(x)'
      /\ \A p \in Pulls \ {w} : p \notin skipped' \union revived' /\ ~clashed' => PullSound(p)'
    BY <1>5, <1>7, <1>8, OthersStay
<1>10. Working(w)'
    BY <1>1, <1>6 DEF HistoryInv, ThreadInv, Working
<1>11. \A x \in Writers : Coin(x)' = Coin(x) /\ MergedMonth(x)' = MergedMonth(x)
    BY <1>1 DEF Coin, MergedMonth
<1>12. ASSUME ~clashed', NEW x \in Writers, threadAt'[x] \in {"write", "rename"}
       PROVE  MergesAlone(x)'
    <2>1. ~clashed /\ Merging(c, m) = {}
        BY <1>1, <1>12 DEF HistoryInv, HistoryTypes
    <2>2. CASE x = w
        <3>1. Merging(Coin(w), MergedMonth(w))' = {w}
            <4>1. \A y \in Writers : y \in Merging(Coin(w), MergedMonth(w))' <=>
                    threadAt'[y] \in {"write", "rename"} /\ Coin(y) = c /\ MergedMonth(y) = m
                BY <1>11 DEF Merging, c, m
            <4>2. \A y \in Writers : ~(threadAt[y] \in {"write", "rename"} /\ Coin(y) = c
                                       /\ MergedMonth(y) = m)
                BY <2>1 DEF Merging
            <4>3. Merging(Coin(w), MergedMonth(w))' \subseteq Writers
                BY DEF Merging
            <4>4. w \in Merging(Coin(w), MergedMonth(w))'
                BY <1>6, <4>1 DEF c, m
            <4>5. \A y \in Writers \ {w} : y \notin Merging(Coin(w), MergedMonth(w))'
                BY <1>6, <4>1, <4>2
            <4> QED
                BY <4>3, <4>4, <4>5
        <3>2. ReadTable(file[Coin(w)][MergedMonth(w)])' = ReadTable(file[c][m])
            BY <1>1, <1>11 DEF ReadTable, c, m, files
        <3> QED
            BY <1>6, <2>2, <3>1, <3>2 DEF MergesAlone
    <2>3. CASE x # w
        <3>1. threadAt[x] \in {"write", "rename"} /\ x \notin Merging(c, m)
            BY <1>6, <1>12, <2>1, <2>3
        <3>2. Coin(x) # c \/ MergedMonth(x) # m
            BY <3>1 DEF Merging
        <3>3. Coin(w)' # Coin(x) \/ MergedMonth(w)' # MergedMonth(x)
            BY <1>11, <3>2 DEF c, m
        <3> QED
            BY <1>1, <1>7, <1>12, <2>3, <3>3, OthersMerge DEF files
    <2> QED
        BY <2>2, <2>3
<1>13. ASSUME w \in Pulls, w \notin skipped' \union revived', ~clashed' PROVE PullSound(w)'
    <2>1. PullSound(w)
        BY <1>1, <1>13 DEF HistoryInv, PullInv
    <2>2. \A d \in Coins : Covered(w, d) <=> Covered(w, d)'
        BY <1>1 DEF Covered, Stored, ReadTable, files
    <2>3. Stored(Coin(w))' = Stored(Coin(w))
        BY <1>1, <1>11 DEF Stored, ReadTable, files
    <2> QED
        BY <1>1, <1>6, <1>11, <2>1, <2>2, <2>3 DEF PullSound
<1>14. ThreadInv' /\ MergeInv' /\ PullInv'
    BY <1>9, <1>10, <1>12, <1>13 DEF ThreadInv, MergeInv, PullInv
<1> QED
    BY <1>5, <1>14 DEF HistoryInv

LEMMA WriteTemporaryKeeps ==
    ASSUME HistoryInv, NEW w \in Writers, WriteTemporary(w)
    PROVE  HistoryInv'
<1> DEFINE c == Coin(w)
           m == MergedMonth(w)
<1>1. PICK f \in {Whole(Combined(w))} \union (IF Merging(c, m) = {w} THEN {} ELSE {TornFile}) :
        tmpFile' = [tmpFile EXCEPT ![c][m] = f]
    BY DEF WriteTemporary
<1>2. /\ threadAt[w] = "write" /\ threadAt' = [threadAt EXCEPT ![w] = "rename"]
      /\ UNCHANGED <<minute, priced, file, memory, stop, outcome, skipped, revived, clashed>>
    BY DEF WriteTemporary, Move
<1>3. c \in Coins /\ m \in Months /\ Combined(w) \in Candles
    BY <1>2, MergesMonth
<1> HIDE DEF c, m
<1>4. f \in Files
    <2>1. Whole(Combined(w)) \in Files
        BY <1>3 DEF Whole, Files
    <2>2. TornFile \in Files
        BY NoCandlesAre DEF TornFile, Files
    <2> QED
        BY <2>1, <2>2
<1>5. tmpFile' \in [Coins -> [Months -> Files]] /\ tmpFile'[c][m] = f
    BY <1>1, <1>3, <1>4 DEF HistoryInv, HistoryTypes
<1>6. \A d \in Coins, n \in Months : d # c \/ n # m => tmpFile'[d][n] = tmpFile[d][n]
    BY <1>1, <1>3 DEF HistoryInv, HistoryTypes
<1>7. HistoryTypes'
    BY <1>2, <1>5 DEF HistoryInv, HistoryTypes, Points, memory
<1>8. /\ threadAt'[w] = "rename"
      /\ \A x \in Writers \ {w} : threadAt'[x] = threadAt[x]
    BY <1>2 DEF HistoryInv, HistoryTypes
<1>9. OnlyMoves(w)
    BY <1>2, <1>8, Threads DEF OnlyMoves, memory
<1>10. StoredGrows
    BY <1>2, FilesStay
<1>11. /\ \A x \in Writers \ {w} : Working(x)'
       /\ \A p \in Pulls \ {w} : p \notin skipped' \union revived' /\ ~clashed' => PullSound(p)'
    BY <1>7, <1>9, <1>10, OthersStay
<1>12. Working(w)'
    BY <1>2, <1>8 DEF HistoryInv, ThreadInv, Working, memory
<1>13. \A x \in Writers : Coin(x)' = Coin(x) /\ MergedMonth(x)' = MergedMonth(x)
    BY <1>2 DEF Coin, MergedMonth, memory
<1>14. ASSUME ~clashed', NEW x \in Writers, threadAt'[x] \in {"write", "rename"}
       PROVE  MergesAlone(x)'
    <2>1. MergesAlone(w)
        BY <1>2, <1>14 DEF HistoryInv, MergeInv
    <2>2. CASE x = w
        <3>1. Merging(Coin(w), MergedMonth(w))' = {w}
            <4>1. \A y \in Writers : y \in Merging(Coin(w), MergedMonth(w))' <=>
                    threadAt'[y] \in {"write", "rename"} /\ Coin(y) = c /\ MergedMonth(y) = m
                BY <1>13 DEF Merging, c, m
            <4>2. \A y \in Writers : y \in Merging(Coin(w), MergedMonth(w)) <=>
                    threadAt[y] \in {"write", "rename"} /\ Coin(y) = c /\ MergedMonth(y) = m
                BY DEF Merging, c, m
            <4>3. Merging(Coin(w), MergedMonth(w))' \subseteq Writers
                BY DEF Merging
            <4>4. Merging(Coin(w), MergedMonth(w)) = {w}
                BY <2>1 DEF MergesAlone
            <4>5. \A y \in Writers : y \in Merging(Coin(w), MergedMonth(w))' <=> y = w
                BY <1>2, <1>8, <4>1, <4>2, <4>4
            <4> QED
                BY <4>3, <4>5
        <3>2. ReadTable(file[Coin(w)][MergedMonth(w)])' = ReadTable(file[Coin(w)][MergedMonth(w)])
            BY <1>2, <1>13 DEF ReadTable
        <3>3. f = Whole(Combined(w))
            BY <1>1, <2>1 DEF MergesAlone, c, m
        <3>4. Combined(w)' = Combined(w) /\ existing' = existing
            BY <1>2 DEF Combined, MergedMonth, memory
        <3>5. ReadTable(tmpFile[Coin(w)][MergedMonth(w)])' = Combined(w)
            BY <1>5, <1>13, <3>3 DEF ReadTable, Whole, c, m
        <3> QED
            BY <2>1, <2>2, <3>1, <3>2, <3>4, <3>5 DEF MergesAlone
    <2>3. CASE x # w
        <3>1. threadAt[x] \in {"write", "rename"}
            BY <1>8, <1>14, <2>3
        <3>2. Coin(x) # c \/ MergedMonth(x) # m
            <4>1. Merging(c, m) = {w}
                BY <2>1 DEF MergesAlone, c, m
            <4> QED
                BY <2>3, <3>1, <4>1 DEF Merging
        <3>3. Coin(x) \in Coins /\ MergedMonth(x) \in Months
            BY <3>1, MergesMonth
        <3>4. Coin(w)' # Coin(x) \/ MergedMonth(w)' # MergedMonth(x)
            BY <1>13, <3>2 DEF c, m
        <3> QED
            BY <1>2, <1>6, <1>9, <1>14, <2>3, <3>2, <3>3, <3>4, OthersMerge
    <2> QED
        BY <2>2, <2>3
<1>15. ASSUME w \in Pulls, w \notin skipped' \union revived', ~clashed' PROVE PullSound(w)'
    <2>1. PullSound(w)
        BY <1>2, <1>15 DEF HistoryInv, PullInv
    <2>2. \A d \in Coins : Covered(w, d) <=> Covered(w, d)'
        BY <1>2 DEF Covered, Stored, ReadTable, memory
    <2>3. Stored(Coin(w))' = Stored(Coin(w))
        BY <1>2, <1>13 DEF Stored, ReadTable
    <2> QED
        BY <1>2, <1>8, <1>13, <2>1, <2>2, <2>3 DEF PullSound, memory
<1>16. ThreadInv' /\ MergeInv' /\ PullInv'
    BY <1>11, <1>12, <1>14, <1>15 DEF ThreadInv, MergeInv, PullInv
<1> QED
    BY <1>7, <1>16 DEF HistoryInv

\* The file that takes the month's name has all that it had, and the merged rows.
LEMMA RenameTemporaryKeeps ==
    ASSUME HistoryInv, NEW w \in Writers, RenameTemporary(w)
    PROVE  HistoryInv'
<1>1. threadAt[w] = "rename"
    BY DEF RenameTemporary
<1>2. PICK c \in Coins : c = Coin(w)
    BY <1>1, MergesMonth
<1>3. PICK m \in Months : m = MergedMonth(w)
    BY <1>1, MergesMonth
<1> DEFINE rest == Only(fetched[w], {t \in Minutes : Month(t) # m})
           merged == {t \in DOMAIN fetched[w] : Month(t) = m}
<1>4. /\ file' = [file EXCEPT ![c][m] = tmpFile[c][m]]
      /\ tmpFile' = [tmpFile EXCEPT ![c][m] = NoFile]
      /\ MergeRows(w, rest)
      /\ UNCHANGED <<minute, priced, cursor, started, stop, skipped, revived, clashed>>
    BY <1>2, <1>3 DEF RenameTemporary
<1>5. fetched[w] \in Candles /\ DOMAIN Combined(w) = DOMAIN existing[w] \union merged
    BY <1>1, <1>3, MergesMonth
<1>6. rest \in Candles /\ DOMAIN rest = {t \in DOMAIN fetched[w] : Month(t) # m}
    <2> DEFINE ts == {t \in Minutes : Month(t) # m}
    <2>1. /\ Only(fetched[w], ts) \in Candles
          /\ DOMAIN Only(fetched[w], ts) = DOMAIN fetched[w] \intersect ts
        <3> HIDE DEF ts
        <3> QED
            BY <1>5, OnlyIs
    <2>2. DOMAIN fetched[w] \subseteq Minutes
        BY <1>5, CandlesHave
    <2> QED
        BY <2>1, <2>2
<1>7. ~clashed => /\ Merging(c, m) = {w}
                  /\ DOMAIN ReadTable(file[c][m]) \subseteq DOMAIN existing[w]
                  /\ DOMAIN Combined(w) \subseteq DOMAIN ReadTable(tmpFile[c][m])
    BY <1>1, <1>2, <1>3 DEF HistoryInv, MergeInv, MergesAlone
<1> HIDE DEF rest
<1>8. /\ file' \in [Coins -> [Months -> Files]] /\ tmpFile' \in [Coins -> [Months -> Files]]
      /\ file'[c][m] = tmpFile[c][m]
      /\ \A d \in Coins, n \in Months :
           d # c \/ n # m => file'[d][n] = file[d][n] /\ tmpFile'[d][n] = tmpFile[d][n]
    <2>1. NoFile \in Files
        BY NoCandlesAre DEF NoFile, Files
    <2> QED
        BY <1>4, <2>1 DEF HistoryInv, HistoryTypes
<1>9. ~clashed => StoredGrows
    <2>1. ASSUME ~clashed, NEW d \in Coins, NEW n \in Months
          PROVE  DOMAIN ReadTable(file[d][n]) \subseteq DOMAIN ReadTable(file'[d][n])
        <3>1. CASE d = c /\ n = m
            BY <1>5, <1>7, <1>8, <2>1, <3>1
        <3>2. CASE d # c \/ n # m
            BY <1>8, <3>2
        <3> QED
            BY <3>1, <3>2
    <2> QED
        BY <2>1 DEF StoredGrows, Stored, ReadTable
<1>10. ~clashed => merged \subseteq Stored(c)'
    <2>1. ASSUME ~clashed PROVE merged \subseteq DOMAIN ReadTable(file'[c][m])
        BY <1>5, <1>7, <1>8, <2>1
    <2>2. DOMAIN ReadTable(file'[c][m]) \subseteq Stored(c)'
        BY DEF Stored, ReadTable
    <2> QED
        BY <2>1, <2>2
<1>11. ASSUME w \in Pulls, w \notin skipped' \union revived, ~clashed, ~stop
       PROVE  Listing[c] \intersect (0 .. started[w]) \subseteq Stored(c)' \union DOMAIN rest
    <2>1. PullSound(w)
        BY <1>4, <1>11 DEF HistoryInv, PullInv
    <2>2. Listing[c] \intersect (0 .. started[w]) \subseteq Stored(c) \union DOMAIN fetched[w]
        BY <1>1, <1>2, <1>11, <2>1 DEF PullSound
    <2>3. Stored(c) \subseteq Stored(c)'
        BY <1>9, <1>11 DEF StoredGrows
    <2> QED
        BY <1>6, <1>10, <1>11, <2>2, <2>3
<1>12. cursor' \in [Pulls -> Minutes] /\ \A q \in Pulls \ {w} : cursor'[q] = cursor[q]
    BY <1>4 DEF HistoryInv, HistoryTypes
<1>13. /\ HistoryTypes' /\ OnlyMoves(w) /\ Working(w)'
       /\ threadAt'[w] \notin {"write", "rename"}
       /\ w \in Pulls /\ w \notin skipped' \union revived' /\ ~clashed' => PullSound(w)'
    BY <1>1, <1>2, <1>4, <1>6, <1>8, <1>9, <1>11, <1>12, MergeRowsKeep
<1>14. /\ \A x \in Writers \ {w} : Working(x)'
       /\ \A p \in Pulls \ {w} : p \notin skipped' \union revived' /\ ~clashed' => PullSound(p)'
    BY <1>4, <1>9, <1>13, OthersStay
<1>15. ASSUME ~clashed', NEW x \in Writers, threadAt'[x] \in {"write", "rename"}
       PROVE  MergesAlone(x)'
    <2>1. x # w /\ threadAt[x] \in {"write", "rename"}
        BY <1>13, <1>15 DEF OnlyMoves
    <2>2. Coin(x) \in Coins /\ MergedMonth(x) \in Months
        BY <2>1, MergesMonth
    <2>3. Coin(x) # c \/ MergedMonth(x) # m
        BY <1>4, <1>7, <1>15, <2>1 DEF Merging
    <2> QED
        BY <1>8, <1>13, <1>15, <2>1, <2>2, <2>3, OthersMerge
<1>16. ThreadInv' /\ MergeInv' /\ PullInv'
    BY <1>13, <1>14, <1>15 DEF ThreadInv, MergeInv, PullInv
<1> QED
    BY <1>13, <1>16 DEF HistoryInv

LEMMA HistoryStep == HistoryInv /\ [HistoryNext]_historyVars => HistoryInv'
<1> SUFFICES ASSUME HistoryInv, [HistoryNext]_historyVars
             PROVE  HistoryInv'
    OBVIOUS
<1>1. CASE \E w \in Writers : ReadMonth(w) \/ WriteTemporary(w) \/ RenameTemporary(w)
    BY <1>1, ReadMonthKeeps, WriteTemporaryKeeps, RenameTemporaryKeeps
<1>2. CASE \E w \in Writers : RenameFails(w) \/ AppendNewer(w)
    BY <1>2, RenameFailsKeeps, AppendNewerKeeps
<1>3. CASE \E p \in Pulls : StartPull(p) \/ Cancel(p) \/ BeginCoin(p)
    BY <1>3, StartPullKeeps, CancelKeeps, BeginCoinKeeps
<1>4. CASE \E p \in Pulls : PageBack(p) \/ GiveUpPage(p) \/ StopPaging(p)
    BY <1>4, PageBackKeeps, StopsKeep
<1>5. CASE StopPull \/ BeginDaily \/ CatchUp \/ RollUp \/ Buckets
    BY <1>5, StopPullKeeps, BeginnersKeep, CatchUpKeeps, BucketsKeep
<1>6. CASE MinutePasses \/ WorkerGone
    BY <1>6, MinutePassesKeeps, WorkerGoneKeeps
<1>7. CASE UNCHANGED historyVars
    <2>1. HistoryTypes' /\ ThreadInv'
        BY <1>7 DEF HistoryInv, HistoryTypes, ThreadInv, Working, historyVars, files, memory
    <2>2. MergeInv'
        BY <1>7 DEF HistoryInv, MergeInv, MergesAlone, Merging, MergedMonth, Combined, Coin,
                    ReadTable, historyVars, files, memory
    <2>3. \A p \in Pulls : PullSound(p) => PullSound(p)'
        BY <1>7 DEF PullSound, PagedBack, Covered, Stored, Coin, ReadTable, historyVars,
                    files, memory
    <2>4. PullInv'
        BY <1>7, <2>3 DEF HistoryInv, PullInv, historyVars
    <2> QED
        BY <2>1, <2>2, <2>4 DEF HistoryInv
<1> QED
    BY <1>1, <1>2, <1>3, <1>4, <1>5, <1>6, <1>7 DEF HistoryNext

\* A pull that reports "done" has stored every candle the exchange had when it
\* began, and they stay stored whatever is merged, rolled up, stopped or killed
\* later (History.DoneMeansStored), for any coins, listing, pages and threads;
\* unless a page of it was given up, its stop taken back or a month merged by two.
THEOREM DoneIsStored == HistorySpec => []DoneMeansStored
<1>1. HistoryInv => DoneMeansStored
    BY DEF HistoryInv, PullInv, PullSound, Covered, DoneMeansStored
<1> QED
    BY <1>1, HistoryStarts, HistoryStep, PTL DEF HistorySpec

\* What HistoryTypeOK says beyond HistoryTypes.
WorkCounted ==
    /\ progress \in {"idle", "running", "done", "cancelled", "failed"}
    /\ starts \in 0 .. MaxStarts /\ deaths \in 0 .. MaxDeaths
    /\ skipped \subseteq Pulls /\ revived \subseteq Pulls

LEMMA WorkIsCounted == WorkCounted /\ [HistoryNext]_historyVars => WorkCounted'
<1> SUFFICES ASSUME WorkCounted, [HistoryNext]_historyVars PROVE WorkCounted'
    OBVIOUS
<1> USE DEF WorkCounted
<1>0. Begins => starts' \in 0 .. MaxStarts
    BY HistoryAssumption DEF Begins
<1>m. ASSUME NEW w \in Writers, NEW rows, MergeRows(w, rows)
      PROVE  progress' \in {"idle", "running", "done", "cancelled", "failed"}
    BY <1>m DEF MergeRows, CoinDone
<1>1. ASSUME NEW w \in Writers, ReadMonth(w) \/ WriteTemporary(w) PROVE WorkCounted'
    BY <1>1 DEF ReadMonth, WriteTemporary, bounds
<1>2. ASSUME NEW w \in Writers, RenameTemporary(w) PROVE WorkCounted'
    BY <1>2, <1>m DEF RenameTemporary, bounds
<1>3. ASSUME NEW w \in Writers, RenameFails(w) PROVE WorkCounted'
    BY <1>3 DEF RenameFails, bounds
<1>4. ASSUME NEW w \in Writers, AppendNewer(w) PROVE WorkCounted'
    BY <1>4, <1>m DEF AppendNewer, bounds
<1>5. ASSUME NEW p \in Pulls, StartPull(p) \/ Cancel(p) \/ BeginCoin(p) PROVE WorkCounted'
    BY <1>0, <1>5 DEF StartPull, Cancel, BeginCoin, bounds
<1>6. ASSUME NEW p \in Pulls, PageBack(p) PROVE WorkCounted'
    <2>1. p \in Writers
        BY DEF Writers
    <2>2. /\ UNCHANGED <<bounds, skipped, revived>>
          /\ (\E rows : MergeRows(p, rows)) \/ UNCHANGED progress
        BY <1>6 DEF PageBack
    <2> QED
        BY <1>m, <2>1, <2>2 DEF bounds
<1>7. ASSUME NEW p \in Pulls, GiveUpPage(p) \/ StopPaging(p) PROVE WorkCounted'
    <2>1. p \in Writers
        BY DEF Writers
    <2> QED
        BY <1>7, <1>m, <2>1 DEF GiveUpPage, StopPaging, bounds
<1>8. ASSUME StopPull \/ BeginDaily \/ RollUp \/ Buckets \/ MinutePasses \/ UNCHANGED historyVars
      PROVE  WorkCounted'
    BY <1>0, <1>8 DEF StopPull, BeginDaily, RollUp, Buckets, MinutePasses, historyVars, bounds
<1>9. ASSUME CatchUp PROVE WorkCounted'
    BY <1>9 DEF CatchUp, CoinDone, bounds
<1>10. ASSUME WorkerGone PROVE WorkCounted'
    BY <1>10, HistoryAssumption DEF WorkerGone
<1> QED
    BY <1>1, <1>2, <1>3, <1>4, <1>5, <1>6, <1>7, <1>8, <1>9, <1>10 DEF HistoryNext

\* The threads of the candle store hold what their types say wherever one of them
\* stops or fails, and its files never hold anything but candles
\* (datastore.DataStore, candlestore.ParquetCandleStore).
THEOREM HistoryTypeCorrect == HistorySpec => []HistoryTypeOK
<1>1. HistoryInit => WorkCounted
    BY HistoryAssumption DEF HistoryInit, WorkCounted
<1>2. HistoryInv /\ WorkCounted => HistoryTypeOK
    BY DEF HistoryInv, HistoryTypes, WorkCounted, HistoryTypeOK
<1> QED
    BY <1>1, <1>2, HistoryStarts, HistoryStep, WorkIsCounted, PTL DEF HistorySpec
===============================================================================
