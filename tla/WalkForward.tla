------------------------------ MODULE WalkForward ------------------------------
(***************************************************************************)
(* What a walk-forward search may see (solopt.frames, solopt.walkforward). *)
(* The bars of each coin are packed to the left, so a column is a coin's   *)
(* n-th bar, whenever that was; a window takes one range of columns from   *)
(* all coins, trades inside its days and follows its trades to their exit. *)
(***************************************************************************)
EXTENDS Integers, Sequences, FiniteSetsExt

CONSTANTS
    Symbols,
    InDays, OutDays, StepDays,  \* in_sample_days and the others
    WarmUp,         \* bars of lead-in a window asks for
    MinCandles,     \* min_candles_required: columns without entries
    Horizon,        \* bars a trade is followed for
    Floored,        \* coins above the universe floors on a day: the snapshots
    MaxDay          \* bound on the history; a bar is a day

ASSUME WalkForwardAssumption ==
    /\ {InDays, OutDays, StepDays, Horizon} \subseteq Nat \ {0}
    /\ {WarmUp, MinCandles, MaxDay} \subseteq Nat
    /\ Floored \in [1 .. MaxDay -> SUBSET Symbols]
    \* the code takes any step; a shorter one tests some days more than once
    /\ OutDays <= StepDays
    \* derive_warmup
    /\ MinCandles <= WarmUp

VARIABLES
    today,
    packed          \* Frames: the bars of a coin, in its columns

walkVars == <<today, packed>>

WalkTypeOK ==
    /\ today \in 0 .. MaxDay
    /\ packed \in [Symbols -> Seq([ts : 1 .. today, eligible : BOOLEAN])]

WalkInit == today = 0 /\ packed = [c \in Symbols |-> <<>>]

\* The history goes on: coins print a bar or none, above the floors or not.
NextDay ==
    /\ today < MaxDay
    /\ today' = today + 1
    /\ \E printing \in SUBSET Symbols :
         packed' = [c \in Symbols |->
                      IF c \in printing
                      THEN Append(packed[c], [ts |-> today + 1,
                                              eligible |-> c \in Floored[today + 1]])
                      ELSE packed[c]]

WalkSpec == WalkInit /\ [][NextDay]_walkVars

----------------------------------------------------------------------------

Days == {b.ts : b \in UNION {{packed[c][i] : i \in DOMAIN packed[c]} : c \in Symbols}}

\* plan_windows: where the windows begin that the history has room for.
WindowStarts ==
    {from \in 1 .. today :
        /\ Days # {}
        /\ from >= Min(Days) /\ (from - Min(Days)) % StepDays = 0
        /\ from + InDays + OutDays <= Max(Days)}

Inside(c, from, to) == {i \in DOMAIN packed[c] : from <= packed[c][i].ts /\ packed[c][i].ts < to}

\* Frames.window: the columns that hold a bar of these days for any coin, and
\* the warm-up before them.
Columns(from, to) ==
    LET cols == UNION {Inside(c, from, to) : c \in Symbols}
    IN  IF cols = {} THEN {} ELSE Max({1, Min(cols) - WarmUp}) .. Max(cols)

Sliced(c, from, to) == Columns(from, to) \intersect DOMAIN packed[c]

\* A bug for the mutants: warm-up bars are as eligible as any.
Unmasked(c, from, to) == {i \in Sliced(c, from, to) : packed[c][i].eligible}

\* Bars that may produce a trade in the window.
Eligible(c, from, to) ==
    {i \in Sliced(c, from, to) : packed[c][i].eligible /\ i \in Inside(c, from, to)}

\* The engine's entries, in a run over these days, and the bars it takes a trade
\* through: to the end of the slice, whatever its day.
Entries(c, from, to) ==
    {i \in Eligible(c, from, to) : i - Min(Columns(from, to)) >= MinCandles}
Seen(c, from, to) ==
    {j \in Sliced(c, from, to) : \E i \in Entries(c, from, to) : i <= j /\ j <= i + Horizon}

\* No coin has printed more bars by then.
Eldest(c, day) == \A d \in Symbols : Cardinality(Inside(d, 0, day)) <= Cardinality(Inside(c, 0, day))

\* No bar a window's test may trade from is one its search has traded from or
\* followed a trade through, for the coin with the most bars; of one with fewer,
\* listed later or with gaps, the search sees days to come (frames.py:104).  No
\* bar is traded from in two tests, and every entry has its warm-up behind it,
\* or all of its coin's history.
SearchConfined ==
    \A from \in WindowStarts : \A c \in Symbols :
        LET test == from + InDays
            entries == Entries(c, test, test + OutDays)
        IN  /\ Eldest(c, test) => entries \intersect Seen(c, from, test) = {}
            /\ \A other \in WindowStarts \ {from} :
                 entries \intersect Entries(c, other + InDays, other + InDays + OutDays) = {}
            /\ \A i \in entries :
                 Max({1, i - WarmUp}) .. i \subseteq Sliced(c, test, test + OutDays)
=============================================================================
