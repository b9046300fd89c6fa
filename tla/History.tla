------------------------------- MODULE History -------------------------------
(***************************************************************************)
(* Candle history (datastore.DataStore over candlestore.ParquetCandleStore *)
(* and BinanceClient's klines): one file per coin and month, merged into   *)
(* by threads of the worker that know nothing of each other: the main loop *)
(* rolls price ticks up into minutes, the daily thread catches up, and any *)
(* number of full pulls page backward through all the exchange has.        *)
(***************************************************************************)
EXTENDS Integers, Sequences, FiniteSetsExt

CONSTANTS
    Pairs,          \* the coins, in the order a pull takes them
    Listing,        \* the minutes the exchange has a candle for, of each coin
    MaxMinute,      \* bound on time
    MonthLength, Page, Lookback, Recent,    \* in minutes
    Pulls,          \* bound on threads that pull all history
    MaxStarts,      \* bound on roll-ups, catch-ups and pulls
    MaxDeaths       \* bound on deaths of the worker

Coins == {Pairs[i] : i \in DOMAIN Pairs}
Minutes == 0 .. MaxMinute
Loop == "loop"
Daily == "daily"
Writers == Pulls \union {Loop, Daily}

ASSUME HistoryAssumption ==
    /\ {MaxStarts, MaxDeaths} \subseteq Nat
    /\ {MaxMinute, MonthLength, Page, Lookback, Recent} \subseteq Nat \ {0}
    /\ {Loop, Daily} \intersect Pulls = {}
    \* without a coin there is nothing to do
    /\ Pairs \in Seq(Coins) /\ Pairs # <<>>
    /\ Listing \in [Coins -> SUBSET Minutes]
    \* trade never stopped for as long as a page of candles
    /\ \A c \in Coins : \A t \in Minutes : \E u \in Listing[c] : t - Page < u /\ u <= t

Month(t) == t \div MonthLength
Months == {Month(t) : t \in Minutes}

\* Candles by minute: built from prices, of a minute still forming, or whole.
Kinds == {"ticks", "part", "real"}
Candles == UNION {[ts -> Kinds] : ts \in SUBSET Minutes}
NoCandles == [t \in {} |-> "real"]

Files == [is : {"absent", "torn", "whole"}, rows : Candles]
NoFile == [is |-> "absent", rows |-> NoCandles]
TornFile == [is |-> "torn", rows |-> NoCandles]
Whole(rows) == [is |-> "whole", rows |-> rows]

VARIABLES
    minute,         \* the minute that is forming
    priced,         \* price_ticks: minutes with a price, of each coin
    file, tmpFile,  \* of a coin and month
    threadAt,       \* where a thread is
    todoCoins,      \* coins it has still to do, the first being the one it is at
    fetched,        \* candles of that coin it holds in memory
    existing,       \* what it read of that month's file
    cursor,         \* the end of a pull's next page
    started,        \* the minute the thread began at
    stop,           \* Engine._pull_stop
    progress,       \* JOB_INITIAL_PULL's status, as the last pull to set it did
    starts, deaths, \* count work begun and deaths of the worker, up to the bounds
    outcome,        \* history: how a pull ended
    skipped,        \* history: pulls that gave up on a page
    revived,        \* history: pulls whose stop was cleared for another pull
    clashed         \* history: two threads merged one month at a time

files == <<file, tmpFile>>
memory == <<todoCoins, fetched, existing, cursor, started>>
bounds == <<starts, deaths>>
historyVars == <<minute, priced, files, threadAt, memory, stop, progress, bounds,
                 outcome, skipped, revived, clashed>>

Points == {"idle", "coin", "page", "latest", "read", "write", "rename"}

HistoryTypeOK ==
    /\ minute \in Minutes
    /\ priced \in [Coins -> SUBSET Minutes]
    /\ \A c \in Coins, m \in Months :
         {file[c][m], tmpFile[c][m]} \subseteq Files
    /\ threadAt \in [Writers -> Points]
    /\ todoCoins \in [Writers -> Seq(Coins)]
    /\ \A w \in Writers : fetched[w] \in Candles /\ existing[w] \in Candles
    /\ cursor \in [Pulls -> Minutes] /\ started \in [Writers -> Minutes]
    /\ stop \in BOOLEAN /\ clashed \in BOOLEAN
    /\ progress \in {"idle", "running", "done", "cancelled", "failed"}
    /\ starts \in 0 .. MaxStarts /\ deaths \in 0 .. MaxDeaths
    /\ outcome \in [Pulls -> {"none", "done", "cancelled", "failed"}]
    /\ skipped \subseteq Pulls /\ revived \subseteq Pulls

HistoryInit ==
    /\ minute = 1
    /\ priced = [c \in Coins |-> {}]
    /\ file = [c \in Coins |-> [m \in Months |-> NoFile]] /\ tmpFile = file
    /\ threadAt = [w \in Writers |-> "idle"]
    /\ todoCoins = [w \in Writers |-> <<>>]
    /\ fetched = [w \in Writers |-> NoCandles] /\ existing = fetched
    /\ cursor = [w \in Pulls |-> 0] /\ started = [w \in Writers |-> 0]
    /\ stop = FALSE /\ progress = "idle" /\ starts = 0 /\ deaths = 0
    /\ outcome = [p \in Pulls |-> "none"]
    /\ skipped = {} /\ revived = {} /\ clashed = FALSE

Coin(w) == Head(todoCoins[w])
Begins == starts < MaxStarts /\ starts' = starts + 1
Move(w, from, to) == threadAt[w] = from /\ threadAt' = [threadAt EXCEPT ![w] = to]
Only(candles, ts) == [t \in DOMAIN candles \intersect ts |-> candles[t]]
Overlaid(new, old) ==
    [t \in DOMAIN new \union DOMAIN old |-> IF t \in DOMAIN new THEN new[t] ELSE old[t]]

----------------------------------------------------------------------------
(* The store: latest_ts, append and _merge_month *)

\* _read_table: a file that cannot be read counts as empty.
ReadTable(f) == f.rows

\* The newest candle of the newest file, -1 for None.
LatestTs(c) ==
    LET months == {m \in Months : file[c][m] # NoFile}
        newest == IF months = {} THEN NoCandles ELSE ReadTable(file[c][Max(months)])
    IN  IF DOMAIN newest = {} THEN -1 ELSE Max(DOMAIN newest)

\* The coin is done; a thread without another is over, a pull reports.
CoinDone(w) ==
    LET others == Tail(todoCoins[w])
        over == IF w \in Pulls THEN stop \/ others = <<>> ELSE others = <<>>
        how == IF w \in Pulls /\ stop THEN "cancelled" ELSE "done"
    IN  /\ todoCoins' = [todoCoins EXCEPT ![w] = IF over THEN <<>> ELSE others]
        /\ threadAt' = [threadAt EXCEPT ![w] = IF over THEN "idle" ELSE "coin"]
        /\ fetched' = [fetched EXCEPT ![w] = NoCandles]
        /\ existing' = [existing EXCEPT ![w] = NoCandles]
        /\ progress' = IF w \in Pulls THEN (IF over THEN how ELSE "running") ELSE progress
        /\ outcome' = IF w \in Pulls /\ over THEN [outcome EXCEPT ![w] = how] ELSE outcome

\* append, month by month; without one left the coin is done.
MergeRows(w, rows) ==
    IF DOMAIN rows = {} THEN CoinDone(w)
    ELSE /\ threadAt' = [threadAt EXCEPT ![w] = "read"]
         /\ fetched' = [fetched EXCEPT ![w] = rows]
         /\ UNCHANGED <<todoCoins, existing, progress, outcome>>

\* The month whose rows come first.
MergedMonth(w) == Month(Min(DOMAIN fetched[w]))

\* Others that are in the middle of merging this month.
Merging(c, m) == {w \in Writers : threadAt[w] \in {"write", "rename"}
                                  /\ Coin(w) = c /\ MergedMonth(w) = m}

ReadMonth(w) ==
    LET m == MergedMonth(w)
    IN  /\ Move(w, "read", "write")
        /\ existing' = [existing EXCEPT ![w] = ReadTable(file[Coin(w)][m])]
        /\ clashed' = (clashed \/ Merging(Coin(w), m) # {})
        /\ UNCHANGED <<minute, priced, files, todoCoins, fetched, cursor, started, stop,
                       progress, bounds, outcome, skipped, revived>>

InMonth(candles, m) == Only(candles, {t \in Minutes : Month(t) = m})

\* A bug for the mutants: the month's file is replaced by the new rows.
JustTheRows(w) == InMonth(fetched[w], MergedMonth(w))

\* The new row wins where both have a minute.
Combined(w) == Overlaid(InMonth(fetched[w], MergedMonth(w)), existing[w])

\* One temporary name per month: two writes at a time may end up in one file.
WriteTemporary(w) ==
    /\ Move(w, "write", "rename")
    /\ \E f \in {Whole(Combined(w))} \union
                 IF Merging(Coin(w), MergedMonth(w)) = {w} THEN {} ELSE {TornFile} :
         tmpFile' = [tmpFile EXCEPT ![Coin(w)][MergedMonth(w)] = f]
    /\ UNCHANGED <<minute, priced, file, memory, stop, progress, bounds, outcome,
                   skipped, revived, clashed>>

RenameTemporary(w) ==
    LET c == Coin(w)
        m == MergedMonth(w)
        rest == Only(fetched[w], {t \in Minutes : Month(t) # m})
    IN  /\ threadAt[w] = "rename" /\ tmpFile[c][m] # NoFile
        /\ file' = [file EXCEPT ![c][m] = tmpFile[c][m]]
        /\ tmpFile' = [tmpFile EXCEPT ![c][m] = NoFile]
        /\ MergeRows(w, rest)
        /\ UNCHANGED <<minute, priced, cursor, started, stop, bounds, skipped,
                       revived, clashed>>

\* Somebody else has renamed it: FileNotFoundError ends the thread's work, and
\* a pull reports that it failed.
RenameFails(w) ==
    /\ threadAt[w] = "rename" /\ tmpFile[Coin(w)][MergedMonth(w)] = NoFile
    /\ threadAt' = [threadAt EXCEPT ![w] = "idle"]
    /\ todoCoins' = [todoCoins EXCEPT ![w] = <<>>]
    /\ fetched' = [fetched EXCEPT ![w] = NoCandles]
    /\ existing' = [existing EXCEPT ![w] = NoCandles]
    /\ progress' = IF w \in Pulls THEN "failed" ELSE progress
    /\ outcome' = IF w \in Pulls THEN [outcome EXCEPT ![w] = "failed"] ELSE outcome
    /\ UNCHANGED <<minute, priced, files, cursor, started, stop, bounds,
                   skipped, revived, clashed>>

----------------------------------------------------------------------------
(* The exchange *)

\* klines: the oldest Page candles of a window; the forming minute's is partial.
Klines(c, from, to) ==
    LET window == {t \in Listing[c] : from <= t /\ t <= to /\ t <= minute}
        page == {t \in window : Cardinality({u \in window : u <= t}) <= Page}
    IN  [t \in page |-> IF t = minute THEN "part" ELSE "real"]

----------------------------------------------------------------------------
(* The full pull: Engine._start_pull, full_history_backfill, klines_backward *)

\* The stop of the last pull is cleared, whether or not that pull has seen it.
StartPull(p) ==
    /\ Begins
    /\ threadAt[p] = "idle" /\ outcome[p] = "none"
    /\ stop' = FALSE
    /\ revived' = IF stop THEN revived \union {q \in Pulls : threadAt[q] # "idle"} ELSE revived
    /\ threadAt' = [threadAt EXCEPT ![p] = "coin"]
    /\ todoCoins' = [todoCoins EXCEPT ![p] = Pairs]
    /\ started' = [started EXCEPT ![p] = minute]
    /\ progress' = "running"
    /\ UNCHANGED <<minute, priced, files, fetched, existing, cursor,
                   deaths, outcome, skipped, clashed>>

StopPull ==
    /\ stop' = TRUE
    /\ UNCHANGED <<minute, priced, files, threadAt, memory, progress, bounds, outcome,
                   skipped, revived, clashed>>

Cancel(p) ==
    /\ stop
    /\ Move(p, "coin", "idle")
    /\ todoCoins' = [todoCoins EXCEPT ![p] = <<>>]
    /\ progress' = "cancelled"
    /\ outcome' = [outcome EXCEPT ![p] = "cancelled"]
    /\ UNCHANGED <<minute, priced, files, fetched, existing, cursor, started,
                   stop, bounds, skipped, revived, clashed>>

BeginCoin(p) ==
    /\ ~stop
    /\ Move(p, "coin", "page")
    /\ cursor' = [cursor EXCEPT ![p] = minute]
    /\ UNCHANGED <<minute, priced, files, todoCoins, fetched, existing, started, stop,
                   progress, bounds, outcome, skipped, revived, clashed>>

NoCursor(p) == cursor' = [cursor EXCEPT ![p] = 0]

\* A window reaches back from the middle of the forming minute, or from the
\* earliest candle there is so far, which it includes.
PageBack(p) ==
    LET end == cursor[p]
        from == IF DOMAIN fetched[p] = {} THEN end - Page + 1 ELSE end - Page
        page == Klines(Coin(p), from, end)
        earliest == Min(DOMAIN page)
    IN  /\ threadAt[p] = "page" /\ ~stop
        /\ IF DOMAIN page = {}
           THEN MergeRows(p, fetched[p]) /\ NoCursor(p)
           ELSE IF earliest >= end /\ DOMAIN fetched[p] # {}
           THEN MergeRows(p, Overlaid(page, fetched[p])) /\ NoCursor(p)
           ELSE /\ fetched' = [fetched EXCEPT ![p] = Overlaid(page, @)]
                /\ cursor' = [cursor EXCEPT ![p] = earliest]
                /\ UNCHANGED <<threadAt, todoCoins, existing, progress, outcome>>
        /\ UNCHANGED <<minute, priced, files, started, stop, bounds, skipped,
                       revived, clashed>>

\* A page that fails PAGE_RETRY_ATTEMPTS times: what there is is kept.
GiveUpPage(p) ==
    /\ threadAt[p] = "page" /\ ~stop
    /\ skipped' = skipped \union {p}
    /\ MergeRows(p, fetched[p])
    /\ NoCursor(p)
    /\ UNCHANGED <<minute, priced, files, started, stop, bounds, revived, clashed>>

StopPaging(p) ==
    /\ threadAt[p] = "page" /\ stop
    /\ MergeRows(p, fetched[p])
    /\ NoCursor(p)
    /\ UNCHANGED <<minute, priced, files, started, stop, bounds, skipped,
                   revived, clashed>>

----------------------------------------------------------------------------
(* The daily catch-up: daily_incremental_pull *)

BeginDaily ==
    /\ Begins
    /\ Move(Daily, "idle", "coin")
    /\ started' = [started EXCEPT ![Daily] = minute]
    /\ todoCoins' = [todoCoins EXCEPT ![Daily] = Pairs]
    /\ UNCHANGED <<minute, priced, files, fetched, existing, cursor, stop,
                   progress, deaths, outcome, skipped, revived, clashed>>

\* From the minute after the newest stored one, or from some days ago.
Since(c) == IF LatestTs(c) >= 0 THEN LatestTs(c) + 1 ELSE started[Daily] - Recent

\* klines_range pages forward; a page that never comes ends it early.
CatchUp ==
    LET c == Coin(Daily)
        window == {t \in Listing[c] : Since(c) <= t /\ t <= started[Daily]}
    IN  /\ threadAt[Daily] = "coin"
        /\ \E upto \in {started[Daily]} \union Since(c) - 1 .. started[Daily] - 1 :
             LET rows == [t \in {u \in window : u <= upto} |->
                            IF t = minute THEN "part" ELSE "real"]
             IN  IF DOMAIN rows = {} THEN CoinDone(Daily)
                 ELSE /\ threadAt' = [threadAt EXCEPT ![Daily] = "latest"]
                      /\ fetched' = [fetched EXCEPT ![Daily] = rows]
                      /\ UNCHANGED <<todoCoins, existing, progress, outcome>>
        /\ UNCHANGED <<minute, priced, files, cursor, started, stop, bounds,
                       skipped, revived, clashed>>

----------------------------------------------------------------------------
(* The roll-up, in the main loop: rollup_ticks *)

RollUp ==
    /\ Begins
    /\ Move(Loop, "idle", "coin")
    /\ started' = [started EXCEPT ![Loop] = minute]
    /\ todoCoins' = [todoCoins EXCEPT ![Loop] = Pairs]
    /\ UNCHANGED <<minute, priced, files, fetched, existing, cursor, stop,
                   progress, deaths, outcome, skipped, revived, clashed>>

\* Minutes that have closed; a candle of prices has no volume.
Buckets ==
    LET c == Coin(Loop)
        closed == {t \in priced[c] : started[Loop] - Lookback <= t /\ t < started[Loop]}
    IN  /\ Move(Loop, "coin", "latest")
        /\ fetched' = [fetched EXCEPT ![Loop] = [t \in closed |-> "ticks"]]
        /\ UNCHANGED <<minute, priced, files, todoCoins, existing, cursor,
                       started, stop, progress, bounds, outcome, skipped, revived, clashed>>

\* An incremental append asks for the newest stored minute itself.
AppendNewer(w) ==
    /\ w \notin Pulls /\ threadAt[w] = "latest"
    /\ MergeRows(w, Only(fetched[w], {t \in Minutes : t > LatestTs(Coin(w))}))
    /\ UNCHANGED <<minute, priced, files, cursor, started, stop, bounds,
                   skipped, revived, clashed>>

----------------------------------------------------------------------------

\* A minute passes; the scanner has priced some coins in it.
MinutePasses ==
    /\ minute < MaxMinute
    /\ minute' = minute + 1
    /\ \E cs \in SUBSET Coins :
         priced' = [c \in Coins |-> priced[c] \union IF c \in cs THEN {minute} ELSE {}]
    /\ UNCHANGED <<files, threadAt, memory, stop, progress, bounds, outcome, skipped,
                   revived, clashed>>

\* All threads die with the worker, between any two steps.
WorkerGone ==
    /\ \E w \in Writers : threadAt[w] # "idle"
    /\ deaths < MaxDeaths
    /\ deaths' = deaths + 1
    /\ threadAt' = [w \in Writers |-> "idle"]
    /\ todoCoins' = [w \in Writers |-> <<>>]
    /\ fetched' = [w \in Writers |-> NoCandles] /\ existing' = fetched'
    /\ cursor' = [w \in Pulls |-> 0]
    /\ stop' = FALSE
    /\ UNCHANGED <<minute, priced, files, started, progress, starts, outcome, skipped, revived,
                   clashed>>

HistoryNext ==
    \/ \E w \in Writers :
         ReadMonth(w) \/ WriteTemporary(w) \/ RenameTemporary(w) \/ RenameFails(w)
         \/ AppendNewer(w)
    \/ \E p \in Pulls :
         StartPull(p) \/ Cancel(p) \/ BeginCoin(p) \/ PageBack(p) \/ GiveUpPage(p)
         \/ StopPaging(p)
    \/ StopPull \/ BeginDaily \/ CatchUp \/ RollUp \/ Buckets
    \/ MinutePasses \/ WorkerGone

HistorySpec == HistoryInit /\ [][HistoryNext]_historyVars

----------------------------------------------------------------------------

Stored(c) == UNION {DOMAIN ReadTable(file[c][m]) : m \in Months}

Covered(p, c) == Listing[c] \intersect 0 .. started[p] \subseteq Stored(c)

\* A thread that works has a coin, and rows where it merges; one that has not begun
\* to page holds none.
Working(w) ==
    /\ threadAt[w] # "idle" => todoCoins[w] # <<>>
    /\ threadAt[w] \in {"read", "write", "rename"} => DOMAIN fetched[w] # {}
    /\ threadAt[w] = "page" => w \in Pulls
    /\ threadAt[w] = "latest" => w \notin Pulls
    /\ w \in Pulls /\ threadAt[w] \in {"idle", "coin"} => DOMAIN fetched[w] = {}
    /\ started[w] <= minute

ThreadInv == \A w \in Writers : Working(w)

\* A thread that merges a month by itself writes all that is in the month's file.
MergesAlone(w) ==
    LET c == Coin(w)
        m == MergedMonth(w)
    IN  /\ Merging(c, m) = {w}
        /\ DOMAIN ReadTable(file[c][m]) \subseteq DOMAIN existing[w]
        /\ threadAt[w] = "rename" =>
             DOMAIN Combined(w) \subseteq DOMAIN ReadTable(tmpFile[c][m])

MergeInv ==
    ~ clashed => \A w \in Writers : threadAt[w] \in {"write", "rename"} => MergesAlone(w)

\* From the cursor to where it began the pull holds what the exchange has.
PagedBack(p) ==
    /\ cursor[p] <= minute
    /\ IF DOMAIN fetched[p] = {} THEN started[p] <= cursor[p]
       ELSE Listing[Coin(p)] \intersect cursor[p] .. started[p] \subseteq DOMAIN fetched[p]

\* Coins that are done with are covered, the one being merged by what is still held.
PullSound(p) ==
    /\ outcome[p] = "done" => \A c \in Coins : Covered(p, c)
    /\ threadAt[p] # "idle" /\ ~ stop =>
         /\ \A c \in Coins \ {todoCoins[p][i] : i \in DOMAIN todoCoins[p]} : Covered(p, c)
         /\ threadAt[p] = "page" => PagedBack(p)
         /\ threadAt[p] \in {"read", "write", "rename"} =>
              Listing[Coin(p)] \intersect 0 .. started[p]
                \subseteq Stored(Coin(p)) \union DOMAIN fetched[p]

PullInv == \A p \in Pulls : p \notin skipped \union revived /\ ~ clashed => PullSound(p)

\* A pull that reports "done", on which the RunPod retest is started, has every
\* candle the exchange had when it came to the coin, and they stay there
\* whatever is merged, rolled up, stopped or killed later: unless a page of it
\* was given up, another start took its stop back, or two threads merged one
\* month at a time.
DoneMeansStored ==
    \A p \in Pulls :
        outcome[p] = "done" /\ p \notin skipped \union revived /\ ~clashed =>
            \A c \in Coins : Listing[c] \intersect 0 .. started[p] \subseteq Stored(c)
=============================================================================
