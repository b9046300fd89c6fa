------------------------------- MODULE DailyRun -------------------------------
(***************************************************************************)
(* The daily walk-forward run on the droplet.  Housekeeping starts one a   *)
(* day, a command starts more; each is a thread that rebuilds the bundle   *)
(* directory from the candle store (materialize_bundle), reads it back     *)
(* (load_panel), draws a run id, searches and reports (wfmc.run_daily).    *)
(* All of them share the directory, where files are written in place, the  *)
(* counter of ids and the optimizer_runs table, which housekeeping prunes. *)
(***************************************************************************)
EXTENDS Integers, Sequences, FiniteSets

CONSTANTS
    Universe,       \* tokens that may be routed
    MaxCandles,     \* bound on the versions of a token's history
    MaxToday,       \* bound on days
    MaxDailies,     \* bound on daily runs
    MaxUpsets       \* bound on what changes under a run: the market, errors, restarts

ASSUME DailyAssumption ==
    /\ IsFiniteSet(Universe)
    /\ {MaxCandles, MaxToday} \subseteq Nat \ {0} /\ {MaxDailies, MaxUpsets} \subseteq Nat

Partial == -1
Versions == 0 .. MaxCandles

VARIABLES
    utcDay,
    lastDaily,      \* LAST_DAILY_KEY
    routed,         \* the universe table
    recorded,       \* tokens in universe_history
    historyOf,      \* version of a token's history in the candle store
    bundleFile,     \* the version in its file of the bundle directory, 0 for none
    snapshots,      \* the tokens universe_snapshots.csv names
    runCounter,     \* the counter of run ids
    runRows,        \* optimizer_runs: the run whose summary an id shows, 0 for none yet
    dailies,        \* the runs, in the order they were started
    upsets          \* counts what MaxUpsets bounds

dailyVars == <<utcDay, lastDaily, routed, recorded, historyOf, bundleFile, snapshots,
               runCounter, runRows, dailies, upsets>>
marketVars == <<utcDay, routed, recorded, historyOf>>
directoryVars == <<bundleFile, snapshots>>
reportVars == <<runCounter, runRows>>

Building == {"write", "snapshots", "written"}
Numbered == {"search", "report"}
Ended == {"reported", "failed"}

DailyRecord ==
    [scheduled : 0 .. MaxToday,     \* the day it was scheduled for, 0 for a command
     step : {"pull", "start", "number"} \union Building \union Numbered \union Ended,
     left : SUBSET Universe,        \* tokens it has still to write
     open : {<<>>} \union (Universe \X Versions),    \* the file it is writing
     tests : [Universe -> Versions],        \* history there was when it began
     missed : SUBSET Universe,      \* what of that it did not read, or older
     alone : BOOLEAN,               \* no other run had the directory meanwhile
     id : 0 .. MaxDailies,
     shares : BOOLEAN]              \* another run drew the same id

DailyTypeOK ==
    /\ utcDay \in 1 .. MaxToday /\ lastDaily \in 0 .. MaxToday
    /\ routed \subseteq Universe /\ recorded \subseteq Universe
    /\ historyOf \in [Universe -> Versions] /\ bundleFile \in [Universe -> Versions \union {Partial}]
    /\ snapshots \subseteq Universe
    /\ runCounter \in 0 .. MaxDailies
    /\ runRows \subseteq [id : 1 .. MaxDailies, shows : 0 .. MaxDailies]
    /\ dailies \in Seq(DailyRecord) /\ Len(dailies) <= MaxDailies
    /\ upsets \in 0 .. MaxUpsets

DailyInit ==
    /\ utcDay = 1 /\ lastDaily = 0
    \* a fresh installation, or one that has run
    /\ \/ routed = {} /\ historyOf = [s \in Universe |-> 0]
       \/ routed = Universe /\ historyOf \in [Universe -> {0, 1}]
    /\ recorded = routed
    /\ bundleFile = [s \in Universe |-> 0] /\ snapshots = {}
    /\ runCounter = 0 /\ runRows = {} /\ dailies = <<>> /\ upsets = 0

Upset == upsets < MaxUpsets /\ upsets' = upsets + 1

Stands(r, to) == r \in DOMAIN dailies /\ dailies[r].step = to
Become(r, record) == dailies' = [dailies EXCEPT ![r] = record]
GoTo(r, to) == Become(r, [dailies[r] EXCEPT !.step = to])

----------------------------------------------------------------------------
(* What the runs find *)

MidnightPasses ==
    /\ utcDay < MaxToday
    /\ utcDay' = utcDay + 1
    /\ UNCHANGED <<lastDaily, routed, recorded, historyOf, directoryVars, reportVars, dailies,
                   upsets>>

\* A refresh replaces the universe, then records it for the day.
PersistUniverse ==
    /\ Upset
    /\ routed \subseteq recorded
    /\ routed' \in (SUBSET Universe) \ {{}}
    /\ UNCHANGED <<utcDay, lastDaily, recorded, historyOf, directoryVars, reportVars, dailies>>

RecordHistory ==
    /\ ~ routed \subseteq recorded
    /\ recorded' = recorded \union routed
    /\ UNCHANGED <<utcDay, lastDaily, routed, historyOf, directoryVars, reportVars, dailies,
                   upsets>>

Newer(s) == historyOf' = [historyOf EXCEPT ![s] = @ + 1]

\* Ticks, a pull or a catch-up add to a token's history.
HistoryGrows(s) ==
    /\ Upset
    /\ historyOf[s] < MaxCandles
    /\ Newer(s)
    /\ UNCHANGED <<utcDay, lastDaily, routed, recorded, directoryVars, reportVars, dailies>>

----------------------------------------------------------------------------
(* Starting *)

Begun(day, to) ==
    [scheduled |-> day, step |-> to, left |-> {}, open |-> <<>>,
     tests |-> [s \in Universe |-> 0], missed |-> {}, alone |-> TRUE, id |-> 0,
     shares |-> FALSE]

\* Housekeeping in the configured hour: the day is stamped before the thread
\* starts, which pulls first.
MaybeDailyWfmc ==
    /\ lastDaily # utcDay /\ Len(dailies) < MaxDailies
    /\ lastDaily' = utcDay
    /\ dailies' = Append(dailies, Begun(utcDay, "pull"))
    /\ UNCHANGED <<marketVars, directoryVars, reportVars, upsets>>

\* The command run_wfmc_daily, which goes without the pull.
RunWfmcDaily ==
    /\ Len(dailies) < MaxDailies
    /\ dailies' = Append(dailies, Begun(0, "start"))
    /\ UNCHANGED <<marketVars, lastDaily, directoryVars, reportVars, upsets>>

\* The incremental pull, whatever came of it.
Pulled(r) ==
    /\ Stands(r, "pull")
    /\ GoTo(r, "start")
    /\ UNCHANGED <<marketVars, lastDaily, directoryVars, reportVars, upsets>>

----------------------------------------------------------------------------
(* The bundle directory *)

Others(r) == {q \in DOMAIN dailies \ {r} : dailies[q].step \in Building}

\* The routed tokens; without any there is nothing to test.
ReadPairMap(r) ==
    /\ Stands(r, "start")
    /\ IF routed = {} THEN GoTo(r, "failed")
       ELSE dailies' =
              [q \in DOMAIN dailies |->
                 IF q = r THEN [dailies[r] EXCEPT
                                  !.step = "write", !.left = routed, !.alone = Others(r) = {},
                                  !.tests = [s \in Universe |-> IF s \in routed \intersect recorded
                                                               THEN historyOf[s] ELSE 0]]
                 ELSE [dailies[q] EXCEPT !.alone = @ /\ q \notin Others(r)]]
    /\ UNCHANGED <<marketVars, lastDaily, directoryVars, reportVars, upsets>>

\* A bug for the mutants: a file that is there is not written again.
MissingFiles(r) == {s \in dailies[r].left : historyOf[s] > 0 /\ bundleFile[s] = 0}

\* Files to write: of the tokens that have candles.
ToWrite(r) == {s \in dailies[r].left : historyOf[s] > 0}

\* The next in the table's order: opening the file empties it.
OpenFile(r) ==
    /\ Stands(r, "write") /\ dailies[r].open = <<>> /\ ToWrite(r) # {}
    /\ LET s == CHOOSE s \in ToWrite(r) : TRUE
       IN  /\ bundleFile' = [bundleFile EXCEPT ![s] = Partial]
           /\ Become(r, [dailies[r] EXCEPT !.left = @ \ {s}, !.open = <<s, historyOf[s]>>])
    /\ UNCHANGED <<marketVars, lastDaily, snapshots, reportVars, upsets>>

\* It holds what was read before it was opened; two writers of one file may have
\* spoilt it.
CloseFile(r) ==
    /\ Stands(r, "write") /\ dailies[r].open # <<>>
    /\ LET s == dailies[r].open[1]
           spoilt == \E q \in Others(r) : dailies[q].open # <<>> /\ dailies[q].open[1] = s
       IN  \E v \in {dailies[r].open[2]} \union (IF spoilt THEN {Partial} ELSE {}) :
             bundleFile' = [bundleFile EXCEPT ![s] = v]
    /\ Become(r, [dailies[r] EXCEPT !.open = <<>>])
    /\ UNCHANGED <<marketVars, lastDaily, snapshots, reportVars, upsets>>

\* universe_snapshots.csv, written in place as well.
OpenSnapshots(r) ==
    /\ Stands(r, "write") /\ dailies[r].open = <<>> /\ ToWrite(r) = {}
    /\ snapshots' \in SUBSET recorded
    /\ Become(r, [dailies[r] EXCEPT !.step = "snapshots", !.left = recorded])
    /\ UNCHANGED <<marketVars, lastDaily, bundleFile, reportVars, upsets>>

CloseSnapshots(r) ==
    /\ Stands(r, "snapshots")
    /\ snapshots' \in IF \E q \in Others(r) : Stands(q, "snapshots") THEN SUBSET recorded
                      ELSE {dailies[r].left}
    /\ Become(r, [dailies[r] EXCEPT !.step = "written", !.left = {}])
    /\ UNCHANGED <<marketVars, lastDaily, bundleFile, reportVars, upsets>>

\* The files of tokens the snapshots name, or all if they name none of them.
TestFiles ==
    LET present == {s \in Universe : bundleFile[s] # 0}
    IN  IF present \intersect snapshots = {} THEN present ELSE present \intersect snapshots

\* A file that cannot be read is skipped.
Panel == {s \in TestFiles : bundleFile[s] # Partial}

LoadPanel(r) ==
    /\ Stands(r, "written")
    /\ LET had == dailies[r].tests
       IN  Become(r,
             [dailies[r] EXCEPT
                !.step = IF Panel = {} THEN "failed" ELSE "number",
                !.tests = [s \in Universe |-> 0],
                !.missed = {s \in Universe : /\ had[s] > 0
                                             /\ ~ (s \in Panel /\ bundleFile[s] >= had[s])}])
    /\ UNCHANGED <<marketVars, lastDaily, directoryVars, reportVars, upsets>>

----------------------------------------------------------------------------
(* The run id and the report *)

\* next_run_id reads the counter, and writes it in a step of its own.
ReadRunId(r) ==
    /\ Stands(r, "number") /\ dailies[r].id = 0
    /\ Become(r, [dailies[r] EXCEPT !.id = runCounter + 1])
    /\ UNCHANGED <<marketVars, lastDaily, directoryVars, reportVars, upsets>>

WriteRunId(r) ==
    /\ Stands(r, "number") /\ dailies[r].id # 0
    /\ runCounter' = dailies[r].id
    /\ LET same == {q \in DOMAIN dailies \ {r} : dailies[q].id = dailies[r].id}
       IN  dailies' = [q \in DOMAIN dailies |->
                         [dailies[q] EXCEPT !.shares = @ \/ (q \in same \/ (q = r /\ same # {})),
                                            !.step = IF q = r THEN "search" ELSE @]]
    /\ UNCHANGED <<marketVars, lastDaily, directoryVars, runRows, upsets>>

RowOf(r) == {row \in runRows : row.id = dailies[r].id}

\* The first line of the feed makes the row, unless the id has one; a sink that
\* fails makes none.
Search(r) ==
    /\ Stands(r, "search")
    /\ \/ UNCHANGED runRows
       \/ /\ RowOf(r) = {}
          /\ runRows' = runRows \union {[id |-> dailies[r].id, shows |-> 0]}
    /\ GoTo(r, "report")
    /\ UNCHANGED <<marketVars, lastDaily, directoryVars, runCounter, upsets>>

\* The search is over and its bundle, if accepted, handed to accept_bundle: the
\* row shows the summary.
Report(r) ==
    /\ Stands(r, "report")
    /\ runRows' = {IF row \in RowOf(r) THEN [row EXCEPT !.shows = r] ELSE row : row \in runRows}
    /\ GoTo(r, "reported")
    /\ UNCHANGED <<marketVars, lastDaily, directoryVars, runCounter, upsets>>

\* A run that has not written the counter has no id.
Died(record) ==
    IF record.step \in Ended THEN record
    ELSE [record EXCEPT !.step = "failed", !.left = {}, !.open = <<>>,
                        !.tests = [s \in Universe |-> 0],
                        !.id = IF record.step = "number" THEN 0 ELSE @]

\* An error anywhere: the thread ends, the row stays as it is.
Fails(r) ==
    /\ Upset
    /\ dailies[r].step \notin Ended \union {"pull"}
    /\ Become(r, Died(dailies[r]))
    /\ UNCHANGED <<marketVars, lastDaily, directoryVars, reportVars>>

\* Housekeeping deletes old rows of runs that are not running.
Prune(row) ==
    /\ row \in runRows /\ row.shows # 0
    /\ runRows' = runRows \ {row}
    /\ UNCHANGED <<marketVars, lastDaily, directoryVars, runCounter, dailies, upsets>>

WorkerRestarts ==
    /\ Upset
    /\ dailies' = [r \in DOMAIN dailies |-> Died(dailies[r])]
    /\ UNCHANGED <<marketVars, lastDaily, directoryVars, reportVars>>

DailyNext ==
    \/ MidnightPasses \/ PersistUniverse \/ RecordHistory
    \/ \E s \in Universe : HistoryGrows(s)
    \/ MaybeDailyWfmc \/ RunWfmcDaily
    \/ \E r \in DOMAIN dailies :
         \/ Pulled(r) \/ ReadPairMap(r)
         \/ OpenFile(r) \/ CloseFile(r) \/ OpenSnapshots(r) \/ CloseSnapshots(r) \/ LoadPanel(r)
         \/ ReadRunId(r) \/ WriteRunId(r) \/ Search(r) \/ Report(r) \/ Fails(r)
    \/ \E row \in runRows : Prune(row)
    \/ WorkerRestarts

DailySpec == DailyInit /\ [][DailyNext]_dailyVars

----------------------------------------------------------------------------

\* Each scheduled run has its day.
DaysInv ==
    /\ lastDaily <= utcDay
    /\ \A r \in DOMAIN dailies :
         /\ dailies[r].scheduled <= lastDaily
         /\ dailies[r].scheduled # 0 =>
              \A q \in DOMAIN dailies \ {r} : dailies[q].scheduled # dailies[r].scheduled

\* What a run alone in the directory is to test of a token s is there still: its
\* file is being written, the token is left to do, or its file is written.
Kept(r, s) ==
    CASE dailies[r].step = "write" ->
           IF dailies[r].open # <<>> /\ dailies[r].open[1] = s
           THEN dailies[r].open[2] >= dailies[r].tests[s]
           ELSE s \in dailies[r].left \/ bundleFile[s] >= dailies[r].tests[s]
      [] dailies[r].step = "snapshots" ->
           s \in dailies[r].left /\ bundleFile[s] >= dailies[r].tests[s]
      [] dailies[r].step = "written" ->
           s \in snapshots /\ bundleFile[s] >= dailies[r].tests[s]
      [] OTHER -> TRUE

Undisturbed(r) ==
    /\ \A s \in Universe : dailies[r].tests[s] > 0 =>
         historyOf[s] >= dailies[r].tests[s] /\ s \in recorded
    /\ dailies[r].step \in {"pull", "start"} =>
         dailies[r].missed = {} /\ dailies[r].open = <<>>
    /\ dailies[r].alone =>
         /\ dailies[r].missed = {}
         /\ dailies[r].step \in Building =>
              /\ Others(r) = {}
              /\ \A s \in Universe : dailies[r].tests[s] > 0 => Kept(r, s)

DirectoryInv == \A r \in DOMAIN dailies : Undisturbed(r)

\* Runs that have an id.
HasId(r) == dailies[r].step \in Numbered \union Ended /\ dailies[r].id # 0

\* Of two runs with one id both know; a row is of a run with its id, and shows one
\* that has reported.
IdsInv ==
    /\ \A r \in DOMAIN dailies :
         /\ dailies[r].step \in {"pull", "start"} \union Building => dailies[r].id = 0
         /\ dailies[r].step \in Numbered \union {"reported"} => dailies[r].id # 0
         /\ HasId(r) /\ ~ dailies[r].shares =>
              \A q \in DOMAIN dailies \ {r} : HasId(q) => dailies[q].id # dailies[r].id
         /\ dailies[r].step = "reported" /\ ~ dailies[r].shares =>
              \A row \in RowOf(r) : row.shows = r
    /\ \A row \in runRows :
         /\ \E r \in DOMAIN dailies : HasId(r) /\ dailies[r].id = row.id
         /\ row.shows # 0 => /\ row.shows \in DOMAIN dailies /\ dailies[row.shows].id = row.id
                             /\ dailies[row.shows].step = "reported"

\* A daily run that had the bundle directory to itself tested every routed token
\* that had candles and was on record when it began, on at least the history of
\* that moment, whatever a run before it, failed or killed, has left there; of two
\* scheduled runs, each has its day; and what the row of a run's id shows is that
\* run's own, or nothing yet, unless the id was drawn twice.
DailyRunsTestTheStore ==
    \A r \in DOMAIN dailies :
        /\ dailies[r].alone => dailies[r].missed = {}
        /\ \A q \in DOMAIN dailies \ {r} :
             dailies[r].scheduled # 0 => dailies[q].scheduled # dailies[r].scheduled
        /\ ~ dailies[r].shares =>
             \A row \in RowOf(r) :
               dailies[r].step \in Numbered \union Ended =>
                 row.shows = (IF dailies[r].step = "reported" THEN r ELSE 0)
=================================================================================
