----------------------------- MODULE OptimizerRun -----------------------------
(***************************************************************************)
(* A walk-forward run (solopt's cmd_run over run_pipeline, WalkForward and *)
(* RunStore) and its reports to the dashboard (report.DropletClient,       *)
(* web.optimizer): a process evaluates window after window, each recorded  *)
(* in the store on its own; one that starts after a death resumes the run  *)
(* it finds.  The verdict is taken from memory, the bundle is delivered,   *)
(* the run is finished in the store, and then its status is reported.      *)
(***************************************************************************)
EXTENDS Integers, FiniteSets

CONSTANTS
    Optimizers,     \* processes: nothing keeps two from using one store
    Windows,
    MinShare,       \* min_profitable_window_pct
    Unfit,          \* results whose returns vary too much, or whose parameters
                    \* fail the crash replay
    Retries,        \* DropletClient.retries
    MaxRuns, MaxLaunches, MaxBreaks     \* bounds on runs, starts and mishaps

Outcomes == {"good", "bad", "few", "skipped", "failed"}
Counted == {"good", "bad"}      \* enough trades; profitable or not
WithTrades == Counted \union {"few"}

ASSUME OptimizerAssumption ==
    /\ IsFiniteSet(Windows) /\ Windows # {}
    /\ MinShare \in 0 .. 100
    /\ Unfit \subseteq [Windows -> Outcomes]
    /\ {Retries, MaxLaunches, MaxBreaks} \subseteq Nat /\ MaxRuns \in Nat \ {0}
    /\ "nobody" \notin Optimizers

RunIds == 1 .. MaxRuns
NoRun == 0
Untested == [w \in Windows |-> "pending"]

VARIABLES
    \* the store
    runs,           \* how far it got, and the accepted of its summary
    windows,        \* the result of each window
    oosTrades,      \* of which result the trades of a window are
    \* a process
    phase, runOf, tested,
    verdictOf,      \* PipelineResult.accepted
    resends,        \* of the request it is waiting for
    answer,         \* what has come back
    \* the dashboard
    handlers,       \* requests that web threads are at
    dashboard,      \* optimizer_runs: status, accepted, notified
    bundles,        \* runs whose bundle was accepted
    events,         \* completion events written, of each run
    \* bounds and history
    launches,       \* counts starts of a process, up to MaxLaunches
    breaks,         \* counts things that went wrong, up to MaxBreaks
    shared,         \* runs that two processes were at
    retried,        \* runs resumed with a failed window
    told            \* runs whose report was answered

storeVars == <<runs, windows, oosTrades>>
processVars == <<phase, runOf, tested, verdictOf, resends, answer>>
dashboardVars == <<handlers, dashboard, bundles, events>>
auditVars == <<shared, retried, told>>
optimizerVars == <<storeVars, processVars, dashboardVars, launches, breaks, auditVars>>

Phases == {"none", "chosen", "windows", "push", "finish", "report", "flush"}
Requests == [kind : {"bundle", "run"}, run : RunIds, accepted : BOOLEAN,
             client : Optimizers \union {"nobody"},
             at : {"upsert", "read", "mark", "log", "reply"}]

OptimizerTypeOK ==
    /\ runs \in [RunIds -> [status : {"absent", "running", "done", "failed"},
                            accepted : BOOLEAN]]
    /\ windows \in [RunIds -> [Windows -> Outcomes \union {"pending"}]]
    /\ oosTrades \in [RunIds -> [Windows -> WithTrades \union {"none"}]]
    /\ phase \in [Optimizers -> Phases] /\ runOf \in [Optimizers -> RunIds \union {NoRun}]
    /\ tested \in [Optimizers -> [Windows -> Outcomes \union {"pending"}]]
    /\ verdictOf \in [Optimizers -> BOOLEAN]
    /\ resends \in [Optimizers -> 0 .. Retries]
    /\ answer \in [Optimizers -> {"none", "waiting", "ok", "error"}]
    /\ handlers \subseteq Requests
    /\ dashboard \in [RunIds -> [status : {"none", "running", "done"},
                                 accepted : BOOLEAN, notified : BOOLEAN]]
    /\ bundles \subseteq RunIds /\ events \in [RunIds -> Nat]
    /\ launches \in 0 .. MaxLaunches /\ breaks \in 0 .. MaxBreaks
    /\ shared \subseteq RunIds /\ retried \subseteq RunIds /\ told \subseteq RunIds

OptimizerInit ==
    /\ runs = [r \in RunIds |-> [status |-> "absent", accepted |-> FALSE]]
    /\ windows = [r \in RunIds |-> Untested]
    /\ oosTrades = [r \in RunIds |-> [w \in Windows |-> "none"]]
    /\ phase = [p \in Optimizers |-> "none"] /\ runOf = [p \in Optimizers |-> NoRun]
    /\ tested = [p \in Optimizers |-> Untested]
    /\ verdictOf = [p \in Optimizers |-> FALSE]
    /\ resends = [p \in Optimizers |-> 0] /\ answer = [p \in Optimizers |-> "none"]
    /\ handlers = {}
    /\ dashboard = [r \in RunIds |->
                      [status |-> "none", accepted |-> FALSE, notified |-> FALSE]]
    /\ bundles = {} /\ events = [r \in RunIds |-> 0]
    /\ launches = 0 /\ breaks = 0 /\ shared = {} /\ retried = {} /\ told = {}

Break == breaks < MaxBreaks /\ breaks' = breaks + 1
Turn(p, from, to) == phase[p] = from /\ phase' = [phase EXCEPT ![p] = to]

\* A request goes on when the process that waited for it does not wait any more.
Freed(h, p) == IF h.client = p THEN [h EXCEPT !.client = "nobody"] ELSE h

\* What a process keeps in memory is lost.
Gone(p) ==
    /\ phase' = [phase EXCEPT ![p] = "none"]
    /\ runOf' = [runOf EXCEPT ![p] = NoRun]
    /\ tested' = [tested EXCEPT ![p] = Untested]
    /\ verdictOf' = [verdictOf EXCEPT ![p] = FALSE]
    /\ resends' = [resends EXCEPT ![p] = 0]
    /\ answer' = [answer EXCEPT ![p] = "none"]
    /\ handlers' = {Freed(h, p) : h \in handlers}

----------------------------------------------------------------------------
(* Starting and resuming *)

\* resumable_run, of this data: the newest that never finished; --fresh, or
\* none, leaves the id to be given once the panel is loaded.
Unfinished == {r \in RunIds : runs[r].status = "running"}

Choose(p) ==
    /\ launches < MaxLaunches /\ launches' = launches + 1
    /\ Turn(p, "none", "chosen")
    /\ \E r \in {u \in Unfinished : \A v \in Unfinished : v <= u}
                  \union IF runs[MaxRuns].status = "absent" THEN {NoRun} ELSE {} :
         /\ runOf' = [runOf EXCEPT ![p] = r]
         /\ IF r # NoRun /\ \E q \in Optimizers \ {p} : runOf[q] = r
            THEN /\ breaks < MaxBreaks /\ breaks' = MaxBreaks  \* the last mishap
                 /\ shared' = shared \union {r}
            ELSE UNCHANGED <<breaks, shared>>
    /\ UNCHANGED <<storeVars, tested, verdictOf, resends, answer, dashboardVars,
                   retried, told>>

\* start_run gives the next id once the panel is loaded, unless one is resumed.
NewRun(r) == runs[r].status = "absent" /\ \A q \in 1 .. r - 1 : runs[q].status # "absent"
RunId(p, r) == IF runOf[p] = NoRun THEN NewRun(r) ELSE r = runOf[p]

\* A bug for the mutants: finished windows are skipped without their results.
FinishedOnly(r) == [w \in Windows |-> IF windows[r][w] \in WithTrades THEN "skipped"
                                      ELSE windows[r][w]]

\* What a process that resumes takes from the store: windows that failed, and
\* those never reached, are tested again.
Resumed(r) == [w \in Windows |-> IF windows[r][w] = "failed" THEN "pending"
                                                             ELSE windows[r][w]]

\* plan_windows and completed_windows of WalkForward.run.
Plan(p) ==
    /\ Turn(p, "chosen", "windows")
    /\ \E r \in RunIds :
         /\ RunId(p, r)
         /\ runs' = IF runOf[p] = NoRun THEN [runs EXCEPT ![r].status = "running"] ELSE runs
         /\ runOf' = [runOf EXCEPT ![p] = r]
         /\ tested' = [tested EXCEPT ![p] = Resumed(r)]
         /\ retried' = IF \E w \in Windows : windows[r][w] = "failed"
                       THEN retried \union {r} ELSE retried
    /\ UNCHANGED <<windows, oosTrades, launches, verdictOf, resends, answer,
                   dashboardVars, breaks, shared, told>>

----------------------------------------------------------------------------
(* The walk forward and its verdict *)

\* What evaluate_window makes of a window: nothing to trade in it, too few
\* trades to count ("few", which is done and has its trades all the same), or a
\* return; "failed" is what it raises in a worker pool.
EvaluateWindow(p, w, o) ==
    /\ tested[p][w] = "pending"
    /\ IF o = "failed" THEN Break ELSE UNCHANGED breaks
    /\ tested' = [tested EXCEPT ![p][w] = o]

\* The row and its trades in one transaction.
RecordWindow(r, w, o) ==
    /\ windows' = [windows EXCEPT ![r][w] = o]
    /\ oosTrades' = [oosTrades EXCEPT ![r][w] = IF o \in WithTrades THEN o ELSE "none"]

\* The pending windows finish in any order.
Execute(p, w) ==
    /\ phase[p] = "windows"
    /\ \E o \in Outcomes : EvaluateWindow(p, w, o) /\ RecordWindow(runOf[p], w, o)
    /\ UNCHANGED <<runs, launches, phase, runOf, verdictOf, resends, answer,
                   dashboardVars, auditVars>>

With(results, outcomes) == {w \in Windows : results[w] \in outcomes}

\* aggregate and promotable.
Accepts(results) ==
    /\ With(results, Counted) # {}
    /\ Cardinality(With(results, {"good"})) * 100
         >= MinShare * Cardinality(With(results, Counted))
    /\ results \notin Unfit

Conclude(p) ==
    /\ \A w \in Windows : tested[p][w] # "pending"
    /\ Turn(p, "windows", IF Accepts(tested[p]) THEN "push" ELSE "finish")
    /\ verdictOf' = [verdictOf EXCEPT ![p] = Accepts(tested[p])]
    /\ UNCHANGED <<storeVars, launches, runOf, tested, resends, answer, dashboardVars,
                   breaks, auditVars>>

\* Anything the pipeline raises: the dashboard is not told.
RunFails(p) ==
    /\ Break
    /\ phase[p] = "windows"
    /\ runs' = [runs EXCEPT ![runOf[p]].status = "failed"]
    /\ Gone(p)
    /\ UNCHANGED <<windows, oosTrades, launches, dashboard, bundles, events, auditVars>>

\* A bug for the mutants: the run is reported without being finished.
ReportsFirst(p) == UNCHANGED runs

FinishRun(p) ==
    runs' = [runs EXCEPT ![runOf[p]] = [status |-> "done", accepted |-> verdictOf[p]]]

Completes(p) ==
    /\ Turn(p, "finish", "report")
    /\ FinishRun(p)
    /\ UNCHANGED <<windows, oosTrades, launches, runOf, tested, verdictOf, resends,
                   answer, dashboardVars, breaks, auditVars>>

Flush(p) ==
    /\ phase[p] = "flush"
    /\ Gone(p)
    /\ UNCHANGED <<storeVars, launches, dashboard, bundles, events, breaks, auditVars>>

Dies(p) ==
    /\ Break
    /\ phase[p] # "none"
    /\ Gone(p)
    /\ UNCHANGED <<storeVars, launches, dashboard, bundles, events, auditVars>>

----------------------------------------------------------------------------
(* DropletClient._request: push_bundle and push_run *)

Kind(p) == IF phase[p] = "push" THEN "bundle" ELSE "run"
After(p) == IF phase[p] = "push" THEN "finish" ELSE "flush"

Send(p) ==
    /\ phase[p] \in {"push", "report"} /\ answer[p] = "none"
    /\ handlers' = handlers \union
         {[kind |-> Kind(p), run |-> runOf[p], accepted |-> verdictOf[p], client |-> p,
           at |-> "upsert"]}
    /\ answer' = [answer EXCEPT ![p] = "waiting"]
    /\ UNCHANGED <<storeVars, launches, phase, runOf, tested, verdictOf, resends,
                   dashboard, bundles, events, breaks, auditVars>>

\* The connection is refused: counts as an attempt like an error status does.
NotSent(p) ==
    /\ Break
    /\ phase[p] \in {"push", "report"} /\ answer[p] = "none"
    /\ answer' = [answer EXCEPT ![p] = "error"]
    /\ UNCHANGED <<storeVars, launches, phase, runOf, tested, verdictOf, resends,
                   dashboardVars, auditVars>>

\* The token, or the endpoint, is refused: that is not tried again.
TokenRejected(p) ==
    /\ Break
    /\ phase[p] \in {"push", "report"} /\ answer[p] = "none"
    /\ phase' = [phase EXCEPT ![p] = After(p)]
    /\ resends' = [resends EXCEPT ![p] = 0]
    /\ UNCHANGED <<storeVars, launches, runOf, tested, verdictOf, answer, dashboardVars,
                   auditVars>>

Answered(p) ==
    /\ answer[p] = "ok"
    /\ phase' = [phase EXCEPT ![p] = After(p)]
    /\ told' = IF Kind(p) = "run" THEN told \union {runOf[p]} ELSE told
    /\ answer' = [answer EXCEPT ![p] = "none"]
    /\ resends' = [resends EXCEPT ![p] = 0]
    /\ UNCHANGED <<storeVars, launches, runOf, tested, verdictOf, dashboardVars, breaks,
                   shared, retried>>

Retry(p) ==
    /\ answer[p] = "error"
    /\ answer' = [answer EXCEPT ![p] = "none"]
    /\ IF resends[p] < Retries
       THEN resends' = [resends EXCEPT ![p] = @ + 1] /\ UNCHANGED phase
       ELSE resends' = [resends EXCEPT ![p] = 0] /\ phase' = [phase EXCEPT ![p] = After(p)]
    /\ UNCHANGED <<storeVars, launches, runOf, tested, verdictOf, dashboardVars, breaks,
                   auditVars>>

\* No answer in time is not retried: a status is given up, a bundle ends the
\* process, its run still "running".
NoAnswer(p) ==
    /\ Break
    /\ answer[p] = "waiting"
    /\ IF Kind(p) = "bundle" THEN Gone(p)
       ELSE /\ phase' = [phase EXCEPT ![p] = "flush"]
            /\ answer' = [answer EXCEPT ![p] = "none"]
            /\ resends' = [resends EXCEPT ![p] = 0]
            /\ handlers' = {Freed(h, p) : h \in handlers}
            /\ UNCHANGED <<runOf, tested, verdictOf>>
    /\ UNCHANGED <<storeVars, launches, dashboard, bundles, events, auditVars>>

----------------------------------------------------------------------------
(* The dashboard: ingest_bundle, ingest_run and ingest_feed *)

Replaced(h, at) == (handlers \ {h}) \union {[h EXCEPT !.at = at]}
Reply(h, how) == answer' = IF h.client = "nobody" THEN answer
                           ELSE [answer EXCEPT ![h.client] = how]

\* accept_bundle: one that is known is answered alike.
IngestBundle(h) ==
    /\ h.kind = "bundle" /\ h.at = "upsert"
    /\ bundles' = bundles \union {h.run}
    /\ handlers' = Replaced(h, "reply")
    /\ UNCHANGED <<storeVars, launches, processVars, dashboard, events, breaks,
                   auditVars>>

\* A bundle of a schema the dashboard does not know (BundleError): nothing is
\* stored, and what sent it takes the status for an error like any other.
MalformedBundle(h) ==
    /\ Break
    /\ h.kind = "bundle" /\ h.at = "upsert"
    /\ handlers' = handlers \ {h}
    /\ Reply(h, "error")
    /\ UNCHANGED <<storeVars, launches, phase, runOf, tested, verdictOf, resends,
                   dashboard, bundles, events, auditVars>>

UpsertRun(h) ==
    /\ h.kind = "run" /\ h.at = "upsert"
    /\ dashboard' = [dashboard EXCEPT ![h.run] = [status |-> "done", accepted |-> h.accepted,
                                                  notified |-> @.notified]]
    /\ handlers' = Replaced(h, "read")
    /\ UNCHANGED <<storeVars, launches, processVars, bundles, events, breaks,
                   auditVars>>

ReadNotified(h) ==
    /\ h.at = "read"
    /\ handlers' = Replaced(h, IF dashboard[h.run].notified THEN "reply" ELSE "mark")
    /\ UNCHANGED <<storeVars, launches, processVars, dashboard, bundles, events, breaks,
                   auditVars>>

MarkNotified(h) ==
    /\ h.at = "mark"
    /\ dashboard' = [dashboard EXCEPT ![h.run].notified = TRUE]
    /\ handlers' = Replaced(h, "log")
    /\ UNCHANGED <<storeVars, launches, processVars, bundles, events, breaks,
                   auditVars>>

LogCompletion(h) ==
    /\ h.at = "log"
    /\ events' = [events EXCEPT ![h.run] = @ + 1]
    /\ handlers' = Replaced(h, "reply")
    /\ UNCHANGED <<storeVars, launches, processVars, dashboard, bundles, breaks,
                   auditVars>>

ReplyOk(h) ==
    /\ h.at = "reply"
    /\ handlers' = handlers \ {h}
    /\ Reply(h, "ok")
    /\ UNCHANGED <<storeVars, launches, phase, runOf, tested, verdictOf, resends,
                   dashboard, bundles, events, breaks, auditVars>>

\* A statement fails or the web process is stopped: the front end says 500 or 502.
HandlerFails(h) ==
    /\ Break
    /\ handlers' = handlers \ {h}
    /\ Reply(h, "error")
    /\ UNCHANGED <<storeVars, launches, phase, runOf, tested, verdictOf, resends,
                   dashboard, bundles, events, auditVars>>

\* Lines may come late, or never: a batch that fails is dropped.
IngestFeed(r) ==
    /\ runs[r].status # "absent"
    /\ dashboard' = [dashboard EXCEPT ![r].status = IF @ = "none" THEN "running" ELSE @]
    /\ UNCHANGED <<storeVars, launches, processVars, handlers, bundles, events, breaks,
                   auditVars>>

OptimizerNext ==
    \/ \E p \in Optimizers :
         \/ Choose(p) \/ Plan(p) \/ Conclude(p) \/ RunFails(p) \/ Completes(p) \/ Flush(p)
         \/ Dies(p) \/ Send(p) \/ NotSent(p) \/ TokenRejected(p) \/ Answered(p) \/ Retry(p)
         \/ NoAnswer(p)
         \/ \E w \in Windows : Execute(p, w)
    \/ \E h \in handlers :
         \/ IngestBundle(h) \/ MalformedBundle(h) \/ UpsertRun(h) \/ ReadNotified(h)
         \/ MarkNotified(h) \/ LogCompletion(h) \/ ReplyOk(h) \/ HandlerFails(h)
    \/ \E r \in RunIds : IngestFeed(r)

OptimizerSpec == OptimizerInit /\ [][OptimizerNext]_optimizerVars

----------------------------------------------------------------------------

\* A run that was finished, however often its process died and another took
\* it up, has the verdict its recorded windows have; and at any time the trades
\* recorded for a window are those of the result recorded for it.
VerdictFromRows ==
    \A r \in RunIds :
        /\ runs[r].status = "done" /\ r \notin shared =>
             runs[r].accepted = Accepts(windows[r]) /\ With(windows[r], {"pending"}) = {}
        /\ \A w \in Windows :
             oosTrades[r][w] = IF windows[r][w] \in WithTrades THEN windows[r][w] ELSE "none"

\* What the dashboard shows as done is done, with the verdict the store has,
\* and stays so once the report was answered; completion is announced once at
\* most; and a run that ended rejected delivered no bundle on the way, unless a
\* window that had failed came out otherwise when the run was resumed.
ReportsTrue ==
    \A r \in RunIds \ shared :
        /\ dashboard[r].status = "done" =>
             runs[r].status = "done" /\ runs[r].accepted = dashboard[r].accepted
        /\ r \in told => dashboard[r].status = "done"
        /\ events[r] <= 1
        /\ r \in bundles \ retried => ~(runs[r].status = "done" /\ ~runs[r].accepted)
=============================================================================
