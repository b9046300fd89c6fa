------------------------------- MODULE Scanning -------------------------------
(***************************************************************************)
(* Which tokens are looked at, and which may be bought: the universe and   *)
(* its persisted copy (universe.UniverseBuilder), the hot list and the two *)
(* cadences (scanner.Scanner), the cached verdicts of the safety gate      *)
(* (safety.SafetyGate over RugCheckClient), as Engine.tick drives them.    *)
(* What a signal, a size or a review says is a free choice.                *)
(***************************************************************************)
EXTENDS Integers, Sequences, FiniteSets, SequencesExt

CONSTANTS
    Assets,         \* coins of Binance's top list with a mint on Solana, in the
                    \* order answers list them
    Books,          \* instances, in the order they trade
    HotMax,         \* hot_list_max
    HotEvery, BroadEvery, RefreshEvery,     \* hot_scan_seconds and the others
    HotAge,         \* max_age_seconds of expire_hot
    PassTtl, FailTtl, OutageTtl,            \* of a verdict, in the same unit
    Uptime,         \* of the host when the worker starts, whose clock all share
    MaxMoment, MaxTroubles                  \* bounds on time, and on what goes wrong

AssetSet == ToSet(Assets)
BookSet == ToSet(Books)

ASSUME ScanningAssumption ==
    /\ {HotMax, HotEvery, BroadEvery, RefreshEvery, PassTtl, FailTtl, OutageTtl}
         \subseteq Nat \ {0}
    /\ OutageTtl <= FailTtl
    /\ {HotAge, Uptime, MaxMoment, MaxTroubles} \subseteq Nat /\ Uptime <= MaxMoment
    /\ Assets \in Seq(AssetSet) /\ Books \in Seq(BookSet)

VARIABLES
    moment,         \* the time
    universe,       \* UniverseBuilder._tokens
    persisted,      \* the table of that name
    lastRefresh, lastHot, lastBroad,
    hot,            \* Scanner._hot: since when a token is of interest
    reports,        \* safety_reports
    holding,        \* open positions of an instance
    place,          \* where the tick is
    prices,         \* tokens of a scan still to be gone through, for whom
    health,         \* what RugCheck has to say of a token
    troubles,       \* counts failures and restarts, up to MaxTroubles
    polled,         \* history: tokens this tick's hot poll asked for
    cleanAt         \* history: since when a token is bad, 0 for one that is not

worldVars == <<health, cleanAt>>
universeVars == <<universe, persisted, lastRefresh>>
scannerVars == <<lastHot, lastBroad, hot>>
scanningVars == <<moment, universeVars, scannerVars, reports, holding, place, prices,
                  worldVars, troubles, polled>>

Unchecked == [passed |-> FALSE, recheck_after |-> 0]
Triaging == "triage"    \* prices are gone through for triage, or for a book

ScanningTypeOK ==
    /\ moment \in Uptime .. MaxMoment /\ troubles \in 0 .. MaxTroubles
    /\ {universe, persisted, polled} \subseteq SUBSET AssetSet
    /\ {lastRefresh, lastHot, lastBroad} \subseteq 0 .. moment
    /\ DOMAIN hot \subseteq AssetSet /\ \A c \in DOMAIN hot : hot[c] \in Uptime .. moment
    /\ reports \in [AssetSet -> [passed : BOOLEAN, recheck_after : Nat]]
    /\ holding \in [BookSet -> SUBSET AssetSet]
    /\ place \in {"startup", "asleep", "universe", "hot", "manage", "look", "broad", "sweep",
                  "expire"}
    /\ prices \in Seq((BookSet \union {Triaging}) \X AssetSet)
    /\ health \in [AssetSet -> {"clean", "risky"}]
    /\ cleanAt \in [AssetSet -> 0 .. moment]

ScanningInit ==
    /\ moment = Uptime /\ troubles = 0
    /\ universe = {} /\ persisted = {} /\ polled = {}
    /\ lastRefresh = 0 /\ lastHot = 0 /\ lastBroad = 0
    /\ hot = [c \in {} |-> 0]
    /\ reports = [c \in AssetSet |-> Unchecked]
    /\ holding = [b \in BookSet |-> {}]
    /\ place = "startup"        \* with no universe persisted
    /\ prices = <<>>
    /\ health = [c \in AssetSet |-> "clean"] /\ cleanAt = [c \in AssetSet |-> 0]

Trouble == troubles < MaxTroubles /\ troubles' = troubles + 1
Held == UNION {holding[b] : b \in BookSet}

----------------------------------------------------------------------------
(* The hot list *)

Stalest(h) == CHOOSE c \in DOMAIN h : \A d \in DOMAIN h : h[c] <= h[d]
Cooled(h, cs) == [c \in DOMAIN h \ cs |-> h[c]]
Stamped(h, cs) == [c \in DOMAIN h \union cs |-> IF c \in cs THEN moment ELSE h[c]]

\* mark_interesting: a full list loses its stalest entry, pinned or not.
Marked(h, c) ==
    LET full == c \notin DOMAIN h /\ Cardinality(DOMAIN h) >= HotMax
    IN  Stamped(IF full THEN Cooled(h, {Stalest(h)}) ELSE h, {c})

\* A bug for the mutants: what is held is of interest like any other token.
PinnedAtFirst(h, cs) == Stamped(h, IF Cardinality(DOMAIN h \union cs) <= HotMax THEN cs ELSE {})

\* pin: beyond the limit too.
Pinned(h, cs) == Stamped(h, cs)

----------------------------------------------------------------------------
(* The safety gate: check *)

\* A bug for the mutants: a pass is cached for good.
CachedForGood(c) == reports[c].passed \/ moment < reports[c].recheck_after

Cached(c) == moment < reports[c].recheck_after

\* A new report, or none in time, which counts against the token.
Verdicts(c) ==
    IF Cached(c) THEN {reports[c]}
    ELSE {[passed |-> FALSE, recheck_after |-> moment + OutageTtl],
          IF health[c] = "clean"
          THEN [passed |-> TRUE, recheck_after |-> moment + PassTtl]
          ELSE [passed |-> FALSE, recheck_after |-> moment + FailTtl]}

----------------------------------------------------------------------------
(* The tick *)

Goes(from, to) == place = from /\ place' = to

\* Positions are managed in every tick; a halted one does nothing else.  A
\* closed position cools its token, whoever else holds it.
Manage ==
    \E keep \in {f \in [BookSet -> SUBSET AssetSet] : \A b \in BookSet : f[b] \subseteq holding[b]} :
        /\ holding' = keep
        /\ hot' = Cooled(hot, UNION {holding[b] \ keep[b] : b \in BookSet})

Wake(enabled) ==
    /\ moment < MaxMoment
    /\ moment' = moment + 1
    /\ IF enabled
       THEN Goes("asleep", "universe") /\ UNCHANGED <<hot, holding>>
       ELSE Goes("asleep", "asleep") /\ Manage
    /\ UNCHANGED <<universeVars, lastHot, lastBroad, reports, prices, worldVars,
                   troubles, polled>>

\* refresh: what passes the filters; a top list that does not come passes none.
\* The table keeps its rows where nothing passed.
Refresh(kept) ==
    /\ universe' = kept
    /\ persisted' = IF kept = {} THEN persisted ELSE kept
    /\ lastRefresh' = moment
    /\ UNCHANGED <<moment, scannerVars, reports, holding, prices, worldVars, polled>>

RefreshUniverse ==
    /\ \/ Goes("startup", "asleep")
       \/ moment - lastRefresh >= RefreshEvery /\ Goes("universe", "hot")
    /\ \E kept \in SUBSET AssetSet :
         /\ IF kept = {} THEN Trouble ELSE UNCHANGED troubles
         /\ Refresh(kept)

\* The operator's refresh_universe, between the ticks.
RefreshCommand ==
    /\ place = "asleep"
    /\ \E kept \in (SUBSET AssetSet) \ {{}} : Refresh(kept)
    /\ UNCHANGED <<place, troubles>>

NotDue ==
    /\ moment - lastRefresh < RefreshEvery
    /\ Goes("universe", "hot")
    /\ UNCHANGED <<moment, universeVars, scannerVars, reports, holding, prices, worldVars,
                   troubles, polled>>

\* The prices of some tokens, for one after another.
Each(readers, quoted) ==
    LET Read(reader, c) == IF c \in quoted THEN <<<<reader, c>>>> ELSE <<>>
        All(reader) == FlattenSeq([j \in DOMAIN Assets |-> Read(reader, Assets[j])])
    IN  FlattenSeq([i \in DOMAIN readers |-> All(readers[i])])

\* The open positions are pinned, and all of the hot list asked for.
ScanHot ==
    LET list == Pinned(hot, Held)
        due == DOMAIN list # {} /\ moment - lastHot >= HotEvery
    IN  /\ Goes("hot", IF due THEN "manage" ELSE "broad")
        /\ hot' = list
        /\ lastHot' = IF due THEN moment ELSE lastHot
        /\ polled' = IF due THEN DOMAIN list ELSE polled
        /\ \E quoted \in IF due THEN {DOMAIN list, {}} ELSE {{}} :
             /\ IF due /\ quoted = {} THEN Trouble ELSE UNCHANGED troubles
             /\ prices' = Each(Books, quoted)
        /\ UNCHANGED <<moment, universeVars, lastBroad, reports, holding, worldVars>>

ManagePositions ==
    /\ Goes("manage", "look")
    /\ Manage
    /\ polled' = {}
    /\ UNCHANGED <<moment, universeVars, lastHot, lastBroad, reports, prices, worldVars,
                   troubles>>

\* The sweep of the universe; triage comes before the entries.
ScanBroad ==
    LET due == moment - lastBroad >= BroadEvery
    IN  /\ Goes("broad", IF due THEN "sweep" ELSE "asleep")
        /\ lastBroad' = IF due THEN moment ELSE lastBroad
        /\ \E quoted \in IF due THEN {universe, {}} ELSE {{}} :
             /\ IF due /\ quoted # universe THEN Trouble ELSE UNCHANGED troubles
             /\ prices' = Each(<<Triaging>> \o Books, quoted)
        /\ UNCHANGED <<moment, universeVars, lastHot, hot, reports, holding, worldVars, polled>>

\* The next price of the scan is c's, for b or for triage.
Looking(b, c) ==
    /\ place \in {"look", "sweep"}
    /\ prices # <<>> /\ Head(prices) = <<b, c>>
    /\ prices' = Tail(prices)

\* A token without candles is left as it is.
Triage(c) ==
    /\ Looking(Triaging, c)
    /\ hot' \in {hot, Marked(hot, c), Cooled(hot, {c})}
    /\ UNCHANGED <<moment, universeVars, lastHot, lastBroad, reports, holding, place,
                   worldVars, troubles, polled>>

\* Held, no longer listed, traded too recently, or the gate is closed.
Skip(b, c) ==
    /\ Looking(b, c)
    /\ UNCHANGED <<moment, universeVars, scannerVars, reports, holding, place, worldVars,
                   troubles, polled>>

\* The safety gate comes first: a token it refuses leaves the hot list.
Consider(b, c, report) ==
    /\ Looking(b, c)
    /\ c \notin holding[b] /\ c \in universe
    /\ reports' = [reports EXCEPT ![c] = report]
    /\ UNCHANGED <<moment, universeVars, lastHot, lastBroad, place, worldVars, polled>>

Refused(b, c) ==
    \E report \in Verdicts(c) :
        /\ Consider(b, c, report)
        /\ ~report.passed
        /\ IF health[c] = "clean" /\ ~Cached(c) THEN Trouble ELSE UNCHANGED troubles
        /\ hot' = Cooled(hot, {c})
        /\ UNCHANGED holding

\* No signal, or one of interest, which a review may then decline.
Declined(b, c) ==
    \E report \in Verdicts(c) :
        /\ Consider(b, c, report)
        /\ report.passed
        /\ hot' \in {hot, Marked(hot, c), Cooled(Marked(hot, c), {c})}
        /\ UNCHANGED <<holding, troubles>>

Bought(b, c) ==
    \E report \in Verdicts(c) :
        /\ Consider(b, c, report)
        /\ report.passed
        /\ holding' = [holding EXCEPT ![b] = @ \union {c}]
        /\ hot' = Marked(hot, c)
        /\ UNCHANGED troubles

Through ==
    /\ prices = <<>>
    /\ Goes("look", "broad") \/ Goes("sweep", "expire")
    /\ UNCHANGED <<moment, universeVars, scannerVars, reports, holding, prices, worldVars,
                   troubles, polled>>

ExpireHot ==
    /\ Goes("expire", "asleep")
    /\ hot' = Cooled(hot, {c \in DOMAIN hot : moment - hot[c] > HotAge})
    /\ UNCHANGED <<moment, universeVars, lastHot, lastBroad, reports, holding, prices,
                   worldVars, troubles, polled>>

\* A new process reads the last universe back, whatever its age, and takes it
\* for one of the moment the host came up.
Restart ==
    /\ Trouble
    /\ place' = IF persisted = {} THEN "startup" ELSE "asleep"
    /\ universe' = persisted
    /\ lastRefresh' = 0 /\ lastHot' = 0 /\ lastBroad' = 0
    /\ hot' = [c \in {} |-> 0]
    /\ prices' = <<>> /\ polled' = {}
    /\ UNCHANGED <<moment, persisted, reports, holding, worldVars>>

\* A token goes bad, or is put right, between two ticks.
HealthChanges(c) ==
    /\ place = "asleep"
    /\ Trouble
    /\ health' = [health EXCEPT ![c] = IF @ = "clean" THEN "risky" ELSE "clean"]
    /\ cleanAt' = [cleanAt EXCEPT ![c] = IF health[c] = "clean" THEN moment ELSE 0]
    /\ UNCHANGED <<moment, universeVars, scannerVars, reports, holding, place, prices,
                   polled>>

ScanningNext ==
    \/ \E enabled \in BOOLEAN : Wake(enabled)
    \/ RefreshUniverse \/ RefreshCommand \/ NotDue \/ ScanHot \/ ManagePositions
    \/ ScanBroad \/ Through \/ ExpireHot \/ Restart
    \/ \E c \in AssetSet :
         \/ Triage(c) \/ HealthChanges(c)
         \/ \E b \in BookSet : Skip(b, c) \/ Refused(b, c) \/ Declined(b, c) \/ Bought(b, c)

ScanningSpec == ScanningInit /\ [][ScanningNext]_scanningVars

----------------------------------------------------------------------------

\* Whatever triage cools, a full list evicts, another instance's sale drops or
\* a restart forgets, the poll that comes before positions are managed has
\* asked for every token an instance holds.
PositionsWatched == place = "manage" => Held \subseteq polled

\* Nothing is bought that has been bad for as long as a pass is good for,
\* through cached verdicts, outages of RugCheck and restarts.
EntriesVetted ==
    [][\A b \in BookSet : \A c \in holding'[b] \ holding[b] :
         health[c] = "risky" => moment - cleanAt[c] < PassTtl]_scanningVars
=============================================================================
