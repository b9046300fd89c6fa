-------------------------------- MODULE Regimes --------------------------------
(***************************************************************************)
(* Parameter sets for a coin's own regimes.  A regime pass (wfmc's         *)
(* run_regime_pass, cmd_regime_pass on a RunPod worker) discovers a model  *)
(* of each coin's regimes, searches a set for every cluster of it and      *)
(* pushes both to the droplet; the daily run adds sets of its own          *)
(* (pipeline._update_library); all of them meet in one library, a table    *)
(* with one row per fingerprint (solopt.store).  An entry decision reads   *)
(* the model, then the rows, and trades on a blend or on the nearest set   *)
(* (Engine._regime_scoped_cfg).                                            *)
(***************************************************************************)
EXTENDS Integers, Sequences, FiniteSets

CONSTANTS
    Passes,         \* RunPod workers of the regime passes
    Batch,          \* the coins of each, in their order
    Sets,           \* parameter sets; a set is its fingerprint
    Scores,         \* library scores
    Regions,        \* regime scores of a set and of the present bar
    MaxDistance,    \* regime_scoped_max_distance
    Keep,           \* library_max_entries
    MaxModels,      \* bound on models that are discovered
    MaxFound,       \* bound on sets that are accepted
    KRange          \* the numbers of clusters discovery tries

ASSUME RegimeAssumption ==
    /\ IsFiniteSet(Passes)
    \* a batch is a slice of a list that is not empty
    /\ \A p \in Passes :
         /\ Batch[p] \in Seq(UNION {{Batch[q][i] : i \in DOMAIN Batch[q]} : q \in Passes})
         /\ Batch[p] # <<>>
    /\ Scores \subseteq Nat /\ Regions \subseteq Nat /\ MaxDistance \in Nat
    /\ Keep \in Nat /\ {MaxModels, MaxFound} \subseteq Nat
    /\ IsFiniteSet(KRange) /\ KRange # {} /\ KRange \subseteq Nat \ {0}

Traded == UNION {{Batch[p][i] : i \in DOMAIN Batch[p]} : p \in Passes}
NoCluster == 0
MaxClusters == CHOOSE k \in KRange : \A j \in KRange : j <= k
NoRegion == -1
Market == "all coins"
Row == [coin : Traded \union {Market}, cluster : 0 .. MaxClusters, region : Regions \union {NoRegion},
        score : Scores]

VARIABLES
    \* the store on the droplet
    library,        \* rows by fingerprint
    regimeModels,   \* the model of a coin, 0 for none
    \* the passes' workers
    coinAt,         \* which coin of its batch a pass is at
    duty,           \* what it does next with that coin
    heldModel,      \* the model it discovered for the coin
    cluster,        \* the cluster it is at
    found,          \* the sets it accepted for the coin, by cluster
    \* the daily run
    pending,        \* entries it has still to store
    \* the engine
    reading,        \* an entry decision that has read the model
    \* history
    models,         \* discovered models: their coin and their clusters
    earned          \* every acceptance

regimeVars == <<library, regimeModels, coinAt, duty, heldModel, cluster, found, pending,
                reading, models, earned>>
regimeStore == <<library, regimeModels>>
passVars == <<coinAt, duty, heldModel, cluster, found>>

Rows == [fingerprint : Sets, row : Row]

RegimeTypeOK ==
    /\ library \subseteq Rows
    /\ regimeModels \in [Traded -> Nat]
    /\ coinAt \in [Passes -> Nat] /\ heldModel \in [Passes -> Nat]
    /\ duty \in [Passes -> {"idle", "discover", "push", "search"}]
    /\ cluster \in [Passes -> 1 .. MaxClusters + 1]
    /\ \A p \in Passes : found[p] \subseteq [cluster : 1 .. MaxClusters, params : Sets, score : Scores]
    /\ pending \in Seq(Rows)
    /\ reading \in {<<>>} \union (Traded \X Nat)
    /\ models \in Seq([coin : Traded, size : KRange])
    /\ earned \subseteq [params : Sets, row : Row, model : Nat]

RegimeInit ==
    /\ library = {}
    /\ regimeModels = [c \in Traded |-> 0]
    /\ coinAt = [p \in Passes |-> 1] /\ heldModel = [p \in Passes |-> 0]
    /\ duty = [p \in Passes |-> "idle"]
    /\ cluster = [p \in Passes |-> 1]
    /\ found = [p \in Passes |-> {}]
    /\ pending = <<>> /\ reading = <<>>
    /\ models = <<>> /\ earned = {}

----------------------------------------------------------------------------
(* The library *)

StoredRows(params) == {e \in library : e.fingerprint = params}

\* A bug for the mutants: a better score is stored, where it was earned is not.
ScoreOnly(old, new) == [old EXCEPT !.score = IF new.score > @ THEN new.score ELSE @]

\* What the row of a set becomes: the evidence with the better score, whole.
Evidence(old, new) == IF new.score > old.score THEN new ELSE old

Upsert(params, row) ==
    library' = (library \ StoredRows(params)) \union
               {[fingerprint |-> params,
                 row |-> IF StoredRows(params) = {} THEN row
                         ELSE Evidence((CHOOSE e \in StoredRows(params) : TRUE).row, row)]}

\* A coin's best rows for a cluster.
ClusterEntries(c, k) ==
    LET own == {e \in library : e.row.coin = c /\ e.row.cluster = k}
    IN  {e \in own : \A f \in own : f.row.score <= e.row.score}

Away(e, region) == LET d == e.row.region - region IN IF d < 0 THEN -d ELSE d

\* A coin's rows that carry a regime score, the nearest ones.
NearestEntries(c, region) ==
    LET own == {e \in library : e.row.coin = c /\ e.row.region # NoRegion}
    IN  {e \in own : \A f \in own : Away(e, region) <= Away(f, region)}

\* The worst by score and age go; the age is left open.
PruneLibrary ==
    /\ Cardinality(library) > Keep
    /\ \E doomed \in SUBSET library :
         /\ Cardinality(doomed) = Cardinality(library) - Keep
         /\ library' = library \ doomed
    /\ UNCHANGED <<regimeModels, passVars, pending, reading, models, earned>>

----------------------------------------------------------------------------
(* A regime pass *)

\* run_regime_pass launches the workers of its batches, every time it is asked.
Dispatch(p) ==
    /\ duty[p] = "idle"
    /\ duty' = [duty EXCEPT ![p] = "discover"]
    /\ UNCHANGED <<regimeStore, coinAt, heldModel, cluster, found, pending, reading,
                   models, earned>>

\* The coin is done with.
Forget(p) ==
    /\ heldModel' = [heldModel EXCEPT ![p] = 0]
    /\ cluster' = [cluster EXCEPT ![p] = 1]
    /\ found' = [found EXCEPT ![p] = {}]

Over(p) ==
    /\ duty' = [duty EXCEPT ![p] = "idle"] /\ coinAt' = [coinAt EXCEPT ![p] = 1]
    /\ Forget(p)

NextCoin(p) ==
    IF coinAt[p] = Len(Batch[p]) THEN Over(p)
    ELSE /\ coinAt' = [coinAt EXCEPT ![p] = @ + 1]
         /\ duty' = [duty EXCEPT ![p] = "discover"]
         /\ Forget(p)

Treated(p) == Batch[p][coinAt[p]]

\* Too little history, or a model of some clusters.
DiscoverRegimes(p) ==
    /\ duty[p] = "discover"
    /\ \/ NextCoin(p) /\ UNCHANGED models
       \/ \E size \in KRange :
            /\ Len(models) < MaxModels
            /\ models' = Append(models, [coin |-> Treated(p), size |-> size])
            /\ heldModel' = [heldModel EXCEPT ![p] = Len(models) + 1]
            /\ duty' = [duty EXCEPT ![p] = "push"]
            /\ UNCHANGED <<coinAt, cluster, found>>
    /\ UNCHANGED <<regimeStore, pending, reading, earned>>

\* The droplet replaces the coin's model; a push that fails is only told.
PushModel(p) ==
    /\ duty[p] = "push"
    /\ duty' = [duty EXCEPT ![p] = "search"]
    /\ regimeModels' \in {regimeModels, [regimeModels EXCEPT ![Treated(p)] = heldModel[p]]}
    /\ UNCHANGED <<library, coinAt, heldModel, cluster, found, pending, reading,
                   models, earned>>

\* One cluster: too few windows it dominated, a search that fails the gates, or
\* a set.
SearchRegime(p) ==
    /\ duty[p] = "search" /\ cluster[p] <= models[heldModel[p]].size
    /\ cluster' = [cluster EXCEPT ![p] = @ + 1]
    /\ \/ UNCHANGED <<found, earned>>
       \/ \E params \in Sets, score \in Scores :
            /\ Cardinality(earned) < MaxFound
            /\ found' = [found EXCEPT ![p] = @ \union
                           {[cluster |-> cluster[p], params |-> params, score |-> score]}]
            /\ earned' = earned \union
                  {[params |-> params, model |-> heldModel[p],
                    row |-> [coin |-> Treated(p), cluster |-> cluster[p], region |-> NoRegion,
                             score |-> score]]}
    /\ UNCHANGED <<regimeStore, coinAt, duty, heldModel, pending, reading, models>>

\* All of the model's clusters were searched.
Searched(p) == duty[p] = "search" /\ cluster[p] > models[heldModel[p]].size

\* The accepted sets are pushed in the order of their clusters; one that does
\* not arrive is only told.
PushEntry(p) ==
    /\ Searched(p)
    /\ \E e \in found[p] :
         /\ \A f \in found[p] : e.cluster <= f.cluster
         /\ found' = [found EXCEPT ![p] = @ \ {e}]
         /\ \/ Upsert(e.params, [coin |-> Treated(p), cluster |-> e.cluster, region |-> NoRegion,
                                 score |-> e.score])
            \/ UNCHANGED library
    /\ UNCHANGED <<regimeModels, coinAt, duty, heldModel, cluster, pending, reading,
                   models, earned>>

CoinReported(p) ==
    /\ Searched(p) /\ found[p] = {}
    /\ NextCoin(p)
    /\ UNCHANGED <<regimeStore, pending, reading, models, earned>>

\* The pod is gone, with whatever it had not pushed.
PodLost(p) ==
    /\ duty[p] # "idle"
    /\ Over(p)
    /\ UNCHANGED <<regimeStore, pending, reading, models, earned>>

----------------------------------------------------------------------------
(* The daily run *)

\* An accepted run: the set of the whole market, then those of single coins, all
\* with the score of the whole run.
DailyAccepted ==
    /\ pending = <<>> /\ Cardinality(earned) < MaxFound
    /\ \E score \in Scores, whole \in Sets, own \in [Traded -> Sets],
          region \in [Traded -> Regions], coins \in SUBSET Traded :
         LET entry(c) == [fingerprint |-> own[c],
                          row |-> [coin |-> c, cluster |-> NoCluster, region |-> region[c],
                                   score |-> score]]
             market == [fingerprint |-> whole,
                        row |-> [coin |-> Market, cluster |-> NoCluster, region |-> NoRegion,
                                 score |-> score]]
         IN  /\ pending' \in {<<market>> \o s :
                               s \in {t \in [1 .. Cardinality(coins) -> {entry(c) : c \in coins}] :
                                        \A c \in coins : \E i \in DOMAIN t : t[i] = entry(c)}}
             /\ earned' = earned \union
                   {[params |-> e.fingerprint, row |-> e.row, model |-> 0] :
                      e \in {market} \union {entry(c) : c \in coins}}
    /\ UNCHANGED <<regimeStore, passVars, reading, models>>

StoreDaily ==
    /\ pending # <<>>
    /\ Upsert(Head(pending).fingerprint, Head(pending).row)
    /\ pending' = Tail(pending)
    /\ UNCHANGED <<regimeModels, passVars, reading, models, earned>>

\* An error, or the end of the worker: the rest is not stored.
DailyStops ==
    /\ pending # <<>>
    /\ pending' = <<>>
    /\ UNCHANGED <<regimeStore, passVars, reading, models, earned>>

----------------------------------------------------------------------------
(* An entry decision *)

\* classify_current_regime reads the coin's model of this moment.
Classify(c) ==
    /\ reading = <<>> /\ regimeModels[c] # 0
    /\ reading' = <<c, regimeModels[c]>>
    /\ UNCHANGED <<regimeStore, passVars, pending, models, earned>>

\* blend_regime_params: the sets of the clusters the coin has a share in.
\* One with a share of nothing stays in the code's list and changes nothing.
Blend(c, share) == UNION {{<<k, e>> : e \in ClusterEntries(c, k)} : k \in share}

\* select_regime_scoped_params: the nearest set, if it is near enough.
Nearest(c, region) ==
    {<<NoCluster, e>> : e \in {n \in NearestEntries(c, region) : Away(n, region) <= MaxDistance}}

\* What an entry in the coin would be traded on, by its shares in the clusters of
\* its model and by its present regime score.
ScopedSets(c, share, region) ==
    IF Blend(c, share) # {} THEN Blend(c, share) ELSE Nearest(c, region)

\* The entry is decided, whatever it came to.
Decide ==
    /\ reading # <<>>
    /\ reading' = <<>>
    /\ UNCHANGED <<regimeStore, passVars, pending, models, earned>>

RegimeNext ==
    \/ \E p \in Passes :
         \/ Dispatch(p) \/ DiscoverRegimes(p) \/ PushModel(p) \/ SearchRegime(p)
         \/ PushEntry(p) \/ CoinReported(p) \/ PodLost(p)
    \/ DailyAccepted \/ StoreDaily \/ DailyStops \/ PruneLibrary
    \/ \E c \in Traded : Classify(c)
    \/ Decide

RegimeSpec == RegimeInit /\ [][RegimeNext]_regimeVars

----------------------------------------------------------------------------

Discovered(c) == {m \in DOMAIN models : models[m].coin = c}

\* The shares a decision under way may have been given, none if it has no model.
Shares(c) == IF reading = <<>> \/ reading[1] # c THEN {{}} ELSE SUBSET (1 .. models[reading[2]].size)

\* What an entry is traded on was accepted for that coin: each set of a blend
\* for the cluster it stands for, and, unless the coin was discovered more than
\* once, for that cluster of the very model its shares were measured with; the
\* nearest set in a run of its own.  The sets of all coins and of every pass and
\* run share the library's rows, one per fingerprint, and model and rows are read
\* apart.
RegimeSetsEarned ==
    \A c \in Traded, region \in Regions : \A share \in Shares(c) :
        \A s \in ScopedSets(c, share, region) :
            \E e \in earned :
                /\ e.params = s[2].fingerprint /\ e.row.coin = c /\ e.row.cluster = s[1]
                /\ e.row.score = s[2].row.score
                /\ s[1] # NoCluster /\ Cardinality(Discovered(c)) = 1 => e.model = reading[2]
=================================================================================
