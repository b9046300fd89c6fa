----------------------------- MODULE ServiceProofs -----------------------------
(***************************************************************************)
(* What the services around the trading loop promise: the settings file,   *)
(* the teardown of RunPod batches and the verdict of an optimizer run; and *)
(* the clients of outside services, the token bucket, the executor about a *)
(* swap, the scanner and the safety gate.  For any number of processes,    *)
(* threads, tokens, limits, batches, runs and faults.                      *)
(***************************************************************************)
EXTENDS ConfigFile, Batches, OptimizerRun, RateLimiter, Swap, Scanning, FoldProofs,
        SequenceTheorems

----------------------------------------------------------------------------
(* The settings file *)

\* A text that is no set of settings is none by its keys.
LEMMA NoSettings == Empty \notin Values /\ Torn \notin Values
<1>1. \A v \in Values : "fast" \in DOMAIN v
    BY DEF Values
<1>2. DOMAIN Empty = {"torn"} /\ DOMAIN Torn = {"torn"}
    BY DEF Empty, Torn
<1>3. "fast" \notin {"torn"}
    OBVIOUS
<1> QED
    BY <1>1, <1>2, <1>3

\* Settings that keep the rules and were each allowed.
Legal(v, keys, crossing) ==
    /\ crossing \/ Rules(v)
    /\ \A k \in ConfigKeys : v[k] \in keys[k]

\* Not only what processes hold is legal, all that any of them may yet read is.
CoherentInv ==
    /\ values \in [Processes -> Values]
    /\ text \in [Inodes -> Texts]
    /\ config \in Inodes /\ tmp \in Inodes \union {NoInode}
    /\ accepted \in [ConfigKeys -> SUBSET (0 .. 3)] /\ crossed \in BOOLEAN
    /\ Legal(Defaults, accepted, crossed)
    /\ \A p \in Processes : Legal(values[p], accepted, crossed)
    /\ \A i \in Inodes : text[i] \in Values => Legal(text[i], accepted, crossed)

LEMMA DefaultsAreValues == Defaults \in Values /\ Rules(Defaults)
BY SMT DEF Defaults, Values, Rules, Paper, Live

LEMMA CoherentInit == ConfigInit => CoherentInv
<1> SUFFICES ASSUME ConfigInit PROVE CoherentInv
    OBVIOUS
<1>1. \A k \in ConfigKeys : Defaults[k] \in 0 .. 3
    BY SMT DEF Defaults, ConfigKeys, Paper
<1>2. /\ values = [p \in Processes |-> Defaults] /\ accepted = [k \in ConfigKeys |-> {Defaults[k]}]
      /\ text = [i \in Inodes |-> IF i = 1 THEN Defaults ELSE Empty]
      /\ config = 1 /\ tmp = NoInode /\ crossed = FALSE
    BY DEF ConfigInit
<1>3. 1 \in Inodes
    BY ConfigAssumption, SMT DEF Inodes
<1>4. Legal(Defaults, accepted, crossed)
    BY <1>2, DefaultsAreValues DEF Legal
<1> QED
    BY <1>1, <1>2, <1>3, <1>4, DefaultsAreValues, NoSettings DEF CoherentInv, Texts

\* What was legal stays so while keys gain values.
LEMMA LegalStays ==
    ASSUME NEW keys, NEW more, NEW crossing, NEW crossing2, NEW v,
           crossing => crossing2, \A k \in ConfigKeys : keys[k] \subseteq more[k],
           Legal(v, keys, crossing)
    PROVE  Legal(v, more, crossing2)
BY DEF Legal

\* What is read back is legal, the defaults if it cannot be parsed.
LEMMA LoadIsLegal ==
    ASSUME CoherentInv
    PROVE  Load \in Values /\ Legal(Load, accepted, crossed)
BY DefaultsAreValues DEF CoherentInv, Load, Loaded

\* An accepted change keeps the copy legal: validate saw the whole of it.
LEMMA UpdateKeeps ==
    ASSUME CoherentInv, NEW p \in Processes, NEW change \in Changes, Update(p, change)
    PROVE  CoherentInv'
<1> DEFINE v == [values[p] EXCEPT ![change.key] = change.value]
<1>1. values[p] \in Values
    BY DEF CoherentInv
<1>2. change.key \in ConfigKeys /\ change.value \in 0 .. 3 /\ v \in Values
    BY <1>1, SMT DEF Changes, ConfigKeys, Values, Paper, Live
<1>3. /\ values' = [values EXCEPT ![p] = v]
      /\ accepted' = [accepted EXCEPT ![change.key] = @ \union {change.value}]
      /\ text' = text /\ config' = config /\ tmp' = tmp /\ crossed' = crossed
    BY DEF Update, fileVars
<1>4. \A k \in ConfigKeys : accepted[k] \subseteq accepted'[k] /\ accepted'[k] \subseteq 0 .. 3
    BY <1>2, <1>3 DEF CoherentInv
<1>5. accepted' \in [ConfigKeys -> SUBSET (0 .. 3)]
    BY <1>2, <1>3 DEF CoherentInv
<1>6. Rules(v)
    BY DEF Update, Validate
<1>7. Legal(v, accepted', crossed')
    <2>1. Legal(values[p], accepted, crossed)
        BY DEF CoherentInv
    <2>2. change.value \in accepted'[change.key]
        BY <1>2, <1>3 DEF CoherentInv
    <2>3. \A k \in ConfigKeys : v[k] \in accepted'[k]
        <3> SUFFICES ASSUME NEW k \in ConfigKeys PROVE v[k] \in accepted'[k]
            OBVIOUS
        <3>1. DOMAIN values[p] = ConfigKeys
            BY <1>1 DEF Values, ConfigKeys
        <3>2. v[k] = IF k = change.key THEN change.value ELSE values[p][k]
            BY <3>1
        <3> QED
            BY <3>2, <2>1, <2>2, <1>4 DEF Legal
    <2> QED
        BY <1>6, <2>3 DEF Legal
<1>8. values' \in [Processes -> Values]
      /\ \A q \in Processes : values'[q] = IF q = p THEN v ELSE values[q]
    BY <1>2, <1>3 DEF CoherentInv
<1>9. \A w : Legal(w, accepted, crossed) => Legal(w, accepted', crossed')
    <2>1. crossed' = crossed
        BY <1>3
    <2> QED
        BY <2>1, <1>4, LegalStays
<1> QED
    BY <1>3, <1>5, <1>7, <1>8, <1>9 DEF CoherentInv

\* A file edited by hand is allowed what it says, and noted if it crosses.
LEMMA EditKeeps ==
    ASSUME CoherentInv, NEW v \in Values, EditByHand(v)
    PROVE  CoherentInv'
<1>1. /\ text' = [text EXCEPT ![config] = v] /\ crossed' = (crossed \/ ~Rules(v))
      /\ accepted' = [k \in ConfigKeys |-> accepted[k] \union {v[k]}]
      /\ config' = config /\ tmp' = tmp /\ values' = values
    BY DEF EditByHand
<1>2. \A k \in ConfigKeys : v[k] \in 0 .. 3
    BY SMT DEF Values, ConfigKeys, Paper, Live
<1>3. accepted' \in [ConfigKeys -> SUBSET (0 .. 3)] /\ crossed' \in BOOLEAN
    BY <1>1, <1>2 DEF CoherentInv
<1>4. Legal(v, accepted', crossed')
    BY <1>1 DEF Legal
<1>5. \A w : Legal(w, accepted, crossed) => Legal(w, accepted', crossed')
    BY <1>1, LegalStays
<1>6. text' \in [Inodes -> Texts] /\ \A i \in Inodes : text'[i] = IF i = config THEN v ELSE text[i]
    BY <1>1 DEF CoherentInv, Texts
<1> QED
    BY <1>1, <1>3, <1>4, <1>5, <1>6 DEF CoherentInv

\* A save writes the copy of the process that saves, or something no one can read.
LEMMA WritesKeep ==
    ASSUME CoherentInv, NEW p \in Processes,
           OpenTemporary(p) \/ WriteText(p) \/ Replace(p)
    PROVE  CoherentInv'
<1>1. CASE OpenTemporary(p)
    <2>1. PICK i \in Inodes : text' = [text EXCEPT ![i] = Empty] /\ tmp' = i
        BY <1>1 DEF OpenTemporary
    <2>2. config' = config /\ values' = values /\ accepted' = accepted /\ crossed' = crossed
        BY <1>1 DEF OpenTemporary
    <2> QED
        BY <2>1, <2>2, NoSettings DEF CoherentInv, Texts
<1>2. CASE WriteText(p)
    <2>1. PICK t \in {values[p], Torn} : text' = [text EXCEPT ![handle[p]] = t]
        BY <1>2 DEF WriteText
    <2>2. /\ config' = config /\ tmp' = tmp /\ values' = values
          /\ accepted' = accepted /\ crossed' = crossed
        BY <1>2 DEF WriteText
    <2>3. t \in Texts /\ (t \in Values => Legal(t, accepted, crossed))
        BY NoSettings DEF CoherentInv, Texts
    <2> QED
        BY <2>1, <2>2, <2>3 DEF CoherentInv
<1>3. CASE Replace(p)
    BY <1>3 DEF Replace, CoherentInv
<1> QED
    BY <1>1, <1>2, <1>3

\* A process takes what the file holds.
LEMMA ReadsKeep ==
    ASSUME CoherentInv, MaybeReload \/ \E p \in Processes : Started(p)
    PROVE  CoherentInv'
<1>1. PICK p \in Processes : values' = [values EXCEPT ![p] = Load]
    <2>1. Worker \in Processes
        BY DEF Processes
    <2> QED
        BY <2>1 DEF MaybeReload, Started
<1>2. /\ text' = text /\ config' = config /\ tmp' = tmp
      /\ accepted' = accepted /\ crossed' = crossed
    BY DEF MaybeReload, Started, fileVars
<1> QED
    BY <1>1, <1>2, LoadIsLegal DEF CoherentInv

LEMMA CoherentStep == CoherentInv /\ [ConfigNext]_configVars => CoherentInv'
<1> SUFFICES ASSUME CoherentInv, [ConfigNext]_configVars PROVE CoherentInv'
    OBVIOUS
<1>1. ASSUME NEW p \in Processes, NEW change \in Changes, Update(p, change)
      PROVE  CoherentInv'
    BY <1>1, UpdateKeeps
<1>2. ASSUME NEW p \in Processes, OpenTemporary(p) \/ WriteText(p) \/ Replace(p)
      PROVE  CoherentInv'
    BY <1>2, WritesKeep
<1>3. ASSUME NEW p \in Processes,
             ReplaceFails(p) \/ WriteFails(p) \/ StatWritten(p) \/ StatLoaded(p) \/ Killed(p)
      PROVE  CoherentInv'
    <2>1. UNCHANGED <<text, config, tmp, values, accepted, crossed>>
        BY <1>3 DEF ReplaceFails, WriteFails, StatWritten, StatLoaded, Killed, fileVars
    <2> QED
        BY <2>1 DEF CoherentInv
<1>4. ASSUME NEW p \in Processes, Started(p) PROVE CoherentInv'
    BY <1>4, ReadsKeep
<1>5. CASE MaybeReload
    BY <1>5, ReadsKeep
<1>6. ASSUME NEW v \in Values, EditByHand(v) PROVE CoherentInv'
    BY <1>6, EditKeeps
<1>7. CASE UNCHANGED configVars
    BY <1>7 DEF configVars, CoherentInv
<1> QED
    BY <1>1, <1>2, <1>3, <1>4, <1>5, <1>6, <1>7 DEF ConfigNext

\* Whatever order any number of processes save, load, die and start in, and
\* whatever half-written text they find, none runs with settings that break a
\* rule across them or with a value nobody was allowed to set
\* (Config.update, _write, load, maybe_reload).
THEOREM Coherent == ConfigSpec => []SettingsCohere
<1>1. CoherentInv => SettingsCohere
    BY DEF CoherentInv, SettingsCohere, Legal
<1> QED
    BY <1>1, CoherentInit, CoherentStep, PTL DEF ConfigSpec

\* What CoherentInv leaves of the variables' types.
ProcessTypes ==
    /\ stamp \in [Inodes -> Nat] /\ mtime \in Nat
    /\ point \in [Processes -> {"idle", "gone"} \union WritePoints \union LoadPoints]
    /\ handle \in [Processes -> Inodes \union {NoInode}]
    /\ saves \in 0 .. MaxSaves

LEMMA StampsTyped == ASSUME stamp \in [Inodes -> Nat] PROVE Later \in Nat
<1>1. IsFiniteSet(Inodes) /\ Inodes # {}
    <2>1. MaxSaves + 1 \in Nat /\ 1 \in 1 .. MaxSaves + 1
        BY ConfigAssumption
    <2> QED
        BY <2>1, FS_Interval DEF Inodes
<1>2. Max(Range(stamp)) \in Nat
    BY <1>1, GreatestValue
<1> QED
    BY <1>2 DEF Later

LEMMA ProcessInit == ConfigInit => ProcessTypes
<1>1. 1 \in Inodes /\ 0 \in 0 .. MaxSaves
    BY ConfigAssumption, SMT DEF Inodes
<1> QED
    BY <1>1 DEF ConfigInit, ProcessTypes

LEMMA ProcessStep ==
    ASSUME CoherentInv, ProcessTypes, [ConfigNext]_configVars
    PROVE  ProcessTypes'
<1>0. /\ stamp \in [Inodes -> Nat] /\ mtime \in Nat /\ Later \in Nat
      /\ point \in [Processes -> {"idle", "gone"} \union WritePoints \union LoadPoints]
      /\ handle \in [Processes -> Inodes \union {NoInode}]
      /\ saves \in 0 .. MaxSaves /\ config \in Inodes
    BY StampsTyped DEF ProcessTypes, CoherentInv
<1>1. ASSUME NEW p \in Processes, NEW change \in Changes, Update(p, change)
      PROVE  ProcessTypes'
    BY <1>0, <1>1, ConfigAssumption DEF Update, Step, ProcessTypes, WritePoints, fileVars
<1>2. ASSUME NEW p \in Processes, OpenTemporary(p) PROVE ProcessTypes'
    BY <1>0, <1>2 DEF OpenTemporary, Step, ProcessTypes, WritePoints
<1>3. ASSUME NEW p \in Processes, WriteText(p) PROVE ProcessTypes'
    BY <1>0, <1>3 DEF WriteText, Step, ProcessTypes, WritePoints
<1>4. ASSUME NEW p \in Processes,
             Replace(p) \/ ReplaceFails(p) \/ WriteFails(p) \/ Started(p)
      PROVE  ProcessTypes'
    BY <1>0, <1>4 DEF Replace, ReplaceFails, WriteFails, Started, Step, ProcessTypes, WritePoints,
                      LoadPoints, fileVars
<1>5. ASSUME NEW p \in Processes, StatWritten(p) \/ StatLoaded(p) PROVE ProcessTypes'
    BY <1>0, <1>5 DEF StatWritten, StatLoaded, Step, ProcessTypes, fileVars
<1>6. ASSUME NEW p \in Processes, Killed(p) PROVE ProcessTypes'
    BY <1>0, <1>6 DEF Killed, ProcessTypes, LoadPoints, fileVars
<1>7. CASE MaybeReload
    <2>1. Worker \in Processes
        BY DEF Processes
    <2> QED
        BY <1>0, <1>7, <2>1 DEF MaybeReload, Step, ProcessTypes, LoadPoints, fileVars
<1>8. ASSUME NEW v \in Values, EditByHand(v) PROVE ProcessTypes'
    BY <1>0, <1>8, ConfigAssumption DEF EditByHand, ProcessTypes
<1>9. CASE UNCHANGED configVars
    BY <1>9 DEF configVars, ProcessTypes
<1> QED
    BY <1>1, <1>2, <1>3, <1>4, <1>5, <1>6, <1>7, <1>8, <1>9 DEF ConfigNext

\* A process is at a point of load or _write, on a file there is, and holds
\* settings within their bounds, whatever text it has read.
THEOREM ConfigTypeCorrect == ConfigSpec => []ConfigTypeOK
<1>1. CoherentInv /\ ProcessTypes => ConfigTypeOK
    BY DEF CoherentInv, ProcessTypes, ConfigTypeOK
<1> QED
    BY <1>1, CoherentInit, CoherentStep, ProcessInit, ProcessStep, PTL DEF ConfigSpec

----------------------------------------------------------------------------
(* The teardown of a run's batches *)

Launching == {"idle", "read", "write", "volume", "upload", "pod", "discard"}
Tearing == {"wait", "terminate", "check", "delete"}

\* What the teardown rests on of the variables' types.
BatchTypes ==
    /\ volume \in [Runs -> [BatchIds -> {"none", "present", "gone"}]]
    /\ pod \in [Runs -> [BatchIds -> {"none", "running", "exited"}]]
    /\ stage \in [Runs -> Stages] /\ batch \in [Runs -> Nat]
    /\ jobs \in [Runs -> SUBSET Nat] /\ todo \in [Runs -> SUBSET Nat]
    /\ left \in [Runs -> SUBSET Nat] /\ unanswered \in [Runs -> SUBSET Nat]
    /\ verdict \in [Runs -> [BatchIds -> {"none", "clean", "dirty"}]]

\* A check so far has an excuse for, or a true answer of, the batch.
PodAnswered(r, b) == b \in unanswered[r] \/ b \in left[r] \/ pod[r][b] # "running"
VolumeAnswered(r, b) == b \in unanswered[r] \/ b \in left[r] \/ volume[r][b] = "gone"

\* CleanMeansGone for one run.
Sound(r) ==
    \A b \in BatchIds :
        verdict[r][b] = "clean" /\ b \notin unanswered[r] =>
            pod[r][b] # "running" /\ volume[r][b] = "gone"

\* Nothing is created any more for a batch that was reported clean.
Unjudged(r) ==
    stage[r] \notin {"over", "failed"} =>
        \A b \in BatchIds : r \in Retests \/ batch[r] <= b => verdict[r][b] # "clean"

\* Batches launch in order, each on a volume that was created.
InSequence(r) ==
    /\ stage[r] \in Launching => \A b \in jobs[r] : b < batch[r]
    /\ stage[r] \in Tearing /\ r \in Benchmarks =>
         batch[r] \in jobs[r] /\ \A b \in jobs[r] : b <= batch[r]
    /\ \A b \in BatchIds :
         b \in jobs[r] \/ (stage[r] \in {"upload", "pod"} /\ b = batch[r]) =>
             volume[r][b] # "none"

\* The jobs the two loops of verify_teardown have gone through.
Teardown(r) ==
    /\ stage[r] = "check" =>
         \A b \in BatchIds : b \in Verified(r) \ todo[r] => PodAnswered(r, b)
    /\ stage[r] = "delete" =>
         \A b \in BatchIds :
             /\ b \in Verified(r) => PodAnswered(r, b)
             /\ b \in Verified(r) \ todo[r] => VolumeAnswered(r, b)

RunOK(r) == Sound(r) /\ Unjudged(r) /\ InSequence(r) /\ Teardown(r)

BatchInv == BatchTypes /\ \A r \in Runs : RunOK(r)

LEMMA BatchIdsAreNat == BatchIds \subseteq Nat
BY BatchAssumption, SMT DEF BatchIds, Runs

LEMMA BatchInvInit == BatchInit => BatchInv
<1> SUFFICES ASSUME BatchInit PROVE BatchInv
    OBVIOUS
<1>1. BatchTypes
    BY DEF BatchInit, BatchTypes, Stages
<1>2. ASSUME NEW r \in Runs PROVE RunOK(r)
    <2>1. stage[r] = "idle" /\ jobs[r] = {}
        BY DEF BatchInit
    <2>2. \A b \in BatchIds : verdict[r][b] = "none"
        BY DEF BatchInit
    <2> QED
        BY <2>1, <2>2 DEF RunOK, Sound, Unjudged, InSequence, Teardown, Tearing
<1> QED
    BY <1>1, <1>2 DEF BatchInv

\* A run that a step leaves alone.
SameRun(r) ==
    /\ volume'[r] = volume[r] /\ pod'[r] = pod[r] /\ stage'[r] = stage[r]
    /\ batch'[r] = batch[r] /\ jobs'[r] = jobs[r] /\ todo'[r] = todo[r]
    /\ left'[r] = left[r] /\ unanswered'[r] = unanswered[r] /\ verdict'[r] = verdict[r]

LEMMA SameRunKeeps ==
    ASSUME NEW r \in Runs, RunOK(r), SameRun(r)
    PROVE  RunOK(r)'
<1>1. Verified(r)' = Verified(r)
    BY DEF SameRun, Verified
<1>2. \A b \in BatchIds : PodAnswered(r, b)' = PodAnswered(r, b)
                       /\ VolumeAnswered(r, b)' = VolumeAnswered(r, b)
    BY DEF SameRun, PodAnswered, VolumeAnswered
<1>3. Sound(r)' /\ Unjudged(r)'
    BY DEF SameRun, RunOK, Sound, Unjudged
<1>4. InSequence(r)'
    BY DEF SameRun, RunOK, InSequence
<1>5. Teardown(r)'
    BY <1>1, <1>2 DEF SameRun, RunOK, Teardown
<1> QED
    BY <1>3, <1>4, <1>5 DEF RunOK

LEMMA RunThere ==
    ASSUME BatchInv, BatchTypes', NEW r \in Runs, RunOK(r)',
           \A q \in Runs \ {r} : SameRun(q)
    PROVE  BatchInv'
<1>1. ASSUME NEW q \in Runs \ {r} PROVE RunOK(q)'
    BY SameRunKeeps DEF BatchInv
<1> QED
    BY <1>1 DEF BatchInv

LEMMA StartKeeps ==
    ASSUME BatchInv, NEW r \in Runs, Start(r) \/ ReadCounter(r) \/ WriteCounter(r)
    PROVE  BatchInv'
<1> USE DEF Start, ReadCounter, WriteCounter, podVars, At, To, Fault
<1>1. BatchTypes'
    BY BatchIdsAreNat DEF BatchInv, BatchTypes, Stages, Runs
<1>2. ASSUME NEW q \in Runs \ {r} PROVE SameRun(q)
    BY DEF SameRun, BatchInv, BatchTypes
<1>3. Sound(r)'
    BY DEF BatchInv, BatchTypes, RunOK, Sound, Unjudged
<1>4. Unjudged(r)'
    BY BatchIdsAreNat DEF BatchInv, BatchTypes, RunOK, Unjudged
<1>5. InSequence(r)'
    BY BatchIdsAreNat DEF BatchInv, BatchTypes, RunOK, InSequence, Launching, Tearing
<1>6. Teardown(r)'
    BY DEF BatchInv, BatchTypes, RunOK, Teardown, InSequence, PodAnswered, VolumeAnswered, Verified, Launching, Tearing
<1> QED
    BY <1>1, <1>2, <1>3, <1>4, <1>5, <1>6, RunThere DEF RunOK

LEMMA VolumeCell ==
    ASSUME BatchTypes, NEW r, NEW b, NEW v \in {"none", "present", "gone"},
           volume' = [volume EXCEPT ![r][b] = v]
    PROVE  /\ volume' \in [Runs -> [BatchIds -> {"none", "present", "gone"}]]
           /\ \A q \in Runs \ {r} : volume'[q] = volume[q]
           /\ \A q \in Runs, c \in BatchIds :
                volume'[q][c] = IF q = r /\ c = b THEN v ELSE volume[q][c]
<1>1. volume \in [Runs -> [BatchIds -> {"none", "present", "gone"}]]
    BY DEF BatchTypes
<1>2. \A q \in Runs \ {r} : volume'[q] = volume[q]
    BY <1>1
<1>3. \A q \in Runs : volume'[q] = IF q = r THEN [volume[q] EXCEPT ![b] = v] ELSE volume[q]
    BY <1>1
<1>4. \A q \in Runs : [volume[q] EXCEPT ![b] = v] \in [BatchIds -> {"none", "present", "gone"}]
    BY <1>1
<1>5. volume' = [q \in Runs |-> volume'[q]]
    BY <1>1
<1> QED
    BY <1>1, <1>2, <1>3, <1>4, <1>5

LEMMA PodCell ==
    ASSUME BatchTypes, NEW r, NEW b, NEW v \in {"none", "running", "exited"},
           pod' = [pod EXCEPT ![r][b] = v]
    PROVE  /\ pod' \in [Runs -> [BatchIds -> {"none", "running", "exited"}]]
           /\ \A q \in Runs \ {r} : pod'[q] = pod[q]
           /\ \A q \in Runs, c \in BatchIds :
                pod'[q][c] = IF q = r /\ c = b THEN v ELSE pod[q][c]
<1>1. pod \in [Runs -> [BatchIds -> {"none", "running", "exited"}]]
    BY DEF BatchTypes
<1>2. \A q \in Runs \ {r} : pod'[q] = pod[q]
    BY <1>1
<1>3. \A q \in Runs : pod'[q] = IF q = r THEN [pod[q] EXCEPT ![b] = v] ELSE pod[q]
    BY <1>1
<1>4. \A q \in Runs : [pod[q] EXCEPT ![b] = v] \in [BatchIds -> {"none", "running", "exited"}]
    BY <1>1
<1>5. pod' = [q \in Runs |-> pod'[q]]
    BY <1>1
<1> QED
    BY <1>1, <1>2, <1>3, <1>4, <1>5

LEMMA OneEntry ==
    ASSUME NEW S, NEW f \in [Runs -> S], NEW r, NEW v \in S
    PROVE  [f EXCEPT ![r] = v] \in [Runs -> S]
OBVIOUS

\* What becomes of the thread of a run that gives a batch up or is done with it.
GoesOn(r) ==
    /\ batch' = [batch EXCEPT ![r] = batch[r] + 1]
    /\ \E s \in IF r \in Benchmarks THEN {"volume", "over"} ELSE {"read", "wait"} :
         stage' = [stage EXCEPT ![r] = s]
    /\ \E t \in {todo[r], jobs[r]} : todo' = [todo EXCEPT ![r] = t]

LEMMA NextBatchGoesOn ==
    ASSUME BatchTypes, NEW r \in Runs, NextBatch(r)
    PROVE  GoesOn(r)
<1>1. batch' = [batch EXCEPT ![r] = batch[r] + 1]
    BY DEF NextBatch
<1>2. \E s \in IF r \in Benchmarks THEN {"volume", "over"} ELSE {"read", "wait"} :
        stage' = [stage EXCEPT ![r] = s]
    BY DEF NextBatch, To
<1>3. todo = [todo EXCEPT ![r] = todo[r]]
    BY DEF BatchTypes
<1>4. \E t \in {todo[r], jobs[r]} : todo' = [todo EXCEPT ![r] = t]
    BY <1>3 DEF NextBatch
<1> QED
    BY <1>1, <1>2, <1>4 DEF GoesOn

\* One step of a run's launches: it stays at its batch or goes on, and of the
\* batch's own volume and pod only becomes what the step says.
LEMMA LaunchStep ==
    ASSUME BatchInv, NEW r \in Runs, stage[r] \in Launching,
           UNCHANGED <<left, verdict, unanswered>>,
           NEW s \in {"upload", "pod", "discard", "failed"},
           GoesOn(r) \/ (stage' = [stage EXCEPT ![r] = s] /\ UNCHANGED <<batch, todo>>),
           UNCHANGED jobs,
           NEW v \in {"none", "present", "gone"}, NEW p \in {"none", "running"},
           volume' = volume \/ volume' = [volume EXCEPT ![r][batch[r]] = v],
           pod' = pod \/ pod' = [pod EXCEPT ![r][batch[r]] = p],
           stage'[r] \in {"upload", "pod"} =>
               \A b \in BatchIds : b = batch[r] => volume'[r][b] # "none"
    PROVE  BatchInv'
<1> USE DEF GoesOn
<1>a. /\ volume' \in [Runs -> [BatchIds -> {"none", "present", "gone"}]]
      /\ \A q \in Runs \ {r} : volume'[q] = volume[q]
      /\ \A b \in BatchIds : b # batch[r] => volume'[r][b] = volume[r][b]
    <2>1. CASE volume' = volume
        BY <2>1 DEF BatchInv, BatchTypes
    <2>2. CASE volume' = [volume EXCEPT ![r][batch[r]] = v]
        <3>1. volume \in [Runs -> [BatchIds -> {"none", "present", "gone"}]]
            BY DEF BatchInv, BatchTypes
        <3>2. \A q \in Runs \ {r} : volume'[q] = volume[q]
            BY <2>2, <3>1
        <3>3. volume'[r] = [volume[r] EXCEPT ![batch[r]] = v]
            BY <2>2, <3>1
        <3>4. volume[r] \in [BatchIds -> {"none", "present", "gone"}]
            BY <3>1
        <3>5. /\ volume'[r] \in [BatchIds -> {"none", "present", "gone"}]
              /\ \A b \in BatchIds : b # batch[r] => volume'[r][b] = volume[r][b]
            BY <3>3, <3>4
        <3>6. volume' = [volume EXCEPT ![r] = volume'[r]]
            BY <2>2, <3>1, <3>3
        <3>7. volume' \in [Runs -> [BatchIds -> {"none", "present", "gone"}]]
            BY <3>1, <3>5, <3>6
        <3> QED
            BY <3>2, <3>5, <3>7
    <2> QED
        BY <2>1, <2>2
<1>b. /\ pod' \in [Runs -> [BatchIds -> {"none", "running", "exited"}]]
      /\ \A q \in Runs \ {r} : pod'[q] = pod[q]
      /\ \A b \in BatchIds : b # batch[r] => pod'[r][b] = pod[r][b]
    <2>1. CASE pod' = pod
        BY <2>1 DEF BatchInv, BatchTypes
    <2>2. CASE pod' = [pod EXCEPT ![r][batch[r]] = p]
        BY <2>2, PodCell DEF BatchInv
    <2> QED
        BY <2>1, <2>2
<1>0. batch[r] \in Nat /\ batch'[r] \in Nat /\ batch[r] <= batch'[r]
    BY DEF BatchInv, BatchTypes
<1>1. BatchTypes'
    <2>1. \E t \in Stages : stage' = [stage EXCEPT ![r] = t]
        BY DEF Stages
    <2>2. batch' = batch \/ batch' = [batch EXCEPT ![r] = batch[r] + 1]
        OBVIOUS
    <2>3. batch' \in [Runs -> Nat]
        BY <2>2, <1>0 DEF BatchInv, BatchTypes
    <2>4. todo' \in [Runs -> SUBSET Nat]
        BY DEF BatchInv, BatchTypes
    <2>5. stage' \in [Runs -> Stages]
        BY <2>1, OneEntry DEF BatchInv, BatchTypes
    <2> QED
        BY <2>3, <2>4, <2>5, <1>a, <1>b DEF BatchInv, BatchTypes
<1>2. ASSUME NEW q \in Runs \ {r} PROVE SameRun(q)
    <2>1. stage'[q] = stage[q] /\ batch'[q] = batch[q] /\ todo'[q] = todo[q]
        BY DEF BatchInv, BatchTypes
    <2> QED
        BY <2>1, <1>a, <1>b DEF SameRun
<1>3. stage[r] \notin {"over", "failed"} /\ stage'[r] \notin {"check", "delete"}
    <2>1. stage'[r] = s \/ stage'[r] \in {"volume", "over", "read", "wait"}
        BY DEF BatchInv, BatchTypes
    <2> QED
        BY <2>1 DEF Launching
<1>4. Sound(r)'
    <2>1. \A b \in BatchIds : b = batch[r] => verdict[r][b] # "clean"
        BY <1>0, <1>3 DEF BatchInv, RunOK, Unjudged
    <2> QED
        BY <2>1, <1>a, <1>b DEF BatchInv, RunOK, Sound
<1>5. Unjudged(r)'
    BY <1>0, <1>3, BatchIdsAreNat DEF BatchInv, RunOK, Unjudged
<1>6. InSequence(r)'
    <2>1. \A b \in jobs[r] : b < batch[r] /\ b \in Nat
        BY DEF BatchInv, BatchTypes, RunOK, InSequence
    <2>2. \A b \in jobs'[r] : b < batch'[r]
        BY <1>0, <2>1
    <2>3. stage'[r] \in Tearing => r \notin Benchmarks
        <3>1. stage'[r] = s \/ stage'[r] \in IF r \in Benchmarks THEN {"volume", "over"} ELSE {"read", "wait"}
            BY DEF BatchInv, BatchTypes
        <3> QED
            BY <3>1 DEF Tearing
    <2>4. \A b \in BatchIds : b \in jobs[r] => volume[r][b] # "none"
        BY DEF BatchInv, RunOK, InSequence
    <2>5. \A b \in BatchIds : b \in jobs'[r] => volume'[r][b] # "none"
        BY <2>1, <2>4, <1>0, <1>a
    <2>6. stage'[r] \in {"upload", "pod"} => batch'[r] = batch[r]
        BY DEF BatchInv, BatchTypes
    <2> QED
        BY <2>2, <2>3, <2>5, <2>6 DEF InSequence
<1>7. Teardown(r)'
    BY <1>3 DEF Teardown
<1> QED
    BY <1>1, <1>2, <1>4, <1>5, <1>6, <1>7, RunThere DEF RunOK

LEMMA VolumeKeeps ==
    ASSUME BatchInv, NEW r \in Runs, CreateVolume(r)
    PROVE  BatchInv'
<1>1. UNCHANGED <<pod, jobs, left, verdict, unanswered>> /\ stage[r] \in Launching
    BY DEF CreateVolume, At, Launching
<1>2. CASE To(r, "upload") /\ UNCHANGED <<batch, todo>>
           /\ volume' = [volume EXCEPT ![r][batch[r]] = "present"]
    <2>1. \A b \in BatchIds : b = batch[r] => volume'[r][b] # "none"
        BY <1>2 DEF BatchInv, BatchTypes
    <2> QED
        BY <1>1, <1>2, <2>1, LaunchStep DEF To
<1>3. CASE NextBatch(r)
    <2>1. GoesOn(r)
        BY <1>3, NextBatchGoesOn DEF BatchInv
    <2>2. stage'[r] \notin {"upload", "pod"}
        BY <2>1 DEF GoesOn, BatchInv, BatchTypes
    <2>3. PICK v \in {"none", "present"} : volume' = [volume EXCEPT ![r][batch[r]] = v]
        BY DEF CreateVolume
    <2> QED
        BY <1>1, <2>1, <2>2, <2>3, LaunchStep
<1> QED
    BY <1>2, <1>3 DEF CreateVolume

LEMMA UploadKeeps ==
    ASSUME BatchInv, NEW r \in Runs, Upload(r)
    PROVE  BatchInv'
<1>0. /\ UNCHANGED <<volume, pod, jobs, left, verdict, unanswered>>
      /\ stage[r] \in Launching
      /\ \A b \in BatchIds : b = batch[r] => volume'[r][b] # "none"
    BY DEF Upload, podVars, At, Launching, BatchInv, RunOK, InSequence
<1>1. CASE \E s \in {"pod", "failed"} : To(r, s) /\ UNCHANGED <<batch, todo>>
    <2>1. PICK s \in {"pod", "failed"} : stage' = [stage EXCEPT ![r] = s]
        BY <1>1 DEF To
    <2> QED
        BY <1>0, <1>1, <2>1, LaunchStep
<1>2. CASE NextBatch(r)
    <2>1. GoesOn(r)
        BY <1>2, NextBatchGoesOn DEF BatchInv
    <2> QED
        BY <1>0, <2>1, LaunchStep
<1> QED
    BY <1>1, <1>2 DEF Upload

LEMMA CapacityKeeps ==
    ASSUME BatchInv, NEW r \in Runs, NoCapacity(r) \/ Discard(r)
    PROVE  BatchInv'
<1>1. CASE NoCapacity(r)
    <2>1. /\ UNCHANGED <<volume, pod, jobs, left, verdict, unanswered, batch, todo>>
          /\ stage[r] = "pod"
          /\ \A b \in BatchIds : b = batch[r] => volume'[r][b] # "none"
        BY <1>1 DEF NoCapacity, podVars, At, BatchInv, RunOK, InSequence
    <2>2. \E s \in {"pod", "discard"} : stage' = [stage EXCEPT ![r] = s]
        <3>1. stage = [stage EXCEPT ![r] = "pod"]
            BY <2>1 DEF BatchInv, BatchTypes
        <3> QED
            BY <1>1, <3>1 DEF NoCapacity, To
    <2> QED
        BY <2>1, <2>2, LaunchStep DEF Launching
<1>2. CASE Discard(r)
    <2>1. GoesOn(r)
        BY <1>2, NextBatchGoesOn DEF Discard, BatchInv
    <2>2. stage'[r] \notin {"upload", "pod"}
        BY <2>1 DEF GoesOn, BatchInv, BatchTypes
    <2>3. /\ UNCHANGED <<pod, jobs, left, verdict, unanswered>> /\ stage[r] \in Launching
          /\ volume' = volume \/ volume' = [volume EXCEPT ![r][batch[r]] = "gone"]
        BY <1>2 DEF Discard, At, Launching
    <2> QED
        BY <2>1, <2>2, <2>3, LaunchStep
<1> QED
    BY <1>1, <1>2

\* A launched batch has its volume, and is the last to have launched so far.
LEMMA LaunchedKeeps ==
    ASSUME BatchInv, NEW r \in Runs, stage[r] = "pod", Launched(r),
           pod' = [pod EXCEPT ![r][batch[r]] = "running"],
           UNCHANGED <<volume, left, verdict, unanswered>>
    PROVE  BatchInv'
<1>1. batch[r] \in Nat /\ batch'[r] \in {batch[r], batch[r] + 1}
      /\ (r \notin Benchmarks => batch'[r] = batch[r] + 1)
      /\ batch' \in [Runs -> Nat]
      /\ \A q \in Runs \ {r} : batch'[q] = batch[q]
    <2>1. batch[r] \in Nat
        BY DEF BatchInv, BatchTypes
    <2>2. (batch' = batch /\ r \in Benchmarks) \/ batch' = [batch EXCEPT ![r] = batch[r] + 1]
        BY DEF Launched
    <2>3. batch \in [Runs -> Nat] /\ batch[r] + 1 \in Nat
        BY <2>1 DEF BatchInv, BatchTypes
    <2>4. CASE batch' = batch /\ r \in Benchmarks
        BY <2>1, <2>3, <2>4
    <2>5. CASE batch' = [batch EXCEPT ![r] = batch[r] + 1]
        BY <2>1, <2>3, <2>5
    <2> QED
        BY <2>2, <2>4, <2>5
<1>2. jobs' = [jobs EXCEPT ![r] = jobs[r] \union {batch[r]}]
    BY DEF Launched
<1>3. PICK s \in IF r \in Benchmarks THEN {"wait"} ELSE {"read", "wait"} :
        stage' = [stage EXCEPT ![r] = s]
    BY DEF Launched, To
<1>4. jobs' \in [Runs -> SUBSET Nat] /\ jobs'[r] = jobs[r] \union {batch[r]}
    BY <1>1, <1>2 DEF BatchInv, BatchTypes
<1>5. todo' \in [Runs -> SUBSET Nat] /\ \A q \in Runs \ {r} : todo'[q] = todo[q]
    <2>1. \E t \in SUBSET Nat : todo' = [todo EXCEPT ![r] = t]
        <3>1. todo = [todo EXCEPT ![r] = todo[r]] /\ todo[r] \in SUBSET Nat
            BY DEF BatchInv, BatchTypes
        <3>2. jobs'[r] \in SUBSET Nat /\ {batch[r]} \in SUBSET Nat
            BY <1>1, <1>4
        <3> QED
            BY <3>1, <3>2 DEF Launched
    <2> QED
        BY <2>1 DEF BatchInv, BatchTypes
<1>6. /\ pod' \in [Runs -> [BatchIds -> {"none", "running", "exited"}]]
      /\ \A q \in Runs \ {r} : pod'[q] = pod[q]
      /\ \A b \in BatchIds : b # batch[r] => pod'[r][b] = pod[r][b]
    BY PodCell DEF BatchInv
<1>7. stage' \in [Runs -> Stages] /\ stage'[r] = s /\ \A q \in Runs \ {r} : stage'[q] = stage[q]
    BY <1>3 DEF BatchInv, BatchTypes, Stages
<1>8. BatchTypes'
    BY <1>1, <1>4, <1>5, <1>6, <1>7 DEF BatchInv, BatchTypes
<1>9. ASSUME NEW q \in Runs \ {r} PROVE SameRun(q)
    BY <1>1, <1>2, <1>5, <1>6, <1>7 DEF SameRun, BatchInv, BatchTypes
<1>10. Sound(r)'
    <2>1. \A b \in BatchIds : b = batch[r] => verdict[r][b] # "clean"
        BY <1>1 DEF BatchInv, RunOK, Unjudged
    <2> QED
        BY <2>1, <1>6 DEF BatchInv, RunOK, Sound
<1>11. Unjudged(r)'
    BY <1>1, BatchIdsAreNat DEF BatchInv, RunOK, Unjudged
<1>12. InSequence(r)'
    <2>1. \A b \in jobs[r] : b < batch[r] /\ b \in Nat
        BY DEF BatchInv, BatchTypes, RunOK, InSequence, Launching
    <2>2. \A b \in jobs'[r] : b <= batch[r]
        BY <2>1, <1>1, <1>4
    <2>3. r \notin Benchmarks => \A b \in jobs'[r] : b < batch'[r]
        BY <2>2, <1>1, <1>4
    <2>4. r \in Benchmarks => s = "wait" /\ batch'[r] = batch[r]
        BY <1>3 DEF Launched
    <2>5. \A b \in BatchIds : b \in jobs'[r] => volume'[r][b] # "none"
        BY <1>4 DEF BatchInv, RunOK, InSequence
    <2> QED
        BY <2>2, <2>3, <2>4, <2>5, <1>3, <1>4, <1>7 DEF InSequence, Launching, Tearing
<1>13. Teardown(r)'
    BY <1>3, <1>7 DEF Teardown
<1> QED
    BY <1>8, <1>9, <1>10, <1>11, <1>12, <1>13, RunThere DEF RunOK

LEMMA PodKeeps ==
    ASSUME BatchInv, NEW r \in Runs, CreatePod(r)
    PROVE  BatchInv'
<1>1. UNCHANGED <<volume, left, verdict, unanswered>> /\ stage[r] = "pod"
    BY DEF CreatePod, At
<1>2. CASE Launched(r) /\ pod' = [pod EXCEPT ![r][batch[r]] = "running"]
    BY <1>1, <1>2, LaunchedKeeps
<1>3. CASE NextBatch(r) /\ UNCHANGED jobs
    <2>1. GoesOn(r)
        BY <1>3, NextBatchGoesOn DEF BatchInv
    <2>2. stage'[r] \notin {"upload", "pod"}
        BY <2>1 DEF GoesOn, BatchInv, BatchTypes
    <2>3. PICK p \in {"none", "running"} : pod' = [pod EXCEPT ![r][batch[r]] = p]
        BY DEF CreatePod
    <2> QED
        BY <1>1, <1>3, <2>1, <2>2, <2>3, LaunchStep DEF Launching
<1> QED
    BY <1>2, <1>3 DEF CreatePod

LEMMA TurnKeeps ==
    ASSUME BatchInv, NEW r \in Runs, Terminated(r) \/ Checked(r)
    PROVE  BatchInv'
<1> USE DEF Terminated, Checked, podVars, At, To, Fault
<1>1. BatchTypes'
    <2>1. volume' \in [Runs -> [BatchIds -> {"none", "present", "gone"}]]
        BY DEF BatchInv, BatchTypes
    <2>2. pod' \in [Runs -> [BatchIds -> {"none", "running", "exited"}]]
        BY DEF BatchInv, BatchTypes
    <2>3. stage' \in [Runs -> Stages]
        BY DEF BatchInv, BatchTypes, Stages
    <2>4. batch' \in [Runs -> Nat]
        BY DEF BatchInv, BatchTypes
    <2>5. jobs' \in [Runs -> SUBSET Nat]
        BY DEF BatchInv, BatchTypes
    <2>6. left' \in [Runs -> SUBSET Nat] /\ unanswered' \in [Runs -> SUBSET Nat]
        BY BatchIdsAreNat DEF BatchInv, BatchTypes
    <2>7. todo' \in [Runs -> SUBSET Nat]
        <3>1. todo' = [todo EXCEPT ![r] = Verified(r)]
            OBVIOUS
        <3>2. todo \in [Runs -> SUBSET Nat] /\ batch[r] \in Nat /\ jobs[r] \in SUBSET Nat
            BY DEF BatchInv, BatchTypes
        <3>3. Verified(r) \in SUBSET Nat
            BY <3>2 DEF Verified
        <3> QED
            BY <3>1, <3>2, <3>3, OneEntry
    <2>8. verdict' \in [Runs -> [BatchIds -> {"none", "clean", "dirty"}]]
        BY DEF BatchInv, BatchTypes
    <2> QED
        BY <2>1, <2>2, <2>3, <2>4, <2>5, <2>6, <2>7, <2>8 DEF BatchTypes
<1>2. ASSUME NEW q \in Runs \ {r} PROVE SameRun(q)
    BY DEF SameRun, BatchInv, BatchTypes
<1>3. Sound(r)'
    BY DEF BatchInv, BatchTypes, RunOK, Sound, Unjudged
<1>4. Unjudged(r)'
    BY BatchIdsAreNat DEF BatchInv, BatchTypes, RunOK, Unjudged
<1>5. InSequence(r)'
    BY BatchIdsAreNat DEF BatchInv, BatchTypes, RunOK, InSequence, Launching, Tearing
<1>6. Teardown(r)'
    BY DEF BatchInv, BatchTypes, RunOK, Teardown, InSequence, PodAnswered, VolumeAnswered, Verified, Launching, Tearing
<1> QED
    BY <1>1, <1>2, <1>3, <1>4, <1>5, <1>6, RunThere DEF RunOK

LEMMA WaitKeeps ==
    ASSUME BatchInv, NEW r \in Runs, WaitOver(r) \/ (\E b \in BatchIds : Poll(r, b) \/ Terminate(r, b))
    PROVE  BatchInv'
<1> USE DEF WaitOver, Poll, Terminate, NextJob, podVars, At, To, Fault
<1>1. BatchTypes'
    <2>1. volume' \in [Runs -> [BatchIds -> {"none", "present", "gone"}]]
        BY DEF BatchInv, BatchTypes
    <2>2. pod' \in [Runs -> [BatchIds -> {"none", "running", "exited"}]]
        <3>1. \/ pod' = pod
              \/ \E b \in BatchIds : pod' = [pod EXCEPT ![r][b] = "exited"]
            OBVIOUS
        <3> QED
            BY <3>1, PodCell DEF BatchInv, BatchTypes
    <2>3. stage' \in [Runs -> Stages]
        BY DEF BatchInv, BatchTypes, Stages
    <2>4. batch' \in [Runs -> Nat]
        BY DEF BatchInv, BatchTypes
    <2>5. jobs' \in [Runs -> SUBSET Nat]
        BY DEF BatchInv, BatchTypes
    <2>6. left' \in [Runs -> SUBSET Nat] /\ unanswered' \in [Runs -> SUBSET Nat]
        BY BatchIdsAreNat DEF BatchInv, BatchTypes
    <2>7. todo' \in [Runs -> SUBSET Nat]
        <3>1. todo \in [Runs -> SUBSET Nat] /\ todo[r] \in SUBSET Nat
            BY DEF BatchInv, BatchTypes
        <3>2. \E t \in SUBSET todo[r] : todo' = [todo EXCEPT ![r] = t] \/ todo' = todo
            OBVIOUS
        <3>3. \E t \in SUBSET Nat : todo' = [todo EXCEPT ![r] = t] \/ todo' = todo
            BY <3>1, <3>2
        <3> QED
            BY <3>1, <3>3, OneEntry
    <2>8. verdict' \in [Runs -> [BatchIds -> {"none", "clean", "dirty"}]]
        BY DEF BatchInv, BatchTypes
    <2> QED
        BY <2>1, <2>2, <2>3, <2>4, <2>5, <2>6, <2>7, <2>8 DEF BatchTypes
<1>2. ASSUME NEW q \in Runs \ {r} PROVE SameRun(q)
    BY DEF SameRun, BatchInv, BatchTypes
<1>3. Sound(r)'
    BY DEF BatchInv, BatchTypes, RunOK, Sound, Unjudged
<1>4. Unjudged(r)'
    BY BatchIdsAreNat DEF BatchInv, BatchTypes, RunOK, Unjudged
<1>5. InSequence(r)'
    BY BatchIdsAreNat DEF BatchInv, BatchTypes, RunOK, InSequence, Launching, Tearing
<1>6. Teardown(r)'
    BY DEF BatchInv, BatchTypes, RunOK, Teardown, InSequence, PodAnswered, VolumeAnswered, Verified, Launching, Tearing
<1> QED
    BY <1>1, <1>2, <1>3, <1>4, <1>5, <1>6, RunThere DEF RunOK

LEMMA CheckKeeps ==
    ASSUME BatchInv, NEW r \in Runs, \E b \in BatchIds : CheckPod(r, b)
    PROVE  BatchInv'
<1> USE DEF CheckPod, StillRunning, podVars, At, To, Fault
<1>1. BatchTypes'
    <2>1. PICK b \in BatchIds : CheckPod(r, b)
        OBVIOUS
    <2>2. b \in Nat
        BY BatchIdsAreNat
    <2>3. left' = left \/ \E l \in {{}, {b}} : left' = [left EXCEPT ![r] = left[r] \union l]
        BY <2>1
    <2>4. unanswered' = unanswered
          \/ unanswered' = [unanswered EXCEPT ![r] = unanswered[r] \union {b}]
        BY <2>1
    <2>5. todo' = [todo EXCEPT ![r] = todo[r] \ {b}]
        BY <2>1
    <2>6. UNCHANGED <<volume, pod, stage, batch, jobs, verdict>>
        BY <2>1
    <2>7. /\ left[r] \union {b} \in SUBSET Nat /\ left[r] \union {} \in SUBSET Nat
          /\ unanswered[r] \union {b} \in SUBSET Nat /\ todo[r] \ {b} \in SUBSET Nat
        BY <2>2 DEF BatchInv, BatchTypes
    <2>8. left' \in [Runs -> SUBSET Nat]
        BY <2>3, <2>7, OneEntry DEF BatchInv, BatchTypes
    <2>9. unanswered' \in [Runs -> SUBSET Nat]
        BY <2>4, <2>7, OneEntry DEF BatchInv, BatchTypes
    <2>10. todo' \in [Runs -> SUBSET Nat]
        <3>1. todo \in [Runs -> SUBSET Nat]
            BY DEF BatchInv, BatchTypes
        <3> HIDE DEF CheckPod, StillRunning, podVars, At, To, Fault
        <3> QED
            BY <3>1, <2>5, <2>7, OneEntry
    <2> QED
        BY <2>6, <2>8, <2>9, <2>10 DEF BatchInv, BatchTypes
<1>2. ASSUME NEW q \in Runs \ {r} PROVE SameRun(q)
    BY DEF SameRun, BatchInv, BatchTypes
<1>3. Sound(r)'
    BY DEF BatchInv, BatchTypes, RunOK, Sound, Unjudged
<1>4. Unjudged(r)'
    BY BatchIdsAreNat DEF BatchInv, BatchTypes, RunOK, Unjudged
<1>5. InSequence(r)'
    BY BatchIdsAreNat DEF BatchInv, BatchTypes, RunOK, InSequence, Launching, Tearing
<1>6. Teardown(r)'
    BY DEF BatchInv, BatchTypes, RunOK, Teardown, InSequence, PodAnswered, VolumeAnswered, Verified, Launching, Tearing
<1> QED
    BY <1>1, <1>2, <1>3, <1>4, <1>5, <1>6, RunThere DEF RunOK

LEMMA DeleteKeeps ==
    ASSUME BatchInv, NEW r \in Runs, \E b \in BatchIds : DeleteVolume(r, b)
    PROVE  BatchInv'
<1> USE DEF DeleteVolume, podVars, At, To, Fault
<1>1. BatchTypes'
    <2>1. volume' \in [Runs -> [BatchIds -> {"none", "present", "gone"}]]
        <3>1. PICK b \in BatchIds : DeleteVolume(r, b)
            OBVIOUS
        <3>2. volume[r][b] \in {"none", "present", "gone"}
            BY DEF BatchInv, BatchTypes
        <3>3. \/ volume' = volume
              \/ \E v \in {volume[r][b], "gone"} : volume' = [volume EXCEPT ![r][b] = v]
            BY <3>1
        <3> QED
            BY <3>2, <3>3, VolumeCell DEF BatchInv, BatchTypes
    <2>2. pod' \in [Runs -> [BatchIds -> {"none", "running", "exited"}]]
        BY DEF BatchInv, BatchTypes
    <2>3. stage' \in [Runs -> Stages]
        BY DEF BatchInv, BatchTypes, Stages
    <2>4. batch' \in [Runs -> Nat]
        BY DEF BatchInv, BatchTypes
    <2>5. jobs' \in [Runs -> SUBSET Nat]
        BY DEF BatchInv, BatchTypes
    <2>6. left' \in [Runs -> SUBSET Nat] /\ unanswered' \in [Runs -> SUBSET Nat]
        <3>1. PICK b \in BatchIds : DeleteVolume(r, b)
            OBVIOUS
        <3>2. b \in Nat
            BY BatchIdsAreNat
        <3>3. left' = left \/ left' = [left EXCEPT ![r] = left[r] \union {b}]
            BY <3>1
        <3>4. unanswered' = unanswered
              \/ unanswered' = [unanswered EXCEPT ![r] = unanswered[r] \union {b}]
            BY <3>1
        <3>5. /\ left \in [Runs -> SUBSET Nat] /\ unanswered \in [Runs -> SUBSET Nat]
              /\ left[r] \union {b} \in SUBSET Nat /\ unanswered[r] \union {b} \in SUBSET Nat
            BY <3>2 DEF BatchInv, BatchTypes
        <3> QED
            BY <3>3, <3>4, <3>5, OneEntry
    <2>7. todo' \in [Runs -> SUBSET Nat]
        BY DEF BatchInv, BatchTypes, Verified
    <2>8. verdict' \in [Runs -> [BatchIds -> {"none", "clean", "dirty"}]]
        BY DEF BatchInv, BatchTypes
    <2> QED
        BY <2>1, <2>2, <2>3, <2>4, <2>5, <2>6, <2>7, <2>8 DEF BatchTypes
<1>2. ASSUME NEW q \in Runs \ {r} PROVE SameRun(q)
    BY DEF SameRun, BatchInv, BatchTypes
<1>3. Sound(r)'
    BY DEF BatchInv, BatchTypes, RunOK, Sound, Unjudged
<1>4. Unjudged(r)'
    BY BatchIdsAreNat DEF BatchInv, BatchTypes, RunOK, Unjudged
<1>5. InSequence(r)'
    BY BatchIdsAreNat DEF BatchInv, BatchTypes, RunOK, InSequence, Launching, Tearing
<1>6. Teardown(r)'
    BY DEF BatchInv, BatchTypes, RunOK, Teardown, InSequence, PodAnswered, VolumeAnswered, Verified, Launching, Tearing
<1> QED
    BY <1>1, <1>2, <1>3, <1>4, <1>5, <1>6, RunThere DEF RunOK

LEMMA DeletedKeeps ==
    ASSUME BatchInv, NEW r \in Runs, Deleted(r)
    PROVE  BatchInv'
<1> USE DEF Deleted, Recorded, NextBatch, Verified, podVars, At, To, Fault
<1>1. BatchTypes'
    <2>1. volume' \in [Runs -> [BatchIds -> {"none", "present", "gone"}]]
        BY DEF BatchInv, BatchTypes
    <2>2. pod' \in [Runs -> [BatchIds -> {"none", "running", "exited"}]]
        BY DEF BatchInv, BatchTypes
    <2>3. stage' \in [Runs -> Stages]
        BY DEF BatchInv, BatchTypes, Stages
    <2>4. batch' \in [Runs -> Nat]
        BY DEF BatchInv, BatchTypes
    <2>5. jobs' \in [Runs -> SUBSET Nat]
        BY DEF BatchInv, BatchTypes
    <2>6. left' \in [Runs -> SUBSET Nat] /\ unanswered' \in [Runs -> SUBSET Nat]
        BY BatchIdsAreNat DEF BatchInv, BatchTypes
    <2>7. todo' \in [Runs -> SUBSET Nat]
        BY DEF BatchInv, BatchTypes, Verified
    <2>8. verdict' \in [Runs -> [BatchIds -> {"none", "clean", "dirty"}]]
        BY DEF BatchInv, BatchTypes
    <2> QED
        BY <2>1, <2>2, <2>3, <2>4, <2>5, <2>6, <2>7, <2>8 DEF BatchTypes
<1>2. ASSUME NEW q \in Runs \ {r} PROVE SameRun(q)
    BY DEF SameRun, BatchInv, BatchTypes
<1>a. \A b \in BatchIds :
        verdict'[r][b] = IF b \notin Verified(r) THEN verdict[r][b]
                         ELSE IF left[r] = {} THEN "clean" ELSE "dirty"
    BY DEF BatchInv, BatchTypes
<1>b. stage[r] = "delete" /\ todo[r] = {}
      /\ UNCHANGED <<volume, pod, left, unanswered>>
    OBVIOUS
<1>3. Sound(r)'
    <2>1. ASSUME NEW b \in BatchIds, b \in Verified(r), left[r] = {}, b \notin unanswered[r]
          PROVE  pod[r][b] # "running" /\ volume[r][b] = "gone"
        BY <2>1, <1>b DEF BatchInv, RunOK, Teardown, PodAnswered, VolumeAnswered
    <2>2. Sound(r)
        BY DEF BatchInv, RunOK
    <2> QED
        BY <2>1, <2>2, <1>a, <1>b DEF Sound
<1>4. Unjudged(r)'
    <2>1. CASE r \in Benchmarks
        <3>1. batch[r] \in Nat /\ batch'[r] = batch[r] + 1 /\ r \notin Retests
            BY <2>1, BatchAssumption DEF BatchInv, BatchTypes
        <3>2. \A b \in BatchIds : batch'[r] <= b => b \notin Verified(r) /\ batch[r] <= b
            BY <2>1, <3>1, BatchIdsAreNat
        <3> QED
            BY <3>1, <3>2, <1>a, <1>b DEF BatchInv, RunOK, Unjudged
    <2>2. CASE r \notin Benchmarks
        <3>1. stage'[r] = "over"
            BY <2>2 DEF BatchInv, BatchTypes
        <3> QED
            BY <3>1 DEF Unjudged
    <2> QED
        BY <2>1, <2>2
<1>5. InSequence(r)'
    BY BatchIdsAreNat DEF BatchInv, BatchTypes, RunOK, InSequence, Launching, Tearing
<1>6. Teardown(r)'
    BY DEF BatchInv, BatchTypes, RunOK, Teardown, InSequence, PodAnswered, VolumeAnswered, Verified, Launching, Tearing
<1> QED
    BY <1>1, <1>2, <1>3, <1>4, <1>5, <1>6, RunThere DEF RunOK

LEMMA ExitKeeps ==
    ASSUME BatchInv, NEW r \in Runs, \E b \in BatchIds : PodExits(r, b)
    PROVE  BatchInv'
<1> USE DEF PodExits, threadVars, podVars, At, To, Fault
<1>1. BatchTypes'
    BY BatchIdsAreNat DEF BatchInv, BatchTypes, Stages, Runs
<1>2. ASSUME NEW q \in Runs \ {r} PROVE SameRun(q)
    BY DEF SameRun, BatchInv, BatchTypes
<1>3. Sound(r)'
    BY DEF BatchInv, BatchTypes, RunOK, Sound, Unjudged
<1>4. Unjudged(r)'
    BY BatchIdsAreNat DEF BatchInv, BatchTypes, RunOK, Unjudged
<1>5. InSequence(r)'
    BY BatchIdsAreNat DEF BatchInv, BatchTypes, RunOK, InSequence, Launching, Tearing
<1>6. Teardown(r)'
    BY DEF BatchInv, BatchTypes, RunOK, Teardown, InSequence, PodAnswered, VolumeAnswered, Verified, Launching, Tearing
<1> QED
    BY <1>1, <1>2, <1>3, <1>4, <1>5, <1>6, RunThere DEF RunOK

LEMMA DiesKeeps == BatchInv /\ WorkerDies => BatchInv'
<1> SUFFICES ASSUME BatchInv, WorkerDies PROVE BatchInv'
    OBVIOUS
<1>1. BatchTypes'
    BY DEF WorkerDies, podVars, BatchInv, BatchTypes, Stages
<1>2. ASSUME NEW r \in Runs PROVE RunOK(r)'
    <2>1. stage'[r] \in {"failed", stage[r]} /\ stage'[r] \in {"idle", "over", "failed"}
        BY DEF WorkerDies
    <2>2. /\ volume'[r] = volume[r] /\ pod'[r] = pod[r] /\ batch'[r] = batch[r]
          /\ jobs'[r] = jobs[r] /\ unanswered'[r] = unanswered[r] /\ verdict'[r] = verdict[r]
        BY DEF WorkerDies, podVars
    <2>3. Sound(r) /\ Unjudged(r) /\ InSequence(r)
        BY DEF BatchInv, RunOK
    <2>4. Sound(r)' /\ Unjudged(r)' /\ InSequence(r)'
        BY <2>1, <2>2, <2>3 DEF Sound, Unjudged, InSequence, Launching, Tearing
    <2>5. Teardown(r)'
        BY <2>1 DEF Teardown
    <2> QED
        BY <2>4, <2>5 DEF RunOK
<1> QED
    BY <1>1, <1>2 DEF BatchInv

LEMMA BatchInvStep == BatchInv /\ [BatchNext]_batchVars => BatchInv'
<1> SUFFICES ASSUME BatchInv, [BatchNext]_batchVars PROVE BatchInv'
    OBVIOUS
<1>1. ASSUME NEW r \in Runs,
             \/ StartRetest(r) \/ StartBenchmark(r) \/ ReadCounter(r) \/ WriteCounter(r)
             \/ CreateVolume(r) \/ Upload(r) \/ CreatePod(r) \/ NoCapacity(r) \/ Discard(r)
      PROVE  BatchInv'
    BY <1>1, StartKeeps, VolumeKeeps, UploadKeeps, PodKeeps, CapacityKeeps
       DEF StartRetest, StartBenchmark
<1>2. ASSUME NEW r \in Runs, WaitOver(r) \/ Terminated(r) \/ Checked(r) \/ Deleted(r)
      PROVE  BatchInv'
    BY <1>2, WaitKeeps, TurnKeeps, DeletedKeeps
<1>3. ASSUME NEW r \in Runs, NEW b \in BatchIds,
             Poll(r, b) \/ Terminate(r, b) \/ CheckPod(r, b) \/ DeleteVolume(r, b)
             \/ PodExits(r, b)
      PROVE  BatchInv'
    BY <1>3, WaitKeeps, CheckKeeps, DeleteKeeps, ExitKeeps
<1>4. CASE WorkerDies
    BY <1>4, DiesKeeps
<1>5. CASE UNCHANGED batchVars
    <2>1. UNCHANGED <<volume, pod, stage, batch, jobs, todo, left, unanswered, verdict>>
        BY <1>5 DEF batchVars, podVars, threadVars
    <2>2. ASSUME NEW r \in Runs PROVE RunOK(r)'
        BY <2>1, SameRunKeeps DEF SameRun, BatchInv
    <2> QED
        BY <2>1, <2>2 DEF BatchInv, BatchTypes
<1> QED
    BY <1>1, <1>2, <1>3, <1>4, <1>5 DEF BatchNext

\* A teardown recorded as clean is true of every batch it was recorded for and
\* stays true, for any number of runs and batches, whatever calls fail, fail
\* with their effect done or find no capacity and whenever the worker dies,
\* but for the questions that got no answer (RunPodClient.verify_teardown).
THEOREM CleanIsGone == BatchSpec => []CleanMeansGone
<1>1. BatchInv => CleanMeansGone
    BY DEF BatchInv, RunOK, Sound, CleanMeansGone
<1> QED
    BY <1>1, BatchInvInit, BatchInvStep, PTL DEF BatchSpec

\* What BatchInv leaves of the variables' types.
LaunchTypes ==
    /\ nextRunId \in Nat /\ failures \in 0 .. MaxFaults
    /\ current \in [Runs -> Nat] /\ runId \in [Runs -> [BatchIds -> Nat]]
    /\ tries \in [Runs -> 0 .. Attempts]
    /\ jobs \in [Runs -> SUBSET BatchIds] /\ todo \in [Runs -> SUBSET BatchIds]
    /\ left \in [Runs -> SUBSET BatchIds] /\ unanswered \in [Runs -> SUBSET BatchIds]

\* A batch to launch or a tier to tear down is one the run has, and a pod to
\* create has attempts left.
InTurn(r) ==
    /\ stage[r] \in Launching \/ (r \in Benchmarks /\ stage[r] \in Tearing) =>
         batch[r] \in 1 .. Size[r]
    /\ stage[r] \in Launching \ {"discard"} => tries[r] < Attempts

TurnsInv == LaunchTypes /\ \A r \in Runs : InTurn(r)

LEMMA BatchOfRun ==
    ASSUME NEW r \in Runs
    PROVE  /\ Size[r] \in Nat \ {0} /\ 1 .. Size[r] \subseteq BatchIds
           /\ Attempts \in Nat \ {0} /\ MaxFaults \in Nat
<1>1. Size \in [Runs -> Nat \ {0}] /\ Attempts \in Nat \ {0} /\ MaxFaults \in Nat
    BY BatchAssumption DEF Runs
<1> QED
    BY <1>1 DEF BatchIds

LEMMA TurnsInit == BatchInit => TurnsInv
<1> SUFFICES ASSUME BatchInit PROVE TurnsInv
    OBVIOUS
<1>1. Attempts \in Nat \ {0} /\ MaxFaults \in Nat
    BY BatchAssumption
<1>2. LaunchTypes
    BY <1>1 DEF BatchInit, LaunchTypes
<1>3. ASSUME NEW r \in Runs PROVE InTurn(r)
    BY BatchOfRun DEF BatchInit, InTurn
<1> QED
    BY <1>2, <1>3 DEF TurnsInv

\* Steps of one run leave the turns of the others.
LEMMA TurnOfOne ==
    ASSUME TurnsInv, NEW r \in Runs, LaunchTypes', InTurn(r)',
           \A q \in Runs \ {r} :
             stage'[q] = stage[q] /\ batch'[q] = batch[q] /\ tries'[q] = tries[q]
    PROVE  TurnsInv'
<1>1. ASSUME NEW q \in Runs \ {r} PROVE InTurn(q)'
    BY DEF TurnsInv, InTurn
<1> QED
    BY <1>1 DEF TurnsInv

LEMMA StaysTyped ==
    ASSUME NEW A, NEW B, NEW f \in [A -> B], NEW a, NEW b \in B
    PROVE  [f EXCEPT ![a] = b] \in [A -> B]
OBVIOUS

LEMMA NextTurn ==
    ASSUME BatchInv, TurnsInv, NEW r \in Runs, NextBatch(r),
           stage[r] \in Launching \/ (r \in Benchmarks /\ stage[r] \in Tearing)
    PROVE  /\ tries' \in [Runs -> 0 .. Attempts] /\ todo' \in [Runs -> SUBSET BatchIds]
           /\ InTurn(r)'
           /\ \A q \in Runs \ {r} :
                stage'[q] = stage[q] /\ batch'[q] = batch[q] /\ tries'[q] = tries[q]
<1>1. /\ tries \in [Runs -> 0 .. Attempts] /\ todo \in [Runs -> SUBSET BatchIds]
      /\ jobs \in [Runs -> SUBSET BatchIds]
      /\ stage \in [Runs -> Stages] /\ batch \in [Runs -> Nat] /\ batch[r] \in 1 .. Size[r]
    BY DEF TurnsInv, LaunchTypes, BatchInv, BatchTypes, InTurn
<1>2. Size[r] \in Nat \ {0} /\ Attempts \in Nat \ {0}
    BY BatchOfRun
<1>3. batch' = [batch EXCEPT ![r] = batch[r] + 1] /\ tries' = [tries EXCEPT ![r] = 0]
    BY DEF NextBatch
<1>4. tries' \in [Runs -> 0 .. Attempts] /\ todo' \in [Runs -> SUBSET BatchIds]
    BY <1>1, <1>2, <1>3 DEF NextBatch
<1>5. \A q \in Runs \ {r} : stage'[q] = stage[q] /\ batch'[q] = batch[q] /\ tries'[q] = tries[q]
    BY <1>1, <1>3 DEF NextBatch, To
<1>6. InTurn(r)'
    <2>1. batch'[r] = batch[r] + 1 /\ tries'[r] = 0
        BY <1>1, <1>3
    <2>2. batch[r] < Size[r] \/ stage'[r] = (IF r \in Benchmarks THEN "over" ELSE "wait")
        BY <1>1 DEF NextBatch, To
    <2>3. CASE batch[r] < Size[r]
        BY <1>1, <1>2, <2>1, <2>3 DEF InTurn
    <2>4. CASE stage'[r] = (IF r \in Benchmarks THEN "over" ELSE "wait")
        BY <2>4 DEF InTurn, Launching, Tearing
    <2> QED
        BY <2>2, <2>3, <2>4
<1> QED
    BY <1>4, <1>5, <1>6

LEMMA TurnsStep ==
    ASSUME BatchInv, TurnsInv, [BatchNext]_batchVars
    PROVE  TurnsInv'
<1>0. /\ nextRunId \in Nat /\ failures \in 0 .. MaxFaults
      /\ current \in [Runs -> Nat] /\ runId \in [Runs -> [BatchIds -> Nat]]
      /\ tries \in [Runs -> 0 .. Attempts]
      /\ jobs \in [Runs -> SUBSET BatchIds] /\ todo \in [Runs -> SUBSET BatchIds]
      /\ left \in [Runs -> SUBSET BatchIds] /\ unanswered \in [Runs -> SUBSET BatchIds]
      /\ stage \in [Runs -> Stages] /\ batch \in [Runs -> Nat]
      /\ \A r \in Runs : InTurn(r)
      /\ BatchIds \subseteq Nat
    BY BatchIdsAreNat DEF TurnsInv, LaunchTypes, BatchInv, BatchTypes
<1>f. Fault => failures' \in 0 .. MaxFaults
    BY <1>0, BatchAssumption DEF Fault
<1>1. ASSUME NEW r \in Runs, Start(r) \/ ReadCounter(r) PROVE TurnsInv'
    <2>1. LaunchTypes'
        BY <1>0, <1>1 DEF Start, ReadCounter, LaunchTypes, podVars
    <2>2. InTurn(r)'
        BY <1>0, <1>1 DEF Start, ReadCounter, InTurn, At, To, Launching
    <2>3. \A q \in Runs \ {r} :
            stage'[q] = stage[q] /\ batch'[q] = batch[q] /\ tries'[q] = tries[q]
        BY <1>0, <1>1 DEF Start, ReadCounter, To
    <2> QED
        BY <2>1, <2>2, <2>3, TurnOfOne
<1>2. ASSUME NEW r \in Runs, WriteCounter(r) PROVE TurnsInv'
    <2>0. batch[r] \in Nat /\ current[r] \in Nat
        BY <1>0
    <2>1. runId' \in [Runs -> [BatchIds -> Nat]]
        <3>1. [b \in BatchIds |-> current[r] + b] \in [BatchIds -> Nat]
            BY <1>0, <2>0
        <3>2. [runId[r] EXCEPT ![batch[r]] = current[r] + 1] \in [BatchIds -> Nat]
            <4>1. runId[r] \in [BatchIds -> Nat] /\ current[r] + 1 \in Nat
                BY <1>0, <2>0
            <4> QED
                BY <4>1, StaysTyped
        <3> DEFINE ids == IF r \in Benchmarks THEN [b \in BatchIds |-> current[r] + b]
                          ELSE [runId[r] EXCEPT ![batch[r]] = current[r] + 1]
        <3>3. runId' = [runId EXCEPT ![r] = ids]
            BY <1>2 DEF WriteCounter
        <3>4. ids \in [BatchIds -> Nat]
            BY <3>1, <3>2
        <3> HIDE DEF ids
        <3> QED
            BY <1>0, <3>3, <3>4, StaysTyped
    <2>2. LaunchTypes'
        BY <1>0, <1>2, <2>0, <2>1 DEF WriteCounter, LaunchTypes, podVars
    <2>3. InTurn(r)'
        BY <1>0, <1>2 DEF WriteCounter, InTurn, At, To, Launching
    <2>4. \A q \in Runs \ {r} :
            stage'[q] = stage[q] /\ batch'[q] = batch[q] /\ tries'[q] = tries[q]
        BY <1>0, <1>2 DEF WriteCounter, To
    <2> QED
        BY <2>2, <2>3, <2>4, TurnOfOne
<1>3. ASSUME NEW r \in Runs, NextBatch(r),
             stage[r] \in Launching \/ (r \in Benchmarks /\ stage[r] \in Tearing),
             UNCHANGED <<nextRunId, current, runId, jobs, left, unanswered>>,
             UNCHANGED failures \/ Fault
      PROVE  TurnsInv'
    <2>1. /\ tries' \in [Runs -> 0 .. Attempts] /\ todo' \in [Runs -> SUBSET BatchIds]
          /\ InTurn(r)'
          /\ \A q \in Runs \ {r} :
               stage'[q] = stage[q] /\ batch'[q] = batch[q] /\ tries'[q] = tries[q]
        BY <1>3, NextTurn
    <2>2. LaunchTypes'
        BY <1>0, <1>f, <1>3, <2>1 DEF LaunchTypes
    <2> QED
        BY <2>1, <2>2, TurnOfOne
<1>4. ASSUME NEW r \in Runs, CreateVolume(r) PROVE TurnsInv'
    <2>1. CASE NextBatch(r) /\ Fault
        BY <1>3, <1>4, <2>1 DEF CreateVolume, At, Launching
    <2>2. CASE To(r, "upload") /\ UNCHANGED <<batch, tries, todo, failures>>
        <3>1. LaunchTypes'
            BY <1>0, <1>4, <2>2 DEF CreateVolume, LaunchTypes
        <3>2. InTurn(r)'
            BY <1>0, <1>4, <2>2 DEF CreateVolume, InTurn, At, To, Launching
        <3>3. \A q \in Runs \ {r} :
                stage'[q] = stage[q] /\ batch'[q] = batch[q] /\ tries'[q] = tries[q]
            BY <1>0, <2>2 DEF To
        <3> QED
            BY <3>1, <3>2, <3>3, TurnOfOne
    <2> QED
        BY <1>4, <2>1, <2>2 DEF CreateVolume
<1>5. ASSUME NEW r \in Runs, Upload(r) PROVE TurnsInv'
    <2>1. CASE NextBatch(r) /\ Fault
        BY <1>3, <1>5, <2>1 DEF Upload, At, Launching
    <2>2. CASE \/ To(r, "pod") /\ UNCHANGED <<batch, tries, todo, failures>>
               \/ Fault /\ To(r, "failed") /\ UNCHANGED <<batch, tries, todo>>
        <3>1. LaunchTypes'
            BY <1>0, <1>f, <1>5, <2>2 DEF Upload, LaunchTypes
        <3>2. InTurn(r)'
            BY <1>0, <1>5, <2>2 DEF Upload, InTurn, At, To, Launching, Tearing
        <3>3. \A q \in Runs \ {r} :
                stage'[q] = stage[q] /\ batch'[q] = batch[q] /\ tries'[q] = tries[q]
            BY <1>0, <2>2 DEF To
        <3> QED
            BY <3>1, <3>2, <3>3, TurnOfOne
    <2> QED
        BY <1>5, <2>1, <2>2 DEF Upload
<1>6. ASSUME NEW r \in Runs, CreatePod(r) PROVE TurnsInv'
    <2>1. CASE NextBatch(r) /\ Fault /\ UNCHANGED jobs
        BY <1>3, <1>6, <2>1 DEF CreatePod, At, Launching
    <2>2. CASE Launched(r) /\ UNCHANGED failures
        <3>1. /\ batch[r] \in 1 .. Size[r] /\ batch[r] \in BatchIds /\ Size[r] \in Nat
              /\ Attempts \in Nat \ {0} /\ tries[r] < Attempts
            BY <1>0, <1>6, BatchOfRun DEF CreatePod, At, InTurn, Launching
        <3>2. jobs' \in [Runs -> SUBSET BatchIds] /\ jobs'[r] \in SUBSET BatchIds
            BY <1>0, <2>2, <3>1 DEF Launched
        <3>3. todo' \in [Runs -> SUBSET BatchIds] /\ tries' \in [Runs -> 0 .. Attempts]
            <4>1. /\ todo' \in {todo, [todo EXCEPT ![r] = {batch[r]}], [todo EXCEPT ![r] = jobs'[r]]}
                  /\ tries' \in {tries, [tries EXCEPT ![r] = 0]}
                BY <2>2 DEF Launched
            <4>2. {batch[r]} \in SUBSET BatchIds /\ 0 \in 0 .. Attempts
                BY <3>1
            <4>3. todo' \in [Runs -> SUBSET BatchIds]
                BY <1>0, <3>2, <4>1, <4>2, StaysTyped
            <4>4. tries' \in [Runs -> 0 .. Attempts]
                BY <1>0, <4>1, <4>2, StaysTyped
            <4> QED
                BY <4>3, <4>4
        <3>4. LaunchTypes'
            BY <1>0, <1>6, <2>2, <3>2, <3>3 DEF CreatePod, LaunchTypes
        <3>5. InTurn(r)'
            <4>1. CASE r \in Benchmarks
                BY <1>0, <2>2, <3>1, <4>1 DEF Launched, InTurn, To, Launching
            <4>2. CASE r \notin Benchmarks /\ batch[r] < Size[r]
                BY <1>0, <2>2, <3>1, <4>2 DEF Launched, InTurn, To, Launching
            <4>3. CASE r \notin Benchmarks /\ ~ batch[r] < Size[r]
                BY <1>0, <2>2, <3>1, <4>3 DEF Launched, InTurn, To, Launching
            <4> QED
                BY <4>1, <4>2, <4>3
        <3>6. \A q \in Runs \ {r} :
                stage'[q] = stage[q] /\ batch'[q] = batch[q] /\ tries'[q] = tries[q]
            BY <1>0, <2>2 DEF Launched, To
        <3> QED
            BY <3>4, <3>5, <3>6, TurnOfOne
    <2> QED
        BY <1>6, <2>1, <2>2 DEF CreatePod
<1>7. ASSUME NEW r \in Runs, NoCapacity(r) PROVE TurnsInv'
    <2>1. tries[r] \in Nat /\ tries[r] < Attempts /\ Attempts \in Nat /\ batch[r] \in 1 .. Size[r]
        BY <1>0, <1>7, BatchOfRun DEF NoCapacity, At, InTurn, Launching
    <2>2. LaunchTypes'
        BY <1>0, <1>7, <2>1 DEF NoCapacity, LaunchTypes, podVars
    <2>3. InTurn(r)'
        BY <1>0, <1>7, <2>1 DEF NoCapacity, InTurn, At, To, Launching
    <2>4. \A q \in Runs \ {r} :
            stage'[q] = stage[q] /\ batch'[q] = batch[q] /\ tries'[q] = tries[q]
        BY <1>0, <1>7 DEF NoCapacity, To
    <2> QED
        BY <2>2, <2>3, <2>4, TurnOfOne
<1>8. ASSUME NEW r \in Runs, Discard(r) PROVE TurnsInv'
    BY <1>3, <1>8 DEF Discard, At, Launching
<1>9. ASSUME NEW r \in Runs, WaitOver(r) \/ Terminated(r) \/ Checked(r) PROVE TurnsInv'
    <2>1. r \in Benchmarks => batch[r] \in BatchIds
        BY <1>0, <1>9, BatchOfRun DEF WaitOver, Terminated, Checked, At, InTurn, Tearing
    <2>2. Verified(r) \in SUBSET BatchIds
        BY <1>0, <2>1 DEF Verified
    <2>3. LaunchTypes'
        BY <1>0, <1>9, <2>2 DEF WaitOver, Terminated, Checked, LaunchTypes, podVars
    <2>4. InTurn(r)'
        BY <1>0, <1>9 DEF WaitOver, Terminated, Checked, InTurn, At, To, Launching, Tearing
    <2>5. \A q \in Runs \ {r} :
            stage'[q] = stage[q] /\ batch'[q] = batch[q] /\ tries'[q] = tries[q]
        BY <1>0, <1>9 DEF WaitOver, Terminated, Checked, To
    <2> QED
        BY <2>3, <2>4, <2>5, TurnOfOne
<1>10. ASSUME NEW r \in Runs, Deleted(r) PROVE TurnsInv'
    <2>1. CASE r \in Benchmarks
        BY <1>3, <1>10, <2>1 DEF Deleted, At, Tearing
    <2>2. CASE r \notin Benchmarks
        <3>1. LaunchTypes'
            BY <1>0, <1>10, <2>2 DEF Deleted, LaunchTypes, podVars
        <3>2. InTurn(r)'
            BY <1>0, <1>10, <2>2 DEF Deleted, InTurn, To, Launching
        <3>3. \A q \in Runs \ {r} :
                stage'[q] = stage[q] /\ batch'[q] = batch[q] /\ tries'[q] = tries[q]
            BY <1>0, <1>10, <2>2 DEF Deleted, To
        <3> QED
            BY <3>1, <3>2, <3>3, TurnOfOne
    <2> QED
        BY <2>1, <2>2
<1>11. ASSUME NEW r \in Runs, NEW b \in BatchIds,
              \/ Poll(r, b) \/ Terminate(r, b) \/ CheckPod(r, b) \/ DeleteVolume(r, b)
              \/ PodExits(r, b)
       PROVE  TurnsInv'
    <2>1. /\ UNCHANGED <<nextRunId, stage, batch, current, runId, tries, jobs>>
          /\ UNCHANGED failures \/ Fault
        BY <1>11 DEF Poll, Terminate, CheckPod, DeleteVolume, PodExits, threadVars, podVars
    <2>2. /\ todo' \in [Runs -> SUBSET BatchIds] /\ left' \in [Runs -> SUBSET BatchIds]
          /\ unanswered' \in [Runs -> SUBSET BatchIds]
        <3>1. CASE Poll(r, b) \/ Terminate(r, b) \/ PodExits(r, b)
            BY <1>0, <3>1 DEF Poll, Terminate, PodExits, threadVars, podVars
        <3>2. CASE CheckPod(r, b)
            <4>1. /\ todo[r] \ {b} \in SUBSET BatchIds
                  /\ left[r] \union StillRunning(r, b) \in SUBSET BatchIds
                  /\ unanswered[r] \union {b} \in SUBSET BatchIds
                BY <1>0 DEF StillRunning
            <4>2. /\ todo' = [todo EXCEPT ![r] = todo[r] \ {b}]
                  /\ left' \in {left, [left EXCEPT ![r] = left[r] \union StillRunning(r, b)]}
                  /\ unanswered' \in
                       {unanswered, [unanswered EXCEPT ![r] = unanswered[r] \union {b}]}
                BY <3>2 DEF CheckPod
            <4>3. todo' \in [Runs -> SUBSET BatchIds]
                BY <1>0, <4>1, <4>2, StaysTyped
            <4>4. left' \in [Runs -> SUBSET BatchIds]
                BY <1>0, <4>1, <4>2, StaysTyped
            <4>5. unanswered' \in [Runs -> SUBSET BatchIds]
                BY <1>0, <4>1, <4>2, StaysTyped
            <4> QED
                BY <4>3, <4>4, <4>5
        <3>3. CASE DeleteVolume(r, b)
            <4>1. /\ todo[r] \ {b} \in SUBSET BatchIds
                  /\ left[r] \union {b} \in SUBSET BatchIds
                  /\ unanswered[r] \union {b} \in SUBSET BatchIds
                BY <1>0
            <4>2. /\ todo' = [todo EXCEPT ![r] = todo[r] \ {b}]
                  /\ left' \in {left, [left EXCEPT ![r] = left[r] \union {b}]}
                  /\ unanswered' \in
                       {unanswered, [unanswered EXCEPT ![r] = unanswered[r] \union {b}]}
                BY <3>3 DEF DeleteVolume
            <4>3. todo' \in [Runs -> SUBSET BatchIds]
                BY <1>0, <4>1, <4>2, StaysTyped
            <4>4. left' \in [Runs -> SUBSET BatchIds]
                BY <1>0, <4>1, <4>2, StaysTyped
            <4>5. unanswered' \in [Runs -> SUBSET BatchIds]
                BY <1>0, <4>1, <4>2, StaysTyped
            <4> QED
                BY <4>3, <4>4, <4>5
        <3> QED
            BY <1>11, <3>1, <3>2, <3>3
    <2>3. LaunchTypes'
        BY <1>0, <1>f, <2>1, <2>2 DEF LaunchTypes
    <2>4. \A q \in Runs : InTurn(q)'
        BY <1>0, <2>1 DEF InTurn
    <2> QED
        BY <2>3, <2>4 DEF TurnsInv
<1>12. CASE WorkerDies
    <2>1. LaunchTypes'
        BY <1>0, <1>12 DEF WorkerDies, LaunchTypes, podVars
    <2>2. ASSUME NEW q \in Runs PROVE InTurn(q)'
        BY <1>0, <1>12 DEF WorkerDies, InTurn, Launching, Tearing
    <2> QED
        BY <2>1, <2>2 DEF TurnsInv
<1>13. CASE UNCHANGED batchVars
    <2>1. LaunchTypes'
        BY <1>0, <1>13 DEF batchVars, threadVars, LaunchTypes
    <2>2. ASSUME NEW q \in Runs PROVE InTurn(q)'
        BY <1>0, <1>13 DEF batchVars, threadVars, InTurn
    <2> QED
        BY <2>1, <2>2 DEF TurnsInv
<1> QED
    BY <1>1, <1>2, <1>4, <1>5, <1>6, <1>7, <1>8, <1>9, <1>10, <1>11, <1>12, <1>13
       DEF BatchNext, StartRetest, StartBenchmark

\* A run launches, waits for, checks and deletes batches it has, and tries no
\* batch more often than it may, for any runs, batches and faults.
THEOREM BatchTypeCorrect == BatchSpec => []BatchTypeOK
<1>1. BatchInv /\ TurnsInv => BatchTypeOK
    BY DEF BatchInv, BatchTypes, TurnsInv, LaunchTypes, BatchTypeOK
<1> QED
    BY <1>1, BatchInvInit, BatchInvStep, TurnsInit, TurnsStep, PTL DEF BatchSpec

----------------------------------------------------------------------------
(* The verdict of an optimizer run *)

RunTypes ==
    /\ runs \in [RunIds -> [status : {"absent", "running", "done", "failed"},
                            accepted : BOOLEAN]]
    /\ windows \in [RunIds -> [Windows -> Outcomes \union {"pending"}]]
    /\ oosTrades \in [RunIds -> [Windows -> WithTrades \union {"none"}]]
    /\ phase \in [Optimizers -> Phases] /\ runOf \in [Optimizers -> RunIds \union {NoRun}]
    /\ tested \in [Optimizers -> [Windows -> Outcomes \union {"pending"}]]
    /\ verdictOf \in [Optimizers -> BOOLEAN]

\* A run that is not shared has one process at most.
OneProcess ==
    /\ \A p \in Optimizers : runOf[p] # NoRun => runs[runOf[p]].status # "absent"
    /\ \A p \in Optimizers :
         phase[p] \in {"windows", "push", "finish", "report"} => runOf[p] # NoRun
    /\ \A p, q \in Optimizers :
         runOf[p] = runOf[q] /\ runOf[p] # NoRun /\ runOf[p] \notin shared => p = q

\* That process has the run to finish, and in memory what the store has.
MemoryMatches ==
    \A p \in Optimizers :
        runOf[p] # NoRun /\ runOf[p] \notin shared =>
            /\ phase[p] \in {"chosen", "windows", "push", "finish"} =>
                 runs[runOf[p]].status = "running"
            /\ phase[p] = "windows" =>
                 \A w \in Windows : tested[p][w] \in {"pending", windows[runOf[p]][w]}
            /\ phase[p] \in {"push", "finish"} =>
                 /\ windows[runOf[p]] = tested[p]
                 /\ \A w \in Windows : tested[p][w] # "pending"
                 /\ verdictOf[p] = Accepts(tested[p])

RunsInv == RunTypes /\ OneProcess /\ MemoryMatches /\ VerdictFromRows

LEMMA NoRunIsNone == NoRun \notin RunIds
BY DEF NoRun, RunIds

LEMMA AcceptsIsBoolean == \A results : Accepts(results) \in BOOLEAN
BY DEF Accepts

LEMMA StatusSet ==
    ASSUME NEW run \in [status : {"absent", "running", "done", "failed"}, accepted : BOOLEAN],
           NEW status \in {"absent", "running", "done", "failed"}
    PROVE  [run EXCEPT !.status = status]
             \in [status : {"absent", "running", "done", "failed"}, accepted : BOOLEAN]
<1>1. PICK a \in BOOLEAN, t \in {"absent", "running", "done", "failed"} : run = [status |-> t, accepted |-> a]
    OBVIOUS
<1>2. [run EXCEPT !.status = status] = [status |-> status, accepted |-> a]
    BY <1>1
<1> QED
    BY <1>2

LEMMA RunsInit == OptimizerInit => RunsInv
<1> SUFFICES ASSUME OptimizerInit PROVE RunsInv
    OBVIOUS
<1>1. RunTypes
    BY DEF OptimizerInit, RunTypes, Untested, Phases
<1>2. \A p \in Optimizers : runOf[p] = NoRun /\ phase[p] = "none"
    BY DEF OptimizerInit
<1>3. OneProcess /\ MemoryMatches
    BY <1>2 DEF OneProcess, MemoryMatches
<1>4. VerdictFromRows
    BY DEF OptimizerInit, VerdictFromRows, Untested, WithTrades, Counted
<1> QED
    BY <1>1, <1>3, <1>4 DEF RunsInv

\* A step that leaves the store and what processes remember alone, and moves a
\* process from its run's push to its end or away from the run's windows.
LEMMA AsideKeeps ==
    ASSUME RunsInv, UNCHANGED <<runs, windows, oosTrades, runOf, tested, verdictOf, shared>>,
           NEW p \in Optimizers, NEW to \in {"finish", "flush"},
           phase' = phase \/ (phase' = [phase EXCEPT ![p] = to] /\ (to = "finish" => phase[p] = "push"))
    PROVE  RunsInv'
<1>1. phase' \in [Optimizers -> Phases]
    BY DEF RunsInv, RunTypes, Phases
<1>2. \A q \in Optimizers : phase'[q] = phase[q] \/ phase'[q] = "flush"
                            \/ (phase'[q] = "finish" /\ phase[q] = "push")
    BY DEF RunsInv, RunTypes
<1>3. RunTypes'
    BY <1>1 DEF RunsInv, RunTypes
<1>4. OneProcess'
    BY <1>2 DEF RunsInv, OneProcess
<1>5. MemoryMatches'
    BY <1>2 DEF RunsInv, MemoryMatches
<1>6. VerdictFromRows'
    BY DEF RunsInv, VerdictFromRows
<1> QED
    BY <1>3, <1>4, <1>5, <1>6 DEF RunsInv

\* A process that is gone lays claim to nothing; its run may have failed.
LEMMA GoneKeeps ==
    ASSUME RunsInv, NEW p \in Optimizers, Gone(p), UNCHANGED <<windows, oosTrades, shared>>,
           \/ UNCHANGED runs
           \/ phase[p] = "windows" /\ runs' = [runs EXCEPT ![runOf[p]].status = "failed"]
    PROVE  RunsInv'
<1>1. /\ phase' = [phase EXCEPT ![p] = "none"] /\ runOf' = [runOf EXCEPT ![p] = NoRun]
      /\ tested' = [tested EXCEPT ![p] = Untested] /\ verdictOf' = [verdictOf EXCEPT ![p] = FALSE]
    BY DEF Gone
<1>2. \A q \in Optimizers \ {p} : /\ phase'[q] = phase[q] /\ runOf'[q] = runOf[q]
                                  /\ tested'[q] = tested[q] /\ verdictOf'[q] = verdictOf[q]
    BY <1>1 DEF RunsInv, RunTypes
<1>3. phase'[p] = "none" /\ runOf'[p] = NoRun
    BY <1>1 DEF RunsInv, RunTypes
<1>4. \A r \in RunIds : runs'[r] = runs[r]
                        \/ (r = runOf[p] /\ runs'[r].status = "failed")
    <2>1. CASE UNCHANGED runs
        BY <2>1
    <2>2. CASE phase[p] = "windows" /\ runs' = [runs EXCEPT ![runOf[p]].status = "failed"]
        BY <2>2 DEF RunsInv, RunTypes
    <2> QED
        BY <2>1, <2>2
<1>5. RunTypes'
    <2>1. Untested \in [Windows -> Outcomes \union {"pending"}]
        BY DEF Untested
    <2>2. runs' \in [RunIds -> [status : {"absent", "running", "done", "failed"},
                                accepted : BOOLEAN]]
        <3>1. \A r \in RunIds : [runs[r] EXCEPT !.status = "failed"]
                 \in [status : {"absent", "running", "done", "failed"}, accepted : BOOLEAN]
            BY StatusSet DEF RunsInv, RunTypes
        <3>2. runs' = runs \/ runs' = [runs EXCEPT ![runOf[p]] = [runs[runOf[p]] EXCEPT !.status = "failed"]]
            OBVIOUS
        <3> QED
            BY <3>1, <3>2 DEF RunsInv, RunTypes
    <2>3. /\ phase' \in [Optimizers -> Phases] /\ runOf' \in [Optimizers -> RunIds \union {NoRun}]
          /\ tested' \in [Optimizers -> [Windows -> Outcomes \union {"pending"}]]
          /\ verdictOf' \in [Optimizers -> BOOLEAN]
        BY <1>1, <2>1 DEF RunsInv, RunTypes, Phases
    <2> QED
        BY <2>2, <2>3 DEF RunsInv, RunTypes
<1>6. OneProcess'
    <2>1. \A q \in Optimizers : runOf'[q] # NoRun => q # p /\ runOf'[q] = runOf[q] /\ runOf[q] \in RunIds
        BY <1>2, <1>3 DEF RunsInv, RunTypes
    <2>2. \A q \in Optimizers : runOf'[q] # NoRun => runs'[runOf'[q]].status # "absent"
        BY <1>4, <2>1 DEF RunsInv, OneProcess
    <2>3. \A q \in Optimizers :
            phase'[q] \in {"windows", "push", "finish", "report"} => runOf'[q] # NoRun
        BY <1>2, <1>3 DEF RunsInv, OneProcess
    <2> QED
        BY <2>1, <2>2, <2>3 DEF RunsInv, OneProcess
<1>7. MemoryMatches'
    BY <1>2, <1>3, <1>4, NoRunIsNone DEF RunsInv, RunTypes, OneProcess, MemoryMatches
<1>8. VerdictFromRows'
    BY <1>4 DEF RunsInv, VerdictFromRows
<1> QED
    BY <1>5, <1>6, <1>7, <1>8 DEF RunsInv

\* What a process at a run has to say of it.
LEMMA OneOf ==
    ASSUME RunsInv, NEW p \in Optimizers, NEW q \in Optimizers \ {p},
           runOf[p] # NoRun, runOf[p] \notin shared
    PROVE  runOf[q] # runOf[p]
BY DEF RunsInv, OneProcess

\* A process that takes up a run another is at makes it a shared one.
LEMMA ChooseKeeps ==
    ASSUME RunsInv, NEW p \in Optimizers, Choose(p)
    PROVE  RunsInv'
<1>1. PICK r \in Unfinished \union {NoRun} :
        /\ runOf' = [runOf EXCEPT ![p] = r]
        /\ shared \subseteq shared'
        /\ r # NoRun /\ (\E q \in Optimizers \ {p} : runOf[q] = r) => r \in shared'
    BY DEF Choose
<1>2. /\ UNCHANGED <<runs, windows, oosTrades, tested, verdictOf>>
      /\ phase' = [phase EXCEPT ![p] = "chosen"]
    BY DEF Choose, Turn, storeVars
<1>3. r \in RunIds \union {NoRun} /\ (r # NoRun => runs[r].status = "running")
    BY DEF Unfinished
<1>4. /\ runOf'[p] = r /\ phase'[p] = "chosen"
      /\ \A q \in Optimizers \ {p} : runOf'[q] = runOf[q] /\ phase'[q] = phase[q]
    BY <1>1, <1>2 DEF RunsInv, RunTypes
<1>5. RunTypes'
    BY <1>1, <1>2, <1>3 DEF RunsInv, RunTypes, Phases
<1>6. OneProcess'
    BY <1>1, <1>2, <1>3, <1>4 DEF RunsInv, OneProcess
<1>7. MemoryMatches'
    BY <1>1, <1>2, <1>3, <1>4 DEF RunsInv, MemoryMatches
<1>8. VerdictFromRows'
    BY <1>1, <1>2 DEF RunsInv, VerdictFromRows
<1> QED
    BY <1>5, <1>6, <1>7, <1>8 DEF RunsInv

\* What it has in memory when it starts is what the store has of its run.
LEMMA PlanKeeps ==
    ASSUME RunsInv, NEW p \in Optimizers, Plan(p)
    PROVE  RunsInv'
<1>1. PICK r \in RunIds :
        /\ RunId(p, r)
        /\ runs' = IF runOf[p] = NoRun THEN [runs EXCEPT ![r].status = "running"] ELSE runs
        /\ runOf' = [runOf EXCEPT ![p] = r] /\ tested' = [tested EXCEPT ![p] = Resumed(r)]
    BY DEF Plan
<1>2. /\ UNCHANGED <<windows, oosTrades, verdictOf, shared>> /\ phase[p] = "chosen"
      /\ phase' = [phase EXCEPT ![p] = "windows"]
    BY DEF Plan, Turn
<1>3. r # NoRun /\ (runOf[p] = NoRun => runs[r].status = "absent") /\ (runOf[p] # NoRun => r = runOf[p])
    BY <1>1, NoRunIsNone DEF RunId, NewRun
<1>4. /\ runOf'[p] = r /\ phase'[p] = "windows" /\ tested'[p] = Resumed(r)
      /\ \A q \in Optimizers \ {p} :
           runOf'[q] = runOf[q] /\ phase'[q] = phase[q] /\ tested'[q] = tested[q]
    BY <1>1, <1>2 DEF RunsInv, RunTypes
<1>5. \A q \in RunIds : runs'[q] = runs[q]
                        \/ (q = r /\ runOf[p] = NoRun /\ runs'[q].status = "running")
    BY <1>1 DEF RunsInv, RunTypes
<1>6. \A w \in Windows : Resumed(r)[w] \in {"pending", windows[r][w]}
    BY DEF Resumed
<1>7. RunTypes'
    <2>1. Resumed(r) \in [Windows -> Outcomes \union {"pending"}]
        BY DEF Resumed, RunsInv, RunTypes
    <2>2. runs' \in [RunIds -> [status : {"absent", "running", "done", "failed"},
                                accepted : BOOLEAN]]
        <3>1. [runs[r] EXCEPT !.status = "running"]
                 \in [status : {"absent", "running", "done", "failed"}, accepted : BOOLEAN]
            BY StatusSet DEF RunsInv, RunTypes
        <3>2. runs' = runs \/ runs' = [runs EXCEPT ![r] = [runs[r] EXCEPT !.status = "running"]]
            BY <1>1
        <3> QED
            BY <3>1, <3>2 DEF RunsInv, RunTypes
    <2> QED
        BY <1>1, <1>2, <2>1, <2>2 DEF RunsInv, RunTypes, Phases
<1>8. \A q \in Optimizers \ {p} : runOf[q] = r => runOf[p] # NoRun
    BY <1>3 DEF RunsInv, OneProcess
<1>9. runs'[r].status # "absent"
    BY <1>1, <1>3, <1>5 DEF RunsInv, RunTypes, OneProcess
<1>10. OneProcess'
    <2>1. \A q \in Optimizers : runOf'[q] # NoRun => runs'[runOf'[q]].status # "absent"
        BY <1>4, <1>5, <1>9 DEF RunsInv, RunTypes, OneProcess
    <2>2. \A q \in Optimizers :
            phase'[q] \in {"windows", "push", "finish", "report"} => runOf'[q] # NoRun
        BY <1>3, <1>4 DEF RunsInv, OneProcess
    <2>3. \A q \in Optimizers \ {p} : runOf[q] = r => r \in shared
        BY <1>3, <1>8 DEF RunsInv, OneProcess
    <2>4. \A q, s \in Optimizers :
            runOf'[q] = runOf'[s] /\ runOf'[q] # NoRun /\ runOf'[q] \notin shared => q = s
        BY <1>4, <2>3 DEF RunsInv, OneProcess
    <2> QED
        BY <1>2, <2>1, <2>2, <2>4 DEF OneProcess
<1>11. MemoryMatches'
    <2>1. r \notin shared => runs'[r].status = "running"
        BY <1>2, <1>3, <1>1, <1>5 DEF RunsInv, RunTypes, MemoryMatches
    <2>2. \A q \in Optimizers \ {p} : runOf[q] # NoRun /\ runOf[q] \notin shared => runs'[runOf[q]] = runs[runOf[q]]
        BY <1>5, <1>8 DEF RunsInv, RunTypes
    <2> QED
        BY <1>2, <1>4, <1>6, <2>1, <2>2 DEF RunsInv, MemoryMatches
<1>12. VerdictFromRows'
    BY <1>2, <1>5 DEF RunsInv, VerdictFromRows
<1> QED
    BY <1>7, <1>10, <1>11, <1>12 DEF RunsInv

\* A window's result goes to memory and the store, its trades with it.
LEMMA ExecuteKeeps ==
    ASSUME RunsInv, NEW p \in Optimizers, NEW w \in Windows, Execute(p, w)
    PROVE  RunsInv'
<1> DEFINE r == runOf[p]
<1>1. PICK o \in Outcomes :
        /\ tested[p][w] = "pending" /\ tested' = [tested EXCEPT ![p][w] = o]
        /\ windows' = [windows EXCEPT ![r][w] = o]
        /\ oosTrades' = [oosTrades EXCEPT ![r][w] = IF o \in WithTrades THEN o ELSE "none"]
    BY DEF Execute, EvaluateWindow, RecordWindow
<1>2. phase[p] = "windows" /\ UNCHANGED <<runs, phase, runOf, verdictOf, shared>>
    BY DEF Execute, auditVars
<1>3. r \in RunIds
    BY <1>2 DEF RunsInv, RunTypes, OneProcess
<1>4. /\ \A q \in Optimizers \ {p} : tested'[q] = tested[q]
      /\ \A v \in Windows : tested'[p][v] = IF v = w THEN o ELSE tested[p][v]
      /\ tested' \in [Optimizers -> [Windows -> Outcomes \union {"pending"}]]
    <2>1. [tested[p] EXCEPT ![w] = o] \in [Windows -> Outcomes \union {"pending"}]
        BY DEF RunsInv, RunTypes
    <2> QED
        BY <1>1, <2>1 DEF RunsInv, RunTypes
<1>5. /\ \A q \in RunIds \ {r} : windows'[q] = windows[q]
      /\ \A v \in Windows : windows'[r][v] = IF v = w THEN o ELSE windows[r][v]
      /\ windows' \in [RunIds -> [Windows -> Outcomes \union {"pending"}]]
    <2>1. [windows[r] EXCEPT ![w] = o] \in [Windows -> Outcomes \union {"pending"}]
        BY <1>3 DEF RunsInv, RunTypes
    <2> QED
        BY <1>1, <1>3, <2>1 DEF RunsInv, RunTypes
<1>6. /\ \A q \in RunIds \ {r} : oosTrades'[q] = oosTrades[q]
      /\ \A v \in Windows : oosTrades'[r][v] = IF v = w THEN (IF o \in WithTrades THEN o ELSE "none")
                                                        ELSE oosTrades[r][v]
      /\ oosTrades' \in [RunIds -> [Windows -> WithTrades \union {"none"}]]
    <2>1. [oosTrades[r] EXCEPT ![w] = IF o \in WithTrades THEN o ELSE "none"]
             \in [Windows -> WithTrades \union {"none"}]
        BY <1>3 DEF RunsInv, RunTypes
    <2> QED
        BY <1>1, <1>3, <2>1 DEF RunsInv, RunTypes
<1>7. RunTypes'
    BY <1>2, <1>4, <1>5, <1>6 DEF RunsInv, RunTypes
<1>8. OneProcess'
    BY <1>2 DEF RunsInv, OneProcess
<1>9. r # NoRun /\ (r \notin shared => \A q \in Optimizers \ {p} : runOf[q] # r)
    BY <1>3, NoRunIsNone, OneOf
<1>10. MemoryMatches'
    <2>1. ASSUME NEW q \in Optimizers, runOf[q] # NoRun, runOf[q] \notin shared, q # p
          PROVE  windows'[runOf[q]] = windows[runOf[q]] /\ tested'[q] = tested[q]
        BY <1>4, <1>5, <1>9, <2>1 DEF RunsInv, RunTypes
    <2>2. r \notin shared => \A v \in Windows : tested'[p][v] \in {"pending", windows'[r][v]}
        BY <1>2, <1>4, <1>5, <1>9 DEF RunsInv, MemoryMatches
    <2> QED
        BY <1>2, <2>1, <2>2 DEF RunsInv, MemoryMatches
<1>11. VerdictFromRows'
    <2>1. r \notin shared => runs[r].status # "done"
        BY <1>2, <1>9 DEF RunsInv, MemoryMatches
    <2>2. ASSUME NEW q \in RunIds, runs[q].status = "done", q \notin shared
          PROVE  windows'[q] = windows[q]
        BY <1>5, <2>1, <2>2
    <2>3. ASSUME NEW q \in RunIds, NEW v \in Windows
          PROVE  oosTrades'[q][v] = IF windows'[q][v] \in WithTrades THEN windows'[q][v] ELSE "none"
        BY <1>5, <1>6 DEF RunsInv, VerdictFromRows
    <2> QED
        BY <1>2, <2>2, <2>3 DEF RunsInv, VerdictFromRows, With
<1> QED
    BY <1>7, <1>8, <1>10, <1>11 DEF RunsInv

\* The verdict is that of the windows in memory, all of which are in the store.
LEMMA ConcludeKeeps ==
    ASSUME RunsInv, NEW p \in Optimizers, Conclude(p)
    PROVE  RunsInv'
<1>1. /\ UNCHANGED <<runs, windows, oosTrades, runOf, tested, shared>> /\ phase[p] = "windows"
      /\ \A w \in Windows : tested[p][w] # "pending"
      /\ verdictOf' = [verdictOf EXCEPT ![p] = Accepts(tested[p])]
    BY DEF Conclude, Turn, storeVars, auditVars
<1>2. PICK to \in {"push", "finish"} : phase' = [phase EXCEPT ![p] = to]
    BY DEF Conclude, Turn
<1>3. /\ phase'[p] = to /\ verdictOf'[p] = Accepts(tested[p])
      /\ \A q \in Optimizers \ {p} : phase'[q] = phase[q] /\ verdictOf'[q] = verdictOf[q]
    BY <1>1, <1>2 DEF RunsInv, RunTypes
<1>4. RunTypes'
    BY <1>1, <1>2, AcceptsIsBoolean DEF RunsInv, RunTypes, Phases
<1>5. OneProcess'
    BY <1>1, <1>3 DEF RunsInv, OneProcess
<1>6. MemoryMatches'
    <2>1. ASSUME runOf[p] # NoRun, runOf[p] \notin shared
          PROVE  windows[runOf[p]] = tested[p] /\ runs[runOf[p]].status = "running"
        <3>1. \A w \in Windows : tested[p][w] = windows[runOf[p]][w]
            BY <1>1, <2>1 DEF RunsInv, MemoryMatches
        <3>2. runOf[p] \in RunIds
            BY <2>1 DEF RunsInv, RunTypes
        <3>3. windows[runOf[p]] \in [Windows -> Outcomes \union {"pending"}]
              /\ tested[p] \in [Windows -> Outcomes \union {"pending"}]
            BY <3>2 DEF RunsInv, RunTypes
        <3>4. windows[runOf[p]] = tested[p]
            BY <3>1, <3>3
        <3> QED
            BY <1>1, <2>1, <3>4 DEF RunsInv, MemoryMatches
    <2> QED
        BY <1>1, <1>3, <2>1 DEF RunsInv, MemoryMatches
<1>7. VerdictFromRows'
    BY <1>1 DEF RunsInv, VerdictFromRows
<1> QED
    BY <1>4, <1>5, <1>6, <1>7 DEF RunsInv

\* The run is done with the verdict of its rows, unless another process was at it.
LEMMA CompletesKeeps ==
    ASSUME RunsInv, NEW p \in Optimizers, Completes(p)
    PROVE  RunsInv'
<1> DEFINE r == runOf[p]
<1>1. /\ UNCHANGED <<windows, oosTrades, runOf, tested, verdictOf, shared>> /\ phase[p] = "finish"
      /\ phase' = [phase EXCEPT ![p] = "report"]
      /\ runs' = [runs EXCEPT ![r] = [status |-> "done", accepted |-> verdictOf[p]]]
    BY DEF Completes, FinishRun, Turn, auditVars
<1>2. r \in RunIds /\ r # NoRun
    BY <1>1, NoRunIsNone DEF RunsInv, RunTypes, OneProcess
<1>3. verdictOf[p] \in BOOLEAN
    BY DEF RunsInv, RunTypes
<1>4. /\ runs'[r].status = "done" /\ runs'[r].accepted = verdictOf[p]
      /\ \A q \in RunIds \ {r} : runs'[q] = runs[q]
    BY <1>1, <1>2 DEF RunsInv, RunTypes
<1>5. phase'[p] = "report" /\ \A q \in Optimizers \ {p} : phase'[q] = phase[q]
    BY <1>1 DEF RunsInv, RunTypes
<1>6. RunTypes'
    <2>1. [status |-> "done", accepted |-> verdictOf[p]]
             \in [status : {"absent", "running", "done", "failed"}, accepted : BOOLEAN]
        BY <1>3
    <2> QED
        BY <1>1, <2>1 DEF RunsInv, RunTypes, Phases
<1>7. OneProcess'
    BY <1>1, <1>2, <1>4, <1>5 DEF RunsInv, RunTypes, OneProcess
<1>8. MemoryMatches'
    <2>1. \A q \in Optimizers \ {p} : runOf[q] # NoRun /\ runOf[q] \notin shared =>
            runs'[runOf[q]] = runs[runOf[q]]
        BY <1>4, OneOf DEF RunsInv, RunTypes, OneProcess
    <2> QED
        BY <1>1, <1>5, <2>1 DEF RunsInv, MemoryMatches
<1>9. VerdictFromRows'
    <2>1. r \notin shared => verdictOf[p] = Accepts(windows[r]) /\ With(windows[r], {"pending"}) = {}
        BY <1>1, <1>2 DEF RunsInv, MemoryMatches, With
    <2> QED
        BY <1>1, <1>4, <2>1 DEF RunsInv, VerdictFromRows
<1> QED
    BY <1>6, <1>7, <1>8, <1>9 DEF RunsInv

LEMMA RunsStep == RunsInv /\ [OptimizerNext]_optimizerVars => RunsInv'
<1> SUFFICES ASSUME RunsInv, [OptimizerNext]_optimizerVars PROVE RunsInv'
    OBVIOUS
<1> DEFINE Same == UNCHANGED <<runs, windows, oosTrades, runOf, tested, verdictOf, shared>>
<1>1. ASSUME NEW p \in Optimizers, Choose(p) \/ Plan(p) \/ Conclude(p) \/ Completes(p)
      PROVE  RunsInv'
    BY <1>1, ChooseKeeps, PlanKeeps, ConcludeKeeps, CompletesKeeps
<1>2. ASSUME NEW p \in Optimizers, NEW w \in Windows, Execute(p, w) PROVE RunsInv'
    BY <1>2, ExecuteKeeps
<1>3. ASSUME NEW p \in Optimizers, RunFails(p) \/ Flush(p) \/ Dies(p) PROVE RunsInv'
    BY <1>3, GoneKeeps DEF RunFails, Flush, Dies, storeVars, auditVars
<1>4. ASSUME NEW p \in Optimizers, Send(p) \/ NotSent(p) PROVE RunsInv'
    <2>1. Same /\ phase' = phase
        BY <1>4 DEF Send, NotSent, storeVars, auditVars
    <2> QED
        BY <2>1, AsideKeeps
<1>5. ASSUME NEW p \in Optimizers, TokenRejected(p) \/ Answered(p) \/ Retry(p)
      PROVE  RunsInv'
    <2>1. Same /\ (phase' = phase \/ phase' = [phase EXCEPT ![p] = After(p)])
        BY <1>5 DEF TokenRejected, Answered, Retry, storeVars, auditVars
    <2>2. After(p) \in {"finish", "flush"} /\ (After(p) = "finish" => phase[p] = "push")
        BY DEF After
    <2> QED
        BY <2>1, <2>2, AsideKeeps
<1>6. ASSUME NEW p \in Optimizers, NoAnswer(p) PROVE RunsInv'
    <2>1. UNCHANGED <<runs, windows, oosTrades, shared>>
        BY <1>6 DEF NoAnswer, storeVars, auditVars
    <2>2. CASE Gone(p)
        BY <2>1, <2>2, GoneKeeps
    <2>3. CASE phase' = [phase EXCEPT ![p] = "flush"] /\ UNCHANGED <<runOf, tested, verdictOf>>
        BY <2>1, <2>3, AsideKeeps
    <2> QED
        BY <1>6, <2>2, <2>3 DEF NoAnswer
<1>7. ASSUME Same, UNCHANGED phase PROVE RunsInv'
    BY <1>7 DEF RunsInv, RunTypes, OneProcess, MemoryMatches, VerdictFromRows
<1>8. ASSUME NEW h \in handlers,
             \/ IngestBundle(h) \/ MalformedBundle(h) \/ UpsertRun(h) \/ ReadNotified(h) \/ MarkNotified(h)
             \/ LogCompletion(h) \/ ReplyOk(h) \/ HandlerFails(h)
      PROVE  RunsInv'
    <2>1. Same /\ UNCHANGED phase
        BY <1>8 DEF IngestBundle, MalformedBundle, UpsertRun, ReadNotified, MarkNotified, LogCompletion, ReplyOk,
                    HandlerFails, storeVars, processVars, auditVars
    <2> QED
        BY <2>1, <1>7
<1>9. ASSUME NEW r \in RunIds, IngestFeed(r) PROVE RunsInv'
    BY <1>7, <1>9 DEF IngestFeed, storeVars, processVars, auditVars
<1>10. CASE UNCHANGED optimizerVars
    BY <1>7, <1>10 DEF optimizerVars, storeVars, processVars, auditVars
<1> QED
    BY <1>1, <1>2, <1>3, <1>4, <1>5, <1>6, <1>8, <1>9, <1>10 DEF OptimizerNext

\* However often a run's process dies and another resumes it, for any number of
\* processes, windows and runs, a run that was finished has the verdict of its
\* recorded windows, all of which were tested, and each window the trades of its
\* result (WalkForward.run, RunStore.record_window, finish_run).
THEOREM Verdict == OptimizerSpec => []VerdictFromRows
<1>1. RunsInv => VerdictFromRows
    BY DEF RunsInv
<1> QED
    BY <1>1, RunsInit, RunsStep, PTL DEF OptimizerSpec

----------------------------------------------------------------------------
(* What the dashboard shows of a run *)

\* What ReportsTrue rests on of the other variables' types.
ReportTypes ==
    /\ answer \in [Optimizers -> {"none", "waiting", "ok", "error"}]
    /\ handlers \subseteq Requests
    /\ dashboard \in [RunIds -> [status : {"none", "running", "done"},
                                 accepted : BOOLEAN, notified : BOOLEAN]]
    /\ events \in [RunIds -> Nat]

\* A process has something to wait for only while it pushes or reports; what it
\* waits for is the one request of its own.
OwnRequest ==
    /\ \A p \in Optimizers : answer[p] # "none" => phase[p] \in {"push", "report"}
    /\ \A h \in handlers :
         /\ h.at \in {"read", "mark", "log"} => h.kind = "run"
         /\ h.client # "nobody" =>
              /\ answer[h.client] = "waiting" /\ h.run = runOf[h.client]
              /\ h.kind = Kind(h.client)
              /\ \A g \in handlers : g.client = h.client => g = h

\* How far the dashboard has come with a status, whose run is over: no process
\* is at it any more but the one that waits and one that writes its last lines.
StatusRequest(h) ==
    LET shown == dashboard[h.run]
    IN  /\ runs[h.run].status = "done" /\ runs[h.run].accepted = h.accepted
        /\ h.at # "upsert" => shown.status = "done"
        /\ h.at = "mark" => ~shown.notified
        /\ h.at = "log" => shown.notified /\ events[h.run] = 0
        /\ \A p \in Optimizers : runOf[p] = h.run /\ p # h.client => phase[p] = "flush"
        /\ \A g \in handlers : g.kind = "run" /\ g.run = h.run => g = h

\* What is shown of a run, and what its process may report, is what the store has.
ShownIsStored ==
    /\ \A p \in Optimizers :
         phase[p] = "report" /\ runOf[p] \notin shared =>
            /\ runs[runOf[p]].status = "done" /\ runs[runOf[p]].accepted = verdictOf[p]
            /\ answer[p] = "ok" => dashboard[runOf[p]].status = "done"
    /\ \A r \in RunIds \ shared :
         /\ dashboard[r].status = "done" =>
              runs[r].status = "done" /\ runs[r].accepted = dashboard[r].accepted
         /\ r \in told => dashboard[r].status = "done"
         /\ events[r] <= 1
         /\ ~dashboard[r].notified => events[r] = 0

\* A run of which a bundle was sent has only windows that were tested, which
\* pass, and none that is tested again.
BundleEarned ==
    /\ \A p \in Optimizers : phase[p] = "push" => verdictOf[p]
    /\ \A p \in Optimizers :
         phase[p] = "windows" /\ runOf[p] \notin shared \union retried =>
            tested[p] = windows[runOf[p]]
    /\ \A r \in RunIds \ (shared \union retried) :
         r \in bundles \/ (\E h \in handlers : h.kind = "bundle" /\ h.run = r) =>
            Accepts(windows[r]) /\ With(windows[r], {"pending"}) = {}

ReportInv ==
    /\ ReportTypes /\ OwnRequest /\ ShownIsStored /\ BundleEarned
    /\ \A h \in handlers : h.kind = "run" /\ h.run \notin shared => StatusRequest(h)

Clients == Optimizers \union {"nobody"}

LEMMA RequestIs ==
    ASSUME NEW h \in Requests
    PROVE  /\ h.kind \in {"bundle", "run"} /\ h.run \in RunIds /\ h.accepted \in BOOLEAN
           /\ h.client \in Clients /\ h.at \in {"upsert", "read", "mark", "log", "reply"}
BY DEF Requests, Clients

\* A request that nobody waits for is the same to the dashboard.
LEMMA FreedIs ==
    ASSUME NEW h \in Requests, NEW p
    PROVE  /\ Freed(h, p) \in Requests
           /\ Freed(h, p).kind = h.kind /\ Freed(h, p).run = h.run
           /\ Freed(h, p).accepted = h.accepted /\ Freed(h, p).at = h.at
           /\ Freed(h, p).client = IF h.client = p THEN "nobody" ELSE h.client
<1>1. CASE h.client = p
    BY <1>1 DEF Freed, Requests
<1>2. CASE h.client # p
    BY <1>2 DEF Freed
<1> QED
    BY <1>1, <1>2

LEMMA MovedIs ==
    ASSUME NEW h \in Requests, NEW at \in {"upsert", "read", "mark", "log", "reply"},
           NEW g, g = [h EXCEPT !.at = at]
    PROVE  /\ g \in Requests /\ g.kind = h.kind /\ g.run = h.run /\ g.accepted = h.accepted
           /\ g.client = h.client /\ g.at = at
BY DEF Requests

LEMMA ReportInit == OptimizerInit => ReportInv
<1> SUFFICES ASSUME OptimizerInit PROVE ReportInv
    OBVIOUS
<1>1. /\ handlers = {} /\ bundles = {} /\ told = {} /\ events = [r \in RunIds |-> 0]
      /\ \A p \in Optimizers : phase[p] = "none" /\ answer[p] = "none"
      /\ \A r \in RunIds : dashboard[r].status = "none"
    BY DEF OptimizerInit
<1>2. ReportTypes
    BY DEF OptimizerInit, ReportTypes
<1> QED
    BY <1>1, <1>2 DEF ReportInv, OwnRequest, ShownIsStored, BundleEarned

\* A process that waits no more, or is gone, whose run may have failed.
LEMMA LeaveKeeps ==
    ASSUME RunsInv, ReportInv, NEW p \in Optimizers,
           handlers' = {Freed(h, p) : h \in handlers}, answer' = [answer EXCEPT ![p] = "none"],
           UNCHANGED <<windows, dashboard, bundles, events, shared, retried, told>>,
           \/ Gone(p)
           \/ phase' = [phase EXCEPT ![p] = "flush"] /\ UNCHANGED <<runOf, tested, verdictOf>>,
           \/ UNCHANGED runs
           \/ phase[p] = "windows" /\ runs' = [runs EXCEPT ![runOf[p]].status = "failed"]
    PROVE  ReportInv'
<1> USE DEF ReportInv
<1>1. \A q \in Optimizers \ {p} : /\ phase'[q] = phase[q] /\ runOf'[q] = runOf[q]
                                  /\ tested'[q] = tested[q] /\ verdictOf'[q] = verdictOf[q]
                                  /\ answer'[q] = answer[q]
    BY DEF Gone, RunsInv, RunTypes, ReportTypes
<1>2. /\ answer'[p] = "none"
      /\ (phase'[p] = "none" /\ runOf'[p] = NoRun) \/ (phase'[p] = "flush" /\ runOf'[p] = runOf[p])
    BY DEF Gone, RunsInv, RunTypes, ReportTypes
<1>3. \A r \in RunIds \ shared : runs[r].status = "done" => runs'[r] = runs[r]
    <2>1. CASE UNCHANGED runs
        BY <2>1
    <2>2. CASE phase[p] = "windows" /\ runs' = [runs EXCEPT ![runOf[p]].status = "failed"]
        <3>1. runOf[p] # NoRun /\ (runOf[p] \notin shared => runs[runOf[p]].status = "running")
            BY <2>2 DEF RunsInv, OneProcess, MemoryMatches
        <3>2. \A r \in RunIds \ {runOf[p]} : runs'[r] = runs[r]
            BY <2>2 DEF RunsInv, RunTypes
        <3> QED
            BY <3>1, <3>2
    <2> QED
        BY <2>1, <2>2
<1>4. \A h \in handlers :
        /\ h \in Requests /\ Freed(h, p) \in Requests
        /\ Freed(h, p).kind = h.kind /\ Freed(h, p).run = h.run
        /\ Freed(h, p).accepted = h.accepted /\ Freed(h, p).at = h.at
        /\ Freed(h, p).client = IF h.client = p THEN "nobody" ELSE h.client
        /\ h.client \in Clients /\ h.run \in RunIds
    BY FreedIs, RequestIs DEF ReportTypes
<1>5. ReportTypes'
    <2>1. answer' \in [Optimizers -> {"none", "waiting", "ok", "error"}]
        BY DEF ReportTypes
    <2>2. handlers' \subseteq Requests
        BY <1>4
    <2> QED
        BY <2>1, <2>2 DEF ReportTypes
<1>6. OwnRequest'
    <2>1. \A q \in Optimizers : answer'[q] # "none" => phase'[q] \in {"push", "report"}
        BY <1>1, <1>2 DEF OwnRequest
    <2>2. ASSUME NEW h \in handlers, Freed(h, p).client # "nobody"
          PROVE  /\ h.client \in Optimizers \ {p} /\ Freed(h, p).client = h.client
                 /\ answer'[h.client] = "waiting" /\ h.run = runOf'[h.client]
                 /\ h.kind = Kind(h.client)'
                 /\ \A g \in handlers : Freed(g, p).client = h.client => g = h
        <3>1. h.client \in Optimizers \ {p} /\ Freed(h, p).client = h.client
            BY <2>2, <1>4 DEF Clients
        <3>2. answer[h.client] = "waiting" /\ h.run = runOf[h.client] /\ h.kind = Kind(h.client)
              /\ \A g \in handlers : g.client = h.client => g = h
            BY <3>1, <2>2 DEF OwnRequest
        <3>3. Kind(h.client)' = Kind(h.client)
            BY <1>1, <3>1 DEF Kind
        <3> QED
            BY <1>1, <1>4, <2>2, <3>1, <3>2, <3>3
    <2>3. ASSUME NEW k \in handlers'
          PROVE  /\ k.at \in {"read", "mark", "log"} => k.kind = "run"
                 /\ k.client # "nobody" =>
                      /\ answer'[k.client] = "waiting" /\ k.run = runOf'[k.client]
                      /\ k.kind = Kind(k.client)'
                      /\ \A g \in handlers' : g.client = k.client => g = k
        <3>1. PICK h \in handlers : k = Freed(h, p)
            OBVIOUS
        <3>2. k.at \in {"read", "mark", "log"} => k.kind = "run"
            BY <3>1, <1>4 DEF OwnRequest
        <3>3. ASSUME k.client # "nobody"
              PROVE  /\ answer'[k.client] = "waiting" /\ k.run = runOf'[k.client]
                     /\ k.kind = Kind(k.client)'
            BY <3>1, <3>3, <2>2, <1>4
        <3>4. ASSUME k.client # "nobody", NEW g \in handlers', g.client = k.client PROVE g = k
            <4>1. PICK f \in handlers : g = Freed(f, p)
                OBVIOUS
            <4>2. Freed(f, p).client = h.client
                BY <3>1, <3>4, <4>1, <2>2
            <4>3. f = h
                BY <3>1, <3>4, <4>2, <2>2
            <4> QED
                BY <3>1, <4>1, <4>3
        <3> QED
            BY <3>2, <3>3, <3>4
    <2> QED
        BY <2>1, <2>3 DEF OwnRequest
<1>7. ShownIsStored'
    <2>1. \A q \in Optimizers : phase'[q] = "report" =>
            /\ q # p /\ phase[q] = "report" /\ runOf'[q] = runOf[q] /\ runOf[q] \in RunIds
            /\ verdictOf'[q] = verdictOf[q] /\ answer'[q] = answer[q]
        BY <1>1, <1>2 DEF RunsInv, RunTypes, OneProcess
    <2> QED
        BY <2>1, <1>3 DEF ShownIsStored
<1>8. BundleEarned'
    <2>1. \A q \in Optimizers : phase'[q] \in {"push", "windows"} =>
            /\ phase'[q] = phase[q] /\ runOf'[q] = runOf[q] /\ tested'[q] = tested[q]
            /\ verdictOf'[q] = verdictOf[q]
        BY <1>1, <1>2
    <2>2. \A r \in RunIds :
            (\E k \in handlers' : k.kind = "bundle" /\ k.run = r) =>
                \E h \in handlers : h.kind = "bundle" /\ h.run = r
        BY <1>4
    <2> QED
        BY <2>1, <2>2 DEF BundleEarned, With
<1>9. ASSUME NEW k \in handlers', k.kind = "run", k.run \notin shared' PROVE StatusRequest(k)'
    <2>1. PICK h \in handlers : k = Freed(h, p)
        OBVIOUS
    <2>2. /\ k.kind = h.kind /\ k.run = h.run /\ k.accepted = h.accepted /\ k.at = h.at
          /\ k.client = (IF h.client = p THEN "nobody" ELSE h.client) /\ h.run \in RunIds
        BY <2>1, <1>4
    <2>3. StatusRequest(h) /\ h.run \notin shared
        BY <2>2, <1>9
    <2>4. \A g \in handlers' : g.kind = "run" /\ g.run = k.run => g = k
        <3>1. \A f \in handlers : Freed(f, p).kind = "run" /\ Freed(f, p).run = k.run => f = h
            BY <1>4, <2>2, <2>3 DEF StatusRequest
        <3> QED
            BY <3>1, <2>1
    <2>5. ASSUME NEW q \in Optimizers, runOf'[q] = k.run, q # k.client PROVE phase'[q] = "flush"
        <3>1. CASE q = p
            BY <3>1, <2>5, <1>2, <2>2, NoRunIsNone
        <3>2. CASE q # p
            BY <3>2, <2>5, <1>1, <2>2, <2>3 DEF StatusRequest
        <3> QED
            BY <3>1, <3>2
    <2>6. runs'[k.run] = runs[h.run] /\ dashboard' = dashboard /\ events' = events
        BY <2>2, <2>3, <1>3 DEF StatusRequest
    <2>7. /\ runs[h.run].status = "done" /\ runs[h.run].accepted = h.accepted
          /\ h.at # "upsert" => dashboard[h.run].status = "done"
          /\ h.at = "mark" => ~dashboard[h.run].notified
          /\ h.at = "log" => dashboard[h.run].notified /\ events[h.run] = 0
        BY <2>3 DEF StatusRequest
    <2> QED
        BY <2>2, <2>4, <2>5, <2>6, <2>7 DEF StatusRequest
<1> QED
    BY <1>5, <1>6, <1>7, <1>8, <1>9

\* What a process does by itself, that waits for nothing: the dashboard goes on
\* as it was, if no status it works on is of the run of that process.
LEMMA ApartKeeps ==
    ASSUME RunsInv, ReportInv, NEW p \in Optimizers,
           UNCHANGED <<handlers, dashboard, events>>, shared \subseteq shared',
           answer[p] # "waiting",
           answer' = answer \/ \E a \in {"none", "error"} : answer' = [answer EXCEPT ![p] = a],
           answer'[p] # "none" => phase'[p] \in {"push", "report"},
           \A q \in Optimizers \ {p} : phase'[q] = phase[q] /\ runOf'[q] = runOf[q],
           \A r \in RunIds \ shared' : runs[r].status = "done" => runs'[r] = runs[r],
           \A h \in handlers : h.kind = "run" /\ h.run \notin shared' => runOf'[p] # h.run
    PROVE  /\ ReportTypes' /\ OwnRequest'
           /\ \A h \in handlers' : h.kind = "run" /\ h.run \notin shared' => StatusRequest(h)'
<1> USE DEF ReportInv
<1>1. answer' \in [Optimizers -> {"none", "waiting", "ok", "error"}]
      /\ \A q \in Optimizers \ {p} : answer'[q] = answer[q]
    BY DEF ReportTypes
<1>2. ReportTypes'
    BY <1>1 DEF ReportTypes
<1>3. \A h \in handlers : h \in Requests /\ h.client \in Clients /\ h.run \in RunIds
    BY RequestIs DEF ReportTypes
<1>4. \A h \in handlers : h.client # "nobody" => h.client \in Optimizers \ {p}
    BY <1>3 DEF OwnRequest, Clients
<1>5. OwnRequest'
    <2>1. \A q \in Optimizers \ {p} : Kind(q)' = Kind(q)
        BY DEF Kind
    <2>2. \A q \in Optimizers : answer'[q] # "none" => phase'[q] \in {"push", "report"}
        BY <1>1 DEF OwnRequest
    <2> QED
        BY <1>1, <1>4, <2>1, <2>2 DEF OwnRequest
<1>6. ASSUME NEW h \in handlers, h.kind = "run", h.run \notin shared' PROVE StatusRequest(h)'
    <2>1. StatusRequest(h) /\ h.run \in RunIds
        BY <1>3, <1>6
    <2>2. runs'[h.run] = runs[h.run]
        BY <1>6, <2>1 DEF StatusRequest
    <2>3. \A q \in Optimizers : runOf'[q] = h.run /\ q # h.client => phase'[q] = "flush"
        BY <1>6, <2>1 DEF StatusRequest
    <2> QED
        BY <2>1, <2>2, <2>3 DEF StatusRequest
<1> QED
    BY <1>2, <1>5, <1>6

\* A status is of no run that a process has still to finish.
LEMMA NotYetShown ==
    ASSUME ReportInv, NEW r \in RunIds \ shared, runs[r].status # "done"
    PROVE  /\ \A h \in handlers : h.kind = "run" => h.run # r
           /\ dashboard[r].status # "done" /\ r \notin told
BY DEF ReportInv, StatusRequest, ShownIsStored

LEMMA ChooseReports ==
    ASSUME RunsInv, ReportInv, NEW p \in Optimizers, Choose(p)
    PROVE  ReportInv'
<1> USE DEF ReportInv
<1>1. PICK r \in Unfinished \union {NoRun} :
        runOf' = [runOf EXCEPT ![p] = r] /\ shared \subseteq shared'
    BY DEF Choose
<1>2. /\ UNCHANGED <<runs, windows, tested, verdictOf, answer, handlers, dashboard, bundles,
                     events, retried, told>>
      /\ phase[p] = "none" /\ phase' = [phase EXCEPT ![p] = "chosen"]
    BY DEF Choose, Turn, storeVars, dashboardVars
<1>3. /\ runOf'[p] = r /\ phase'[p] = "chosen"
      /\ \A q \in Optimizers \ {p} : runOf'[q] = runOf[q] /\ phase'[q] = phase[q]
    BY <1>1, <1>2 DEF RunsInv, RunTypes
<1>4. \A h \in handlers : h.run \in RunIds
    BY RequestIs DEF ReportTypes
<1>5. answer[p] = "none"
    BY <1>2 DEF OwnRequest
<1>6. \A h \in handlers : h.kind = "run" /\ h.run \notin shared' => runOf'[p] # h.run
    BY <1>1, <1>3, <1>4, NotYetShown, NoRunIsNone DEF Unfinished
<1>7. /\ ReportTypes' /\ OwnRequest'
      /\ \A h \in handlers' : h.kind = "run" /\ h.run \notin shared' => StatusRequest(h)'
    BY <1>1, <1>2, <1>3, <1>5, <1>6, ApartKeeps
<1>8. ShownIsStored' /\ BundleEarned'
    BY <1>1, <1>2, <1>3 DEF ShownIsStored, BundleEarned, With
<1> QED
    BY <1>7, <1>8

\* What a process resumes that no failed window sends back is what was stored.
LEMMA PlanReports ==
    ASSUME RunsInv, ReportInv, NEW p \in Optimizers, Plan(p)
    PROVE  ReportInv'
<1> USE DEF ReportInv
<1>1. PICK r \in RunIds :
        /\ RunId(p, r)
        /\ runs' = IF runOf[p] = NoRun THEN [runs EXCEPT ![r].status = "running"] ELSE runs
        /\ runOf' = [runOf EXCEPT ![p] = r] /\ tested' = [tested EXCEPT ![p] = Resumed(r)]
        /\ retried' = IF \E w \in Windows : windows[r][w] = "failed"
                      THEN retried \union {r} ELSE retried
    BY DEF Plan
<1>2. /\ UNCHANGED <<windows, verdictOf, answer, handlers, dashboard, bundles, events, shared, told>>
      /\ phase[p] = "chosen" /\ phase' = [phase EXCEPT ![p] = "windows"]
    BY DEF Plan, Turn, dashboardVars
<1>3. r # NoRun /\ (runOf[p] = NoRun => runs[r].status = "absent") /\ (runOf[p] # NoRun => r = runOf[p])
    BY <1>1, NoRunIsNone DEF RunId, NewRun
<1>4. /\ runOf'[p] = r /\ phase'[p] = "windows" /\ tested'[p] = Resumed(r)
      /\ \A q \in Optimizers \ {p} :
           runOf'[q] = runOf[q] /\ phase'[q] = phase[q] /\ tested'[q] = tested[q]
    BY <1>1, <1>2 DEF RunsInv, RunTypes
<1>5. r \notin shared => runs[r].status \in {"absent", "running"}
    BY <1>2, <1>3 DEF RunsInv, MemoryMatches
<1>6. \A q \in RunIds : runs[q].status = "done" => runs'[q] = runs[q]
    BY <1>1, <1>3 DEF RunsInv, RunTypes
<1>7. answer[p] = "none"
    BY <1>2 DEF OwnRequest
<1>8. \A h \in handlers : h.kind = "run" /\ h.run \notin shared' => runOf'[p] # h.run
    BY <1>2, <1>4, <1>5, NotYetShown
<1>9. /\ ReportTypes' /\ OwnRequest'
      /\ \A h \in handlers' : h.kind = "run" /\ h.run \notin shared' => StatusRequest(h)'
    BY <1>2, <1>4, <1>6, <1>7, <1>8, ApartKeeps
<1>10. ShownIsStored'
    <2>1. \A q \in Optimizers : phase'[q] = "report" =>
            /\ phase[q] = "report" /\ runOf'[q] = runOf[q] /\ runOf[q] \in RunIds
        BY <1>2, <1>4 DEF RunsInv, RunTypes, OneProcess
    <2> QED
        BY <1>2, <1>6, <2>1 DEF ShownIsStored
<1>11. BundleEarned'
    <2>1. r \notin retried' => Resumed(r) = windows[r]
        <3>1. windows[r] = [w \in Windows |-> windows[r][w]]
            BY DEF RunsInv, RunTypes
        <3>2. r \notin retried' => \A w \in Windows : windows[r][w] # "failed"
            BY <1>1
        <3> QED
            BY <3>1, <3>2 DEF Resumed
    <2>2. retried \subseteq retried'
        BY <1>1
    <2>3. \A q \in Optimizers : phase'[q] = "push" => verdictOf'[q]
        BY <1>2, <1>4 DEF BundleEarned
    <2>4. \A q \in Optimizers :
            phase'[q] = "windows" /\ runOf'[q] \notin shared' \union retried' =>
                tested'[q] = windows'[runOf'[q]]
        BY <1>2, <1>4, <2>1, <2>2 DEF BundleEarned
    <2> QED
        BY <1>2, <2>2, <2>3, <2>4 DEF BundleEarned, With
<1> QED
    BY <1>9, <1>10, <1>11

\* A window is tested again only of a run that failed one: of another that sent
\* a bundle there is none left to test.
LEMMA ExecuteReports ==
    ASSUME RunsInv, ReportInv, NEW p \in Optimizers, NEW w \in Windows, Execute(p, w)
    PROVE  ReportInv'
<1> USE DEF ReportInv
<1> DEFINE r == runOf[p]
<1>1. PICK o \in Outcomes : tested' = [tested EXCEPT ![p][w] = o] /\ windows' = [windows EXCEPT ![r][w] = o]
                            /\ tested[p][w] = "pending"
    BY DEF Execute, EvaluateWindow, RecordWindow
<1>2. /\ UNCHANGED <<runs, runOf, verdictOf, phase, answer, handlers, dashboard, bundles, events,
                     shared, retried, told>>
      /\ phase[p] = "windows"
    BY DEF Execute, dashboardVars, auditVars
<1>3. r \in RunIds /\ r # NoRun /\ (r \notin shared => runs[r].status = "running")
    BY <1>2, NoRunIsNone DEF RunsInv, RunTypes, OneProcess, MemoryMatches
<1>4. answer[p] = "none"
    BY <1>2 DEF OwnRequest
<1>5. \A h \in handlers : h.kind = "run" /\ h.run \notin shared' => runOf'[p] # h.run
    BY <1>2, <1>3, NotYetShown
<1>6. /\ ReportTypes' /\ OwnRequest'
      /\ \A h \in handlers' : h.kind = "run" /\ h.run \notin shared' => StatusRequest(h)'
    BY <1>2, <1>4, <1>5, ApartKeeps
<1>7. ShownIsStored'
    BY <1>2 DEF ShownIsStored
<1>8. /\ \A q \in RunIds \ {r} : windows'[q] = windows[q]
      /\ \A q \in Optimizers \ {p} : tested'[q] = tested[q]
      /\ windows'[r] = [windows[r] EXCEPT ![w] = o]
      /\ tested'[p] = [tested[p] EXCEPT ![w] = o]
    BY <1>1, <1>3 DEF RunsInv, RunTypes
<1>9. BundleEarned'
    <2>1. ASSUME NEW q \in Optimizers, phase[q] = "windows", runOf[q] \notin shared \union retried
          PROVE  tested'[q] = windows'[runOf[q]]
        <3>1. tested[q] = windows[runOf[q]] /\ runOf[q] \in RunIds
            BY <2>1, NoRunIsNone DEF BundleEarned, RunsInv, RunTypes, OneProcess
        <3>2. CASE q = p
            BY <3>1, <3>2, <1>8
        <3>3. CASE q # p
            BY <3>1, <3>3, <1>3, <1>8, <2>1, OneOf, NoRunIsNone
        <3> QED
            BY <3>2, <3>3
    <2>2. r \notin shared \union retried => With(windows[r], {"pending"}) # {}
        BY <1>1, <1>2 DEF BundleEarned, With
    <2>3. ASSUME NEW q \in RunIds \ (shared \union retried),
                 q \in bundles \/ \E h \in handlers : h.kind = "bundle" /\ h.run = q
          PROVE  Accepts(windows'[q]) /\ With(windows'[q], {"pending"}) = {}
        <3>1. Accepts(windows[q]) /\ With(windows[q], {"pending"}) = {}
            BY <2>3 DEF BundleEarned
        <3>2. windows'[q] = windows[q]
            BY <3>1, <2>2, <2>3, <1>8
        <3> QED
            BY <3>1, <3>2
    <2>4. \A q \in Optimizers : phase[q] = "push" => verdictOf[q]
        BY DEF BundleEarned
    <2> QED
        BY <1>2, <2>1, <2>3, <2>4 DEF BundleEarned
<1> QED
    BY <1>6, <1>7, <1>9

LEMMA ConcludeReports ==
    ASSUME RunsInv, ReportInv, NEW p \in Optimizers, Conclude(p)
    PROVE  ReportInv'
<1> USE DEF ReportInv
<1>1. /\ UNCHANGED <<runs, windows, runOf, tested, answer, handlers, dashboard, bundles, events,
                     shared, retried, told>>
      /\ phase[p] = "windows"
      /\ phase' = [phase EXCEPT ![p] = IF Accepts(tested[p]) THEN "push" ELSE "finish"]
      /\ verdictOf' = [verdictOf EXCEPT ![p] = Accepts(tested[p])]
    BY DEF Conclude, Turn, storeVars, dashboardVars, auditVars
<1>2. /\ phase'[p] = (IF Accepts(tested[p]) THEN "push" ELSE "finish")
      /\ verdictOf'[p] = Accepts(tested[p])
      /\ \A q \in Optimizers \ {p} : phase'[q] = phase[q] /\ verdictOf'[q] = verdictOf[q]
    BY <1>1 DEF RunsInv, RunTypes
<1>3. runOf[p] \in RunIds /\ (runOf[p] \notin shared => runs[runOf[p]].status = "running")
    BY <1>1, NoRunIsNone DEF RunsInv, RunTypes, OneProcess, MemoryMatches
<1>4. answer[p] = "none"
    BY <1>1 DEF OwnRequest
<1>5. \A h \in handlers : h.kind = "run" /\ h.run \notin shared' => runOf'[p] # h.run
    BY <1>1, <1>3, NotYetShown
<1>6. /\ ReportTypes' /\ OwnRequest'
      /\ \A h \in handlers' : h.kind = "run" /\ h.run \notin shared' => StatusRequest(h)'
    BY <1>1, <1>2, <1>4, <1>5, ApartKeeps
<1>7. ShownIsStored'
    <2>1. \A q \in Optimizers : phase'[q] = "report" =>
              phase[q] = "report" /\ verdictOf'[q] = verdictOf[q]
        BY <1>2
    <2> QED
        BY <1>1, <2>1 DEF ShownIsStored
<1>8. BundleEarned'
    <2>1. \A q \in Optimizers : phase'[q] = "push" => verdictOf'[q]
        <3>1. \A q \in Optimizers : phase[q] = "push" => verdictOf[q]
            BY DEF BundleEarned
        <3> QED
            BY <1>2, <3>1
    <2>2. \A q \in Optimizers : phase'[q] = "windows" => phase[q] = "windows"
        BY <1>2
    <2> QED
        BY <1>1, <2>1, <2>2 DEF BundleEarned
<1> QED
    BY <1>6, <1>7, <1>8

\* The run that is done is the one its process will report, with its verdict.
LEMMA CompletesReports ==
    ASSUME RunsInv, ReportInv, NEW p \in Optimizers, Completes(p)
    PROVE  ReportInv'
<1> USE DEF ReportInv
<1> DEFINE r == runOf[p]
<1>1. /\ UNCHANGED <<windows, runOf, tested, verdictOf, answer, handlers, dashboard, bundles, events,
                     shared, retried, told>>
      /\ phase[p] = "finish" /\ phase' = [phase EXCEPT ![p] = "report"]
      /\ runs' = [runs EXCEPT ![r] = [status |-> "done", accepted |-> verdictOf[p]]]
    BY DEF Completes, FinishRun, Turn, dashboardVars, auditVars
<1>2. r \in RunIds /\ r # NoRun /\ (r \notin shared => runs[r].status = "running")
    BY <1>1, NoRunIsNone DEF RunsInv, RunTypes, OneProcess, MemoryMatches
<1>3. /\ runs'[r].status = "done" /\ runs'[r].accepted = verdictOf[p]
      /\ \A q \in RunIds \ {r} : runs'[q] = runs[q]
      /\ phase'[p] = "report" /\ \A q \in Optimizers \ {p} : phase'[q] = phase[q]
    BY <1>1, <1>2 DEF RunsInv, RunTypes
<1>4. answer[p] = "none"
    BY <1>1 DEF OwnRequest
<1>5. \A h \in handlers : h.kind = "run" /\ h.run \notin shared' => runOf'[p] # h.run
    BY <1>1, <1>2, NotYetShown
<1>6. \A q \in RunIds \ shared : runs[q].status = "done" => runs'[q] = runs[q]
    BY <1>2, <1>3
<1>7. /\ ReportTypes' /\ OwnRequest'
      /\ \A h \in handlers' : h.kind = "run" /\ h.run \notin shared' => StatusRequest(h)'
    BY <1>1, <1>3, <1>4, <1>5, <1>6, ApartKeeps
<1>8. ShownIsStored'
    <2>1. \A q \in Optimizers : phase'[q] = "report" /\ runOf[q] \notin shared =>
            /\ runs'[runOf[q]].status = "done" /\ runs'[runOf[q]].accepted = verdictOf[q]
            /\ answer[q] = "ok" => dashboard[runOf[q]].status = "done"
        <3> SUFFICES ASSUME NEW q \in Optimizers, phase'[q] = "report", runOf[q] \notin shared
                     PROVE  /\ runs'[runOf[q]].status = "done" /\ runs'[runOf[q]].accepted = verdictOf[q]
                            /\ answer[q] = "ok" => dashboard[runOf[q]].status = "done"
            OBVIOUS
        <3>1. CASE q = p
            BY <3>1, <1>3, <1>4
        <3>2. CASE q # p
            <4>1. phase[q] = "report" /\ runOf[q] \in RunIds
                BY <3>2, <1>3, NoRunIsNone DEF RunsInv, RunTypes, OneProcess
            <4> QED
                BY <4>1, <1>6 DEF ShownIsStored
        <3> QED
            BY <3>1, <3>2
    <2> QED
        BY <1>1, <1>6, <2>1 DEF ShownIsStored
<1>9. BundleEarned'
    BY <1>1, <1>3 DEF BundleEarned
<1> QED
    BY <1>7, <1>8, <1>9

\* A process sends what holds of its run, when nothing of it is under way.
LEMMA SendReports ==
    ASSUME RunsInv, ReportInv, NEW p \in Optimizers, Send(p)
    PROVE  ReportInv'
<1> USE DEF ReportInv
<1> DEFINE n == [kind |-> Kind(p), run |-> runOf[p], accepted |-> verdictOf[p], client |-> p,
                 at |-> "upsert"]
<1>1. /\ UNCHANGED <<runs, windows, phase, runOf, tested, verdictOf, dashboard, bundles, events,
                     shared, retried, told>>
      /\ phase[p] \in {"push", "report"} /\ answer[p] = "none"
      /\ handlers' = handlers \union {n} /\ answer' = [answer EXCEPT ![p] = "waiting"]
    BY DEF Send, storeVars, auditVars
<1>2. runOf[p] \in RunIds /\ runOf[p] # NoRun /\ verdictOf[p] \in BOOLEAN
    BY <1>1, NoRunIsNone DEF RunsInv, RunTypes, OneProcess
<1>3. n \in Requests
    BY <1>1, <1>2 DEF Requests, Kind
<1>4. /\ n.kind = Kind(p) /\ n.run = runOf[p] /\ n.accepted = verdictOf[p] /\ n.client = p
      /\ n.at = "upsert"
    OBVIOUS
<1> HIDE DEF n
<1>5. answer'[p] = "waiting" /\ \A q \in Optimizers \ {p} : answer'[q] = answer[q]
    BY <1>1 DEF ReportTypes
<1>6. \A h \in handlers : h \in Requests /\ h.client \in Clients /\ h.run \in RunIds
    BY RequestIs DEF ReportTypes
<1>7. ReportTypes'
    <2>1. answer' \in [Optimizers -> {"none", "waiting", "ok", "error"}]
        BY <1>1 DEF ReportTypes
    <2> QED
        BY <1>1, <1>3, <2>1 DEF ReportTypes
<1>8. \A h \in handlers : h.client # p
    BY <1>1, OptimizerAssumption DEF OwnRequest
<1>9. OwnRequest'
    <2>1. \A q \in Optimizers : Kind(q)' = Kind(q)
        BY <1>1 DEF Kind
    <2>2. \A q \in Optimizers : answer'[q] # "none" => phase'[q] \in {"push", "report"}
        BY <1>1, <1>5 DEF OwnRequest
    <2>3. ASSUME NEW h \in handlers'
          PROVE  /\ h.at \in {"read", "mark", "log"} => h.kind = "run"
                 /\ h.client # "nobody" =>
                      /\ answer'[h.client] = "waiting" /\ h.run = runOf'[h.client]
                      /\ h.kind = Kind(h.client)'
                      /\ \A g \in handlers' : g.client = h.client => g = h
        <3>1. CASE h = n
            BY <3>1, <1>1, <1>4, <1>5, <1>8, <2>1
        <3>2. CASE h \in handlers
            <4>1. h.client # "nobody" => h.client \in Optimizers \ {p}
                BY <3>2, <1>6, <1>8 DEF Clients
            <4>2. h.at \in {"read", "mark", "log"} => h.kind = "run"
                BY <3>2 DEF OwnRequest
            <4>3. ASSUME h.client # "nobody"
                  PROVE  /\ answer'[h.client] = "waiting" /\ h.run = runOf'[h.client]
                         /\ h.kind = Kind(h.client)'
                BY <4>1, <4>3, <3>2, <1>1, <1>5, <2>1 DEF OwnRequest
            <4>4. ASSUME h.client # "nobody", NEW g \in handlers', g.client = h.client PROVE g = h
                BY <4>1, <4>4, <3>2, <1>1, <1>4 DEF OwnRequest
            <4> QED
                BY <4>2, <4>3, <4>4
        <3> QED
            BY <3>1, <3>2, <1>1
    <2> QED
        BY <2>2, <2>3 DEF OwnRequest
<1>10. ShownIsStored'
    BY <1>1, <1>5 DEF ShownIsStored
<1>11. BundleEarned'
    <2>1. Kind(p) = "bundle" /\ runOf[p] \notin shared =>
            Accepts(windows[runOf[p]]) /\ With(windows[runOf[p]], {"pending"}) = {}
        <3> SUFFICES ASSUME phase[p] = "push", runOf[p] \notin shared
                     PROVE  Accepts(windows[runOf[p]]) /\ With(windows[runOf[p]], {"pending"}) = {}
            BY DEF Kind
        <3>1. /\ windows[runOf[p]] = tested[p] /\ \A w \in Windows : tested[p][w] # "pending"
              /\ verdictOf[p] = Accepts(tested[p])
            BY <1>2 DEF RunsInv, MemoryMatches
        <3>2. verdictOf[p]
            BY DEF BundleEarned
        <3> QED
            BY <3>1, <3>2 DEF With
    <2>2. \A r \in RunIds :
            (\E h \in handlers' : h.kind = "bundle" /\ h.run = r) =>
                (\E h \in handlers : h.kind = "bundle" /\ h.run = r) \/ (Kind(p) = "bundle" /\ r = runOf[p])
        BY <1>1, <1>4
    <2>3. \A r \in RunIds \ (shared \union retried) :
            r \in bundles \/ (\E h \in handlers' : h.kind = "bundle" /\ h.run = r) =>
                Accepts(windows[r]) /\ With(windows[r], {"pending"}) = {}
        BY <2>1, <2>2 DEF BundleEarned
    <2> QED
        BY <1>1, <2>3 DEF BundleEarned, With
<1>12. ASSUME NEW h \in handlers', h.kind = "run", h.run \notin shared' PROVE StatusRequest(h)'
    <2>1. ASSUME Kind(p) = "run", runOf[p] \notin shared, NEW g \in handlers, g.kind = "run"
          PROVE  g.run # runOf[p]
        <3>1. phase[p] = "report"
            BY <1>1, <2>1 DEF Kind
        <3> QED
            BY <3>1, <2>1, <1>8 DEF StatusRequest
    <2>2. CASE h = n
        <3>1. phase[p] = "report" /\ runOf[p] \notin shared /\ Kind(p) = "run"
            BY <1>1, <1>4, <1>12, <2>2 DEF Kind
        <3>2. runs[runOf[p]].status = "done" /\ runs[runOf[p]].accepted = verdictOf[p]
            BY <3>1 DEF ShownIsStored
        <3>3. \A q \in Optimizers \ {p} : runOf[q] # runOf[p]
            BY <3>1, <1>2, OneOf
        <3>4. \A g \in handlers' : g.kind = "run" /\ g.run = runOf[p] => g = n
            BY <3>1, <2>1, <1>1
        <3> QED
            BY <2>2, <3>2, <3>3, <3>4, <1>1, <1>4 DEF StatusRequest
    <2>3. CASE h \in handlers
        <3>1. StatusRequest(h)
            BY <2>3, <1>1, <1>12
        <3>2. \A g \in handlers' : g.kind = "run" /\ g.run = h.run => g = h
            BY <3>1, <2>1, <2>3, <1>1, <1>4, <1>12 DEF StatusRequest
        <3> QED
            BY <3>1, <3>2, <1>1 DEF StatusRequest
    <2> QED
        BY <2>2, <2>3, <1>1
<1> QED
    BY <1>7, <1>9, <1>10, <1>11, <1>12

\* A request that was not sent, one answered and one that will be sent again.
LEMMA TurnReports ==
    ASSUME RunsInv, ReportInv, NEW p \in Optimizers,
           NotSent(p) \/ TokenRejected(p) \/ Answered(p) \/ Retry(p)
    PROVE  ReportInv'
<1> USE DEF ReportInv
<1>1. UNCHANGED <<runs, windows, runOf, tested, verdictOf, handlers, dashboard, bundles, events,
                  shared, retried>>
    BY DEF NotSent, TokenRejected, Answered, Retry, storeVars, dashboardVars, auditVars
<1>2. phase[p] \in {"push", "report"} /\ answer[p] # "waiting"
    BY DEF NotSent, TokenRejected, Answered, Retry, OwnRequest
<1>3. \/ answer' = [answer EXCEPT ![p] = "error"] /\ phase' = phase
      \/ answer' = [answer EXCEPT ![p] = "none"] /\ phase' \in {phase, [phase EXCEPT ![p] = After(p)]}
    BY DEF NotSent, TokenRejected, Answered, Retry, ReportTypes
<1>4. /\ \A q \in Optimizers \ {p} : phase'[q] = phase[q] /\ answer'[q] = answer[q]
      /\ phase'[p] = phase[p] \/ phase'[p] \in {"finish", "flush"}
      /\ answer'[p] \in {"none", "error"} /\ (answer'[p] = "error" => phase'[p] = phase[p])
    BY <1>3 DEF After, RunsInv, RunTypes, ReportTypes
<1>5. runOf[p] \in RunIds /\ (phase[p] = "push" /\ runOf[p] \notin shared => runs[runOf[p]].status = "running")
    BY <1>2, NoRunIsNone DEF RunsInv, RunTypes, OneProcess, MemoryMatches
<1>6. \A h \in handlers : h.client # p
    BY <1>2, OptimizerAssumption DEF OwnRequest
<1>7. \A h \in handlers : h.kind = "run" /\ h.run \notin shared' => runOf'[p] # h.run
    <2>1. ASSUME NEW h \in handlers, h.kind = "run", h.run \notin shared, runOf[p] = h.run PROVE FALSE
        <3>1. StatusRequest(h)
            BY <2>1
        <3>2. phase[p] = "flush"
            BY <3>1, <2>1, <1>6 DEF StatusRequest
        <3> QED
            BY <3>2, <1>2
    <2> QED
        BY <1>1, <2>1
<1>8. /\ ReportTypes' /\ OwnRequest'
      /\ \A h \in handlers' : h.kind = "run" /\ h.run \notin shared' => StatusRequest(h)'
    <2>1. answer' = answer \/ \E a \in {"none", "error"} : answer' = [answer EXCEPT ![p] = a]
        BY <1>3
    <2>2. answer'[p] # "none" => phase'[p] \in {"push", "report"}
        BY <1>2, <1>4
    <2> QED
        BY <1>1, <1>2, <1>4, <1>7, <2>1, <2>2, ApartKeeps
<1>9. BundleEarned'
    BY <1>1, <1>2, <1>4 DEF BundleEarned
<1>10. ShownIsStored'
    <2>1. \A q \in Optimizers : phase'[q] = "report" => phase[q] = "report"
        BY <1>4
    <2>2. \A q \in Optimizers : answer'[q] = "ok" => answer[q] = "ok"
        BY <1>4
    <2>3. \A r \in told' : r \in told \/ (r = runOf[p] /\ phase[p] = "report" /\ answer[p] = "ok")
        BY <1>2 DEF NotSent, TokenRejected, Answered, Retry, Kind, auditVars
    <2>4. \A r \in RunIds \ shared : r \in told' => dashboard[r].status = "done"
        BY <2>3 DEF ShownIsStored
    <2> QED
        BY <1>1, <2>1, <2>2, <2>4 DEF ShownIsStored
<1> QED
    BY <1>8, <1>9, <1>10

LEMMA ShownIs ==
    ASSUME NEW d \in [status : {"none", "running", "done"}, accepted : BOOLEAN, notified : BOOLEAN],
           NEW s
    PROVE  /\ d.status \in {"none", "running", "done"} /\ d.accepted \in BOOLEAN /\ d.notified \in BOOLEAN
           /\ [d EXCEPT !.status = s] = [status |-> s, accepted |-> d.accepted, notified |-> d.notified]
           /\ [d EXCEPT !.notified = s] = [status |-> d.status, accepted |-> d.accepted, notified |-> s]
<1>1. /\ d.status \in {"none", "running", "done"} /\ d.accepted \in BOOLEAN /\ d.notified \in BOOLEAN
      /\ d = [status |-> d.status, accepted |-> d.accepted, notified |-> d.notified]
    OBVIOUS
<1> QED
    BY <1>1

\* A web thread comes a step further with a request, and with what is shown of
\* its run.
LEMMA MovedKeeps ==
    ASSUME RunsInv, ReportInv, NEW h \in handlers, NEW at \in {"read", "mark", "log", "reply"},
           handlers' = Replaced(h, at), at # "reply" => h.kind = "run",
           UNCHANGED <<runs, windows, phase, runOf, tested, verdictOf, answer, shared, retried, told>>,
           \A r \in bundles' : r \in bundles \/ (h.kind = "bundle" /\ r = h.run),
           dashboard' \in [RunIds -> [status : {"none", "running", "done"},
                                      accepted : BOOLEAN, notified : BOOLEAN]],
           events' \in [RunIds -> Nat],
           h.kind = "bundle" => UNCHANGED <<dashboard, events>>,
           \A r \in RunIds \ {h.run} : dashboard'[r] = dashboard[r] /\ events'[r] = events[r],
           h.kind = "run" /\ h.run \notin shared =>
              /\ dashboard'[h.run].status = "done" /\ dashboard'[h.run].accepted = h.accepted
              /\ at = "mark" => ~dashboard'[h.run].notified
              /\ at = "log" => dashboard'[h.run].notified /\ events'[h.run] = 0
              /\ events'[h.run] <= 1 /\ (~dashboard'[h.run].notified => events'[h.run] = 0)
    PROVE  ReportInv'
<1> USE DEF ReportInv
<1> DEFINE n == [h EXCEPT !.at = at]
<1>1. \A g \in handlers : g \in Requests /\ g.client \in Clients /\ g.run \in RunIds
                          /\ g.kind \in {"bundle", "run"}
    BY RequestIs DEF ReportTypes
<1>2. /\ n \in Requests /\ n.kind = h.kind /\ n.run = h.run /\ n.accepted = h.accepted
      /\ n.client = h.client /\ n.at = at
    BY <1>1, MovedIs
<1>3. handlers' = (handlers \ {h}) \union {n}
    BY DEF Replaced
<1> HIDE DEF n
<1>4. ReportTypes'
    BY <1>2, <1>3 DEF ReportTypes
<1>5. OwnRequest'
    <2>1. \A q \in Optimizers : Kind(q)' = Kind(q)
        BY DEF Kind
    <2>2. ASSUME NEW k \in handlers'
          PROVE  /\ k.at \in {"read", "mark", "log"} => k.kind = "run"
                 /\ k.client # "nobody" =>
                      /\ answer'[k.client] = "waiting" /\ k.run = runOf'[k.client]
                      /\ k.kind = Kind(k.client)'
                      /\ \A g \in handlers' : g.client = k.client => g = k
        <3>1. PICK o \in handlers : /\ k.client = o.client /\ k.run = o.run /\ k.kind = o.kind
                                    /\ k = IF o = h THEN n ELSE o
            BY <1>2, <1>3
        <3>2. k.at \in {"read", "mark", "log"} => k.kind = "run"
            BY <3>1, <1>2 DEF OwnRequest
        <3>3. ASSUME k.client # "nobody"
              PROVE  /\ answer'[k.client] = "waiting" /\ k.run = runOf'[k.client]
                     /\ k.kind = Kind(k.client)'
            <4>1. o.client \in Optimizers
                BY <3>1, <3>3, <1>1 DEF Clients
            <4> QED
                BY <4>1, <3>1, <3>3, <2>1 DEF OwnRequest
        <3>4. ASSUME k.client # "nobody", NEW g \in handlers', g.client = k.client PROVE g = k
            <4>1. PICK f \in handlers : f.client = g.client /\ g = IF f = h THEN n ELSE f
                BY <1>2, <1>3
            <4>2. f = o
                BY <4>1, <3>1, <3>4 DEF OwnRequest
            <4> QED
                BY <4>1, <4>2, <3>1
        <3> QED
            BY <3>2, <3>3, <3>4
    <2>3. \A q \in Optimizers : answer'[q] # "none" => phase'[q] \in {"push", "report"}
        BY DEF OwnRequest
    <2> QED
        BY <2>2, <2>3 DEF OwnRequest
<1>6. h.kind = "run" /\ h.run \notin shared => StatusRequest(h)
    OBVIOUS
<1>7. ShownIsStored'
    <2>1. ASSUME NEW r \in RunIds \ shared
          PROVE  /\ dashboard'[r].status = "done" =>
                      runs[r].status = "done" /\ runs[r].accepted = dashboard'[r].accepted
                 /\ dashboard[r].status = "done" => dashboard'[r].status = "done"
                 /\ events'[r] <= 1
                 /\ ~dashboard'[r].notified => events'[r] = 0
        <3>1. CASE h.kind = "run" /\ r = h.run
            BY <3>1, <1>6, <2>1 DEF StatusRequest
        <3>2. CASE ~(h.kind = "run" /\ r = h.run)
            <4>1. dashboard'[r] = dashboard[r] /\ events'[r] = events[r]
                BY <3>2, <2>1, <1>1
            <4> QED
                BY <4>1, <2>1 DEF ShownIsStored
        <3> QED
            BY <3>1, <3>2
    <2>2. \A q \in Optimizers : phase[q] = "report" => runOf[q] \in RunIds
        BY NoRunIsNone DEF RunsInv, RunTypes, OneProcess
    <2> QED
        BY <2>1, <2>2 DEF ShownIsStored
<1>8. BundleEarned'
    <2>1. \A r \in RunIds :
            (\E k \in handlers' : k.kind = "bundle" /\ k.run = r) =>
                \E g \in handlers : g.kind = "bundle" /\ g.run = r
        BY <1>2, <1>3
    <2>2. \A r \in bundles' : r \in bundles \/ \E g \in handlers : g.kind = "bundle" /\ g.run = r
        OBVIOUS
    <2> QED
        BY <2>1, <2>2 DEF BundleEarned
<1>9. ASSUME NEW k \in handlers', k.kind = "run", k.run \notin shared' PROVE StatusRequest(k)'
    <2>1. CASE k = n
        <3>1. StatusRequest(h) /\ h.kind = "run"
            BY <2>1, <1>2, <1>9
        <3>2. \A g \in handlers' : g.kind = "run" /\ g.run = h.run => g = n
            BY <3>1, <1>2, <1>3 DEF StatusRequest
        <3> QED
            BY <2>1, <3>1, <3>2, <1>2, <1>9 DEF StatusRequest
    <2>2. CASE k \in handlers \ {h}
        <3>1. StatusRequest(k) /\ k.run \in RunIds
            BY <2>2, <1>1, <1>9
        <3>2. ~(h.kind = "run" /\ h.run = k.run)
            BY <2>2, <3>1 DEF StatusRequest
        <3>3. dashboard'[k.run] = dashboard[k.run] /\ events'[k.run] = events[k.run]
            BY <3>1, <3>2, <1>1
        <3>4. \A g \in handlers' : g.kind = "run" /\ g.run = k.run => g = k
            BY <3>1, <3>2, <1>2, <1>3 DEF StatusRequest
        <3> QED
            BY <3>1, <3>3, <3>4 DEF StatusRequest
    <2> QED
        BY <2>1, <2>2, <1>3
<1> QED
    BY <1>4, <1>5, <1>7, <1>8, <1>9

\* A thread has answered, or ended without: the process that waits knows which.
LEMMA AnswerKeeps ==
    ASSUME RunsInv, ReportInv, NEW h \in handlers, NEW how \in {"ok", "error"}, Reply(h, how),
           handlers' = handlers \ {h}, how = "ok" => h.at = "reply",
           UNCHANGED <<runs, windows, phase, runOf, tested, verdictOf, dashboard, bundles, events,
                       shared, retried, told>>
    PROVE  ReportInv'
<1> USE DEF ReportInv
<1>1. \A g \in handlers : g \in Requests /\ g.client \in Clients /\ g.run \in RunIds
                          /\ g.kind \in {"bundle", "run"}
    BY RequestIs DEF ReportTypes
<1>2. \A q \in Optimizers : answer'[q] = IF q = h.client THEN how ELSE answer[q]
    <2>1. h.client = "nobody" \/ h.client \in Optimizers
        BY <1>1 DEF Clients
    <2> QED
        BY <2>1, OptimizerAssumption DEF Reply, ReportTypes
<1>3. ReportTypes'
    BY DEF ReportTypes, Reply
<1>4. OwnRequest'
    <2>1. \A q \in Optimizers : Kind(q)' = Kind(q)
        BY DEF Kind
    <2>2. \A g \in handlers' : g.client # "nobody" => g.client \in Optimizers /\ g.client # h.client
        BY <1>1 DEF OwnRequest, Clients
    <2>3. \A q \in Optimizers : answer'[q] # "none" => phase'[q] \in {"push", "report"}
        <3>1. h.client \in Optimizers => answer[h.client] = "waiting"
            BY OptimizerAssumption DEF OwnRequest
        <3> QED
            BY <3>1, <1>2 DEF OwnRequest
    <2>4. ASSUME NEW k \in handlers'
          PROVE  /\ k.at \in {"read", "mark", "log"} => k.kind = "run"
                 /\ k.client # "nobody" =>
                      /\ answer'[k.client] = "waiting" /\ k.run = runOf'[k.client]
                      /\ k.kind = Kind(k.client)'
                      /\ \A g \in handlers' : g.client = k.client => g = k
        BY <1>2, <2>1, <2>2 DEF OwnRequest
    <2> QED
        BY <2>3, <2>4 DEF OwnRequest
<1>5. ShownIsStored'
    <2>1. ASSUME NEW q \in Optimizers, phase[q] = "report", runOf[q] \notin shared, answer'[q] = "ok"
          PROVE  dashboard[runOf[q]].status = "done"
        <3>1. CASE q = h.client
            <4>1. h.run = runOf[q] /\ h.kind = "run" /\ h.at = "reply"
                BY <2>1, <3>1, <1>2, OptimizerAssumption DEF OwnRequest, Kind
            <4>2. StatusRequest(h)
                BY <4>1, <2>1
            <4> QED
                BY <4>1, <4>2 DEF StatusRequest
        <3>2. CASE q # h.client
            BY <2>1, <3>2, <1>2 DEF ShownIsStored
        <3> QED
            BY <3>1, <3>2
    <2> QED
        BY <2>1 DEF ShownIsStored
<1>6. BundleEarned'
    BY DEF BundleEarned
<1>7. \A g \in handlers' : g.kind = "run" /\ g.run \notin shared' => StatusRequest(g)'
    BY DEF StatusRequest
<1> QED
    BY <1>3, <1>4, <1>5, <1>6, <1>7

LEMMA ThreadReports ==
    ASSUME RunsInv, ReportInv, NEW h \in handlers,
           IngestBundle(h) \/ UpsertRun(h) \/ ReadNotified(h) \/ MarkNotified(h) \/ LogCompletion(h)
    PROVE  ReportInv'
<1> USE DEF ReportInv
<1>1. UNCHANGED <<runs, windows, phase, runOf, tested, verdictOf, answer, shared, retried, told>>
    BY DEF IngestBundle, UpsertRun, ReadNotified, MarkNotified, LogCompletion, storeVars,
           processVars, auditVars
<1>2. /\ h \in Requests /\ h.run \in RunIds /\ h.accepted \in BOOLEAN
      /\ h.at \in {"read", "mark", "log"} => h.kind = "run"
    BY RequestIs DEF ReportTypes, OwnRequest
<1>3. h.kind = "run" /\ h.run \notin shared => StatusRequest(h)
    OBVIOUS
<1>4. dashboard[h.run] \in [status : {"none", "running", "done"}, accepted : BOOLEAN, notified : BOOLEAN]
      /\ events[h.run] \in Nat
    BY <1>2 DEF ReportTypes
<1>5. CASE IngestBundle(h)
    BY <1>1, <1>5, MovedKeeps DEF IngestBundle, ReportTypes
<1>6. CASE UpsertRun(h)
    <2> DEFINE d == [status |-> "done", accepted |-> h.accepted, notified |-> dashboard[h.run].notified]
    <2>1. dashboard' = [dashboard EXCEPT ![h.run] = d]
        BY <1>2, <1>6 DEF UpsertRun, ReportTypes
    <2>2. d \in [status : {"none", "running", "done"}, accepted : BOOLEAN, notified : BOOLEAN]
        BY <1>2, <1>4, ShownIs
    <2>3. /\ dashboard'[h.run] = d /\ \A r \in RunIds \ {h.run} : dashboard'[r] = dashboard[r]
          /\ dashboard' \in [RunIds -> [status : {"none", "running", "done"},
                                        accepted : BOOLEAN, notified : BOOLEAN]]
        BY <1>2, <2>1, <2>2 DEF ReportTypes
    <2>4. h.run \notin shared => events[h.run] <= 1 /\ (~d.notified => events[h.run] = 0)
        BY <1>2 DEF ShownIsStored
    <2>5. handlers' = Replaced(h, "read") /\ h.kind = "run" /\ UNCHANGED <<bundles, events>>
        BY <1>6 DEF UpsertRun
    <2>6. events' \in [RunIds -> Nat]
        BY <2>5 DEF ReportTypes
    <2>7. /\ dashboard'[h.run].status = "done" /\ dashboard'[h.run].accepted = h.accepted
          /\ dashboard'[h.run].notified = d.notified
        BY <2>3
    <2> QED
        BY <1>1, <2>3, <2>4, <2>5, <2>6, <2>7, MovedKeeps
<1>7. CASE ReadNotified(h)
    <2>1. PICK at \in {"reply", "mark"} : handlers' = Replaced(h, at)
                                          /\ (at = "mark" => ~dashboard[h.run].notified)
        BY <1>7 DEF ReadNotified
    <2>2. h.at = "read" /\ h.kind = "run" /\ UNCHANGED <<dashboard, bundles, events>>
        BY <1>2, <1>7 DEF ReadNotified
    <2>3. h.run \notin shared => /\ dashboard[h.run].status = "done" /\ dashboard[h.run].accepted = h.accepted
                                 /\ events[h.run] <= 1 /\ (~dashboard[h.run].notified => events[h.run] = 0)
        BY <1>2, <1>3, <2>2 DEF StatusRequest, ShownIsStored
    <2> QED
        BY <1>1, <2>1, <2>2, <2>3, MovedKeeps DEF ReportTypes
<1>8. CASE MarkNotified(h)
    <2> DEFINE d == [status |-> dashboard[h.run].status, accepted |-> dashboard[h.run].accepted,
                     notified |-> TRUE]
    <2>1. dashboard' = [dashboard EXCEPT ![h.run] = d]
        <3>1. dashboard' = [dashboard EXCEPT ![h.run] = [dashboard[h.run] EXCEPT !.notified = TRUE]]
            BY <1>2, <1>8 DEF MarkNotified, ReportTypes
        <3>2. [dashboard[h.run] EXCEPT !.notified = TRUE] = d
            BY <1>4, ShownIs
        <3> QED
            BY <3>1, <3>2
    <2>2. d \in [status : {"none", "running", "done"}, accepted : BOOLEAN, notified : BOOLEAN]
        BY <1>4, ShownIs
    <2>3. /\ dashboard'[h.run] = d /\ \A r \in RunIds \ {h.run} : dashboard'[r] = dashboard[r]
          /\ dashboard' \in [RunIds -> [status : {"none", "running", "done"},
                                        accepted : BOOLEAN, notified : BOOLEAN]]
        BY <1>2, <2>1, <2>2 DEF ReportTypes
    <2>4. handlers' = Replaced(h, "log") /\ h.at = "mark" /\ h.kind = "run" /\ UNCHANGED <<bundles, events>>
        BY <1>2, <1>8 DEF MarkNotified
    <2>5. h.run \notin shared => /\ dashboard[h.run].status = "done" /\ dashboard[h.run].accepted = h.accepted
                                 /\ ~dashboard[h.run].notified /\ events[h.run] = 0
        BY <1>2, <1>3, <2>4 DEF StatusRequest, ShownIsStored
    <2>6. events' \in [RunIds -> Nat]
        BY <2>4 DEF ReportTypes
    <2>7. /\ dashboard'[h.run].status = dashboard[h.run].status
          /\ dashboard'[h.run].accepted = dashboard[h.run].accepted /\ dashboard'[h.run].notified
        BY <2>3
    <2> QED
        BY <1>1, <2>3, <2>4, <2>5, <2>6, <2>7, MovedKeeps
<1>9. CASE LogCompletion(h)
    <2>1. handlers' = Replaced(h, "reply") /\ h.at = "log" /\ h.kind = "run" /\ UNCHANGED <<bundles, dashboard>>
          /\ events' = [events EXCEPT ![h.run] = @ + 1]
        BY <1>2, <1>9 DEF LogCompletion
    <2>2. /\ events'[h.run] = events[h.run] + 1 /\ \A r \in RunIds \ {h.run} : events'[r] = events[r]
          /\ events' \in [RunIds -> Nat]
        BY <1>2, <1>4, <2>1 DEF ReportTypes
    <2>3. h.run \notin shared => /\ dashboard[h.run].status = "done" /\ dashboard[h.run].accepted = h.accepted
                                 /\ dashboard[h.run].notified /\ events[h.run] = 0
        BY <1>2, <1>3, <2>1 DEF StatusRequest, ShownIsStored
    <2>4. h.run \notin shared => events'[h.run] <= 1
        BY <2>2, <2>3
    <2>5. dashboard' \in [RunIds -> [status : {"none", "running", "done"},
                                     accepted : BOOLEAN, notified : BOOLEAN]]
        BY <2>1 DEF ReportTypes
    <2> QED
        BY <1>1, <2>1, <2>2, <2>3, <2>4, <2>5, MovedKeeps
<1> QED
    BY <1>5, <1>6, <1>7, <1>8, <1>9

\* Lines of the feed never change what was reported.
LEMMA FeedReports ==
    ASSUME RunsInv, ReportInv, NEW r \in RunIds, IngestFeed(r)
    PROVE  ReportInv'
<1> USE DEF ReportInv
<1>1. UNCHANGED <<runs, windows, phase, runOf, tested, verdictOf, answer, handlers, bundles, events,
                  shared, retried, told>>
    BY DEF IngestFeed, storeVars, processVars, auditVars
<1>2. dashboard[r] \in [status : {"none", "running", "done"}, accepted : BOOLEAN, notified : BOOLEAN]
    BY DEF ReportTypes
<1> DEFINE d == [status |-> IF dashboard[r].status = "none" THEN "running" ELSE dashboard[r].status,
                 accepted |-> dashboard[r].accepted, notified |-> dashboard[r].notified]
<1>3. dashboard' = [dashboard EXCEPT ![r] = d]
    <2>1. dashboard' = [dashboard EXCEPT ![r] =
                           [dashboard[r] EXCEPT !.status = IF dashboard[r].status = "none" THEN "running"
                                                           ELSE dashboard[r].status]]
        BY DEF IngestFeed, ReportTypes
    <2>2. [dashboard[r] EXCEPT !.status = IF dashboard[r].status = "none" THEN "running"
                                          ELSE dashboard[r].status] = d
        BY <1>2, ShownIs
    <2> QED
        BY <2>1, <2>2
<1>4. d \in [status : {"none", "running", "done"}, accepted : BOOLEAN, notified : BOOLEAN]
    BY <1>2, ShownIs
<1>5. dashboard' \in [RunIds -> [status : {"none", "running", "done"},
                                 accepted : BOOLEAN, notified : BOOLEAN]]
    BY <1>3, <1>4 DEF ReportTypes
<1>6. \A q \in RunIds : /\ (dashboard'[q].status = "done") = (dashboard[q].status = "done")
                        /\ dashboard'[q].accepted = dashboard[q].accepted
                        /\ dashboard'[q].notified = dashboard[q].notified
    BY <1>3 DEF ReportTypes
<1>7. ReportTypes' /\ OwnRequest'
    BY <1>1, <1>5 DEF ReportTypes, OwnRequest, Kind
<1>8. \A q \in Optimizers : phase[q] = "report" => runOf[q] \in RunIds
    BY NoRunIsNone DEF RunsInv, RunTypes, OneProcess
<1>9. ShownIsStored' /\ BundleEarned'
    BY <1>1, <1>6, <1>8 DEF ShownIsStored, BundleEarned
<1>10. ASSUME NEW h \in handlers', h.kind = "run", h.run \notin shared' PROVE StatusRequest(h)'
    <2>1. StatusRequest(h) /\ h.run \in RunIds
        BY <1>1, <1>10, RequestIs DEF ReportTypes
    <2> QED
        BY <2>1, <1>1, <1>6 DEF StatusRequest
<1> QED
    BY <1>7, <1>9, <1>10

LEMMA ReportStep == RunsInv /\ ReportInv /\ [OptimizerNext]_optimizerVars => ReportInv'
<1> SUFFICES ASSUME RunsInv, ReportInv, [OptimizerNext]_optimizerVars PROVE ReportInv'
    OBVIOUS
<1>1. ASSUME NEW p \in Optimizers,
             Choose(p) \/ Plan(p) \/ Conclude(p) \/ Completes(p) \/ Send(p) \/ NotSent(p)
               \/ TokenRejected(p) \/ Answered(p) \/ Retry(p)
      PROVE  ReportInv'
    BY <1>1, ChooseReports, PlanReports, ConcludeReports, CompletesReports, SendReports, TurnReports
<1>2. ASSUME NEW p \in Optimizers, NEW w \in Windows, Execute(p, w) PROVE ReportInv'
    BY <1>2, ExecuteReports
<1>3. ASSUME NEW p \in Optimizers, RunFails(p) \/ Flush(p) \/ Dies(p) PROVE ReportInv'
    BY <1>3, LeaveKeeps DEF RunFails, Flush, Dies, Gone, storeVars, auditVars
<1>4. ASSUME NEW p \in Optimizers, NoAnswer(p) PROVE ReportInv'
    <2>1. /\ UNCHANGED <<runs, windows, dashboard, bundles, events, shared, retried, told>>
          /\ handlers' = {Freed(h, p) : h \in handlers} /\ answer' = [answer EXCEPT ![p] = "none"]
          /\ \/ Gone(p)
             \/ phase' = [phase EXCEPT ![p] = "flush"] /\ UNCHANGED <<runOf, tested, verdictOf>>
        BY <1>4 DEF NoAnswer, Gone, storeVars, auditVars
    <2> QED
        BY <2>1, LeaveKeeps
<1>5. ASSUME NEW h \in handlers, IngestBundle(h) \/ UpsertRun(h) \/ ReadNotified(h) \/ MarkNotified(h)
                                   \/ LogCompletion(h)
      PROVE  ReportInv'
    BY <1>5, ThreadReports
<1>6. ASSUME NEW h \in handlers, MalformedBundle(h) \/ ReplyOk(h) \/ HandlerFails(h) PROVE ReportInv'
    <2>1. PICK how \in {"ok", "error"} : Reply(h, how) /\ (how = "ok" => h.at = "reply")
        BY <1>6 DEF MalformedBundle, ReplyOk, HandlerFails
    <2>2. /\ UNCHANGED <<runs, windows, phase, runOf, tested, verdictOf, dashboard, bundles, events,
                         shared, retried, told>>
          /\ handlers' = handlers \ {h}
        BY <1>6 DEF MalformedBundle, ReplyOk, HandlerFails, storeVars, auditVars
    <2> QED
        BY <2>1, <2>2, AnswerKeeps
<1>7. ASSUME NEW r \in RunIds, IngestFeed(r) PROVE ReportInv'
    BY <1>7, FeedReports
<1>8. CASE UNCHANGED optimizerVars
    BY <1>8 DEF optimizerVars, storeVars, processVars, dashboardVars, auditVars, ReportInv,
                ReportTypes, OwnRequest, Kind, StatusRequest, ShownIsStored, BundleEarned
<1> QED
    BY <1>1, <1>2, <1>3, <1>4, <1>5, <1>6, <1>7, <1>8 DEF OptimizerNext

\* Whatever is lost, answered late, sent again or resumed, for any number of
\* processes, runs and web threads: what the dashboard shows as done is done,
\* with the store's verdict, and announced once at most; and a rejected run
\* delivered no bundle (DropletClient._request, ingest_run, accept_bundle).
THEOREM Reported == OptimizerSpec => []ReportsTrue
<1>1. RunsInv /\ ReportInv => ReportsTrue
    <2> SUFFICES ASSUME RunsInv, ReportInv, NEW r \in RunIds \ shared
                 PROVE  /\ dashboard[r].status = "done" =>
                             runs[r].status = "done" /\ runs[r].accepted = dashboard[r].accepted
                        /\ r \in told => dashboard[r].status = "done"
                        /\ events[r] <= 1
                        /\ r \in bundles \ retried => ~(runs[r].status = "done" /\ ~runs[r].accepted)
        BY DEF ReportsTrue
    <2>1. r \in bundles \ retried => Accepts(windows[r])
        BY DEF ReportInv, BundleEarned
    <2>2. runs[r].status = "done" => runs[r].accepted = Accepts(windows[r])
        BY DEF RunsInv, VerdictFromRows
    <2> QED
        BY <2>1, <2>2 DEF ReportInv, ShownIsStored
<1> QED
    BY <1>1, RunsInit, RunsStep, ReportInit, ReportStep, PTL DEF OptimizerSpec

\* What RunsInv and ReportInv leave of the variables' types.
AuditTypes ==
    /\ resends \in [Optimizers -> 0 .. Retries]
    /\ launches \in 0 .. MaxLaunches /\ breaks \in 0 .. MaxBreaks
    /\ bundles \subseteq RunIds
    /\ shared \subseteq RunIds /\ retried \subseteq RunIds /\ told \subseteq RunIds

LEMMA AuditInit == OptimizerInit => AuditTypes
<1>1. Retries \in Nat /\ MaxLaunches \in Nat /\ MaxBreaks \in Nat
    BY OptimizerAssumption
<1> QED
    BY <1>1 DEF OptimizerInit, AuditTypes

LEMMA AuditStep ==
    ASSUME RunsInv, ReportInv, AuditTypes, [OptimizerNext]_optimizerVars
    PROVE  AuditTypes'
<1>0. /\ resends \in [Optimizers -> 0 .. Retries]
      /\ launches \in 0 .. MaxLaunches /\ breaks \in 0 .. MaxBreaks
      /\ bundles \subseteq RunIds
      /\ shared \subseteq RunIds /\ retried \subseteq RunIds /\ told \subseteq RunIds
      /\ Retries \in Nat /\ MaxLaunches \in Nat /\ MaxBreaks \in Nat
    BY OptimizerAssumption DEF AuditTypes
<1>f. Break => breaks' \in 0 .. MaxBreaks
    BY <1>0 DEF Break
<1>1. ASSUME NEW p \in Optimizers, Choose(p) PROVE AuditTypes'
    <2>1. /\ UNCHANGED <<resends, bundles, retried, told>>
          /\ launches' = launches + 1 /\ launches < MaxLaunches
        BY <1>1 DEF Choose, dashboardVars
    <2>2. \/ UNCHANGED <<breaks, shared>>
          \/ \E r \in RunIds : breaks' = MaxBreaks /\ shared' = shared \union {r}
        BY <1>1 DEF Choose, Unfinished, NoRun
    <2> QED
        BY <1>0, <2>1, <2>2 DEF AuditTypes
<1>2. ASSUME NEW p \in Optimizers, Plan(p) PROVE AuditTypes'
    <2>1. /\ UNCHANGED <<resends, launches, breaks, bundles, shared, told>>
          /\ \E r \in RunIds : retried' \in {retried, retried \union {r}}
        BY <1>2 DEF Plan, dashboardVars
    <2> QED
        BY <1>0, <2>1 DEF AuditTypes
<1>3. ASSUME NEW p \in Optimizers,
             Conclude(p) \/ Completes(p) \/ Send(p) \/ NotSent(p) \/ \E w \in Windows : Execute(p, w)
      PROVE  AuditTypes'
    <2>1. /\ UNCHANGED <<resends, launches, bundles, shared, retried, told>>
          /\ UNCHANGED breaks \/ Break
        BY <1>3 DEF Conclude, Completes, Send, NotSent, Execute, EvaluateWindow, auditVars,
                    dashboardVars
    <2> QED
        BY <1>0, <1>f, <2>1 DEF AuditTypes
<1>4. ASSUME NEW p \in Optimizers, Gone(p), UNCHANGED <<launches, bundles, auditVars>>,
             UNCHANGED breaks \/ Break
      PROVE  AuditTypes'
    BY <1>0, <1>f, <1>4 DEF Gone, auditVars, AuditTypes
<1>5. ASSUME NEW p \in Optimizers, RunFails(p) \/ Flush(p) \/ Dies(p) PROVE AuditTypes'
    BY <1>4, <1>5 DEF RunFails, Flush, Dies
<1>6. ASSUME NEW p \in Optimizers, Answered(p) PROVE AuditTypes'
    <2>1. phase[p] \in {"push", "report"}
        BY <1>6 DEF Answered, ReportInv, OwnRequest
    <2>2. runOf[p] \in RunIds
        BY <2>1 DEF RunsInv, RunTypes, OneProcess
    <2> QED
        BY <1>0, <1>6, <2>2 DEF Answered, AuditTypes, dashboardVars
<1>7. ASSUME NEW p \in Optimizers, Retry(p) PROVE AuditTypes'
    <2>1. resends' \in [Optimizers -> 0 .. Retries]
        <3>1. resends[p] \in 0 .. Retries
            BY <1>0
        <3> QED
            BY <1>0, <1>7, <3>1 DEF Retry
    <2> QED
        BY <1>0, <1>7, <2>1 DEF Retry, AuditTypes, dashboardVars, auditVars
<1>r. ASSUME NEW p \in Optimizers, TokenRejected(p) PROVE AuditTypes'
    <2>1. resends' = [resends EXCEPT ![p] = 0] /\ Break
          /\ UNCHANGED <<launches, bundles, shared, retried, told>>
        BY <1>r DEF TokenRejected, dashboardVars, auditVars
    <2> QED
        BY <1>0, <1>f, <2>1 DEF AuditTypes
<1>8. ASSUME NEW p \in Optimizers, NoAnswer(p) PROVE AuditTypes'
    <2>1. CASE Gone(p)
        BY <1>4, <1>8, <2>1 DEF NoAnswer
    <2>2. CASE resends' = [resends EXCEPT ![p] = 0]
        BY <1>0, <1>f, <1>8, <2>2 DEF NoAnswer, AuditTypes, auditVars
    <2> QED
        BY <1>8, <2>1, <2>2 DEF NoAnswer
<1>9. ASSUME NEW h \in handlers,
             \/ IngestBundle(h) \/ MalformedBundle(h) \/ UpsertRun(h) \/ ReadNotified(h) \/ MarkNotified(h)
             \/ LogCompletion(h) \/ ReplyOk(h) \/ HandlerFails(h)
      PROVE  AuditTypes'
    <2>1. h.run \in RunIds
        BY RequestIs DEF ReportInv, ReportTypes
    <2>2. /\ UNCHANGED <<resends, launches, shared, retried, told>>
          /\ bundles' \in {bundles, bundles \union {h.run}}
          /\ UNCHANGED breaks \/ Break
        BY <1>9 DEF IngestBundle, MalformedBundle, UpsertRun, ReadNotified, MarkNotified, LogCompletion, ReplyOk,
                    HandlerFails, processVars, auditVars
    <2> QED
        BY <1>0, <1>f, <2>1, <2>2 DEF AuditTypes
<1>10. ASSUME NEW r \in RunIds, IngestFeed(r) PROVE AuditTypes'
    BY <1>10 DEF IngestFeed, AuditTypes, processVars, auditVars
<1>11. CASE UNCHANGED optimizerVars
    BY <1>11 DEF optimizerVars, AuditTypes, processVars, dashboardVars, auditVars
<1> QED
    BY <1>1, <1>2, <1>3, <1>5, <1>6, <1>7, <1>r, <1>8, <1>9, <1>10, <1>11 DEF OptimizerNext

\* A process knows runs there are, resends no oftener than it may, and what web
\* threads are at are requests of runs, for any processes, windows and mishaps.
THEOREM OptimizerTypeCorrect == OptimizerSpec => []OptimizerTypeOK
<1>1. RunsInv /\ ReportInv /\ AuditTypes => OptimizerTypeOK
    BY DEF RunsInv, RunTypes, ReportInv, ReportTypes, AuditTypes, OptimizerTypeOK
<1> QED
    BY <1>1, RunsInit, RunsStep, ReportInit, ReportStep, AuditInit, AuditStep, PTL
       DEF OptimizerSpec

----------------------------------------------------------------------------
(* The token bucket *)

\* The credit of a span of time grows with the span.
LEMMA LongerEarnsMore ==
    ASSUME NEW a \in Nat, NEW b \in Nat, NEW r \in Nat, a <= b
    PROVE  a * r <= b * r
<1>1. PICK d \in Nat : b = a + d
    BY SMT
<1>2. d * r \in Nat /\ (a + d) * r = a * r + d * r
    BY SMT
<1> QED
    BY <1>1, <1>2, SMT

\* The credit of a span of time grows with the rate.
LEMMA FasterEarnsMore ==
    ASSUME NEW a \in Nat, NEW r \in Nat, NEW s \in Nat, r <= s
    PROVE  a * r <= a * s
<1>1. PICK d \in Nat : s = r + d
    BY SMT
<1>2. a * d \in Nat /\ a * (r + d) = a * r + a * d
    BY SMT
<1> QED
    BY <1>1, <1>2, SMT

\* Fewer tokens fit into more credit.
LEMMA LessWithinMore ==
    ASSUME NEW t \in Nat, NEW u \in Nat, u <= t, NEW g \in Nat,
           NEW less \in Nat, NEW more \in Nat, less <= more
    PROVE  /\ t + g <= less => u + g <= more
           /\ 2 * (t + g) <= less => 2 * (u + g) <= more
BY SMT

\* What BudgetHonoured needs to be kept: credit handed out and credit still in
\* the bucket together stay within the rate up to the last refill, and the rate of
\* now is never above the largest since.
CreditInv ==
    /\ emptied <= updated /\ updated <= now
    /\ limits[1] <= topRate
    /\ tokens + granted <= (updated - emptied) * topRate
    /\ emptied > 0 /\ updated < penaltyUntil =>
         2 * (tokens + granted) <= (updated - emptied) * topRate

RateInv == RateTypeOK /\ CreditInv

LEMMA LimitsTyped ==
    ASSUME limits \in Limits
    PROVE  limits[1] \in Nat \ {0} /\ limits[2] \in Nat /\ limits[2] >= Cost
           /\ limits[1] % 2 = 0
BY RateAssumption, SMT

\* A refill is worth no more than the time since the last one at the rate of
\* now, and half of that in a penalty.
LEMMA RefillBound ==
    ASSUME RateInv
    PROVE  /\ Refilled \in Nat
           /\ Refilled <= tokens + (now - updated) * limits[1]
           /\ now < penaltyUntil => 2 * Refilled <= 2 * tokens + (now - updated) * limits[1]
<1> DEFINE rate == limits[1]
           half == limits[1] \div 2
           span == now - updated
<1>1. rate \in Nat /\ half \in Nat /\ span \in Nat /\ tokens \in Nat /\ limits[2] \in Nat
      /\ 2 * half <= rate /\ half <= rate
    BY LimitsTyped, SMT DEF RateInv, RateTypeOK, CreditInv
<1>2. span * half \in Nat /\ span * rate \in Nat /\ span * half <= span * rate
    BY <1>1, FasterEarnsMore, SMT
<1>3. 2 * (span * half) <= span * rate
  <2>1. span * (2 * half) <= span * rate
    BY <1>1, FasterEarnsMore, SMT
  <2>2. span * (2 * half) = 2 * (span * half)
    BY <1>1, SMT
  <2> QED
    BY <2>1, <2>2
<1>4. Refilled = Least(limits[2], tokens + span * (IF now < penaltyUntil THEN half ELSE rate))
    BY DEF Refilled, EffectiveRate
<1> HIDE DEF rate, half, span
<1>5. Refilled \in Nat /\ Refilled <= tokens + span * rate
      /\ (now < penaltyUntil => 2 * Refilled <= 2 * tokens + span * rate)
    BY <1>1, <1>2, <1>3, <1>4, SMT DEF Least
<1> QED
    BY <1>5 DEF rate, span

\* So the budget holds up to this moment, with what a refill would add.
LEMMA CreditNow ==
    ASSUME RateInv
    PROVE  /\ Refilled \in Nat
           /\ Refilled + granted <= (now - emptied) * topRate
           /\ emptied > 0 /\ now < penaltyUntil =>
                2 * (Refilled + granted) <= (now - emptied) * topRate
<1> DEFINE span == now - updated
           before == updated - emptied
<1>1. span \in Nat /\ before \in Nat /\ topRate \in Nat /\ limits[1] \in Nat
      /\ limits[1] <= topRate /\ now - emptied = before + span
    BY LimitsTyped, SMT DEF RateInv, RateTypeOK, CreditInv
<1>2. span * limits[1] <= span * topRate
    BY <1>1, FasterEarnsMore
<1>3. (now - emptied) * topRate = before * topRate + span * topRate
    BY <1>1, SMT
<1>4. /\ tokens \in Nat /\ granted \in Nat /\ before * topRate \in Nat
      /\ span * topRate \in Nat /\ span * limits[1] \in Nat
    BY <1>1, SMT DEF RateInv, RateTypeOK
<1>5. /\ tokens + granted <= before * topRate
      /\ emptied > 0 /\ updated < penaltyUntil => 2 * (tokens + granted) <= before * topRate
    BY DEF RateInv, CreditInv
<1>6. updated <= now /\ updated \in Nat /\ now \in Nat /\ penaltyUntil \in Nat /\ emptied \in Nat
    BY RateAssumption, SMT DEF RateInv, CreditInv, RateTypeOK
<1>7. /\ Refilled \in Nat
      /\ Refilled <= tokens + span * limits[1]
      /\ now < penaltyUntil => 2 * Refilled <= 2 * tokens + span * limits[1]
    BY RefillBound
<1> HIDE DEF span, before
<1> QED
    BY <1>2, <1>3, <1>4, <1>5, <1>6, <1>7, SMT

LEMMA RateInitOk == RateInit => RateInv
<1> SUFFICES ASSUME RateInit PROVE RateInv
    OBVIOUS
<1>1. RateTypeOK
    BY LimitsTyped, RateAssumption, SMT DEF RateInit, RateTypeOK
<1>2. CreditInv
    BY LimitsTyped, SMT DEF RateInit, CreditInv
<1> QED
    BY <1>1, <1>2 DEF RateInv

\* Steps of a request that leave the bucket alone.
LEMMA RequestKeeps ==
    ASSUME RateInv, NEW c \in Callers, Ask(c) \/ Finish(c) \/ Transient(c)
    PROVE  RateInv'
<1>1. RateTypeOK'
    BY RateAssumption, SMT
    DEF RateInv, RateTypeOK, Ask, Finish, Transient, Again, bucketVars, rateHistory
<1>2. CreditInv'
    BY DEF RateInv, CreditInv, Ask, Finish, Transient, bucketVars, rateHistory
<1> QED
    BY <1>1, <1>2 DEF RateInv

LEMMA AcquireKeeps ==
    ASSUME RateInv, NEW c \in Callers, Acquire(c)
    PROVE  RateInv'
<1>1. Refilled - Cost \in Nat
  <2>1. Least(Reserve, limits[2]) \in Nat
    BY LimitsTyped, RateAssumption, SMT DEF RateInv, RateTypeOK, Least
  <2>2. RateFloor(c) \in Nat
    BY <2>1 DEF RateFloor
  <2>3. Refilled - Cost >= RateFloor(c) /\ Refilled \in Nat
    BY RefillBound DEF Acquire, Grantable
  <2> QED
    BY <2>2, <2>3, SMT DEF Cost
<1>2. tokens' = Refilled - Cost /\ granted' = granted + Cost /\ granted \in Nat
    BY DEF Acquire, RateInv, RateTypeOK
<1>3. tokens' \in Nat /\ granted' \in Nat /\ tokens' + granted' = Refilled + granted
    BY <1>1, <1>2, CreditNow, SMT DEF Cost
<1>4. RateTypeOK'
    BY <1>3, RateAssumption, SMT DEF RateInv, RateTypeOK, Acquire
<1>5. CreditInv'
  <2>1. updated' = now /\ UNCHANGED <<now, emptied, topRate, penaltyUntil, limits>>
    BY DEF Acquire
  <2>2. emptied <= now /\ now <= now /\ limits[1] <= topRate
    BY RateAssumption, SMT DEF RateInv, RateTypeOK, CreditInv
  <2> QED
    BY <1>3, <2>1, <2>2, CreditNow DEF CreditInv
<1> QED
    BY <1>4, <1>5 DEF RateInv

\* Refills without a call: a caller that gives up, and the statistics.
LEMMA RefillKeeps ==
    ASSUME RateInv, Stats \/ \E c \in Callers : AcquireTimesOut(c)
    PROVE  RateInv'
<1>1. /\ tokens' = Refilled /\ updated' = now
      /\ UNCHANGED <<limits, penaltyUntil, now, attempt, since, changes, rateHistory>>
    BY DEF Stats, AcquireTimesOut
<1>2. request' \in [Callers -> {"idle", "acquire", "sent"}]
    BY DEF Stats, AcquireTimesOut, RateInv, RateTypeOK
<1>3. RateTypeOK'
    BY <1>1, <1>2, RefillBound, RateAssumption, SMT DEF RateInv, RateTypeOK, rateHistory
<1>4. CreditInv'
  <2>1. emptied <= now /\ now <= now /\ limits[1] <= topRate
    BY RateAssumption, SMT DEF RateInv, RateTypeOK, CreditInv
  <2>2. UNCHANGED <<limits, penaltyUntil, now, emptied, granted, topRate>>
    BY <1>1 DEF rateHistory
  <2> QED
    BY <1>1, <2>1, <2>2, CreditNow DEF CreditInv
<1> QED
    BY <1>3, <1>4 DEF RateInv

LEMMA TooManyKeeps ==
    ASSUME RateInv, NEW c \in Callers, TooMany(c)
    PROVE  RateInv'
<1>1. RateTypeOK'
    BY LimitsTyped, RateAssumption, SMT DEF RateInv, RateTypeOK, TooMany, Again, Emptying
<1>2. CreditInv'
    BY <1>1, RateAssumption, SMT DEF RateTypeOK, CreditInv, TooMany, Emptying
<1> QED
    BY <1>1, <1>2 DEF RateInv

LEMMA ConfigureKeeps ==
    ASSUME RateInv, NEW l \in Limits, Configure(l)
    PROVE  RateInv'
<1>1. l[1] \in Nat /\ l[2] \in Nat
    BY RateAssumption, SMT
<1>2. /\ tokens' \in Nat /\ tokens' <= tokens
      /\ topRate' \in Nat /\ topRate <= topRate' /\ l[1] <= topRate'
    BY <1>1, SMT DEF Configure, Least, Most, RateInv, RateTypeOK
<1>3. RateTypeOK'
    BY <1>2, RateAssumption, SMT DEF RateInv, RateTypeOK, Configure
<1>4. CreditInv'
  <2> DEFINE before == updated - emptied
  <2>1. before \in Nat /\ topRate \in Nat /\ tokens \in Nat /\ granted \in Nat
    BY RateAssumption, SMT DEF RateInv, RateTypeOK, CreditInv
  <2>2. before * topRate <= before * topRate' /\ before * topRate \in Nat /\ before * topRate' \in Nat
    BY <1>2, <2>1, FasterEarnsMore, SMT
  <2>3. /\ limits' = l /\ UNCHANGED <<updated, emptied, now, penaltyUntil, granted>>
    BY DEF Configure
  <2>4. /\ emptied <= updated /\ updated <= now
        /\ tokens + granted <= before * topRate
        /\ emptied > 0 /\ updated < penaltyUntil => 2 * (tokens + granted) <= before * topRate
    BY DEF RateInv, CreditInv
  <2>5. /\ tokens' + granted <= before * topRate'
        /\ emptied > 0 /\ updated < penaltyUntil => 2 * (tokens' + granted) <= before * topRate'
    <3> HIDE DEF before
    <3> QED
      BY <1>2, <2>1, <2>2, <2>4, LessWithinMore
  <2> QED
    BY <1>2, <2>3, <2>4, <2>5 DEF CreditInv
<1> QED
    BY <1>3, <1>4 DEF RateInv

LEMMA TickKeeps ==
    ASSUME RateInv, Tick
    PROVE  RateInv'
<1>1. RateTypeOK'
    BY RateAssumption, SMT DEF RateInv, RateTypeOK, Tick, bucketVars, rateHistory
<1>2. updated <= now'
    BY RateAssumption, SMT DEF RateInv, RateTypeOK, CreditInv, Tick
<1>3. CreditInv'
    BY <1>2 DEF RateInv, CreditInv, Tick, bucketVars, rateHistory
<1> QED
    BY <1>1, <1>3 DEF RateInv

LEMMA RateStep == RateInv /\ [RateNext]_rateVars => RateInv'
<1> SUFFICES ASSUME RateInv, [RateNext]_rateVars PROVE RateInv'
    OBVIOUS
<1>1. CASE \E c \in Callers : Ask(c) \/ Finish(c) \/ Transient(c)
    BY <1>1, RequestKeeps
<1>2. CASE \E c \in Callers : Acquire(c)
    BY <1>2, AcquireKeeps
<1>3. CASE Stats \/ \E c \in Callers : AcquireTimesOut(c)
    BY <1>3, RefillKeeps
<1>4. CASE \E c \in Callers : TooMany(c)
    BY <1>4, TooManyKeeps
<1>5. CASE \E l \in Limits : Configure(l)
    BY <1>5, ConfigureKeeps
<1>6. CASE Tick
    BY <1>6, TickKeeps
<1>7. CASE UNCHANGED rateVars
    BY <1>7 DEF rateVars, bucketVars, rateHistory, RateInv, RateTypeOK, CreditInv
<1> QED
    BY <1>1, <1>2, <1>3, <1>4, <1>5, <1>6, <1>7 DEF RateNext

\* The bucket always holds a number of tokens and every counter a number: what
\* is granted never takes it below zero.
THEOREM RateTypeCorrect == RateSpec => []RateTypeOK
<1>1. RateInv => RateTypeOK
    BY DEF RateInv
<1> QED
    BY <1>1, RateInitOk, RateStep, PTL DEF RateSpec

\* However threads ask, give up, retry and are refused, and whatever limits are
\* set meanwhile: the provider is asked no more often than the rate allows since
\* the bucket was last emptied, and half as often under a penalty.
THEOREM Budget == RateSpec => []BudgetHonoured
<1>1. RateInv => BudgetHonoured
  <2> SUFFICES ASSUME RateInv PROVE BudgetHonoured
    OBVIOUS
  <2>1. (now - emptied) * topRate \in Int /\ granted \in Nat
    BY RateAssumption, SMT DEF RateInv, RateTypeOK
  <2> QED
    BY <2>1, CreditNow, SMT DEF BudgetHonoured
<1> QED
    BY <1>1, RateInitOk, RateStep, PTL DEF RateSpec

\* Why a quote does not wait: while it does, the bucket has earned at least half
\* the rate ever since nothing else could keep it waiting, or holds a call.
Waiting(c) == now - blocked[c]
Unhindered(c) ==
    /\ blocked[c] <= now
    /\ Waiting(c) <= Earned(limits[1])
    /\ Refilled >= Cost \/ Waiting(c) * (limits[1] \div 2) <= Refilled
QuoteInv == Reserve >= Cost => \A c \in Quotes : request[c] = "acquire" => Unhindered(c)

\* A wait that begins now is no wait.
LEMMA NoWaitYet == RateInv => \A c \in Quotes : blocked[c] = now => Unhindered(c)
<1> SUFFICES ASSUME RateInv, NEW c \in Quotes, blocked[c] = now PROVE Unhindered(c)
    OBVIOUS
<1>1. limits[1] \in Nat \ {0} /\ Refilled \in Nat /\ now \in Nat
    BY LimitsTyped, RefillBound, RateAssumption, SMT DEF RateInv, RateTypeOK
<1>2. Waiting(c) = 0 /\ blocked[c] <= now
    BY <1>1, SMT DEF Waiting
<1>3. 0 <= Earned(limits[1]) /\ 0 * (limits[1] \div 2) <= Refilled
    BY <1>1, SMT DEF Earned, Cost
<1> QED
    BY <1>2, <1>3 DEF Unhindered

LEMMA NoWaitThen ==
    ASSUME RateInv' PROVE \A c \in Quotes : blocked'[c] = now' => Unhindered(c)'
<1>1. (RateInv => \A c \in Quotes : blocked[c] = now => Unhindered(c))'
    BY NoWaitYet, PTL
<1> QED
    BY <1>1

\* One that was not hindered is not, as long as the bucket holds as much.
LEMMA StillUnhindered ==
    ASSUME RateInv, RateInv', NEW c \in Quotes, Unhindered(c),
           UNCHANGED <<limits, now>>, blocked'[c] = blocked[c],
           Refilled' = Refilled \/ Refilled' >= Cost
    PROVE  Unhindered(c)'
BY SMT DEF Unhindered, Waiting, Earned

\* While a caller waits that nothing but the rate holds up, time adds to the bucket.
LEMMA TickFills ==
    ASSUME RateInv, Tick, NEW c \in Quotes, request[c] = "acquire", Unhindered(c)
    PROVE  Unhindered(c)'
<1> DEFINE rate == limits[1]
           half == limits[1] \div 2
           burst == limits[2]
           span == now - updated
           wait == now - blocked[c]
           earning == IF now < penaltyUntil THEN half ELSE rate
           later == IF now + 1 < penaltyUntil THEN half ELSE rate
<1>1. /\ rate \in Nat \ {0} /\ rate % 2 = 0 /\ burst \in Nat /\ burst >= 2
      /\ now \in Nat /\ updated \in Nat /\ updated <= now /\ tokens \in Nat
      /\ blocked[c] \in Nat /\ penaltyUntil \in Nat /\ Refilled \in Nat
    BY LimitsTyped, RefillBound, RateAssumption, SMT
    DEF RateInv, RateTypeOK, CreditInv, Cost, Callers
<1>2. /\ half \in Nat \ {0} /\ rate = 2 * half
      /\ earning \in Nat /\ later \in Nat /\ later >= earning /\ later >= half /\ span \in Nat
    BY <1>1, SMT
<1>3. /\ now' = now + 1
      /\ UNCHANGED <<limits, tokens, updated, penaltyUntil, blocked>>
    BY DEF Tick, bucketVars, rateHistory
<1>4. ~Grantable(c) /\ Refilled < Cost
  <2>1. ~Grantable(c)
    BY DEF Tick, Callers
  <2> QED
    BY <1>1, <2>1, SMT DEF Grantable, RateFloor, Cost
<1>5. wait \in Nat /\ wait * half <= Refilled /\ Refilled <= 1
    BY <1>1, <1>4, SMT DEF Unhindered, Waiting, Cost
<1>6. Refilled = tokens + span * earning
  <2>1. Refilled = Least(burst, tokens + span * earning)
    BY DEF Refilled, EffectiveRate
  <2>2. span * earning \in Nat
    BY <1>2, SMT
  <2> HIDE DEF burst, earning, span
  <2> QED
    BY <1>1, <1>4, <2>1, <2>2, SMT DEF Least, Cost
<1>7. Refilled' = Least(burst, tokens + (span + 1) * later)
    BY <1>1, <1>3, SMT DEF Refilled, EffectiveRate
<1> HIDE DEF rate, half, burst, span, wait, earning, later
<1>8. (span + 1) * later >= span * earning + half /\ (span + 1) * later \in Nat
  <2>1. span * earning <= span * later
    BY <1>2, FasterEarnsMore
  <2>2. (span + 1) * later = span * later + later /\ span * later \in Nat /\ span * earning \in Nat
    BY <1>2, SMT
  <2> QED
    BY <1>2, <2>1, <2>2, SMT
<1>9. (wait + 1) * half = wait * half + half /\ wait * half \in Nat
    BY <1>2, <1>5, SMT
<1>10. Refilled' >= Cost \/ (wait + 1) * half <= Refilled'
  BY <1>1, <1>2, <1>5, <1>6, <1>7, <1>8, <1>9, SMT DEF Least, Cost
<1>11. wait + 1 <= Earned(rate)
  <2>1. CASE half = 1
    <3>1. wait * half = wait
      BY <1>5, <2>1, SMT
    <3>2. wait <= 1 /\ rate = 2
      BY <1>1, <1>2, <1>5, <2>1, <3>1, SMT
    <3> QED
      BY <1>5, <3>2, SMT DEF Earned, Cost
  <2>2. CASE half >= 2
    <3>1. wait = 0
      <4>1. CASE wait >= 1
        <5>1. 1 * half <= wait * half
          BY <1>2, <1>5, <4>1, LongerEarnsMore
        <5>2. 1 * half = half
          BY <1>2, SMT
        <5> QED
          BY <1>1, <1>2, <1>5, <1>9, <2>2, <5>1, <5>2, SMT
      <4> QED
        BY <1>5, <4>1, SMT
    <3>2. Earned(rate) >= 1
      BY <1>1, SMT DEF Earned, Cost
    <3> QED
      BY <3>1, <3>2, <1>1, SMT DEF Earned, Cost
  <2> QED
    BY <1>2, <2>1, <2>2, SMT
<1>12. blocked'[c] <= now' /\ Waiting(c)' = wait + 1
    BY <1>1, <1>3, SMT DEF Waiting, Unhindered, wait
<1> QED
    BY <1>3, <1>10, <1>11, <1>12 DEF Unhindered, rate, half

\* What a scan leaves in the bucket is a call for a quote.
LEMMA ScanLeavesACall ==
    ASSUME RateInv, Reserve >= Cost, NEW s \in Callers \ Quotes, Acquire(s)
    PROVE  Refilled' >= Cost
<1>1. /\ limits[2] \in Nat /\ limits[2] >= Cost /\ Reserve \in Nat /\ Refilled \in Nat
      /\ now \in Nat
    BY LimitsTyped, RefillBound, RateAssumption, SMT DEF RateInv, RateTypeOK
<1>2. tokens' = Refilled - Cost /\ updated' = now /\ UNCHANGED <<limits, now, penaltyUntil>>
    BY DEF Acquire
<1>3. Refilled - Cost >= Least(Reserve, limits[2])
    BY DEF Acquire, Grantable, RateFloor
<1>4. tokens' \in Nat /\ tokens' >= Cost
    BY <1>1, <1>2, <1>3, SMT DEF Least, Cost
<1>5. (now - updated)' = 0 /\ EffectiveRate' \in Nat
    BY <1>1, <1>2, LimitsTyped, SMT DEF EffectiveRate, RateInv, RateTypeOK
<1>6. (now - updated)' * EffectiveRate' = 0
    BY <1>5, SMT
<1> QED
    BY <1>1, <1>2, <1>4, <1>6, SMT DEF Refilled, Least, Cost

\* A refill changes nothing but when it was.
LEMMA RefilledAgain ==
    ASSUME RateInv, tokens' = Refilled, updated' = now, UNCHANGED <<limits, now, penaltyUntil>>
    PROVE  Refilled' = Refilled
<1>1. Refilled \in Nat /\ limits[2] \in Nat /\ limits[1] \in Nat /\ now \in Nat
    BY LimitsTyped, RefillBound, RateAssumption, SMT DEF RateInv, RateTypeOK
<1>2. (now - updated)' = 0 /\ EffectiveRate' \in Nat
    BY <1>1, SMT DEF EffectiveRate
<1>3. (now - updated)' * EffectiveRate' = 0
    BY <1>2, SMT
<1>4. Refilled <= limits[2]
  <2>1. tokens + (now - updated) * EffectiveRate \in Int
    BY <1>1, RateAssumption, SMT DEF RateInv, RateTypeOK, CreditInv, EffectiveRate
  <2> QED
    BY <1>1, <2>1, SMT DEF Refilled, Least
<1> QED
    BY <1>1, <1>3, <1>4, SMT DEF Refilled, Least

LEMMA QuoteStep ==
    ASSUME RateInv, RateInv', QuoteInv, [RateNext]_rateVars
    PROVE  QuoteInv'
<1> SUFFICES ASSUME Reserve >= Cost, NEW c \in Quotes, request'[c] = "acquire"
             PROVE  Unhindered(c)'
    BY DEF QuoteInv
<1>0. request[c] = "acquire" => Unhindered(c)
    BY DEF QuoteInv
<1> USE DEF Callers
<1>a. c \in Callers /\ request \in [Callers -> {"idle", "acquire", "sent"}]
      /\ attempt \in [Callers -> 0 .. MaxRetries]
      /\ blocked \in [Callers -> Nat]
    BY DEF RateInv, RateTypeOK
<1>b. ASSUME UNCHANGED <<bucketVars, now>>, request[c] = "acquire", blocked'[c] = blocked[c]
      PROVE  Unhindered(c)'
  <2>1. Refilled' = Refilled
    BY <1>b DEF Refilled, EffectiveRate, bucketVars
  <2> QED
    BY <1>0, <1>b, <2>1, StillUnhindered DEF bucketVars
<1>1. CASE \E d \in Callers : Ask(d)
  <2> PICK d \in Callers : Ask(d)
    BY <1>1
  <2>1. CASE d = c
    BY <1>a, <2>1, NoWaitThen DEF Ask
  <2>2. CASE d # c
    BY <1>a, <1>b, <2>2 DEF Ask
  <2> QED
    BY <2>1, <2>2
<1>2. CASE \E d \in Callers : Finish(d)
    BY <1>2, <1>a, <1>b DEF Finish, rateHistory
<1>3. CASE \E d \in Callers : Transient(d)
  <2> PICK d \in Callers : Transient(d)
    BY <1>3
  <2>1. CASE d = c
    BY <1>a, <2>1, NoWaitThen DEF Transient
  <2>2. CASE d # c
    BY <1>a, <1>b, <2>2 DEF Transient, Again
  <2> QED
    BY <2>1, <2>2
<1>4. CASE \E d \in Callers : Acquire(d)
  <2> PICK d \in Callers : Acquire(d)
    BY <1>4
  <2>1. CASE d \in Quotes
    BY <1>a, <2>1, NoWaitThen DEF Acquire
  <2>2. CASE d \notin Quotes
    <3>1. Refilled' >= Cost
      BY <2>2, ScanLeavesACall
    <3>2. request[c] = "acquire" /\ blocked'[c] = blocked[c] /\ UNCHANGED <<limits, now>>
      BY <1>a, <2>2 DEF Acquire
    <3> QED
      BY <1>0, <3>1, <3>2, StillUnhindered
  <2> QED
    BY <2>1, <2>2
<1>5. CASE Stats \/ \E d \in Callers : AcquireTimesOut(d)
  <2>1. /\ tokens' = Refilled /\ updated' = now
        /\ UNCHANGED <<limits, penaltyUntil, now, rateHistory>>
        /\ request[c] = "acquire"
    BY <1>5, <1>a DEF Stats, AcquireTimesOut
  <2>2. Refilled' = Refilled
    BY <2>1, RefilledAgain
  <2> QED
    BY <1>0, <2>1, <2>2, StillUnhindered DEF rateHistory
<1>6. CASE \E d \in Callers : TooMany(d)
    BY <1>6, <1>a, NoWaitThen DEF TooMany
<1>7. CASE \E l \in Limits : Configure(l)
    BY <1>7, <1>a, NoWaitThen DEF Configure
<1>8. CASE Tick
  <2>1. request[c] = "acquire"
    BY <1>8 DEF Tick
  <2> QED
    BY <1>0, <1>8, <2>1, TickFills
<1>9. CASE UNCHANGED rateVars
    BY <1>9, <1>b DEF rateVars, rateHistory
<1> QED
    BY <1>1, <1>2, <1>3, <1>4, <1>5, <1>6, <1>7, <1>8, <1>9 DEF RateNext

\* However many scans draw on the bucket, a quote waits no longer than the bucket
\* takes to earn one call at half the rate, from when it asked or from the last
\* 429, change of limits or quote before it.
THEOREM QuotesFirst == RateSpec => []QuoteNotBehindScans
<1>1. RateInit => QuoteInv
    BY SMT DEF RateInit, QuoteInv, Callers
<1>2. RateInv /\ RateInv' /\ QuoteInv /\ [RateNext]_rateVars => QuoteInv'
    BY QuoteStep
<1>3. QuoteInv => QuoteNotBehindScans
    BY DEF QuoteInv, QuoteNotBehindScans, Unhindered, Waiting
<1> QED
    BY <1>1, <1>2, <1>3, RateInitOk, RateStep, PTL DEF RateSpec

----------------------------------------------------------------------------
(* The outcomes of a swap *)

Afloat == {"bundle", "execute", "confirm"}      \* calls made with a transaction signed

\* A swap signs one transaction, and does so once it has an order.
OneSigned ==
    /\ step # "idle" => Len(answers) < MaxSwaps
    /\ \A t \in DOMAIN ledger :
         /\ ledger[t].swap <= Swapping
         /\ ledger[t].swap = Swapping => step \in Afloat /\ t = Signed
    /\ step \in Afloat => Signed \in DOMAIN ledger /\ ledger[Signed].swap = Swapping
    /\ \A t, u \in DOMAIN ledger : ledger[t].swap = ledger[u].swap => t = u

\* Until a request was lost or answered, nothing of the swap is on its way.
SwapNotSent ==
    step \in {"bundle", "execute"} /\ "lost" \notin doubts[Swapping] =>
        ledger[Signed].fate = "signed"

\* SwapsAsAssumed of each transaction.
SwapAnswered ==
    \A s \in DOMAIN answers :
        /\ answers[s] = "refused" /\ "lost" \notin doubts[s] =>
             \A t \in DOMAIN ledger : ledger[t].swap = s => ledger[t].fate \notin {"landed", "flying"}
        /\ answers[s] = "filled" /\ doubts[s] \intersect {"overdue", "unsigned"} = {} =>
             \E t \in DOMAIN ledger : ledger[t].swap = s /\ ledger[t].fate = "landed"

SwapsInv == SwapTypeOK /\ OneSigned /\ SwapNotSent /\ SwapAnswered

LEMMA SwapsInit == SwapInit => SwapsInv
BY SwapAssumption, SMT DEF SwapInit, SwapsInv, SwapTypeOK, OneSigned, SwapNotSent, SwapAnswered, Afloat, Doubts, Swapping

LEMMA Lengths ==
    ASSUME SwapTypeOK
    PROVE  /\ MaxSwaps \in Nat /\ Signed \in Nat /\ DOMAIN ledger = 1 .. Signed
           /\ Len(answers) \in Nat /\ Len(answers) <= MaxSwaps
           /\ DOMAIN answers = 1 .. Len(answers)
           /\ \A t \in DOMAIN ledger :
                ledger[t] \in [swap : 1 .. MaxSwaps, fate : Fates] /\ ledger[t].swap \in Nat
<1>1. ledger \in Seq([swap : 1 .. MaxSwaps, fate : Fates])
    BY DEF SwapTypeOK
<1>2. answers \in Seq({"filled", "refused", "killed"}) /\ Len(answers) <= MaxSwaps
    BY DEF SwapTypeOK
<1>3. MaxSwaps \in Nat
    BY SwapAssumption
<1>4. Signed \in Nat /\ DOMAIN ledger = 1 .. Signed
    BY <1>1 DEF Signed
<1>5. \A t \in 1 .. Signed : ledger[t] \in [swap : 1 .. MaxSwaps, fate : Fates]
    <2>1. ASSUME NEW E, ledger \in Seq(E), NEW t \in 1 .. Len(ledger)
          PROVE  ledger[t] \in E
        BY <2>1
    <2> QED
        BY <1>1, <2>1 DEF Signed
<1>6. \A t \in 1 .. Signed : ledger[t].swap \in Nat
    BY <1>3, <1>5
<1>7. Len(answers) \in Nat /\ DOMAIN answers = 1 .. Len(answers)
    BY <1>2
<1> QED
    BY <1>2, <1>3, <1>4, <1>5, <1>6, <1>7

\* The ledger after a request arrived, or not: only the fate of the last entry
\* may differ, and only from signed to flying.
LEMMA Arrival ==
    ASSUME SwapTypeOK, Signed \in DOMAIN ledger, ledger' = ledger \/ ledger' = Sent
    PROVE  /\ ledger' \in Seq([swap : 1 .. MaxSwaps, fate : Fates]) /\ Len(ledger') = Len(ledger)
           /\ DOMAIN ledger' = DOMAIN ledger
           /\ \A t \in DOMAIN ledger :
                /\ ledger'[t].swap = ledger[t].swap
                /\ t # Signed => ledger'[t] = ledger[t]
                /\ ledger'[t].fate # ledger[t].fate => ledger[t].fate = "signed"
<1> DEFINE E == [swap : 1 .. MaxSwaps, fate : Fates]
<1>1. ledger \in Seq(E) /\ ledger[Signed] \in E
    BY Lengths DEF SwapTypeOK
<1>2. CASE ledger' = ledger
    BY <1>1, <1>2
<1>3. CASE ledger' = Sent
    <2>1. PICK f \in Fates : /\ ledger' = [ledger EXCEPT ![Signed].fate = f]
                             /\ f # ledger[Signed].fate => ledger[Signed].fate = "signed"
        BY <1>1, <1>3 DEF Sent, Fates
    <2>2. PICK e \in E : e.swap = ledger[Signed].swap /\ e.fate = f
                         /\ ledger' = [ledger EXCEPT ![Signed] = e]
        <3>1. [ledger[Signed] EXCEPT !.fate = f] \in E
            BY <1>1
        <3> QED
            BY <1>1, <2>1, <3>1
    <2>3. ledger' \in Seq(E) /\ Len(ledger') = Len(ledger)
        BY <1>1, <2>2
    <2>4. DOMAIN ledger' = DOMAIN ledger
        BY <2>2
    <2>5. \A t \in DOMAIN ledger : ledger'[t] = IF t = Signed THEN e ELSE ledger[t]
        BY <2>2
    <2> QED
        BY <2>1, <2>2, <2>3, <2>4, <2>5
<1> QED
    BY <1>2, <1>3

\* A step between calls, the transaction being signed.
LEMMA Onward ==
    ASSUME SwapsInv, step \in Afloat, step' \in Afloat, UNCHANGED answers,
           ledger' = ledger \/ ledger' = Sent,
           UNCHANGED doubts \/ Doubt({"lost"}),
           step' \in {"bundle", "execute"} =>
               step \in {"bundle", "execute"} /\ (ledger' = ledger \/ Doubt({"lost"})),
           sends' \in 0 .. Sends - 1, losses' \in 0 .. MaxLosses
    PROVE  SwapsInv'
<1>1. SwapTypeOK /\ Signed \in DOMAIN ledger /\ Swapping' = Swapping
    BY DEF SwapsInv, OneSigned, Swapping
<1>2. Swapping \in 1 .. MaxSwaps
    BY <1>1, Lengths DEF SwapsInv, OneSigned, Afloat, Swapping
<1>3. /\ ledger' \in Seq([swap : 1 .. MaxSwaps, fate : Fates]) /\ Len(ledger') = Len(ledger)
      /\ DOMAIN ledger' = DOMAIN ledger
      /\ \A t \in DOMAIN ledger :
           /\ ledger'[t].swap = ledger[t].swap
           /\ t # Signed => ledger'[t] = ledger[t]
    BY <1>1, Arrival
<1>4. /\ doubts' \in [1 .. MaxSwaps -> SUBSET Doubts]
      /\ \A s \in 1 .. MaxSwaps : s # Swapping => doubts'[s] = doubts[s]
      /\ doubts[Swapping] \subseteq doubts'[Swapping]
      /\ Doubt({"lost"}) => "lost" \in doubts'[Swapping]
    BY <1>2 DEF Doubt, Doubts, SwapsInv, SwapTypeOK
<1>5. SwapTypeOK'
    BY <1>3, <1>4 DEF Afloat, SwapsInv, SwapTypeOK
<1>6. OneSigned'
    <2>1. Signed' = Signed
        BY <1>3 DEF Signed
    <2>2. step # "idle" /\ OneSigned
        BY DEF Afloat, SwapsInv
    <2>3. \A t \in DOMAIN ledger' :
            ledger'[t].swap <= Swapping' /\ (ledger'[t].swap = Swapping' => t = Signed')
        BY <1>1, <1>3, <2>1, <2>2 DEF OneSigned
    <2>4. \A t, u \in DOMAIN ledger' : ledger'[t].swap = ledger'[u].swap => t = u
        BY <1>3, <2>2 DEF OneSigned
    <2>5. Signed' \in DOMAIN ledger' /\ ledger'[Signed'].swap = Swapping'
        BY <1>1, <1>3, <2>1, <2>2 DEF OneSigned
    <2> QED
        BY <2>2, <2>3, <2>4, <2>5 DEF OneSigned
<1>7. SwapNotSent'
    BY <1>1, <1>3, <1>4 DEF SwapsInv, SwapNotSent, Signed
<1>8. SwapAnswered'
    <2>1. \A s \in DOMAIN answers : s # Swapping /\ s \in 1 .. MaxSwaps
        BY <1>1, Lengths, SMT DEF Swapping
    <2>2. ledger[Signed].swap = Swapping
        BY DEF SwapsInv, OneSigned
    <2>3. \A s \in DOMAIN answers, t \in DOMAIN ledger :
            ledger[t].swap = s => ledger'[t] = ledger[t]
        BY <1>3, <2>1, <2>2
    <2>4. \A s \in DOMAIN answers : doubts'[s] = doubts[s] /\ answers'[s] = answers[s]
        BY <1>4, <2>1
    <2>5. DOMAIN answers' = DOMAIN answers
        OBVIOUS
    <2> QED
        BY <1>3, <2>3, <2>4, <2>5 DEF SwapsInv, SwapAnswered
<1> QED
    BY <1>5, <1>6, <1>7, <1>8 DEF SwapsInv

\* A swap returns; what its caller is told must be true of its transaction.
LEMMA Returned ==
    ASSUME SwapsInv, step # "idle", NEW result \in {"filled", "refused", "killed"}, Return(result),
           ledger' = ledger \/ (ledger' = Sent /\ step \in Afloat),
           NEW what \in SUBSET Doubts, UNCHANGED doubts \/ Doubt(what),
           result = "refused" /\ "lost" \notin doubts'[Swapping] /\ step \in Afloat =>
               ledger'[Signed].fate \notin {"landed", "flying"},
           result = "filled" /\ doubts'[Swapping] \intersect {"overdue", "unsigned"} = {} =>
               step \in Afloat /\ ledger'[Signed].fate = "landed",
           losses' \in 0 .. MaxLosses
    PROVE  SwapsInv'
<1>0. /\ Swapping \in 1 .. MaxSwaps /\ Len(answers) < MaxSwaps
      /\ answers \in Seq({"filled", "refused", "killed"})
      /\ answers' = Append(answers, result) /\ Swapping' = Swapping + 1
    <2>1. SwapTypeOK /\ Len(answers) < MaxSwaps
        BY DEF SwapsInv, OneSigned
    <2>2. answers \in Seq({"filled", "refused", "killed"}) /\ answers' = Append(answers, result)
        BY <2>1 DEF SwapTypeOK, Return
    <2>3. Len(answers') = Len(answers) + 1
        BY <2>2
    <2> QED
        BY <2>1, <2>2, <2>3, Lengths DEF Swapping
<1>1. /\ ledger' \in Seq([swap : 1 .. MaxSwaps, fate : Fates]) /\ Len(ledger') = Len(ledger)
      /\ DOMAIN ledger' = DOMAIN ledger
      /\ \A t \in DOMAIN ledger :
           /\ ledger'[t].swap = ledger[t].swap
           /\ (t # Signed \/ step \notin Afloat => ledger'[t] = ledger[t])
    <2>1. CASE ledger' = ledger
        BY <2>1 DEF SwapsInv, SwapTypeOK
    <2>2. CASE ledger' = Sent /\ step \in Afloat
        BY <2>2, Arrival DEF SwapsInv, OneSigned
    <2> QED
        BY <2>1, <2>2
<1>2. /\ doubts' \in [1 .. MaxSwaps -> SUBSET Doubts]
      /\ \A s \in 1 .. MaxSwaps : s # Swapping => doubts'[s] = doubts[s]
    BY <1>0 DEF Doubt, SwapsInv, SwapTypeOK
<1>3. SwapTypeOK'
    <2>1. answers' \in Seq({"filled", "refused", "killed"}) /\ Len(answers') <= MaxSwaps
        BY <1>0, SwapAssumption
    <2>2. 0 \in 0 .. Sends - 1
        BY SwapAssumption
    <2> QED
        BY <1>1, <1>2, <2>1, <2>2 DEF Return, SwapTypeOK
<1>4. \A t \in DOMAIN ledger : ledger[t].swap <= Swapping
    BY DEF SwapsInv, OneSigned
<1>5. OneSigned'
    <2>1. \A t \in DOMAIN ledger' : ledger'[t].swap <= Swapping' /\ ledger'[t].swap # Swapping'
        <3>1. \A t \in DOMAIN ledger : ledger[t].swap \in Nat
            BY Lengths DEF SwapsInv
        <3> QED
            BY <1>0, <1>1, <1>4, <3>1
    <2> QED
        BY <1>1, <2>1 DEF SwapsInv, OneSigned, Return, Afloat
<1>6. SwapNotSent'
    BY DEF SwapNotSent, Return
<1>7. SwapAnswered'
    <2>1. ASSUME NEW s \in DOMAIN answers
          PROVE  s # Swapping /\ s \in 1 .. MaxSwaps /\ answers'[s] = answers[s]
                 /\ doubts'[s] = doubts[s]
                 /\ \A t \in DOMAIN ledger : ledger[t].swap = s => ledger'[t] = ledger[t]
        <3>1. s \in 1 .. Len(answers) /\ Len(answers) \in Nat
            BY Lengths DEF SwapsInv
        <3>2. s # Swapping /\ s \in 1 .. MaxSwaps /\ answers'[s] = answers[s]
            BY <1>0, <3>1, Lengths DEF Swapping, SwapsInv
        <3>3. step \in Afloat => ledger[Signed].swap = Swapping
            BY DEF SwapsInv, OneSigned
        <3> QED
            BY <3>2, <3>3, <1>1, <1>2
    <2>2. \A s \in DOMAIN answers' : s \in DOMAIN answers \/ s = Swapping
        BY <1>0, SMT DEF Swapping
    <2>3. answers'[Swapping] = result
        BY <1>0, SMT DEF Swapping
    <2>4. \A t \in DOMAIN ledger : ledger[t].swap = Swapping => t = Signed /\ step \in Afloat
        BY DEF SwapsInv, OneSigned
    <2>5. step \in Afloat => Signed \in DOMAIN ledger /\ ledger[Signed].swap = Swapping
        BY DEF SwapsInv, OneSigned
    <2>6. ASSUME NEW s \in DOMAIN answers', answers'[s] = "refused", "lost" \notin doubts'[s],
                 NEW t \in DOMAIN ledger', ledger'[t].swap = s
          PROVE  ledger'[t].fate \notin {"landed", "flying"}
        <3>1. CASE s \in DOMAIN answers
            BY <3>1, <2>6, <2>1, <1>1 DEF SwapsInv, SwapAnswered
        <3>2. CASE s = Swapping
            BY <3>2, <2>6, <2>3, <2>4, <1>1
        <3> QED
            BY <3>1, <3>2, <2>2
    <2>7. ASSUME NEW s \in DOMAIN answers', answers'[s] = "filled",
                 doubts'[s] \intersect {"overdue", "unsigned"} = {}
          PROVE  \E t \in DOMAIN ledger' : ledger'[t].swap = s /\ ledger'[t].fate = "landed"
        <3>1. CASE s \in DOMAIN answers
            BY <3>1, <2>7, <2>1, <1>1 DEF SwapsInv, SwapAnswered
        <3>2. CASE s = Swapping
            BY <3>2, <2>7, <2>3, <2>5, <1>1
        <3> QED
            BY <3>1, <3>2, <2>2
    <2> QED
        BY <2>6, <2>7 DEF SwapAnswered
<1> QED
    BY <1>3, <1>5, <1>6, <1>7 DEF SwapsInv

LEMMA Doubted ==
    ASSUME SwapsInv, step \in Afloat, NEW what \in SUBSET Doubts, Doubt(what)
    PROVE  what \subseteq doubts'[Swapping]
<1>1. Swapping \in 1 .. MaxSwaps
    BY Lengths DEF SwapsInv, OneSigned, Afloat, Swapping
<1> QED
    BY <1>1 DEF Doubt, SwapsInv, SwapTypeOK

\* The swap signs its transaction, the first of its own.
LEMMA OrderKeeps ==
    ASSUME SwapsInv, Order
    PROVE  SwapsInv'
<1>1. CASE Return("refused") /\ UNCHANGED ledger
    <2>1. losses' \in 0 .. MaxLosses
        BY DEF Order, SwapsInv, SwapTypeOK
    <2> QED
        BY <1>1, <2>1, Returned DEF Order, Afloat
<1>2. CASE ledger' = Append(ledger, [swap |-> Swapping, fate |-> "signed"])
           /\ step' \in {"bundle", "execute"} /\ UNCHANGED <<sends, answers>>
    <2> DEFINE new == [swap |-> Swapping, fate |-> "signed"]
    <2>0. UNCHANGED <<doubts, losses, answers, sends>> /\ step = "order" /\ Swapping' = Swapping
        BY <1>2 DEF Order, Swapping
    <2>1. /\ Swapping \in 1 .. MaxSwaps /\ Signed \in Nat /\ DOMAIN ledger = 1 .. Signed
          /\ ledger \in Seq([swap : 1 .. MaxSwaps, fate : Fates])
        BY <2>0, Lengths DEF SwapsInv, SwapTypeOK, OneSigned, Swapping
    <2>2. new \in [swap : 1 .. MaxSwaps, fate : Fates]
        BY <2>1 DEF Fates
    <2>3. /\ ledger' \in Seq([swap : 1 .. MaxSwaps, fate : Fates])
          /\ Signed' = Signed + 1 /\ DOMAIN ledger' = 1 .. Signed + 1
          /\ ledger'[Signed + 1] = new /\ \A t \in 1 .. Signed : ledger'[t] = ledger[t]
        BY <1>2, <2>1, <2>2 DEF Signed
    <2>4. SwapTypeOK'
        BY <1>2, <2>0, <2>3 DEF SwapsInv, SwapTypeOK
    <2>5. \A t \in DOMAIN ledger : ledger[t].swap <= Swapping /\ ledger[t].swap # Swapping
        BY <2>0 DEF SwapsInv, OneSigned, Afloat
    <2>6. \A t \in DOMAIN ledger' : t = Signed + 1 \/ t \in DOMAIN ledger
        BY <2>1, <2>3
    <2>7. OneSigned'
        <3>1. Len(answers) < MaxSwaps /\ step' \in Afloat
            BY <1>2, <2>0 DEF SwapsInv, OneSigned, Afloat
        <3>2. \A t \in DOMAIN ledger' :
                ledger'[t].swap <= Swapping /\ (ledger'[t].swap = Swapping => t = Signed + 1)
            BY <2>1, <2>3, <2>5, <2>6
        <3>3. \A t, u \in DOMAIN ledger' : ledger'[t].swap = ledger'[u].swap => t = u
            BY <2>1, <2>3, <2>5, <2>6 DEF SwapsInv, OneSigned
        <3>4. Signed + 1 \in DOMAIN ledger' /\ ledger'[Signed + 1].swap = Swapping
            BY <2>1, <2>3
        <3> QED
            BY <2>0, <2>3, <3>1, <3>2, <3>3, <3>4 DEF OneSigned
    <2>8. SwapNotSent'
        BY <2>3 DEF SwapNotSent
    <2>9. SwapAnswered'
        <3>1. \A s \in DOMAIN answers : s # Swapping
            BY Lengths DEF SwapsInv, Swapping
        <3>2. \A s \in DOMAIN answers, t \in DOMAIN ledger' :
                ledger'[t].swap = s => t \in DOMAIN ledger /\ ledger'[t] = ledger[t]
            BY <2>1, <2>3, <2>6, <3>1
        <3>3. \A t \in DOMAIN ledger : t \in DOMAIN ledger' /\ ledger'[t] = ledger[t]
            BY <2>1, <2>3
        <3> QED
            BY <2>0, <3>2, <3>3 DEF SwapsInv, SwapAnswered
    <2> QED
        BY <2>4, <2>7, <2>8, <2>9 DEF SwapsInv
<1> QED
    BY <1>1, <1>2 DEF Order

\* What was flying comes down; nothing said of it so far is belied.
LEMMA SettleKeeps ==
    ASSUME SwapsInv, NEW t \in DOMAIN ledger, Settle(t)
    PROVE  SwapsInv'
<1> DEFINE E == [swap : 1 .. MaxSwaps, fate : Fates]
<1>0. UNCHANGED <<step, sends, answers, doubts, losses>> /\ ledger[t].fate = "flying"
      /\ Swapping' = Swapping
    BY DEF Settle, Swapping
<1>1. ledger \in Seq(E) /\ ledger[t] \in E
    BY Lengths DEF SwapsInv, SwapTypeOK
<1>2. PICK e \in E : /\ e.swap = ledger[t].swap /\ e.fate # "flying" /\ e.fate # "signed"
                     /\ ledger' = [ledger EXCEPT ![t] = e]
    <2>1. PICK f \in {"landed", "reverted", "expired"} : ledger' = [ledger EXCEPT ![t].fate = f]
        BY DEF Settle
    <2>2. [ledger[t] EXCEPT !.fate = f] \in E
        BY <1>1 DEF Fates
    <2> QED
        BY <1>1, <2>1, <2>2
<1>3. /\ ledger' \in Seq(E) /\ Len(ledger') = Len(ledger) /\ DOMAIN ledger' = DOMAIN ledger
      /\ \A u \in DOMAIN ledger : ledger'[u] = IF u = t THEN e ELSE ledger[u]
    BY <1>1, <1>2
<1>4. Signed' = Signed /\ \A u \in DOMAIN ledger : ledger'[u].swap = ledger[u].swap
    BY <1>2, <1>3 DEF Signed
<1>5. SwapTypeOK'
    BY <1>0, <1>3 DEF SwapsInv, SwapTypeOK
<1>6. OneSigned'
    BY <1>0, <1>3, <1>4 DEF SwapsInv, OneSigned
<1>7. SwapNotSent'
    <2>1. step \in {"bundle", "execute"} => Signed \in DOMAIN ledger
        BY DEF SwapsInv, OneSigned, Afloat
    <2> QED
        BY <1>0, <1>3, <1>4, <2>1 DEF SwapsInv, SwapNotSent
<1>8. SwapAnswered'
    BY <1>0, <1>2, <1>3, <1>4 DEF SwapsInv, SwapAnswered
<1> QED
    BY <1>5, <1>6, <1>7, <1>8 DEF SwapsInv

LEMMA SwapsStep == SwapsInv /\ [SwapNext]_swapVars => SwapsInv'
<1> SUFFICES ASSUME SwapsInv, [SwapNext]_swapVars PROVE SwapsInv'
    OBVIOUS
<1>0. /\ SwapTypeOK /\ OneSigned /\ SwapNotSent
      /\ losses \in 0 .. MaxLosses /\ (Loss => losses' \in 0 .. MaxLosses)
      /\ sends \in 0 .. Sends - 1 /\ (sends + 1 < Sends => sends + 1 \in 0 .. Sends - 1)
      /\ 0 \in 0 .. Sends - 1
    BY SwapAssumption, SMT DEF SwapsInv, SwapTypeOK, Loss
<1>1. CASE BuyOrSell
    BY <1>1, <1>0 DEF BuyOrSell, SwapsInv, SwapTypeOK, OneSigned, SwapNotSent, SwapAnswered, Afloat, Swapping, Signed, Fate
<1>2. CASE CheckCongestion
    <2>1. CASE step' = "order" /\ UNCHANGED <<sends, answers>>
        BY <1>2, <2>1, <1>0 DEF CheckCongestion, SwapsInv, SwapTypeOK, OneSigned, SwapNotSent, SwapAnswered, Afloat, Swapping, Signed
    <2>2. CASE Return("refused")
        BY <1>2, <2>2, <1>0, Returned DEF CheckCongestion, Afloat
    <2> QED
        BY <1>2, <2>1, <2>2 DEF CheckCongestion
<1>3. CASE Order
    BY <1>3, OrderKeeps
<1>4. CASE BundleTaken
    BY <1>4, <1>0, Onward DEF BundleTaken, Afloat
<1>5. CASE BundleRefused
    BY <1>5, <1>0, Onward DEF BundleRefused, FallBack, Afloat
<1>6. CASE BundleUnanswered
    BY <1>6, <1>0, Onward DEF BundleUnanswered, Unanswered, FallBack, Afloat
<1>7. CASE Executed
    <2>1. CASE step' = "confirm" /\ sends' = 0 /\ UNCHANGED <<answers, doubts, losses>>
        BY <1>7, <2>1, <1>0, Onward DEF Executed, Afloat
    <2>2. CASE Loss /\ Doubt({"unsigned"}) /\ Return("filled")
        <3>1. "unsigned" \in doubts'[Swapping]
            BY <1>7, <2>2, Doubted DEF Executed, Afloat, Doubts
        <3> QED
            BY <1>7, <2>2, <1>0, <3>1, Returned DEF Executed, Afloat, Doubts
    <2> QED
        BY <1>7, <2>1, <2>2 DEF Executed
<1>8. CASE ExecuteRefused
    BY <1>8, <1>0, Returned DEF ExecuteRefused, SwapNotSent, Afloat
<1>9. CASE ExecuteUnanswered
    <2>1. step \in Afloat /\ losses' \in 0 .. MaxLosses
          /\ (UNCHANGED <<ledger, doubts>> \/ (ledger' = Sent /\ Doubt({"lost"})))
        BY <1>9, <1>0 DEF ExecuteUnanswered, Unanswered, Afloat
    <2>2. Doubt({"lost"}) => "lost" \in doubts'[Swapping]
        BY <2>1, Doubted DEF Doubts
    <2>3. CASE sends' = sends + 1 /\ sends + 1 < Sends /\ UNCHANGED <<step, answers>>
        BY <2>1, <2>3, <1>0, Onward DEF Afloat
    <2>4. CASE Return("refused")
        <3>1. "lost" \notin doubts'[Swapping] => ledger'[Signed].fate = "signed"
            BY <1>9, <2>1, <2>2 DEF ExecuteUnanswered, SwapsInv, SwapNotSent
        <3> QED
            BY <2>1, <2>4, <3>1, Returned DEF Afloat, Doubts
    <2> QED
        BY <1>9, <2>3, <2>4 DEF ExecuteUnanswered, Unanswered
<1>10. CASE Confirmed
    BY <1>10, <1>0, Returned DEF Confirmed, Fate, Afloat
<1>11. CASE Reverted
    BY <1>11, <1>0, Returned DEF Reverted, Fate, Afloat
<1>12. CASE Overdue
    <2>1. "overdue" \in doubts'[Swapping]
        BY <1>12, Doubted DEF Overdue, Afloat, Doubts
    <2> QED
        BY <1>12, <1>0, <2>1, Returned DEF Overdue, Afloat, Doubts
<1>13. CASE Interrupted
    BY <1>13, <1>0, Returned DEF Interrupted
<1>14. ASSUME NEW t \in DOMAIN ledger, Settle(t) PROVE SwapsInv'
    BY <1>14, SettleKeeps
<1>15. CASE UNCHANGED swapVars
    BY <1>15 DEF swapVars, SwapsInv, SwapTypeOK, OneSigned, SwapNotSent, SwapAnswered, Swapping, Signed
<1> QED
    BY <1>1, <1>2, <1>3, <1>4, <1>5, <1>6, <1>7, <1>8, <1>9, <1>10, <1>11, <1>12, <1>13, <1>14, <1>15
       DEF SwapNext

\* For any number of swaps, retries, lost answers and restarts: one swap moves
\* tokens at most once, and what its caller is told of it is true up to the
\* doubts the code leaves open (LiveExecutor._swap, _submit, confirm).
THEOREM SwapOutcomes == SwapSpec => []SwapsAsAssumed
<1>1. SwapsInv => SwapsAsAssumed
    <2> SUFFICES ASSUME SwapsInv, NEW s \in DOMAIN answers
                 PROVE  /\ Cardinality(Of(s, {"landed", "flying"})) <= 1
                        /\ answers[s] = "filled" /\ doubts[s] \intersect {"overdue", "unsigned"} = {} =>
                             Of(s, {"landed"}) # {}
                        /\ answers[s] = "refused" /\ "lost" \notin doubts[s] =>
                             Of(s, {"landed", "flying"}) = {}
        BY DEF SwapsAsAssumed
    <2>1. \A t, u \in Of(s, {"landed", "flying"}) : t = u
        BY DEF SwapsInv, OneSigned, Of
    <2>2. Cardinality(Of(s, {"landed", "flying"})) <= 1
        <3>1. CASE Of(s, {"landed", "flying"}) = {}
            BY <3>1, FS_EmptySet
        <3>2. CASE \E t : Of(s, {"landed", "flying"}) = {t}
            <4>1. PICK t : Of(s, {"landed", "flying"}) = {t}
                BY <3>2
            <4>2. Cardinality({t}) = 1
                BY FS_Singleton
            <4> QED
                BY <4>1, <4>2
        <3> QED
            BY <2>1, <3>1, <3>2
    <2> QED
        BY <2>2 DEF SwapsInv, SwapAnswered, Of
<1> QED
    BY <1>1, SwapsInit, SwapsStep, PTL DEF SwapSpec

\* A swap is sent as often as the settings allow, and its ledger holds one
\* transaction for each time it was signed.
THEOREM SwapTypeCorrect == SwapSpec => []SwapTypeOK
<1>1. SwapsInv => SwapTypeOK
    BY DEF SwapsInv
<1> QED
    BY <1>1, SwapsInit, SwapsStep, PTL DEF SwapSpec

----------------------------------------------------------------------------
(* What is watched, and what may be bought *)

\* A pass is never good for longer than PassTtl after the token was last clean.
VettedInv ==
    /\ moment \in Nat
    /\ health \in [AssetSet -> {"clean", "risky"}] /\ cleanAt \in [AssetSet -> Nat]
    /\ reports \in [AssetSet -> [passed : BOOLEAN, recheck_after : Nat]]
    /\ holding \in [BookSet -> SUBSET AssetSet]
    /\ \A c \in AssetSet :
         /\ cleanAt[c] <= moment
         /\ reports[c].passed =>
              reports[c].recheck_after <= PassTtl + (IF health[c] = "clean" THEN moment ELSE cleanAt[c])
    /\ PositionsWatched

LEMMA VettedInit == ScanningInit => VettedInv
<1> SUFFICES ASSUME ScanningInit PROVE VettedInv
    OBVIOUS
<1>1. moment \in Nat
    BY ScanningAssumption DEF ScanningInit
<1>2. \A c \in AssetSet : cleanAt[c] = 0 /\ ~ reports[c].passed
    BY DEF ScanningInit, Unchecked
<1>3. place # "manage"
    BY DEF ScanningInit
<1> QED
    BY <1>1, <1>2, <1>3 DEF ScanningInit, VettedInv, Unchecked, PositionsWatched

\* Whoever manages positions closes some at most.
LEMMA ManageOnlyCloses ==
    ASSUME VettedInv, Manage
    PROVE  /\ holding' \in [BookSet -> SUBSET AssetSet]
           /\ \A b \in BookSet : holding'[b] \subseteq holding[b]
BY DEF Manage

\* A verdict is kept, or passes a token that is clean now.
LEMMA VerdictSound ==
    ASSUME VettedInv, NEW c \in AssetSet, NEW report \in Verdicts(c)
    PROVE  /\ report \in [passed : BOOLEAN, recheck_after : Nat]
           /\ \/ report = reports[c] /\ moment < report.recheck_after
              \/ ~ report.passed
              \/ health[c] = "clean" /\ report.recheck_after = moment + PassTtl
<1>1. PassTtl \in Nat /\ FailTtl \in Nat /\ OutageTtl \in Nat /\ moment \in Nat
    BY ScanningAssumption DEF VettedInv
<1>2. reports[c] \in [passed : BOOLEAN, recheck_after : Nat]
    BY DEF VettedInv
<1>3. CASE Cached(c)
    BY <1>2, <1>3 DEF Verdicts, Cached
<1>4. CASE ~ Cached(c)
    <2>1. \/ report = [passed |-> FALSE, recheck_after |-> moment + OutageTtl]
          \/ report = [passed |-> TRUE, recheck_after |-> moment + PassTtl] /\ health[c] = "clean"
          \/ report = [passed |-> FALSE, recheck_after |-> moment + FailTtl]
        BY <1>4 DEF Verdicts
    <2>2. moment + OutageTtl \in Nat /\ moment + PassTtl \in Nat /\ moment + FailTtl \in Nat
        BY <1>1
    <2>3. ASSUME NEW m \in Nat, NEW p \in BOOLEAN, report = [passed |-> p, recheck_after |-> m]
          PROVE  /\ report \in [passed : BOOLEAN, recheck_after : Nat]
                 /\ report.passed = p /\ report.recheck_after = m
        BY <2>3
    <2>4. CASE report = [passed |-> FALSE, recheck_after |-> moment + OutageTtl]
        BY <2>2, <2>3, <2>4
    <2>5. CASE report = [passed |-> TRUE, recheck_after |-> moment + PassTtl] /\ health[c] = "clean"
        BY <2>2, <2>3, <2>5
    <2>6. CASE report = [passed |-> FALSE, recheck_after |-> moment + FailTtl]
        BY <2>2, <2>3, <2>6
    <2> QED
        BY <2>1, <2>4, <2>5, <2>6
<1> QED
    BY <1>3, <1>4

\* What is bought now was clean less than PassTtl ago.
LEMMA BoughtVetted ==
    ASSUME VettedInv, NEW c \in AssetSet, NEW report \in Verdicts(c), report.passed,
           health[c] = "risky"
    PROVE  moment - cleanAt[c] < PassTtl
<1>1. report = reports[c] /\ moment < report.recheck_after
    BY VerdictSound
<1>2. /\ PassTtl \in Nat /\ moment \in Nat /\ cleanAt[c] \in Nat
      /\ reports[c].recheck_after \in Nat /\ reports[c].recheck_after <= PassTtl + cleanAt[c]
    BY <1>1, ScanningAssumption DEF VettedInv
<1> QED
    BY <1>1, <1>2

\* The verdict asked for an entry keeps the invariant, whatever comes of the entry.
LEMMA ConsiderKeeps ==
    ASSUME VettedInv, NEW b \in BookSet, NEW c \in AssetSet, NEW report \in Verdicts(c),
           Consider(b, c, report), holding' \in [BookSet -> SUBSET AssetSet]
    PROVE  VettedInv'
<1>1. /\ UNCHANGED <<moment, place, health, cleanAt, polled>> /\ place \in {"look", "sweep"}
      /\ reports' = [reports EXCEPT ![c] = report]
    BY DEF Consider, Looking, worldVars
<1>2. /\ report \in [passed : BOOLEAN, recheck_after : Nat]
      /\ report.passed =>
           report.recheck_after <= PassTtl + (IF health[c] = "clean" THEN moment ELSE cleanAt[c])
    <2>1. PassTtl \in Nat /\ moment \in Nat
        BY ScanningAssumption DEF VettedInv
    <2> QED
        BY <2>1, VerdictSound DEF VettedInv
<1>3. reports' \in [AssetSet -> [passed : BOOLEAN, recheck_after : Nat]]
    BY <1>1, <1>2 DEF VettedInv
<1>4. \A d \in AssetSet : reports'[d] = IF d = c THEN report ELSE reports[d]
    BY <1>1 DEF VettedInv
<1>5. PositionsWatched'
    BY <1>1 DEF PositionsWatched
<1> QED
    BY <1>1, <1>2, <1>3, <1>4, <1>5 DEF VettedInv

LEMMA ScanHotKeeps == VettedInv /\ ScanHot => VettedInv'
<1> SUFFICES ASSUME VettedInv, ScanHot PROVE VettedInv'
    OBVIOUS
<1>1. UNCHANGED <<moment, reports, holding, health, cleanAt>>
    BY DEF ScanHot, worldVars
<1>2. DOMAIN Pinned(hot, Held) = DOMAIN hot \union Held
    BY DEF Pinned, Stamped
<1>3. PositionsWatched'
    <2>1. place' = "manage" => polled' = DOMAIN Pinned(hot, Held)
        BY DEF ScanHot, Goes
    <2>2. Held' = Held
        BY <1>1 DEF Held
    <2> QED
        BY <1>2, <2>1, <2>2 DEF PositionsWatched
<1> QED
    BY <1>1, <1>3 DEF VettedInv

LEMMA HealthKeeps ==
    ASSUME VettedInv, NEW c \in AssetSet, HealthChanges(c)
    PROVE  VettedInv'
<1>1. UNCHANGED <<moment, reports, holding, place>> /\ place = "asleep"
    BY DEF HealthChanges
<1>2. /\ health' = [health EXCEPT ![c] = IF health[c] = "clean" THEN "risky" ELSE "clean"]
      /\ cleanAt' = [cleanAt EXCEPT ![c] = IF health[c] = "clean" THEN moment ELSE 0]
    BY DEF HealthChanges
<1>3. /\ health' \in [AssetSet -> {"clean", "risky"}] /\ cleanAt' \in [AssetSet -> Nat]
      /\ \A d \in AssetSet : d # c => health'[d] = health[d] /\ cleanAt'[d] = cleanAt[d]
      /\ health'[c] = IF health[c] = "clean" THEN "risky" ELSE "clean"
      /\ cleanAt'[c] = IF health[c] = "clean" THEN moment ELSE 0
    BY <1>2 DEF VettedInv
<1>4. ASSUME NEW d \in AssetSet
      PROVE  /\ cleanAt'[d] <= moment
             /\ reports[d].passed =>
                  reports[d].recheck_after
                    <= PassTtl + (IF health'[d] = "clean" THEN moment ELSE cleanAt'[d])
    <2>1. PassTtl \in Nat /\ moment \in Nat /\ cleanAt[d] \in Nat /\ reports[d].recheck_after \in Nat
        BY ScanningAssumption DEF VettedInv
    <2> QED
        BY <1>3, <2>1 DEF VettedInv
<1>5. PositionsWatched'
    BY <1>1 DEF PositionsWatched
<1> QED
    BY <1>1, <1>3, <1>4, <1>5 DEF VettedInv

\* A step that asks for no verdict, of a tick that is past managing or has not come to it.
LEMMA ElsewhereKeeps ==
    ASSUME VettedInv, moment' \in {moment, moment + 1}, UNCHANGED <<reports, health, cleanAt>>,
           holding' \in [BookSet -> SUBSET AssetSet],
           place' # "manage" \/ UNCHANGED <<place, holding, polled>>
    PROVE  VettedInv'
<1>1. moment' \in Nat /\ moment <= moment'
    BY DEF VettedInv
<1>2. PositionsWatched'
    <2>1. CASE place' # "manage"
        BY <2>1 DEF PositionsWatched
    <2>2. CASE UNCHANGED <<place, holding, polled>>
        BY <2>2 DEF PositionsWatched, Held, VettedInv
    <2> QED
        BY <2>1, <2>2
<1>3. ASSUME NEW c \in AssetSet
      PROVE  /\ cleanAt[c] <= moment'
             /\ reports[c].passed =>
                  reports[c].recheck_after
                    <= PassTtl + (IF health[c] = "clean" THEN moment' ELSE cleanAt[c])
    <2>1. /\ PassTtl \in Nat /\ moment \in Nat /\ cleanAt[c] \in Nat
          /\ reports[c].recheck_after \in Nat
        BY ScanningAssumption DEF VettedInv
    <2> QED
        BY <1>1, <2>1 DEF VettedInv
<1> QED
    BY <1>1, <1>2, <1>3 DEF VettedInv

LEMMA VettedStep == VettedInv /\ [ScanningNext]_scanningVars => VettedInv'
<1> SUFFICES ASSUME VettedInv, [ScanningNext]_scanningVars PROVE VettedInv'
    OBVIOUS
<1>0. holding \in [BookSet -> SUBSET AssetSet]
    BY DEF VettedInv
<1>1. ASSUME NEW enabled \in BOOLEAN, Wake(enabled) PROVE VettedInv'
    <2>1. moment' = moment + 1 /\ UNCHANGED <<reports, health, cleanAt>> /\ place' # "manage"
        BY <1>1 DEF Wake, Goes, worldVars
    <2>2. holding' \in [BookSet -> SUBSET AssetSet]
        BY <1>0, <1>1, ManageOnlyCloses DEF Wake
    <2> QED
        BY <2>1, <2>2, ElsewhereKeeps
<1>2. CASE RefreshUniverse \/ NotDue \/ ScanBroad \/ Through \/ ExpireHot \/ Restart \/ RefreshCommand
    <2>1. UNCHANGED <<moment, reports, health, cleanAt, holding>> /\ place' # "manage"
        BY <1>2 DEF RefreshUniverse, RefreshCommand, Refresh, NotDue, ScanBroad, Through, ExpireHot,
                    Restart, Goes, worldVars
    <2> QED
        BY <1>0, <2>1, ElsewhereKeeps
<1>3. CASE ManagePositions
    <2>1. UNCHANGED <<moment, reports, health, cleanAt>> /\ place' # "manage"
        BY <1>3 DEF ManagePositions, Goes, worldVars
    <2> QED
        BY <1>3, <2>1, ElsewhereKeeps, ManageOnlyCloses DEF ManagePositions
<1>4. CASE ScanHot
    BY <1>4, ScanHotKeeps
<1>5. ASSUME NEW c \in AssetSet, Triage(c) PROVE VettedInv'
    <2>1. UNCHANGED <<moment, reports, health, cleanAt, holding, place, polled>>
        BY <1>5 DEF Triage, worldVars
    <2> QED
        BY <1>0, <2>1, ElsewhereKeeps
<1>6. ASSUME NEW c \in AssetSet, HealthChanges(c) PROVE VettedInv'
    BY <1>6, HealthKeeps
<1>7. ASSUME NEW c \in AssetSet, NEW b \in BookSet, Skip(b, c) PROVE VettedInv'
    <2>1. UNCHANGED <<moment, reports, health, cleanAt, holding, place, polled>>
        BY <1>7 DEF Skip, worldVars
    <2> QED
        BY <1>0, <2>1, ElsewhereKeeps
<1>8. ASSUME NEW c \in AssetSet, NEW b \in BookSet, Refused(b, c) \/ Declined(b, c)
      PROVE  VettedInv'
    BY <1>0, <1>8, ConsiderKeeps DEF Refused, Declined
<1>9. ASSUME NEW c \in AssetSet, NEW b \in BookSet, Bought(b, c) PROVE VettedInv'
    BY <1>0, <1>9, ConsiderKeeps DEF Bought
<1>10. CASE UNCHANGED scanningVars
    BY <1>0, <1>10, ElsewhereKeeps DEF scanningVars, worldVars
<1> QED
    BY <1>1, <1>2, <1>3, <1>4, <1>5, <1>6, <1>7, <1>8, <1>9, <1>10 DEF ScanningNext

\* The poll before positions are managed has asked for all of them, for any
\* number of tokens and instances, however full the hot list is and whatever
\* triage, evictions, sales and restarts dropped from it (Engine.tick, Scanner.pin).
THEOREM Watched == ScanningSpec => []PositionsWatched
<1>1. VettedInv => PositionsWatched
    BY DEF VettedInv
<1> QED
    BY <1>1, VettedInit, VettedStep, PTL DEF ScanningSpec

\* No entry is made in a token that has been bad for as long as a pass is cached,
\* for any times to live, outages and restarts (SafetyGate.check).
THEOREM Vetted == ScanningSpec => EntriesVetted
<1> DEFINE A == \A b \in BookSet : \A c \in holding'[b] \ holding[b] :
                  health[c] = "risky" => moment - cleanAt[c] < PassTtl
<1>1. ASSUME VettedInv, [ScanningNext]_scanningVars PROVE [A]_scanningVars
    <2>1. CASE UNCHANGED holding
        BY <2>1
    <2>2. CASE Manage
        BY <1>1, <2>2, ManageOnlyCloses
    <2>3. ASSUME NEW c \in AssetSet, NEW b \in BookSet, Bought(b, c) PROVE A
        <3>1. PICK report \in Verdicts(c) :
                report.passed /\ holding' = [holding EXCEPT ![b] = holding[b] \union {c}]
            BY <2>3 DEF Bought
        <3>2. \A d \in BookSet : \A e \in holding'[d] \ holding[d] : e = c
            BY <1>1, <3>1 DEF VettedInv
        <3> QED
            BY <1>1, <3>1, <3>2, BoughtVetted
    <2>4. CASE UNCHANGED scanningVars
        BY <2>4
    <2>5. ASSUME ScanningNext
          PROVE  UNCHANGED holding \/ Manage \/ \E c \in AssetSet, b \in BookSet : Bought(b, c)
        BY <2>5 DEF ScanningNext, Wake, RefreshUniverse, RefreshCommand, Refresh, NotDue, ScanHot,
                    ManagePositions, ScanBroad, Through, ExpireHot, Restart, Triage, HealthChanges,
                    Skip, Refused, Declined
    <2> QED
        BY <1>1, <2>1, <2>2, <2>3, <2>4, <2>5
<1> QED
    BY <1>1, VettedInit, VettedStep, PTL DEF ScanningSpec, EntriesVetted

----------------------------------------------------------------------------
(* Types of the scanner's state *)

\* One sequence after the other makes a sequence.
LEMMA FlattenTyped ==
    ASSUME NEW S, NEW seqs \in Seq(Seq(S))
    PROVE  FlattenSeq(seqs) \in Seq(S)
<1> DEFINE N == Len(seqs)
           Joined(f) == [i \in 1 .. N |-> IF i = 1 THEN seqs[i] ELSE f[i - 1] \o seqs[i]]
           it == CHOOSE f : f = Joined(f)
           F == [i \in 2 .. N |-> [x \in Seq(S) |-> x \o seqs[i]]]
<1>1. FlattenSeq(seqs) = IF N = 0 THEN seqs ELSE it[N]
    BY DEF FlattenSeq
<1>2. N \in Nat /\ \A i \in 1 .. N : seqs[i] \in Seq(S)
    OBVIOUS
<1>3. CASE N = 0
    <2>1. seqs = <<>>
        BY <1>3
    <2> QED
        BY <1>1, <1>3, <2>1
<1>4. CASE N # 0
    <2> HIDE DEF N
    <2>1. 1 \in Int /\ N \in Int /\ 1 <= N /\ 1 + 1 = 2 /\ 1 \in 1 .. N
        BY <1>2, <1>4
    <2>2. \A i \in (1 + 1) .. N : \A x \in Seq(S) :
            i \in 2 .. N /\ F[i][x] = x \o seqs[i] /\ F[i][x] \in Seq(S)
        <3>1. \A i \in (1 + 1) .. N : i \in 2 .. N /\ seqs[i] \in Seq(S)
            BY <1>2
        <3> QED
            BY <3>1
    <2>3. seqs[1] \in Seq(S)
        BY <1>2, <2>1
    <2> HIDE DEF F
    <2>4. PICK g \in [1 .. N -> Seq(S)] : Recurs(g, seqs[1], F, 1, N)
        BY <2>1, <2>2, <2>3, Recursion
    <2>5. g = Joined(g)
        <3>1. \A i \in (1 + 1) .. N : g[i] = F[i][g[i - 1]]
            BY <2>4 DEF Recurs
        <3>2. \A i \in 1 .. N : i # 1 => i \in (1 + 1) .. N /\ i - 1 \in 1 .. N
            BY <1>2
        <3>3. \A i \in 1 .. N : i # 1 => g[i] = g[i - 1] \o seqs[i]
            BY <2>2, <2>4, <3>1, <3>2
        <3>4. g[1] = seqs[1]
            BY <2>4 DEF Recurs
        <3>5. \A i \in 1 .. N : g[i] = Joined(g)[i]
            BY <3>3, <3>4
        <3> QED
            BY <2>4, <3>5
    <2>6. it = Joined(it)
        BY <2>5
    <2> HIDE DEF it
    <2>7. \A i \in 1 .. N : it[i] = IF i = 1 THEN seqs[i] ELSE it[i - 1] \o seqs[i]
        BY <2>6
    <2> DEFINE G == {i \in 1 .. N : it[i] \in Seq(S)}
    <2>8. 1 \in G
        BY <2>1, <2>3, <2>7
    <2>9. ASSUME NEW i \in 1 .. N, i \in G, i < N
          PROVE  i + 1 \in G
        <3>1. i + 1 \in 1 .. N /\ i + 1 # 1 /\ (i + 1) - 1 = i
            BY <1>2, <2>9
        <3>2. it[i + 1] = it[i] \o seqs[i + 1] /\ it[i] \in Seq(S) /\ seqs[i + 1] \in Seq(S)
            BY <1>2, <2>7, <2>9, <3>1
        <3>3. \A x, y \in Seq(S) : x \o y \in Seq(S)
            OBVIOUS
        <3>4. it[i + 1] \in Seq(S)
            BY <3>2, <3>3
        <3> QED
            BY <3>1, <3>4
    <2> HIDE DEF G
    <2>10. 1 .. N \subseteq G
        BY <2>1, <2>8, <2>9, RangeInduction
    <2>11. it[N] \in Seq(S)
        BY <2>1, <2>10 DEF G
    <2> QED
        BY <1>1, <1>4, <2>11 DEF N
<1> QED
    BY <1>3, <1>4

\* The prices still to be gone through, for a book or for triage.
Readings == (BookSet \union {Triaging}) \X AssetSet

LEMMA EachTyped ==
    ASSUME NEW readers \in Seq(BookSet \union {Triaging}), NEW quoted
    PROVE  Each(readers, quoted) \in Seq(Readings)
<1> DEFINE Read(reader, c) == IF c \in quoted THEN <<<<reader, c>>>> ELSE <<>>
           All(reader) == FlattenSeq([j \in DOMAIN Assets |-> Read(reader, Assets[j])])
<1>1. Each(readers, quoted) = FlattenSeq([i \in DOMAIN readers |-> All(readers[i])])
    BY DEF Each
<1>2. ASSUME NEW reader \in BookSet \union {Triaging}
      PROVE  All(reader) \in Seq(Readings)
    <2>1. Assets \in Seq(AssetSet)
        BY ScanningAssumption
    <2>2. Len(Assets) \in Nat /\ DOMAIN Assets = 1 .. Len(Assets)
          /\ \A j \in DOMAIN Assets : Assets[j] \in AssetSet
        BY <2>1
    <2>3. \A c \in AssetSet : Read(reader, c) \in Seq(Readings)
        <3>1. \A c \in AssetSet : <<reader, c>> \in Readings
            BY DEF Readings
        <3> QED
            BY <3>1
    <2> HIDE DEF Read
    <2> DEFINE parts == [j \in DOMAIN Assets |-> Read(reader, Assets[j])]
    <2>4. parts \in [1 .. Len(Assets) -> Seq(Readings)]
        BY <2>2, <2>3
    <2> HIDE DEF parts
    <2>5. parts \in Seq(Seq(Readings))
        BY <2>2, <2>4, SeqDef
    <2>6. FlattenSeq(parts) \in Seq(Readings)
        BY <2>5, FlattenTyped
    <2> QED
        BY <2>6 DEF parts
<1>3. Len(readers) \in Nat /\ DOMAIN readers = 1 .. Len(readers)
      /\ \A i \in DOMAIN readers : readers[i] \in BookSet \union {Triaging}
    OBVIOUS
<1> HIDE DEF All
<1> DEFINE parts == [i \in DOMAIN readers |-> All(readers[i])]
<1>4. parts \in [1 .. Len(readers) -> Seq(Readings)]
    BY <1>2, <1>3
<1> HIDE DEF parts
<1>5. parts \in Seq(Seq(Readings))
    BY <1>3, <1>4, SeqDef
<1>6. FlattenSeq(parts) \in Seq(Readings)
    BY <1>5, FlattenTyped
<1> QED
    BY <1>1, <1>6 DEF parts

\* A list of tokens, none of later than now.
HotOK(h, m) == DOMAIN h \subseteq AssetSet /\ \A c \in DOMAIN h : h[c] \in Uptime .. m

LEMMA CooledOK ==
    ASSUME NEW h, NEW m, HotOK(h, m), NEW cs
    PROVE  HotOK(Cooled(h, cs), m)
BY DEF HotOK, Cooled

LEMMA StampedOK ==
    ASSUME moment \in Uptime .. MaxMoment, NEW h, HotOK(h, moment), NEW cs \in SUBSET AssetSet
    PROVE  HotOK(Stamped(h, cs), moment)
<1>1. moment \in Uptime .. moment
    BY ScanningAssumption
<1> QED
    BY <1>1 DEF HotOK, Stamped

LEMMA MarkedOK ==
    ASSUME moment \in Uptime .. MaxMoment, NEW h, HotOK(h, moment), NEW c \in AssetSet
    PROVE  HotOK(Marked(h, c), moment)
<1> DEFINE full == c \notin DOMAIN h /\ Cardinality(DOMAIN h) >= HotMax
           kept == IF full THEN Cooled(h, {Stalest(h)}) ELSE h
<1>1. HotOK(kept, moment)
    <2> HIDE DEF full
    <2> QED
        BY CooledOK
<1>2. Marked(h, c) = Stamped(kept, {c})
    BY DEF Marked
<1> HIDE DEF kept
<1> QED
    BY <1>1, <1>2, StampedOK

Places == {"startup", "asleep", "universe", "hot", "manage", "look", "broad", "sweep", "expire"}

ScannerTypes ==
    /\ moment \in Uptime .. MaxMoment /\ troubles \in 0 .. MaxTroubles
    /\ universe \in SUBSET AssetSet /\ persisted \in SUBSET AssetSet
    /\ polled \in SUBSET AssetSet
    /\ lastRefresh \in 0 .. moment /\ lastHot \in 0 .. moment /\ lastBroad \in 0 .. moment
    /\ HotOK(hot, moment)
    /\ place \in Places
    /\ prices \in Seq(Readings)

LEMMA ScannerInit == ScanningInit => ScannerTypes
<1> SUFFICES ASSUME ScanningInit PROVE ScannerTypes
    OBVIOUS
<1>1. Uptime \in Nat /\ MaxMoment \in Nat /\ Uptime <= MaxMoment /\ MaxTroubles \in Nat
    BY ScanningAssumption
<1>2. moment \in Uptime .. MaxMoment /\ troubles \in 0 .. MaxTroubles /\ 0 \in 0 .. moment
    BY <1>1 DEF ScanningInit
<1>3. HotOK(hot, moment)
    BY DEF ScanningInit, HotOK
<1> QED
    BY <1>2, <1>3 DEF ScanningInit, ScannerTypes, Places

LEMMA ScanningTimes ==
    ASSUME ScannerTypes, ScanningNext
    PROVE  /\ moment' \in Uptime .. MaxMoment /\ moment <= moment'
           /\ troubles' \in 0 .. MaxTroubles
           /\ lastRefresh' \in 0 .. moment' /\ lastHot' \in 0 .. moment'
           /\ lastBroad' \in 0 .. moment'
<1>1. Uptime \in Nat /\ MaxMoment \in Nat /\ MaxTroubles \in Nat
    BY ScanningAssumption
<1>2. moment' = moment \/ (moment < MaxMoment /\ moment' = moment + 1)
    BY DEF ScanningNext, Wake, RefreshUniverse, RefreshCommand, Refresh, NotDue, ScanHot,
           ManagePositions, ScanBroad, Through, ExpireHot, Restart, Triage, HealthChanges,
           Skip, Refused, Declined, Bought, Consider
<1>3. troubles' = troubles \/ (troubles < MaxTroubles /\ troubles' = troubles + 1)
    BY DEF ScanningNext, Wake, RefreshUniverse, RefreshCommand, Refresh, NotDue, ScanHot,
           ManagePositions, ScanBroad, Through, ExpireHot, Restart, Triage, HealthChanges,
           Skip, Refused, Declined, Bought, Consider, Trouble
<1>4. lastRefresh' \in {lastRefresh, moment, 0}
    BY DEF ScanningNext, Wake, RefreshUniverse, RefreshCommand, Refresh, NotDue, ScanHot,
           ManagePositions, ScanBroad, Through, ExpireHot, Restart, Triage, HealthChanges,
           Skip, Refused, Declined, Bought, Consider, universeVars
<1>5. lastHot' \in {lastHot, moment, 0} /\ lastBroad' \in {lastBroad, moment, 0}
    BY DEF ScanningNext, Wake, RefreshUniverse, RefreshCommand, Refresh, NotDue, ScanHot,
           ManagePositions, ScanBroad, Through, ExpireHot, Restart, Triage, HealthChanges,
           Skip, Refused, Declined, Bought, Consider, scannerVars
<1> QED
    BY <1>1, <1>2, <1>3, <1>4, <1>5 DEF ScannerTypes

LEMMA ScanningSets ==
    ASSUME VettedInv, ScannerTypes, ScanningNext
    PROVE  /\ universe' \in SUBSET AssetSet /\ persisted' \in SUBSET AssetSet
           /\ polled' \in SUBSET AssetSet
           /\ place' \in Places
<1>1. ASSUME NEW kept \in SUBSET AssetSet, Refresh(kept)
      PROVE  universe' \in SUBSET AssetSet /\ persisted' \in SUBSET AssetSet
    BY <1>1 DEF Refresh, ScannerTypes
<1>2. universe' \in SUBSET AssetSet /\ persisted' \in SUBSET AssetSet
    <2>1. \/ universe' \in {universe, persisted} /\ persisted' = persisted
          \/ \E kept \in SUBSET AssetSet : Refresh(kept)
        BY DEF ScanningNext, Wake, RefreshUniverse, RefreshCommand, NotDue, ScanHot,
               ManagePositions, ScanBroad, Through, ExpireHot, Restart, Triage, HealthChanges,
               Skip, Refused, Declined, Bought, Consider, universeVars
    <2> QED
        BY <1>1, <2>1 DEF ScannerTypes
<1>3. polled' \in SUBSET AssetSet
    <2>1. polled' \in {polled, {}, DOMAIN Pinned(hot, Held)}
        BY DEF ScanningNext, Wake, RefreshUniverse, RefreshCommand, Refresh, NotDue, ScanHot,
               ManagePositions, ScanBroad, Through, ExpireHot, Restart, Triage, HealthChanges,
               Skip, Refused, Declined, Bought, Consider
    <2>2. DOMAIN Pinned(hot, Held) \subseteq AssetSet
        BY DEF Pinned, Stamped, Held, VettedInv, ScannerTypes, HotOK
    <2> QED
        BY <2>1, <2>2 DEF ScannerTypes
<1>4. place' = place \/ place' \in Places
    BY DEF ScanningNext, Wake, RefreshUniverse, RefreshCommand, NotDue, ScanHot,
           ManagePositions, ScanBroad, Through, ExpireHot, Restart, Triage, HealthChanges,
           Skip, Refused, Declined, Bought, Consider, Goes, Places
<1> QED
    BY <1>2, <1>3, <1>4 DEF ScannerTypes

LEMMA ScanningHot ==
    ASSUME VettedInv, ScannerTypes, ScanningNext
    PROVE  HotOK(hot', moment')
<1>0. HotOK(hot, moment) /\ moment \in Uptime .. MaxMoment
    BY DEF ScannerTypes
<1>1. \/ hot' = hot
      \/ \E cs : hot' = Cooled(hot, cs)
      \/ hot' = Pinned(hot, Held)
      \/ \E c \in AssetSet : hot' = Marked(hot, c)
      \/ \E c \in AssetSet : hot' = Cooled(Marked(hot, c), {c})
      \/ hot' = [c \in {} |-> 0]
    <2>1. CASE \E enabled \in BOOLEAN : Wake(enabled)
        BY <2>1 DEF Wake, Manage
    <2>2. CASE RefreshUniverse \/ RefreshCommand \/ NotDue \/ ScanBroad \/ Through \/ Restart
        BY <2>2 DEF RefreshUniverse, RefreshCommand, Refresh, NotDue, ScanBroad, Through,
                    Restart, scannerVars
    <2>3. CASE ScanHot \/ ManagePositions \/ ExpireHot
        BY <2>3 DEF ScanHot, ManagePositions, Manage, ExpireHot
    <2>4. CASE \E c \in AssetSet : Triage(c) \/ HealthChanges(c)
        BY <2>4 DEF Triage, HealthChanges, scannerVars
    <2>5. ASSUME NEW c \in AssetSet, NEW b \in BookSet,
                 Skip(b, c) \/ Refused(b, c) \/ Declined(b, c) \/ Bought(b, c)
          PROVE  \/ hot' = hot \/ \E cs : hot' = Cooled(hot, cs)
                 \/ hot' = Marked(hot, c) \/ hot' = Cooled(Marked(hot, c), {c})
        BY <2>5 DEF Skip, Refused, Declined, Bought, scannerVars
    <2> QED
        BY <2>1, <2>2, <2>3, <2>4, <2>5 DEF ScanningNext
<1>2. Held \in SUBSET AssetSet
    BY DEF Held, VettedInv
<1>3. HotOK([c \in {} |-> 0], moment)
    BY DEF HotOK
<1>4. HotOK(hot', moment)
    <2>1. ASSUME NEW cs, hot' = Cooled(hot, cs) PROVE HotOK(hot', moment)
        BY <1>0, <2>1, CooledOK
    <2>2. CASE hot' = Pinned(hot, Held)
        BY <1>0, <1>2, <2>2, StampedOK DEF Pinned
    <2>3. ASSUME NEW c \in AssetSet, hot' = Marked(hot, c) PROVE HotOK(hot', moment)
        BY <1>0, <2>3, MarkedOK
    <2>4. ASSUME NEW c \in AssetSet, hot' = Cooled(Marked(hot, c), {c}) PROVE HotOK(hot', moment)
        <3>1. HotOK(Marked(hot, c), moment)
            BY <1>0, MarkedOK
        <3> QED
            BY <3>1, <2>4, CooledOK
    <2> QED
        BY <1>0, <1>1, <1>3, <2>1, <2>2, <2>3, <2>4
<1>5. moment <= moment' /\ moment' \in Int /\ Uptime \in Nat
    BY ScanningTimes, ScanningAssumption
<1> QED
    BY <1>0, <1>4, <1>5 DEF HotOK

LEMMA ScanningPrices ==
    ASSUME ScannerTypes, ScanningNext
    PROVE  prices' \in Seq(Readings)
<1>1. \/ prices' = prices \/ prices' = <<>>
      \/ prices # <<>> /\ prices' = Tail(prices)
      \/ \E quoted : prices' = Each(Books, quoted)
      \/ \E quoted : prices' = Each(<<Triaging>> \o Books, quoted)
    <2>1. CASE \E enabled \in BOOLEAN : Wake(enabled)
        BY <2>1 DEF Wake
    <2>2. CASE RefreshUniverse \/ RefreshCommand \/ NotDue \/ ExpireHot \/ Restart
        BY <2>2 DEF RefreshUniverse, RefreshCommand, Refresh, NotDue, ExpireHot, Restart
    <2>3. CASE ScanHot \/ ManagePositions \/ ScanBroad \/ Through
        BY <2>3 DEF ScanHot, ManagePositions, ScanBroad, Through
    <2>4. CASE \E c \in AssetSet : Triage(c) \/ HealthChanges(c)
        BY <2>4 DEF Triage, HealthChanges, Looking
    <2>5. ASSUME NEW c \in AssetSet, NEW b \in BookSet,
                 Skip(b, c) \/ Refused(b, c) \/ Declined(b, c) \/ Bought(b, c)
          PROVE  prices # <<>> /\ prices' = Tail(prices)
        BY <2>5 DEF Skip, Refused, Declined, Bought, Consider, Looking
    <2> QED
        BY <2>1, <2>2, <2>3, <2>4, <2>5 DEF ScanningNext
<1>2. Books \in Seq(BookSet \union {Triaging}) /\ <<Triaging>> \in Seq(BookSet \union {Triaging})
    <2>1. Books \in Seq(BookSet)
        BY ScanningAssumption
    <2> QED
        BY <2>1
<1>3. <<Triaging>> \o Books \in Seq(BookSet \union {Triaging})
    BY <1>2
<1>4. prices \in Seq(Readings)
    BY DEF ScannerTypes
<1>5. CASE prices # <<>> /\ prices' = Tail(prices)
    BY <1>4, <1>5
<1>6. \A quoted : /\ Each(Books, quoted) \in Seq(Readings)
                  /\ Each(<<Triaging>> \o Books, quoted) \in Seq(Readings)
    BY <1>2, <1>3, EachTyped
<1>7. <<>> \in Seq(Readings)
    OBVIOUS
<1> QED
    BY <1>1, <1>4, <1>5, <1>6, <1>7

LEMMA ScannerStep ==
    VettedInv /\ ScannerTypes /\ [ScanningNext]_scanningVars => ScannerTypes'
<1> SUFFICES ASSUME VettedInv, ScannerTypes, [ScanningNext]_scanningVars PROVE ScannerTypes'
    OBVIOUS
<1>1. CASE UNCHANGED scanningVars
    BY <1>1 DEF scanningVars, universeVars, scannerVars, worldVars, ScannerTypes, HotOK
<1>2. CASE ScanningNext
    BY <1>2, ScanningTimes, ScanningSets, ScanningHot, ScanningPrices DEF ScannerTypes
<1> QED
    BY <1>1, <1>2

\* The hot list, the universe and its copy name listed tokens only, whatever is
\* marked, pinned, evicted, cooled or expired, no date of either is in the future,
\* and a scan goes through prices of listed tokens (Scanner, UniverseBuilder).
THEOREM ScanningTypeCorrect == ScanningSpec => []ScanningTypeOK
<1>1. VettedInv /\ ScannerTypes => ScanningTypeOK
    BY DEF VettedInv, ScannerTypes, ScanningTypeOK, HotOK, Places, Readings
<1> QED
    BY <1>1, VettedInit, VettedStep, ScannerInit, ScannerStep, PTL DEF ScanningSpec
=============================================================================
