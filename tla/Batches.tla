------------------------------- MODULE Batches -------------------------------
(***************************************************************************)
(* The retests the worker ships to RunPod (wfmc.run_monthly, its twin      *)
(* run_regime_pass, and run_benchmark; runpod.RunPodClient): each run is a *)
(* thread of the worker that takes run ids from a counter in kv, creates a *)
(* volume and a pod per batch, waits, and then verifies that both are      *)
(* gone.  Any call may fail, fail with its effect done, or find no         *)
(* capacity; the worker may die with all of its threads.                   *)
(***************************************************************************)
EXTENDS Integers, FiniteSets

CONSTANTS
    Retests,        \* runs that launch every batch and then tear all down
    Benchmarks,     \* runs that launch, wait for and tear down a tier at a time
    Size,           \* how many batches a retest has, how many tiers a benchmark
    Attempts,       \* creations of a pod tried before a batch is given up: the
                    \* retries of a tier times the tiers of the fallback list
    MaxFaults       \* bound on calls that fail

ASSUME BatchAssumption ==
    /\ Retests \intersect Benchmarks = {}
    /\ IsFiniteSet(Retests \union Benchmarks)
    /\ Size \in [Retests \union Benchmarks -> Nat \ {0}]
    /\ Attempts \in Nat \ {0} /\ MaxFaults \in Nat

Runs == Retests \union Benchmarks
BatchIds == UNION {1 .. Size[r] : r \in Runs}

VARIABLES
    \* kv
    nextRunId,      \* RUN_ID_COUNTER_KEY
    \* RunPod
    volume, pod,    \* of each run and batch
    \* a run's thread
    stage,          \* where it is
    batch,          \* the batch or tier it is at
    current,        \* the counter as next_run_id read it
    runId,          \* ids it gave to its batches
    tries,          \* creations of this batch's pod that found no capacity
    jobs,           \* batches that launched
    todo,           \* pending pods, or jobs still to verify
    left,           \* jobs found still running or still on a volume
    verdict,        \* what the teardown check said of a batch
    failures,       \* counts calls that failed, up to MaxFaults
    \* history
    unanswered      \* a check of this batch's teardown got no answer

podVars == <<volume, pod>>
threadVars == <<stage, batch, current, runId, tries, jobs, todo, left, verdict>>
batchVars == <<nextRunId, podVars, threadVars, failures, unanswered>>

Stages == {"idle", "read", "write", "volume", "upload", "pod", "discard",
           "wait", "terminate", "check", "delete", "over", "failed"}

BatchTypeOK ==
    /\ nextRunId \in Nat /\ failures \in 0 .. MaxFaults
    /\ volume \in [Runs -> [BatchIds -> {"none", "present", "gone"}]]
    /\ pod \in [Runs -> [BatchIds -> {"none", "running", "exited"}]]
    /\ stage \in [Runs -> Stages]
    /\ batch \in [Runs -> Nat]
    /\ current \in [Runs -> Nat]
    /\ runId \in [Runs -> [BatchIds -> Nat]]
    /\ tries \in [Runs -> 0 .. Attempts]
    /\ {jobs, todo, left} \subseteq [Runs -> SUBSET BatchIds]
    /\ verdict \in [Runs -> [BatchIds -> {"none", "clean", "dirty"}]]
    /\ unanswered \in [Runs -> SUBSET BatchIds]

BatchInit ==
    /\ nextRunId = 0 /\ failures = 0
    /\ volume = [r \in Runs |-> [b \in BatchIds |-> "none"]]
    /\ pod = [r \in Runs |-> [b \in BatchIds |-> "none"]]
    /\ stage = [r \in Runs |-> "idle"]
    /\ batch = [r \in Runs |-> 1]
    /\ current = [r \in Runs |-> 0]
    /\ runId = [r \in Runs |-> [b \in BatchIds |-> 0]]
    /\ tries = [r \in Runs |-> 0]
    /\ jobs = [r \in Runs |-> {}] /\ todo = jobs /\ left = jobs
    /\ verdict = [r \in Runs |-> [b \in BatchIds |-> "none"]]
    /\ unanswered = [r \in Runs |-> {}]

At(r, s) == stage[r] = s
\* A call that fails, within the bound.
Fault == failures < MaxFaults /\ failures' = failures + 1

To(r, s) == stage' = [stage EXCEPT ![r] = s]

----------------------------------------------------------------------------
(* Starting a run *)

Start(r) ==
    /\ At(r, "idle")
    /\ To(r, "read")
    /\ UNCHANGED <<nextRunId, podVars, batch, current, runId, tries, jobs, todo,
                   left, verdict, failures, unanswered>>

\* The monthly schedule, the end of a backfill or the dashboard's buttons: a
\* thread of its own, whatever others are at.
StartRetest(r) == r \in Retests /\ Start(r)
StartBenchmark(r) == r \in Benchmarks /\ Start(r)

\* next_run_id, in two steps.
ReadCounter(r) ==
    /\ At(r, "read")
    /\ current' = [current EXCEPT ![r] = nextRunId]
    /\ To(r, "write")
    /\ UNCHANGED <<nextRunId, podVars, batch, runId, tries, jobs, todo, left,
                   verdict, failures, unanswered>>

\* A benchmark asks once; its tiers report as the ids that follow.
WriteCounter(r) ==
    /\ At(r, "write")
    /\ nextRunId' = current[r] + 1
    /\ runId' = [runId EXCEPT ![r] =
                    IF r \in Benchmarks THEN [b \in BatchIds |-> current[r] + b]
                    ELSE [@ EXCEPT ![batch[r]] = current[r] + 1]]
    /\ To(r, "volume")
    /\ UNCHANGED <<podVars, batch, current, tries, jobs, todo, left, verdict,
                   failures, unanswered>>

----------------------------------------------------------------------------
(* launch_batch *)

\* The run goes on to its next batch or tier, and at the end to the teardown.
NextBatch(r) ==
    /\ batch' = [batch EXCEPT ![r] = @ + 1]
    /\ tries' = [tries EXCEPT ![r] = 0]
    /\ IF batch[r] < Size[r]
       THEN To(r, IF r \in Benchmarks THEN "volume" ELSE "read") /\ UNCHANGED todo
       ELSE /\ To(r, IF r \in Benchmarks THEN "over" ELSE "wait")
            /\ todo' = [todo EXCEPT ![r] = jobs[r]]

CreateVolume(r) ==
    /\ At(r, "volume")
    /\ \/ /\ volume' = [volume EXCEPT ![r][batch[r]] = "present"]
          /\ To(r, "upload")
          /\ UNCHANGED <<batch, tries, todo, failures>>
       \/ /\ Fault
          /\ \E v \in {"none", "present"} : volume' = [volume EXCEPT ![r][batch[r]] = v]
          /\ NextBatch(r)
    /\ UNCHANGED <<nextRunId, pod, current, runId, jobs, left, verdict, unanswered>>

\* The data goes up; an error RunPodClient raises itself costs the batch, any
\* other (the disk, S3) ends a retest with whatever it launched.
Upload(r) ==
    /\ At(r, "upload")
    /\ \/ To(r, "pod") /\ UNCHANGED <<batch, tries, todo, failures>>
       \/ Fault /\ NextBatch(r)
       \/ Fault /\ r \in Retests /\ To(r, "failed") /\ UNCHANGED <<batch, tries, todo>>
    /\ UNCHANGED <<nextRunId, podVars, current, runId, jobs, left, verdict, unanswered>>

\* After a launch a benchmark waits for that tier alone.
Launched(r) ==
    /\ jobs' = [jobs EXCEPT ![r] = @ \union {batch[r]}]
    /\ IF r \in Benchmarks
       THEN /\ To(r, "wait")
            /\ todo' = [todo EXCEPT ![r] = {batch[r]}]
            /\ UNCHANGED <<batch, tries>>
       ELSE LET more == batch[r] < Size[r]
            IN  /\ batch' = [batch EXCEPT ![r] = @ + 1]
                /\ tries' = [tries EXCEPT ![r] = 0]
                /\ To(r, IF more THEN "read" ELSE "wait")
                /\ todo' = IF more THEN todo ELSE [todo EXCEPT ![r] = jobs'[r]]

CreatePod(r) ==
    /\ At(r, "pod")
    /\ \/ /\ pod' = [pod EXCEPT ![r][batch[r]] = "running"]
          /\ Launched(r)
          /\ UNCHANGED failures
       \/ \* an error, the pod running all the same or not: the volume stays
          /\ Fault
          /\ \E p \in {"none", "running"} : pod' = [pod EXCEPT ![r][batch[r]] = p]
          /\ NextBatch(r)
          /\ UNCHANGED jobs
    /\ UNCHANGED <<nextRunId, volume, current, runId, left, verdict, unanswered>>

\* No capacity: again, on this tier or the next, until all were tried.
NoCapacity(r) ==
    /\ At(r, "pod")
    /\ tries' = [tries EXCEPT ![r] = @ + 1]
    /\ IF tries[r] + 1 < Attempts THEN UNCHANGED stage ELSE To(r, "discard")
    /\ UNCHANGED <<nextRunId, podVars, batch, current, runId, jobs, todo, left,
                   verdict, failures, unanswered>>

\* The volume nothing will use; that it cannot be deleted is only logged.
Discard(r) ==
    /\ At(r, "discard")
    /\ \/ volume' = [volume EXCEPT ![r][batch[r]] = "gone"] /\ UNCHANGED failures
       \/ Fault /\ UNCHANGED volume
    /\ NextBatch(r)
    /\ UNCHANGED <<nextRunId, pod, current, runId, jobs, left, verdict, unanswered>>

----------------------------------------------------------------------------
(* wait_for_completion and verify_teardown *)

\* Jobs are gone through in order.
NextJob(r, b) == b \in todo[r] /\ \A c \in todo[r] : b <= c

\* The jobs verify_teardown was called for.
Verified(r) == IF r \in Benchmarks THEN {batch[r]} ELSE jobs[r]

\* A poll of one pending pod; no answer counts as no pod.
Poll(r, b) ==
    /\ At(r, "wait") /\ b \in todo[r]
    /\ IF pod[r][b] = "running" THEN Fault ELSE UNCHANGED failures
    /\ todo' = [todo EXCEPT ![r] = @ \ {b}]
    /\ UNCHANGED <<nextRunId, podVars, stage, batch, current, runId, tries, jobs,
                   left, verdict, unanswered>>

\* Nothing is pending, or the deadline has passed.
WaitOver(r) ==
    /\ At(r, "wait")
    /\ To(r, "terminate")
    /\ UNCHANGED <<nextRunId, podVars, batch, current, runId, tries, jobs, todo,
                   left, verdict, failures, unanswered>>

\* terminate_pod: a call that fails is logged.
Terminate(r, b) ==
    /\ At(r, "terminate") /\ NextJob(r, b)
    /\ \/ pod' = [pod EXCEPT ![r][b] = "exited"] /\ UNCHANGED failures
       \/ Fault /\ UNCHANGED pod
    /\ todo' = [todo EXCEPT ![r] = @ \ {b}]
    /\ UNCHANGED <<nextRunId, volume, stage, batch, current, runId, tries, jobs,
                   left, verdict, unanswered>>

Terminated(r) ==
    /\ At(r, "terminate") /\ todo[r] = {}
    /\ To(r, "check")
    /\ todo' = [todo EXCEPT ![r] = Verified(r)]
    /\ left' = [left EXCEPT ![r] = {}]
    /\ UNCHANGED <<nextRunId, podVars, batch, current, runId, tries, jobs, verdict,
                   failures, unanswered>>

\* A bug for the mutants: a pod is not asked for again once it was waited for.
WaitedFor(r, b) == {}

StillRunning(r, b) == IF pod[r][b] = "running" THEN {b} ELSE {}

\* pod_exists_and_running: an error counts as no.
CheckPod(r, b) ==
    /\ At(r, "check") /\ NextJob(r, b)
    /\ \/ left' = [left EXCEPT ![r] = @ \union StillRunning(r, b)]
          /\ UNCHANGED <<unanswered, failures>>
       \/ /\ Fault
          /\ unanswered' = [unanswered EXCEPT ![r] = @ \union {b}]
          /\ UNCHANGED left
    /\ todo' = [todo EXCEPT ![r] = @ \ {b}]
    /\ UNCHANGED <<nextRunId, podVars, stage, batch, current, runId, tries, jobs,
                   verdict>>

Checked(r) ==
    /\ At(r, "check") /\ todo[r] = {}
    /\ To(r, "delete")
    /\ todo' = [todo EXCEPT ![r] = Verified(r)]
    /\ UNCHANGED <<nextRunId, podVars, batch, current, runId, tries, jobs, left,
                   verdict, failures, unanswered>>

\* delete_network_volume, and volume_exists where it fails: an error counts as no.
DeleteVolume(r, b) ==
    /\ At(r, "delete") /\ NextJob(r, b)
    /\ \/ /\ volume' = [volume EXCEPT ![r][b] = "gone"]
          /\ UNCHANGED <<left, unanswered, failures>>
       \/ /\ Fault
          /\ \E v \in {volume[r][b], "gone"} :
               /\ volume' = [volume EXCEPT ![r][b] = v]
               /\ left' = IF v = "present" THEN [left EXCEPT ![r] = @ \union {b}] ELSE left
          /\ UNCHANGED unanswered
       \/ /\ Fault
          /\ unanswered' = [unanswered EXCEPT ![r] = @ \union {b}]
          /\ UNCHANGED <<volume, left>>
    /\ todo' = [todo EXCEPT ![r] = @ \ {b}]
    /\ UNCHANGED <<nextRunId, pod, stage, batch, current, runId, tries, jobs, verdict>>

\* What is recorded under TEARDOWN_LOG_KEY, or in the tier's result.
Recorded(r) ==
    verdict' = [verdict EXCEPT ![r] = [b \in BatchIds |->
                  IF b \notin Verified(r) THEN @[b]
                  ELSE IF left[r] = {} THEN "clean" ELSE "dirty"]]

Deleted(r) ==
    /\ At(r, "delete") /\ todo[r] = {}
    /\ Recorded(r)
    /\ IF r \in Benchmarks
       THEN NextBatch(r)
       ELSE To(r, "over") /\ UNCHANGED <<batch, tries, todo>>
    /\ UNCHANGED <<nextRunId, podVars, current, runId, jobs, left, failures,
                   unanswered>>

----------------------------------------------------------------------------

\* A pod stops itself when its run is done.
PodExits(r, b) ==
    /\ pod[r][b] = "running"
    /\ pod' = [pod EXCEPT ![r][b] = "exited"]
    /\ UNCHANGED <<nextRunId, volume, threadVars, failures, unanswered>>

\* Threads are daemons: they die with the worker, wherever they are.
WorkerDies ==
    /\ stage' = [r \in Runs |-> IF stage[r] \in {"idle", "over"} THEN stage[r] ELSE "failed"]
    /\ UNCHANGED <<nextRunId, podVars, batch, current, runId, tries, jobs, todo,
                   left, verdict, failures, unanswered>>

BatchNext ==
    \/ \E r \in Runs :
         \/ StartRetest(r) \/ StartBenchmark(r) \/ ReadCounter(r) \/ WriteCounter(r)
         \/ CreateVolume(r) \/ Upload(r) \/ CreatePod(r) \/ NoCapacity(r) \/ Discard(r)
         \/ WaitOver(r) \/ Terminated(r) \/ Checked(r) \/ Deleted(r)
         \/ \E b \in BatchIds :
              \/ Poll(r, b) \/ Terminate(r, b) \/ CheckPod(r, b) \/ DeleteVolume(r, b)
              \/ PodExits(r, b)
    \/ WorkerDies

BatchSpec == BatchInit /\ [][BatchNext]_batchVars

----------------------------------------------------------------------------

\* A teardown that was reported clean left no pod running and no volume of the
\* batches it was reported for, whatever was stopped late, refused to stop or
\* was deleted twice on the way, unless a question of that very check went
\* unanswered, which verify_teardown takes for "gone".
CleanMeansGone ==
    \A r \in Runs, b \in BatchIds :
        verdict[r][b] = "clean" /\ b \notin unanswered[r] =>
            pod[r][b] # "running" /\ volume[r][b] = "gone"
=============================================================================
