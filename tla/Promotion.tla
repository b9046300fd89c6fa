------------------------------ MODULE Promotion ------------------------------
(***************************************************************************)
(* The life of a parameter set (solbot/paramsync.py): accepted with its    *)
(* evidence, run on paper as the shadow instance, superseded or promoted   *)
(* to live.  Sets come from acceptors (the worker's daily run, the         *)
(* dashboard's ingest endpoint), from the daily review and from the        *)
(* operator; the worker installs what set_shadow commands say and promotes.*)
(* None of this is one transaction: every statement is an action here.     *)
(***************************************************************************)
EXTENDS CommandQueue, FiniteSets

CONSTANTS
    Bundles,        \* parameter sets that arrive as bundles; their fingerprints
    Reviews,        \* sets the daily review proposes
    Acceptors,      \* where accept_bundle runs: "daily" (in the worker), "web"
    MinDays,        \* config shadow_min_days
    MaxDay, MaxCommands, MaxCrashes, MaxFaults      \* bounds

ASSUME PromotionAssumption ==
    /\ Bundles \subseteq Nat \ {0} /\ IsFiniteSet(Bundles)
    /\ Reviews \subseteq Nat \ {0} /\ Bundles \cap Reviews = {}
    /\ Acceptors \subseteq {"daily", "web"}
    /\ Ops = {"set_shadow"}
    /\ {MaxDay, MaxCommands, MaxCrashes, MaxFaults} \subseteq Nat
    /\ MinDays \in Nat \ {0}        \* config.py allows 1 to 365

Nothing == 0                        \* no overrides
Sets == Bundles \cup Reviews

VARIABLES
    \* SQLite
    status,     \* param_bundles.status of each bundle; "absent" without a row
    since,      \* param_bundles.shadow_since
    overrides,  \* kv shadow_overrides
    \* config.json, as far as promotions write it
    liveFile,
    \* the worker's memory
    pc,         \* the point of its tick
    todo,       \* commands left of the snapshot drain_commands took
    shadow,     \* the overrides the running shadow instance was built with
    live,       \* the promoted set in Config._values
    \* the acceptors' memory
    install,    \* install[a] = [at, set]: the statement accept_bundle is at
    \* outside
    day, crashes, faults,
    \* history
    clash       \* what has coincided or gone wrong so far

tableVars == <<status, since, overrides, commands>>
workerVars == <<pc, todo, shadow, live>>
outsideVars == <<day, crashes, faults>>
vars == <<tableVars, liveFile, workerVars, install, outsideVars, clash>>

Statuses == {"absent", "rejected", "pending", "shadow", "superseded", "promoted"}
Steps == {"idle", "SetOverrides", "Supersede", "Mark", "Queue"}
Promoting == {"Update", "MarkPromoted", "Clear", "QueueClear", "Rebuild"}
Points == {"Down", "Drain", "Command", "Finish", "Check"} \cup Promoting
Clashes == {"installs", "promotion", "proposal", "fault"}

Idle == [at |-> "idle", set |-> Nothing]

Init ==
    /\ status = [s \in Bundles |-> "absent"]
    /\ since = [s \in Bundles |-> 0]
    /\ overrides = Nothing
    /\ QueueInit
    /\ liveFile = Nothing
    /\ pc = "Down" /\ todo = {} /\ shadow = Nothing /\ live = Nothing
    /\ install = [a \in Acceptors |-> Idle]
    /\ day = 0 /\ crashes = 0 /\ faults = 0
    /\ clash = {}

Goto(point) == pc' = point
Running(a) == a = "daily" => pc # "Down"

----------------------------------------------------------------------------
(* paramsync.accept_bundle *)

\* A bug for the mutants: a set that is known already is stored afresh.
NeverSeen(s) == TRUE

\* store_bundle refuses a fingerprint it has a row for.
Fresh(s) == status[s] = "absent"

At(a, step) == install[a].at = step

\* What an installing acceptor coincides with.
Coincidence(a) ==
    (IF \E b \in Acceptors \ {a} : ~At(b, "idle") THEN {"installs"} ELSE {})
    \cup (IF pc \in Promoting THEN {"promotion"} ELSE {})

\* A bundle arrives and its gates and bounds are checked; a set that fails is
\* kept for the record only.
Accept(a) ==
    /\ Running(a) /\ At(a, "idle") /\ Len(commands) < MaxCommands
    /\ \E s \in Bundles, ok \in BOOLEAN :
         /\ Fresh(s)
         /\ status' = [status EXCEPT ![s] = IF ok THEN "pending" ELSE "rejected"]
         /\ install' = IF ok THEN [install EXCEPT ![a] = [at |-> "SetOverrides", set |-> s]]
                             ELSE install
         /\ clash' = IF ok THEN clash \cup Coincidence(a) ELSE clash
    /\ UNCHANGED <<since, overrides, commands, liveFile, workerVars, outsideVars>>

\* The four statements of install_shadow.
NextStep(a, step) ==
    /\ Running(a)
    /\ install' = [install EXCEPT ![a] = IF step = "idle" THEN Idle ELSE [@ EXCEPT !.at = step]]
    /\ clash' = clash \cup Coincidence(a)
    /\ UNCHANGED <<liveFile, workerVars, outsideVars>>

SetOverrides(a) ==
    /\ At(a, "SetOverrides")
    /\ overrides' = install[a].set
    /\ NextStep(a, "Supersede")
    /\ UNCHANGED <<status, since, commands>>

\* A bug for the mutants: the set tested so far keeps its status.
SupersedesNothing(s) == UNCHANGED status

SupersedeOthers(s) ==
    status' = [t \in Bundles |-> IF status[t] = "shadow" /\ t # s THEN "superseded"
                                                               ELSE status[t]]

Supersede(a) ==
    /\ At(a, "Supersede")
    /\ SupersedeOthers(install[a].set)
    /\ NextStep(a, "Mark")
    /\ UNCHANGED <<since, overrides, commands>>

Mark(a) ==
    /\ At(a, "Mark")
    /\ status' = [status EXCEPT ![install[a].set] = "shadow"]
    /\ since' = [since EXCEPT ![install[a].set] = day]
    /\ NextStep(a, "Queue")
    /\ UNCHANGED <<overrides, commands>>

\* A bug for the mutants: the overrides are thought to be enough.
QueueNothing(s) == UNCHANGED commands

QueueShadow(s) == Enqueue("set_shadow", s)

Queue(a) ==
    /\ At(a, "Queue")
    /\ QueueShadow(install[a].set)
    /\ NextStep(a, "idle")
    /\ UNCHANGED <<status, since, overrides>>

\* An acceptor stops half way: its request or thread dies, or a write fails.
AcceptorDies(a) ==
    /\ ~At(a, "idle")
    /\ faults < MaxFaults
    /\ faults' = faults + 1
    /\ install' = [install EXCEPT ![a] = Idle]
    /\ clash' = clash \cup {"fault"}
    /\ UNCHANGED <<tableVars, liveFile, workerVars, day, crashes>>

----------------------------------------------------------------------------
(* Other ways to a shadow set *)

\* daily_review: a proposal that backtests better is queued, with no bundle;
\* it is made against the set that is live.
Review ==
    /\ pc # "Down" /\ Len(commands) < MaxCommands
    /\ \E r \in Reviews : r # live /\ QueueShadow(r)
    /\ clash' = clash \cup {"proposal"}
    /\ UNCHANGED <<status, since, overrides, liveFile, workerVars, install, outsideVars>>

\* The settings page: here an operator who ends the shadow run.
SaveShadow ==
    /\ Len(commands) < MaxCommands
    /\ QueueShadow(Nothing)
    /\ clash' = clash \cup {"proposal"}
    /\ UNCHANGED <<status, since, overrides, liveFile, workerVars, install, outsideVars>>

\* db.prune forgets refused and superseded sets that are old.
Prune ==
    /\ pc = "Check"
    /\ \E s \in Bundles :
         /\ status[s] \in {"rejected", "superseded"}
         /\ \A a \in Acceptors : install[a].set # s
         /\ status' = [status EXCEPT ![s] = "absent"]
    /\ UNCHANGED <<since, overrides, commands, liveFile, workerVars, install, outsideVars,
                   clash>>

----------------------------------------------------------------------------
(* The worker *)

nothingElse == UNCHANGED <<install, outsideVars, clash>>

Startup ==
    /\ pc = "Down"
    /\ shadow' = overrides
    /\ live' = liveFile
    /\ Goto("Drain")
    /\ UNCHANGED <<tableVars, liveFile, todo>> /\ nothingElse

Drain ==
    /\ pc = "Drain"
    /\ todo' = PendingCommands
    /\ Goto("Command")
    /\ UNCHANGED <<tableVars, liveFile, shadow, live>> /\ nothingElse

\* A bug for the mutants: the newest command first.
NewestFirst(c) == c \in todo /\ \A d \in todo : d <= c

NextCommand(c) == c \in todo /\ \A d \in todo : c <= d

\* A bug for the mutants: the instances are not rebuilt.
KeepInstances(o) == shadow

\* build_instances: the shadow instance runs the overrides there are now.
Instances(o) == o

HandleSetShadow ==
    /\ pc = "Command"
    /\ \E c \in todo :
         /\ NextCommand(c)
         /\ overrides' = commands[c].arg
         /\ shadow' = Instances(commands[c].arg)
    /\ Goto("Finish")
    /\ UNCHANGED <<status, since, commands, liveFile, todo, live>> /\ nothingElse

\* The overrides cannot be written: drain_commands answers "failed".
CommandFails ==
    /\ pc = "Command"
    /\ faults < MaxFaults
    /\ faults' = faults + 1
    /\ clash' = clash \cup {"fault"}
    /\ \E c \in todo :
         /\ NextCommand(c)
         /\ FinishCommand(c, "failed")
         /\ todo' = todo \ {c}
    /\ UNCHANGED <<status, since, overrides, liveFile, pc, shadow, live, install, day,
                   crashes>>

Finish ==
    /\ pc = "Finish"
    /\ \E c \in todo :
         /\ NextCommand(c)
         /\ FinishCommand(c, "done")
         /\ todo' = todo \ {c}
    /\ Goto("Command")
    /\ UNCHANGED <<status, since, overrides, liveFile, shadow, live>> /\ nothingElse

\* A tick that is halted, or not yet due to look at promotions, ends here.
EndDrain ==
    /\ pc = "Command" /\ todo = {}
    /\ \E point \in {"Check", "Drain"} : Goto(point)
    /\ UNCHANGED <<tableVars, liveFile, todo, shadow, live>> /\ nothingElse

\* A bug for the mutants: any set in shadow will do, however new.
AnyTrial(s) == status[s] = "shadow"

\* The newest row in shadow, and whether it has been there long enough.
Served(s) ==
    /\ status[s] = "shadow"
    /\ \A t \in Bundles : status[t] = "shadow" => since[t] <= since[s]
    /\ day - since[s] >= MinDays

\* evaluate_promotion: trades, drift and the bootstrap decide among those that
\* have served.
Evaluate ==
    /\ pc = "Check"
    /\ \/ Goto("Drain") /\ UNCHANGED clash
       \/ /\ \E s \in Bundles : Served(s)
          /\ Goto("Update")
          /\ clash' = clash \cup
                (IF \E a \in Acceptors : ~At(a, "idle") THEN {"promotion"} ELSE {})
    /\ UNCHANGED <<tableVars, liveFile, todo, shadow, live, install, outsideVars>>

\* promote: the overrides of this moment go into the configuration.  A set the
\* configuration refuses ends the check.  Config.update changes its copy first
\* and writes the file only if something changed.
Update ==
    /\ pc = "Update"
    /\ \/ /\ overrides = Nothing
          /\ Goto("Rebuild")
          /\ UNCHANGED <<live, liveFile>>
       \/ /\ overrides # Nothing
          /\ live' = overrides
          /\ liveFile' = IF live = overrides THEN liveFile ELSE overrides
          /\ Goto("MarkPromoted")
       \/ /\ overrides # Nothing
          /\ Goto("Drain")
          /\ UNCHANGED <<live, liveFile>>
    /\ UNCHANGED <<tableVars, todo, shadow>> /\ nothingElse

MarkPromoted ==
    /\ pc = "MarkPromoted"
    /\ status' = [s \in Bundles |-> IF status[s] = "shadow" THEN "promoted" ELSE status[s]]
    /\ Goto("Clear")
    /\ UNCHANGED <<since, overrides, commands, liveFile, todo, shadow, live>> /\ nothingElse

\* A bug for the mutants: the set that is live now stays in shadow.
KeepOverrides == UNCHANGED overrides

ClearOverrides == overrides' = Nothing

Clear ==
    /\ pc = "Clear"
    /\ ClearOverrides
    /\ Goto("QueueClear")
    /\ UNCHANGED <<status, since, commands, liveFile, todo, shadow, live>> /\ nothingElse

QueueClear ==
    /\ pc = "QueueClear"
    /\ Enqueue("set_shadow", Nothing)
    /\ Goto("Rebuild")
    /\ UNCHANGED <<status, since, overrides, liveFile, todo, shadow, live>> /\ nothingElse

Rebuild ==
    /\ pc = "Rebuild"
    /\ shadow' = Instances(overrides)
    /\ Goto("Drain")
    /\ UNCHANGED <<tableVars, liveFile, todo, live>> /\ nothingElse

\* A write of promote fails; _check_promotion logs it and the worker goes on.
\* When it is the file that cannot be written, the copy has changed already.
PromotionFails ==
    /\ pc \in Promoting \ {"Rebuild"}
    /\ faults < MaxFaults
    /\ faults' = faults + 1
    /\ clash' = clash \cup {"fault"}
    /\ live' = IF pc = "Update" /\ overrides # Nothing THEN overrides ELSE live
    /\ Goto("Drain")
    /\ UNCHANGED <<tableVars, liveFile, todo, shadow, install, day, crashes>>

Crash ==
    /\ pc # "Down"
    /\ crashes < MaxCrashes
    /\ crashes' = crashes + 1
    /\ Goto("Down")
    /\ todo' = {} /\ shadow' = Nothing /\ live' = Nothing
    /\ install' = [a \in Acceptors |-> IF a = "daily" THEN Idle ELSE install[a]]
    /\ clash' = clash \cup
          (IF pc \in Promoting \/ install' # install THEN {"fault"} ELSE {})
    /\ UNCHANGED <<tableVars, liveFile, day, faults>>

\* A day is long: installs, promotions and queued commands do not outlast it
\* while the worker runs.
NextDay ==
    /\ day < MaxDay
    /\ \A a \in Acceptors : At(a, "idle")
    /\ pc = "Down" \/ (pc = "Drain" /\ PendingCommands = {})
    /\ day' = day + 1
    /\ UNCHANGED <<tableVars, liveFile, workerVars, install, crashes, faults, clash>>

----------------------------------------------------------------------------

Acceptor(a) ==
    Accept(a) \/ SetOverrides(a) \/ Supersede(a) \/ Mark(a) \/ Queue(a) \/ AcceptorDies(a)

Worker ==
    \/ Startup \/ Drain \/ HandleSetShadow \/ Finish \/ EndDrain \/ Evaluate \/ Update
    \/ MarkPromoted \/ Clear \/ QueueClear \/ Rebuild \/ Prune \/ CommandFails
    \/ PromotionFails \/ Crash

Next ==
    \/ \E a \in Acceptors : Acceptor(a)
    \/ Worker
    \/ Review \/ SaveShadow \/ NextDay

Spec == Init /\ [][Next]_vars

----------------------------------------------------------------------------
(* Properties *)

TypeOK ==
    /\ status \in [Bundles -> Statuses]
    /\ since \in [Bundles -> Nat]
    /\ {overrides, liveFile, shadow, live} \subseteq Sets \cup {Nothing}
    /\ QueueTypeOK
    /\ \A c \in DOMAIN commands : commands[c].arg \in Sets \cup {Nothing}
    /\ pc \in Points
    /\ todo \subseteq DOMAIN commands
    /\ install \in [Acceptors -> [at : Steps, set : Bundles \cup {Nothing}]]
    /\ \A a \in Acceptors : ~At(a, "idle") => install[a].set \in Bundles
    /\ {day, crashes, faults} \subseteq Nat
    /\ clash \subseteq Clashes

\* Nothing is under way: no install, no command, no promotion.
Quiet ==
    /\ pc = "Drain" /\ PendingCommands = {}
    /\ \A a \in Acceptors : At(a, "idle")

(* A half-old, half-new trial was never tested as a set (install_shadow):  *)
(* at most one bundle is in shadow, through promotions, failed installs    *)
(* and restarts; only two installs at once can part this.                  *)
OneInShadow ==
    "installs" \notin clash =>
        \A s, t \in Bundles : status[s] = "shadow" /\ status[t] = "shadow" => s = t

(* Whatever order installs, promotions, proposals and restarts write the   *)
(* overrides in, the shadow instance ends up running the ones on record.   *)
ShadowFollowsOverrides ==
    Quiet /\ "fault" \notin clash => shadow = overrides

(* promote: leaving the overrides in place "would mean the shadow instance *)
(* carried on testing the set that is now live": once it is quiet it tests *)
(* something else or nothing, also with commands handled twice and with    *)
(* proposals at any moment.  An install that met the promotion parts this, *)
(* and so do two installs at once: the set that goes live may then be the  *)
(* superseded one, which can be pruned, arrive once more and be tried.     *)
ShadowIsNotLive ==
    Quiet /\ clash \subseteq {"proposal"} => shadow = Nothing \/ shadow # live

(* The bundle whose days are being counted is the one that runs: row and   *)
(* instance agree when bundles are the only source of shadow sets and no   *)
(* install met another one or a promotion.                                 *)
TrialIsRun ==
    Quiet /\ clash = {} => \A s \in Bundles : status[s] = "shadow" <=> shadow = s

(* Without such an encounter what goes live is the set that served.        *)
PromotedServed ==
    [][clash = {} /\ liveFile' # liveFile => Served(liveFile')]_vars

(* README: "Nothing a review proposes is ever applied to live."            *)
ReviewNeverLive == liveFile \notin Reviews

(***************************************************************************)
(* The rows implement Trials: whatever is installed, promoted, pruned or   *)
(* interrupted at once, a set passes through its stages in order and a     *)
(* promoted one is never tried again.                                      *)
(************************************************************************)
Stages == INSTANCE Trials WITH stage <- status

ImplementsTrials == Stages!Spec
----------------------------------------------------------------------------
(* What makes the above inductive. *)

\* An install that has not marked its row owns it, and two installs never own
\* the same row.
Installing(a) == install[a].at \in {"SetOverrides", "Supersede", "Mark"}

InstallInv ==
    /\ \A a \in Acceptors : Installing(a) => status[install[a].set] = "pending"
    /\ \A a, b \in Acceptors :
          a # b /\ Installing(a) /\ Installing(b) => install[a].set # install[b].set

\* Where a row is about to be marked no other is in shadow.
MarkInv ==
    "installs" \notin clash =>
        /\ \A a, b \in Acceptors : a # b => At(a, "idle") \/ At(b, "idle")
        /\ \A a \in Acceptors, s \in Bundles : At(a, "Mark") => status[s] # "shadow"

PInv == TypeOK /\ InstallInv

\* Commands are handled in the order of their ids: what is pending is a tail
\* of the queue, and the worker's snapshot is a head of what is pending.
QueueInv ==
    /\ todo \subseteq PendingCommands
    /\ \A c \in PendingCommands, d \in DOMAIN commands : c < d => d \in PendingCommands
    /\ \A c \in PendingCommands, d \in todo : c < d => c \in todo
    /\ pc \notin {"Command", "Finish"} => todo = {}

LastArg == IF commands = << >> THEN Nothing ELSE commands[Len(commands)].arg

\* The command has had its effect.
Handled(c) == commands[c].status # "pending" \/ (pc = "Finish" /\ NextCommand(c))

\* An install has written the overrides and not said so yet.
Unsent(a) == install[a].at \in {"Supersede", "Mark", "Queue"}

\* With nothing left to say or to handle, record and instance are what the
\* last command said.
SettledInv ==
    /\ "fault" \notin clash /\ pc # "QueueClear" /\ \A a \in Acceptors : ~Unsent(a)
    /\ commands = << >> \/ Handled(Len(commands))
    => overrides = LastArg /\ (pc # "Down" => shadow = LastArg)

\* x is the set whose row is in shadow; or there is no such row.
OnTrial(x) == \A s \in Bundles : status[s] = "shadow" <=> s = x

\* The last command names the set on trial, but for the installs and the
\* promotion that are about to queue the next one.
TrialInv ==
    clash = {} =>
        /\ pc \in {"Clear", "QueueClear"} => OnTrial(Nothing)
        /\ \A a \in Acceptors : /\ At(a, "Mark") => OnTrial(Nothing)
                                /\ At(a, "Queue") => OnTrial(install[a].set)
        /\ \/ pc \in {"Clear", "QueueClear"}
           \/ \E a \in Acceptors : At(a, "Mark") \/ At(a, "Queue")
           \/ OnTrial(LastArg)

Proposals == {"proposal"}

\* No install is under way in a promotion, and only proposals name reviews.
ApartInv ==
    /\ clash \subseteq Proposals /\ pc \in Promoting => \A a \in Acceptors : At(a, "idle")
    /\ clash = {} =>
          overrides \notin Reviews /\ \A c \in DOMAIN commands : commands[c].arg \notin Reviews

\* What was queued after the snapshot was taken was marked today.
TodayInv ==
    /\ \A a \in Acceptors : At(a, "Queue") => since[install[a].set] = day
    /\ pc \notin {"Down", "Drain"} =>
          \A c \in PendingCommands \ todo :
              commands[c].arg \in Bundles => since[commands[c].arg] = day

\* No command after d names a bundle.
Latest(d, s) ==
    /\ d \in DOMAIN commands /\ commands[d].arg = s
    /\ \A e \in DOMAIN commands : d < e => commands[e].arg \notin Bundles

\* The set on trial is the last bundle that was queued, and once that command
\* is handled no other bundle is in the overrides.
LatestInv ==
    clash \subseteq Proposals =>
        /\ \A a \in Acceptors : At(a, "Queue") => status[install[a].set] = "shadow"
        /\ \A s \in Bundles : status[s] = "shadow" =>
              \/ \E a \in Acceptors : At(a, "Queue")
              \/ \E d \in DOMAIN commands :
                    /\ Latest(d, s)
                    /\ \/ ~Handled(d)
                       \/ \E a \in Acceptors : Unsent(a)
                       \/ overrides \in Bundles => overrides = s

ServedInv ==
    clash \subseteq Proposals /\ pc = "Update" /\ overrides \in Bundles => Served(overrides)

\* A bundle that is live has been promoted, and the last command does not name
\* the live set, save while a promotion has still to queue the empty one.
LiveInv ==
    clash \subseteq Proposals =>
        /\ pc # "Down" => live = liveFile
        /\ \/ liveFile \notin Bundles
           \/ status[liveFile] = "promoted"
           \/ pc = "MarkPromoted" /\ status[liveFile] = "shadow"
        /\ \/ pc \in {"MarkPromoted", "Clear", "QueueClear"}
           \/ LastArg = Nothing \/ LastArg # liveFile
=============================================================================
