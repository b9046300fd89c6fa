------------------------------ MODULE ConfigFile ------------------------------
(***************************************************************************)
(* config.json and the copies of it that processes hold (config.Config):   *)
(* the worker, which looks for a new file every tick, the web processes,   *)
(* which never do, and the command line, which alone changes the mode.     *)
(* A save validates against the process's own copy, changes that copy, and *)
(* writes all of it through one temporary file the processes share.        *)
(***************************************************************************)
EXTENDS Integers, FiniteSetsExt, Functions

CONSTANTS
    Webs,           \* the gunicorn workers
    MaxSaves        \* bound on saves

ASSUME ConfigAssumption == MaxSaves \in Nat

Worker == "worker"
Cli == "manage"
Processes == Webs \union {Worker, Cli}

\* Three settings stand for all: the mode, which only the command line may
\* change, and a pair with a rule across it, as ema_fast < ema_slow.
ConfigKeys == {"trading_mode", "fast", "slow"}
Editable == {"fast", "slow"}
Paper == 0
Live == 1
Values == [trading_mode : {Paper, Live}, fast : 1 .. 2, slow : 2 .. 3]
Defaults == [trading_mode |-> Paper, fast |-> 1, slow |-> 2]

Empty == [torn |-> FALSE]       \* a file that was truncated
Torn == [torn |-> TRUE]         \* one text over the end of a longer one
Texts == Values \union {Empty, Torn}

NoInode == 0
Inodes == 1 .. MaxSaves + 1     \* files there may be: config.json and one per save

VARIABLES
    text,       \* what an inode holds
    stamp,      \* when it was last written, its st_mtime
    config,     \* the inode named config.json
    tmp,        \* the inode named config.json.tmp, or NoInode
    values,     \* Config._values of a process
    mtime,      \* Config._mtime of the worker; no other process asks for it
    point,      \* where a process is in load or _write
    handle,     \* the inode it has open
    saves,      \* counts saves, up to MaxSaves
    accepted,   \* history: values each key was given by an accepted change
    crossed     \* history: the file was edited against the rules across keys

configVars == <<text, stamp, config, tmp, values, mtime, point, handle, saves,
                accepted, crossed>>
fileVars == <<text, stamp, config, tmp>>

WritePoints == {"open", "body", "replace", "stat"}
LoadPoints == {"read", "restat"}

ConfigTypeOK ==
    /\ text \in [Inodes -> Texts]
    /\ stamp \in [Inodes -> Nat]
    /\ config \in Inodes /\ tmp \in Inodes \union {NoInode}
    /\ values \in [Processes -> Values]
    /\ mtime \in Nat
    /\ point \in [Processes -> {"idle", "gone"} \union WritePoints \union LoadPoints]
    /\ handle \in [Processes -> Inodes \union {NoInode}]
    /\ saves \in 0 .. MaxSaves
    /\ accepted \in [ConfigKeys -> SUBSET (0 .. 3)]
    /\ crossed \in BOOLEAN

ConfigInit ==
    /\ text = [i \in Inodes |-> IF i = 1 THEN Defaults ELSE Empty]
    /\ stamp = [i \in Inodes |-> IF i = 1 THEN 1 ELSE 0]
    /\ config = 1 /\ tmp = NoInode
    /\ values = [p \in Processes |-> Defaults]
    /\ mtime = 1
    /\ point = [p \in Processes |-> "idle"]
    /\ handle = [p \in Processes |-> NoInode]
    /\ saves = 0
    /\ accepted = [k \in ConfigKeys |-> {Defaults[k]}]
    /\ crossed = FALSE

\* No write of a file has the time stamp of another.
Later == 1 + Max(Range(stamp))

Rules(v) == v.fast < v.slow

\* What load makes of the text: defaults where it cannot be parsed.
Loaded(t) == IF t \in Values THEN t ELSE Defaults

Step(p, from, to) == point[p] = from /\ point' = [point EXCEPT ![p] = to]

----------------------------------------------------------------------------
(* Saving: Config.update, set_trading_mode, _write *)

\* A bug for the mutants: the rules are asked of the change on its own.
ValidateAlone(v, change) == Rules([Defaults EXCEPT ![change.key] = change.value])

Validate(v, change) == Rules([v EXCEPT ![change.key] = change.value])

Changes == [key : {"trading_mode"}, value : {Live}]
           \union [key : {"fast"}, value : 1 .. 2]
           \union [key : {"slow"}, value : 2 .. 3]

\* update: the copy changes before anything is written.
Update(p, change) ==
    /\ p = Cli <=> change.key \notin Editable
    /\ saves < MaxSaves
    /\ Validate(values[p], change)
    /\ values[p][change.key] # change.value
    /\ Step(p, "idle", "open")
    /\ values' = [values EXCEPT ![p][change.key] = change.value]
    /\ accepted' = [accepted EXCEPT ![change.key] = @ \union {change.value}]
    /\ saves' = saves + 1
    /\ UNCHANGED <<fileVars, mtime, handle, crossed>>

Named == {config, tmp} \union {handle[p] : p \in Processes}

\* write_text opens the temporary file, the one another process has just made
\* or a new inode, and truncates it.
OpenTemporary(p) ==
    \E i \in Inodes :
        /\ IF tmp # NoInode THEN i = tmp
           ELSE i \notin Named /\ \A j \in 1 .. i - 1 : j \in Named
        /\ Step(p, "open", "body")
        /\ tmp' = i
        /\ handle' = [handle EXCEPT ![p] = i]
        /\ text' = [text EXCEPT ![i] = Empty]
        /\ stamp' = [stamp EXCEPT ![i] = Later]
        /\ UNCHANGED <<config, values, mtime, saves, accepted, crossed>>

\* The text goes to the inode that was opened, whatever its name is by now;
\* over another text it may be the shorter one.
WriteText(p) ==
    /\ Step(p, "body", "replace")
    /\ \E t \in {values[p]} \union IF text[handle[p]] = Empty THEN {} ELSE {Torn} :
         text' = [text EXCEPT ![handle[p]] = t]
    /\ stamp' = [stamp EXCEPT ![handle[p]] = Later]
    /\ handle' = [handle EXCEPT ![p] = NoInode]
    /\ UNCHANGED <<config, tmp, values, mtime, saves, accepted, crossed>>

Replace(p) ==
    /\ tmp # NoInode
    /\ Step(p, "replace", "stat")
    /\ config' = tmp /\ tmp' = NoInode
    /\ UNCHANGED <<text, stamp, values, mtime, handle, saves, accepted, crossed>>

\* Another process has renamed the temporary file: FileNotFoundError, and the
\* caller fails with its copy changed.
ReplaceFails(p) ==
    /\ tmp = NoInode
    /\ Step(p, "replace", IF p = Cli THEN "gone" ELSE "idle")
    /\ UNCHANGED <<fileVars, values, mtime, handle, saves, accepted, crossed>>

\* The disk refuses the temporary file: OSError, as above.
WriteFails(p) ==
    /\ Step(p, "open", IF p = Cli THEN "gone" ELSE "idle")
    /\ UNCHANGED <<fileVars, values, mtime, handle, saves, accepted, crossed>>

StatWritten(p) ==
    /\ Step(p, "stat", IF p = Cli THEN "gone" ELSE "idle")
    /\ mtime' = IF p = Worker THEN stamp[config] ELSE mtime
    /\ UNCHANGED <<fileVars, values, handle, saves, accepted, crossed>>

----------------------------------------------------------------------------
(* Reading: Config.load and maybe_reload *)

Load == Loaded(text[config])

\* The worker, every tick: a newer file is read in one step ...
MaybeReload ==
    /\ stamp[config] > mtime
    /\ Step(Worker, "idle", "restat")
    /\ values' = [values EXCEPT ![Worker] = Load]
    /\ UNCHANGED <<fileVars, mtime, handle, saves, accepted, crossed>>

\* ... and asked for its time in the next.
StatLoaded(p) ==
    /\ Step(p, "restat", "idle")
    /\ mtime' = IF p = Worker THEN stamp[config] ELSE mtime
    /\ UNCHANGED <<fileVars, values, handle, saves, accepted, crossed>>

\* A process dies between any two steps; a service is started again.
Killed(p) ==
    /\ point[p] # "gone"
    /\ point' = [point EXCEPT ![p] = IF p = Cli THEN "gone" ELSE "read"]
    /\ handle' = [handle EXCEPT ![p] = NoInode]
    /\ UNCHANGED <<fileVars, values, mtime, saves, accepted, crossed>>

\* Config.__init__ loads.
Started(p) ==
    /\ Step(p, "read", "restat")
    /\ values' = [values EXCEPT ![p] = Load]
    /\ UNCHANGED <<fileVars, mtime, handle, saves, accepted, crossed>>

\* Somebody edits the file: each key within its bounds, nothing across them.
EditByHand(v) ==
    /\ saves < MaxSaves
    /\ saves' = saves + 1
    /\ text' = [text EXCEPT ![config] = v]
    /\ stamp' = [stamp EXCEPT ![config] = Later]
    /\ crossed' = (crossed \/ ~Rules(v))
    /\ accepted' = [k \in ConfigKeys |-> accepted[k] \union {v[k]}]
    /\ UNCHANGED <<config, tmp, values, mtime, point, handle>>

ConfigNext ==
    \/ \E p \in Processes :
         \/ \E change \in Changes : Update(p, change)
         \/ OpenTemporary(p) \/ WriteText(p) \/ Replace(p) \/ ReplaceFails(p)
         \/ WriteFails(p) \/ StatWritten(p) \/ StatLoaded(p)
         \/ Killed(p) \/ Started(p)
    \/ MaybeReload
    \/ \E v \in Values : EditByHand(v)

ConfigSpec == ConfigInit /\ [][ConfigNext]_configVars

----------------------------------------------------------------------------

\* However the saves of several processes interleave over the one temporary
\* file, whatever half-written text is read back and whoever dies in between,
\* no process runs with settings that break a rule across them, which validate
\* asks only of the process's own copy, unless somebody put such a file there
\* by hand, nor with a value nobody was allowed to set: live above all.
SettingsCohere ==
    \A p \in Processes :
        /\ crossed \/ Rules(values[p])
        /\ \A k \in ConfigKeys : values[p][k] \in accepted[k]
=============================================================================
