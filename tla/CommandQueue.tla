---------------------------- MODULE CommandQueue ----------------------------
(***************************************************************************)
(* The SQLite command queue between the dashboard and the worker           *)
(* (solbot/db.py: enqueue_command, pending_commands, finish_command).      *)
(* Rows are only appended, with increasing ids, and only change status.    *)
(***************************************************************************)
EXTENDS Integers, Sequences

CONSTANT Ops                \* the commands in use

VARIABLE commands           \* commands[id] = [op, arg, status]

CommandRow ==
    [op : Ops, arg : Nat, status : {"pending", "done", "failed"}]

QueueInit == commands = << >>

QueueTypeOK == commands \in Seq(CommandRow)

Enqueue(op, arg) ==
    commands' = Append(commands, [op |-> op, arg |-> arg, status |-> "pending"])

PendingCommands == {c \in DOMAIN commands : commands[c].status = "pending"}

\* A bug for the mutants: the answer is never written.
NeverAnswered(c, status) == UNCHANGED commands

FinishCommand(c, status) == commands' = [commands EXCEPT ![c].status = status]
=============================================================================
