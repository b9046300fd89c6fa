---------------------------- MODULE PromotionProofs ----------------------------
(***************************************************************************)
(* What TLAPS checks about Promotion, for all sets, acceptors and bounds.  *)
(***************************************************************************)
EXTENDS Promotion, FoldProofs

USE PromotionAssumption

----------------------------------------------------------------------------
(* The command queue *)

LEMMA FinishCommandLemma ==
    ASSUME QueueTypeOK, NEW c \in DOMAIN commands, NEW answer \in {"done", "failed"},
           FinishCommand(c, answer)
    PROVE  /\ QueueTypeOK'
           /\ DOMAIN commands' = DOMAIN commands
           /\ \A d \in DOMAIN commands : d # c => commands'[d] = commands[d]
           /\ commands'[c].status = answer
           /\ commands'[c].arg = commands[c].arg
  <1> DEFINE row == [commands[c] EXCEPT !.status = answer]
  <1>1. commands \in Seq(CommandRow)
    BY DEF QueueTypeOK
  <1>2. commands[c] \in CommandRow
    BY <1>1, LenProperties, ElementOfSeq
  <1>3. row \in CommandRow /\ row.status = answer /\ row.arg = commands[c].arg
    BY <1>2 DEF CommandRow
  <1>4. commands' = [commands EXCEPT ![c] = row]
    BY DEF FinishCommand
  <1> HIDE DEF row
  <1>5. QED
    BY <1>1, <1>3, <1>4, UpdateLemma DEF QueueTypeOK

LEMMA EnqueueLemma ==
    ASSUME QueueTypeOK, NEW op \in Ops, NEW arg \in Nat, Enqueue(op, arg)
    PROVE  /\ QueueTypeOK'
           /\ DOMAIN commands' = DOMAIN commands \cup {Len(commands) + 1}
           /\ Len(commands) + 1 \notin DOMAIN commands
           /\ \A d \in DOMAIN commands :
                 commands'[d] = commands[d] /\ d < Len(commands) + 1
           /\ commands'[Len(commands) + 1].status = "pending"
           /\ commands'[Len(commands) + 1].arg = arg
  <1> DEFINE row == [op |-> op, arg |-> arg, status |-> "pending"]
  <1>1. commands \in Seq(CommandRow) /\ row \in CommandRow
    BY DEF QueueTypeOK, CommandRow
  <1>2. commands' = Append(commands, row)
    BY DEF Enqueue
  <1>3. row.status = "pending" /\ row.arg = arg
    OBVIOUS
  <1> HIDE DEF row
  <1>4. /\ Append(commands, row) \in Seq(CommandRow)
        /\ DOMAIN Append(commands, row) = DOMAIN commands \cup {Len(commands) + 1}
        /\ Len(commands) + 1 \notin DOMAIN commands
        /\ \A k \in DOMAIN commands :
              Append(commands, row)[k] = commands[k] /\ k < Len(commands) + 1
        /\ Append(commands, row)[Len(commands) + 1] = row
    BY <1>1, AppendLemma
  <1>5. QED
    BY <1>2, <1>3, <1>4 DEF QueueTypeOK

----------------------------------------------------------------------------
(* Types *)

\* The queue keeps holding set_shadow commands about known sets.
ArgsOK == \A c \in DOMAIN commands : commands[c].arg \in Sets \cup {Nothing}

QueueOK == QueueTypeOK /\ ArgsOK /\ todo \subseteq DOMAIN commands

LEMMA QueueStep == TypeOK /\ [Next]_vars => QueueOK'
  <1> SUFFICES ASSUME TypeOK, [Next]_vars
               PROVE  QueueOK'
    OBVIOUS
  <1>0. QueueTypeOK /\ ArgsOK /\ todo \subseteq DOMAIN commands
    BY DEF TypeOK, ArgsOK
  <1>1. ASSUME NEW s \in Sets \cup {Nothing}, Enqueue("set_shadow", s), UNCHANGED todo
        PROVE  QueueOK'
    <2>1. s \in Nat
      BY DEF Sets, Nothing
    <2>2. /\ QueueTypeOK'
          /\ DOMAIN commands' = DOMAIN commands \cup {Len(commands) + 1}
          /\ \A d \in DOMAIN commands : commands'[d] = commands[d]
          /\ commands'[Len(commands) + 1].arg = s
      BY <1>0, <1>1, <2>1, EnqueueLemma
    <2>3. QED
      BY <1>0, <1>1, <2>2 DEF QueueOK, ArgsOK
  <1>2. ASSUME NEW c \in todo, NEW answer \in {"done", "failed"},
               FinishCommand(c, answer), todo' \subseteq todo
        PROVE  QueueOK'
    <2>1. c \in DOMAIN commands
      BY <1>0
    <2>2. /\ QueueTypeOK'
          /\ DOMAIN commands' = DOMAIN commands
          /\ \A d \in DOMAIN commands : d # c => commands'[d] = commands[d]
          /\ commands'[c].arg = commands[c].arg
      BY <1>0, <1>2, <2>1, FinishCommandLemma
    <2>3. QED
      BY <1>0, <1>2, <2>2 DEF QueueOK, ArgsOK
  <1>3. CASE UNCHANGED <<commands, todo>>
    BY <1>0, <1>3 DEF QueueOK, QueueTypeOK, ArgsOK
  <1>4. CASE Drain
    BY <1>0, <1>4 DEF QueueOK, QueueTypeOK, ArgsOK, Drain, tableVars, PendingCommands
  <1>5. CASE Crash
    BY <1>0, <1>5 DEF QueueOK, QueueTypeOK, ArgsOK, Crash, tableVars
  <1>6. CASE Finish
    BY <1>2, <1>6 DEF Finish
  <1>7. CASE CommandFails
    BY <1>2, <1>7 DEF CommandFails
  <1>8. CASE \E a \in Acceptors : Queue(a)
    BY <1>1, <1>8 DEF Queue, QueueShadow, NextStep, workerVars, TypeOK, Sets, At
  <1>9. CASE Review \/ SaveShadow \/ QueueClear
    BY <1>1, <1>9 DEF Review, SaveShadow, QueueClear, QueueShadow, workerVars, Sets
  <1>10. QED
    BY <1>3, <1>4, <1>5, <1>6, <1>7, <1>8, <1>9
    DEF Next, Acceptor, Worker, Accept, SetOverrides, Supersede, Mark, NextStep,
        AcceptorDies, Prune, Startup, HandleSetShadow, EndDrain, Evaluate, Update,
        MarkPromoted, Clear, Rebuild, PromotionFails, NextDay, tableVars, workerVars, vars

LEMMA TypeStep == TypeOK /\ [Next]_vars => TypeOK'
  <1> SUFFICES ASSUME TypeOK, [Next]_vars
               PROVE  TypeOK'
    OBVIOUS
  <1>0. QueueTypeOK' /\ ArgsOK' /\ todo' \subseteq DOMAIN commands'
    BY QueueStep DEF QueueOK
  <1> USE DEF TypeOK, ArgsOK, Sets
  <1>1. CASE \E a \in Acceptors : Accept(a)
    BY <1>0, <1>1 DEF Accept, Statuses, Steps, Coincidence, Clashes, At, workerVars, outsideVars
  <1>2. CASE \E a \in Acceptors : SetOverrides(a)
    BY <1>0, <1>2 DEF SetOverrides, NextStep, Steps, Coincidence, Clashes, At, workerVars,
       outsideVars
  <1>3. CASE \E a \in Acceptors : Supersede(a)
    BY <1>0, <1>3 DEF Supersede, SupersedeOthers, Statuses, NextStep, Steps, Coincidence, Clashes,
       At, workerVars, outsideVars
  <1>4. CASE \E a \in Acceptors : Mark(a)
    BY <1>0, <1>4 DEF Mark, Statuses, NextStep, Steps, Coincidence, Clashes, At, workerVars,
       outsideVars
  <1>5. CASE \E a \in Acceptors : Queue(a) \/ AcceptorDies(a)
    BY <1>0, <1>5 DEF Queue, AcceptorDies, NextStep, Idle, Steps, Coincidence, Clashes, At,
       tableVars, workerVars, outsideVars
  <1>6. CASE Startup \/ Drain \/ EndDrain \/ Rebuild
    BY <1>0, <1>6 DEF Startup, Drain, EndDrain, Rebuild, Instances, nothingElse, tableVars, Goto,
       Points, Promoting, At, outsideVars
  <1>7. CASE HandleSetShadow
    <2>1. PICK c \in todo : overrides' = commands[c].arg /\ shadow' = commands[c].arg
      BY <1>7 DEF HandleSetShadow, Instances
    <2>2. commands[c].arg \in Sets \cup {Nothing}
      BY <2>1
    <2>3. QED
      BY <1>0, <1>7, <2>1, <2>2 DEF HandleSetShadow, nothingElse, Goto, Points, At, outsideVars
  <1>0a. day \in Nat /\ crashes \in Nat /\ faults \in Nat
    OBVIOUS
  <1>8. CASE Finish \/ CommandFails
    <2>1. CASE Finish
      BY <1>0, <2>1 DEF Finish, nothingElse, Goto, Points, At, outsideVars
    <2>2. CASE CommandFails
      <3>1. faults' \in Nat /\ clash' \subseteq Clashes
        BY <1>0a, <2>2 DEF CommandFails, Clashes
      <3>2. QED
        BY <1>0, <2>2, <3>1 DEF CommandFails, At
    <2>3. QED
      BY <1>8, <2>1, <2>2
  <1>9. CASE Evaluate
    BY <1>0, <1>9 DEF Evaluate, nothingElse, tableVars, Goto, Points, Promoting, At, outsideVars,
       Clashes
  <1>10. CASE Update
    BY <1>0, <1>10 DEF Update, nothingElse, tableVars, Goto, Points, Promoting, At, outsideVars
  <1>11. CASE MarkPromoted
    BY <1>0, <1>11 DEF MarkPromoted, Statuses, nothingElse, Goto, Points, Promoting, At,
       outsideVars
  <1>12. CASE Clear \/ QueueClear
    BY <1>0, <1>12 DEF Clear, ClearOverrides, QueueClear, nothingElse, Goto, Points, Promoting,
       At, outsideVars
  <1>13. CASE Prune
    BY <1>0, <1>13 DEF Prune, Statuses, workerVars, outsideVars, At
  <1>14. CASE PromotionFails \/ Crash
    <2>1. CASE PromotionFails
      <3>1. faults' \in Nat /\ clash' \subseteq Clashes
        BY <1>0a, <2>1 DEF PromotionFails, Clashes
      <3>2. pc' \in Points /\ live' \in Sets \cup {Nothing}
        BY <2>1 DEF PromotionFails, Goto, Points
      <3>3. QED
        BY <1>0, <2>1, <3>1, <3>2 DEF PromotionFails, tableVars, At
    <2>2. CASE Crash
      <3>1. crashes' \in Nat /\ clash' \subseteq Clashes
        BY <1>0a, <2>2 DEF Crash, Clashes
      <3>2. /\ install' \in [Acceptors -> [at : Steps, set : Bundles \cup {Nothing}]]
            /\ \A a \in Acceptors : install'[a].at # "idle" => install'[a].set \in Bundles
        BY <2>2 DEF Crash, Idle, Steps, At
      <3>3. QED
        BY <1>0, <2>2, <3>1, <3>2 DEF Crash, tableVars, Goto, Points, At
    <2>3. QED
      BY <1>14, <2>1, <2>2
  <1>15. CASE Review \/ SaveShadow \/ NextDay
    <2>1. CASE Review \/ SaveShadow
      BY <1>0, <2>1 DEF Review, SaveShadow, workerVars, outsideVars, At, Clashes
    <2>2. CASE NextDay
      <3>1. day' \in Nat
        BY <1>0a, <2>2 DEF NextDay
      <3>2. QED
        BY <1>0, <2>2, <3>1 DEF NextDay, tableVars, workerVars, At
    <2>3. QED
      BY <1>15, <2>1, <2>2
  <1>16. CASE UNCHANGED vars
    BY <1>0, <1>16 DEF vars, tableVars, workerVars, outsideVars, At
  <1>17. QED
    BY <1>1, <1>2, <1>3, <1>4, <1>5, <1>6, <1>7, <1>8, <1>9, <1>10, <1>11, <1>12, <1>13, <1>14,
       <1>15, <1>16 DEF Next, Acceptor, Worker

----------------------------------------------------------------------------
(* Installs *)

\* Every step but these leaves the rows and the installs alone.
LEMMA RowWriters ==
    ASSUME [Next]_vars
    PROVE  \/ \E a \in Acceptors : \/ Accept(a) \/ SetOverrides(a) \/ Supersede(a)
                                    \/ Mark(a) \/ Queue(a) \/ AcceptorDies(a)
           \/ MarkPromoted \/ Prune \/ Crash
           \/ UNCHANGED <<status, install>> /\ clash \subseteq clash'
  BY DEF Next, Acceptor, Worker, Review, SaveShadow, NextDay, Startup, Drain, HandleSetShadow,
     Finish, EndDrain, Evaluate, Update, Clear, QueueClear, Rebuild, CommandFails,
     PromotionFails, nothingElse, tableVars, vars

LEMMA InstallStep == TypeOK /\ InstallInv /\ [Next]_vars => InstallInv'
  <1> SUFFICES ASSUME TypeOK, InstallInv, [Next]_vars
               PROVE  InstallInv'
    OBVIOUS
  <1>0. /\ status \in [Bundles -> Statuses]
        /\ install \in [Acceptors -> [at : Steps, set : Bundles \cup {Nothing}]]
        /\ \A a \in Acceptors : install[a].at # "idle" => install[a].set \in Bundles
        /\ 0 \notin Bundles
    BY DEF TypeOK, At
  <1> USE DEF InstallInv, Installing
  <1>1. CASE \E a \in Acceptors : Accept(a)
    BY <1>0, <1>1 DEF Accept, Fresh, At
  <1>2. CASE \E a \in Acceptors : SetOverrides(a) \/ Queue(a)
    BY <1>0, <1>2 DEF SetOverrides, Queue, NextStep, At, Idle
  <1>3. CASE \E a \in Acceptors : Supersede(a)
    BY <1>0, <1>3 DEF Supersede, SupersedeOthers, NextStep, At
  <1>4. CASE \E a \in Acceptors : Mark(a)
    BY <1>0, <1>4 DEF Mark, NextStep, At
  <1>5. CASE (\E a \in Acceptors : AcceptorDies(a)) \/ Crash
    BY <1>0, <1>5 DEF AcceptorDies, Crash, Idle, At, tableVars
  <1>6. CASE MarkPromoted
    BY <1>0, <1>6 DEF MarkPromoted, nothingElse
  <1>7. CASE Prune
    BY <1>0, <1>7 DEF Prune
  <1>8. CASE UNCHANGED <<status, install>>
    BY <1>8
  <1>9. QED
    BY <1>1, <1>2, <1>3, <1>4, <1>5, <1>6, <1>7, <1>8, RowWriters

LEMMA MarkStep ==
    TypeOK /\ InstallInv /\ MarkInv /\ OneInShadow /\ [Next]_vars
        => MarkInv' /\ OneInShadow'
  <1> SUFFICES ASSUME TypeOK, InstallInv, MarkInv, OneInShadow, [Next]_vars,
                      "installs" \notin clash'
               PROVE  MarkInv' /\ OneInShadow'
    BY DEF MarkInv, OneInShadow
  <1>0. /\ status \in [Bundles -> Statuses]
        /\ install \in [Acceptors -> [at : Steps, set : Bundles \cup {Nothing}]]
        /\ \A a \in Acceptors : install[a].at # "idle" => install[a].set \in Bundles
        /\ 0 \notin Bundles
    BY DEF TypeOK, At
  <1>1. clash \subseteq clash'
    BY RowWriters DEF Accept, SetOverrides, Supersede, Mark, Queue, NextStep, AcceptorDies,
       MarkPromoted, Prune, Crash, nothingElse
  <1>2. /\ \A a, b \in Acceptors : a # b => At(a, "idle") \/ At(b, "idle")
        /\ \A a \in Acceptors, s \in Bundles : At(a, "Mark") => status[s] # "shadow"
        /\ \A s, t \in Bundles : status[s] = "shadow" /\ status[t] = "shadow" => s = t
    BY <1>1 DEF MarkInv, OneInShadow
  <1> USE DEF MarkInv, OneInShadow, At
  <1>3. CASE \E a \in Acceptors : Accept(a)
    BY <1>0, <1>2, <1>3 DEF Accept, Coincidence, Fresh
  <1>4. CASE \E a \in Acceptors : SetOverrides(a) \/ Queue(a)
    BY <1>0, <1>2, <1>4 DEF SetOverrides, Queue, NextStep, Idle
  <1>5. CASE \E a \in Acceptors : Supersede(a)
    <2>1. PICK a \in Acceptors : Supersede(a)
      BY <1>5
    <2>2. status[install[a].set] = "pending"
      BY <2>1 DEF Supersede, InstallInv, Installing
    <2>3. \A s \in Bundles : status'[s] # "shadow"
      BY <1>0, <2>1, <2>2 DEF Supersede, SupersedeOthers
    <2>4. QED
      BY <1>0, <1>2, <2>1, <2>3 DEF Supersede, NextStep
  <1>6. CASE \E a \in Acceptors : Mark(a)
    BY <1>0, <1>2, <1>6 DEF Mark, NextStep
  <1>7. CASE (\E a \in Acceptors : AcceptorDies(a)) \/ Crash
    BY <1>0, <1>2, <1>7 DEF AcceptorDies, Crash, Idle, tableVars
  <1>8. CASE MarkPromoted
    BY <1>0, <1>2, <1>8 DEF MarkPromoted, nothingElse
  <1>9. CASE Prune
    <2>1. UNCHANGED install /\ \A s \in Bundles : status'[s] = "shadow" => status[s] = "shadow"
      BY <1>0, <1>9 DEF Prune
    <2>2. QED
      BY <1>2, <2>1
  <1>10. CASE UNCHANGED <<status, install>>
    BY <1>2, <1>10
  <1>11. QED
    BY <1>3, <1>4, <1>5, <1>6, <1>7, <1>8, <1>9, <1>10, RowWriters

LEMMA InitLemma == Init => PInv /\ MarkInv /\ OneInShadow
  <1>1. Init => TypeOK
    BY DEF Init, TypeOK, Statuses, QueueInit, QueueTypeOK, Points, Idle, Steps, At, Sets, Clashes
  <1>2. Init => InstallInv /\ MarkInv /\ OneInShadow
    BY DEF Init, InstallInv, Installing, MarkInv, OneInShadow, Idle, At
  <1>3. QED
    BY <1>1, <1>2 DEF PInv

(* Types, and the ownership of rows that are being installed, hold however *)
(* installs, promotions, commands, crashes and failures interleave.        *)
THEOREM Invariance == Spec => []PInv
  <1>1. PInv /\ [Next]_vars => PInv'
    BY TypeStep, InstallStep DEF PInv
  <1>2. QED
    BY <1>1, InitLemma, PTL DEF Spec

(* Every variable keeps its type: the queue holds set_shadow commands about *)
(* known sets, an install under way has a bundle.                           *)
THEOREM TypeCorrect == Spec => []TypeOK
  <1>1. PInv => TypeOK
    BY DEF PInv
  <1>2. QED
    BY <1>1, Invariance, PTL

(* install_shadow replaces the trial wholesale: unless two installs met, at *)
(* most one bundle is in shadow, whatever died or was promoted half way.    *)
THEOREM OneTrial == Spec => []OneInShadow
  <1>1. PInv /\ MarkInv /\ OneInShadow /\ [Next]_vars => (MarkInv /\ OneInShadow)'
    BY MarkStep DEF PInv
  <1>2. Spec => [](MarkInv /\ OneInShadow)
    BY <1>1, InitLemma, Invariance, PTL DEF Spec
  <1>3. QED
    BY <1>2, PTL

----------------------------------------------------------------------------
(* Trials *)

LEMMA StageStep == PInv /\ [Next]_vars => [Stages!Next]_status
  <1> SUFFICES ASSUME PInv, [Next]_vars, status' # status
               PROVE  Stages!Next
    OBVIOUS
  <1>0. /\ status \in [Bundles -> Statuses] /\ status' \in [Bundles -> Statuses]
        /\ InstallInv
        /\ \A a \in Acceptors : install[a].at # "idle" => install[a].set \in Bundles
    BY TypeStep DEF PInv, TypeOK, At
  <1>1. DOMAIN Stages!Successors = Statuses
    BY DEF Stages!Successors, Statuses
  <1>2. SUFFICES \A s \in Bundles : status'[s] # status[s]
                     => status'[s] \in Stages!Successors[status[s]]
    BY <1>0, <1>1 DEF Stages!Next
  <1> USE DEF Stages!Successors
  <1>3. CASE \E a \in Acceptors : Accept(a)
    BY <1>0, <1>3 DEF Accept, Fresh
  <1>4. CASE \E a \in Acceptors : Supersede(a)
    BY <1>0, <1>4 DEF Supersede, SupersedeOthers
  <1>5. CASE \E a \in Acceptors : Mark(a)
    BY <1>0, <1>5 DEF Mark, InstallInv, Installing, At
  <1>6. CASE MarkPromoted
    BY <1>0, <1>6 DEF MarkPromoted
  <1>7. CASE Prune
    BY <1>0, <1>7 DEF Prune
  <1>8. QED
    BY <1>3, <1>4, <1>5, <1>6, <1>7, RowWriters
    DEF SetOverrides, Queue, AcceptorDies, Crash, tableVars

(* Bundles go through their stages in order, a promoted one for good, with *)
(* any number of installs, promotions and prunings half done at once       *)
(* (store_bundle, install_shadow, promote, db.prune).                      *)
THEOREM Implementation == Spec => ImplementsTrials
  <1>1. Init => Stages!Init
    BY DEF Init, Stages!Init
  <1>2. QED
    BY <1>1, StageStep, Invariance, PTL DEF Spec, ImplementsTrials, Stages!Spec

----------------------------------------------------------------------------
(* The order commands are handled in *)

LEMMA Ids ==
    ASSUME TypeOK
    PROVE  /\ Len(commands) \in Nat
           /\ \A c \in DOMAIN commands : c \in Nat /\ c <= Len(commands)
           /\ commands # << >> => Len(commands) \in DOMAIN commands
           /\ LastArg \in Sets \cup {Nothing}
           /\ todo \subseteq DOMAIN commands
  <1>1. commands \in Seq(CommandRow)
    BY DEF TypeOK, QueueTypeOK
  <1>2. /\ Len(commands) \in Nat /\ DOMAIN commands = 1 .. Len(commands)
        /\ commands # << >> => Len(commands) # 0
    BY <1>1, LenProperties, EmptySeq
  <1>3. commands # << >> => Len(commands) \in DOMAIN commands
    BY <1>2
  <1>4. QED
    BY <1>2, <1>3 DEF TypeOK, LastArg

LEMMA Queued ==
    ASSUME TypeOK, NEW s \in Sets \cup {Nothing}, Enqueue("set_shadow", s)
    PROVE  /\ Len(commands') \in Nat
           /\ DOMAIN commands' = DOMAIN commands \cup {Len(commands')}
           /\ Len(commands') \notin DOMAIN commands
           /\ \A d \in DOMAIN commands :
                 commands'[d] = commands[d] /\ d < Len(commands') /\ d # Len(commands')
           /\ PendingCommands' = PendingCommands \cup {Len(commands')}
           /\ commands'[Len(commands')].arg = s
           /\ commands'[Len(commands')].status = "pending"
           /\ commands' # << >>
           /\ LastArg' = s
  <1>1. commands \in Seq(CommandRow) /\ s \in Nat /\ "set_shadow" \in Ops
    BY DEF TypeOK, QueueTypeOK, Sets, Nothing
  <1>2. /\ DOMAIN commands' = DOMAIN commands \cup {Len(commands) + 1}
        /\ Len(commands) + 1 \notin DOMAIN commands
        /\ \A d \in DOMAIN commands :
              commands'[d] = commands[d] /\ d < Len(commands) + 1
        /\ commands'[Len(commands) + 1].status = "pending"
        /\ commands'[Len(commands) + 1].arg = s
    BY <1>1, EnqueueLemma DEF QueueTypeOK
  <1>3. Len(commands') = Len(commands) + 1 /\ Len(commands) \in Nat
    BY <1>1, AppendProperties, LenProperties DEF Enqueue
  <1>4. commands' # << >>
    BY <1>2
  <1>5. LastArg' = s
    BY <1>2, <1>3, <1>4 DEF LastArg
  <1>6. PendingCommands' = PendingCommands \cup {Len(commands')}
    BY <1>2, <1>3 DEF PendingCommands
  <1>7. QED
    BY <1>2, <1>3, <1>4, <1>5, <1>6

LEMMA Finished ==
    ASSUME TypeOK, NEW c \in DOMAIN commands, NEW answer \in {"done", "failed"},
           FinishCommand(c, answer)
    PROVE  /\ DOMAIN commands' = DOMAIN commands
           /\ \A d \in DOMAIN commands : commands'[d].arg = commands[d].arg
           /\ \A d \in DOMAIN commands : d # c => commands'[d].status = commands[d].status
           /\ commands'[c].status # "pending"
           /\ PendingCommands' = PendingCommands \ {c}
           /\ Len(commands') = Len(commands)
           /\ commands' = << >> <=> commands = << >>
           /\ LastArg' = LastArg
  <1>1. commands \in Seq(CommandRow)
    BY DEF TypeOK, QueueTypeOK
  <1>2. /\ commands' \in Seq(CommandRow)
        /\ DOMAIN commands' = DOMAIN commands
        /\ \A d \in DOMAIN commands : d # c => commands'[d] = commands[d]
        /\ commands'[c].status = answer
        /\ commands'[c].arg = commands[c].arg
    BY <1>1, FinishCommandLemma DEF QueueTypeOK
  <1>3. Len(commands') = Len(commands)
    <2>1. /\ Len(commands) \in Nat /\ DOMAIN commands = 1 .. Len(commands)
          /\ Len(commands') \in Nat /\ DOMAIN commands' = 1 .. Len(commands')
      BY <1>1, <1>2, LenProperties
    <2>2. QED
      BY <1>2, <2>1
  <1>4. commands # << >> /\ commands' # << >>
    BY <1>2
  <1>5. Len(commands) \in DOMAIN commands
    BY <1>4, Ids
  <1>6. LastArg' = LastArg
    BY <1>2, <1>3, <1>4, <1>5 DEF LastArg
  <1>7. PendingCommands' = PendingCommands \ {c}
    BY <1>2 DEF PendingCommands
  <1>8. QED
    BY <1>2, <1>3, <1>4, <1>6, <1>7

\* What may happen to the queue, the snapshot and the worker's place in them.
LEMMA QueueWriters ==
    ASSUME TypeOK, [Next]_vars
    PROVE  \/ /\ \E s \in Sets \cup {Nothing} : Enqueue("set_shadow", s)
              /\ UNCHANGED todo
              /\ pc' = pc \/ (pc = "QueueClear" /\ pc' = "Rebuild")
           \/ Drain \/ HandleSetShadow \/ Finish \/ CommandFails \/ EndDrain \/ Crash
           \/ /\ UNCHANGED <<commands, todo>>
              /\ pc' = pc \/ {pc, pc'} \cap {"Command", "Finish"} = {}
  <1>1. CASE \E a \in Acceptors : Queue(a)
    BY <1>1 DEF Queue, QueueShadow, NextStep, workerVars, TypeOK, Sets, At
  <1>2. CASE Review \/ SaveShadow \/ QueueClear
    BY <1>2 DEF Review, SaveShadow, QueueClear, QueueShadow, workerVars, Sets, Goto
  <1>3. CASE \E a \in Acceptors :
                Accept(a) \/ SetOverrides(a) \/ Supersede(a) \/ Mark(a) \/ AcceptorDies(a)
    BY <1>3 DEF Accept, SetOverrides, Supersede, Mark, NextStep, AcceptorDies, tableVars,
       workerVars
  <1>4. CASE \/ Startup \/ Evaluate \/ Update \/ MarkPromoted \/ Clear \/ Rebuild \/ Prune
            \/ PromotionFails
    BY <1>4 DEF Startup, Evaluate, Update, MarkPromoted, Clear, Rebuild, Prune, PromotionFails,
       Goto, Promoting, tableVars, workerVars
  <1>5. CASE NextDay \/ UNCHANGED vars
    BY <1>5 DEF NextDay, tableVars, workerVars, vars
  <1>6. QED
    BY <1>1, <1>2, <1>3, <1>4, <1>5 DEF Next, Acceptor, Worker

LEMMA OrderStep == TypeOK /\ QueueInv /\ [Next]_vars => QueueInv'
  <1> SUFFICES ASSUME TypeOK, QueueInv, [Next]_vars
               PROVE  QueueInv'
    OBVIOUS
  <1>0. /\ todo \subseteq DOMAIN commands
        /\ \A c \in DOMAIN commands : c \in Nat
        /\ PendingCommands \subseteq DOMAIN commands
    BY Ids DEF PendingCommands
  <1> USE DEF QueueInv
  <1>1. ASSUME NEW s \in Sets \cup {Nothing}, Enqueue("set_shadow", s), UNCHANGED todo,
               pc' = pc \/ (pc = "QueueClear" /\ pc' = "Rebuild")
        PROVE  QueueInv'
    <2>1. PICK n \in Nat : /\ DOMAIN commands' = DOMAIN commands \cup {n}
                           /\ \A d \in DOMAIN commands : d < n
                           /\ PendingCommands' = PendingCommands \cup {n}
      BY <1>1, Queued
    <2>2. \A c \in PendingCommands', d \in DOMAIN commands' :
             c < d => d \in PendingCommands'
      BY <1>0, <2>1
    <2>3. \A c \in PendingCommands', d \in todo' : c < d => c \in todo'
      BY <1>0, <1>1, <2>1
    <2>4. QED
      BY <1>0, <1>1, <2>1, <2>2, <2>3
  <1>2. ASSUME NEW c \in todo, NEW answer \in {"done", "failed"}, NextCommand(c),
               FinishCommand(c, answer), todo' = todo \ {c}, pc' = "Command"
        PROVE  QueueInv'
    <2>1. /\ DOMAIN commands' = DOMAIN commands
          /\ PendingCommands' = PendingCommands \ {c}
      BY <1>0, <1>2, Finished
    <2>2. QED
      BY <1>0, <1>2, <2>1 DEF NextCommand
  <1>3. CASE Finish
    BY <1>2, <1>3 DEF Finish, Goto, NextCommand
  <1>4. CASE CommandFails
    BY <1>2, <1>4 DEF CommandFails, NextCommand
  <1>5. CASE Drain
    BY <1>5 DEF Drain, PendingCommands, tableVars, Goto
  <1>6. CASE HandleSetShadow \/ EndDrain \/ Crash
    BY <1>6 DEF HandleSetShadow, EndDrain, Crash, PendingCommands, tableVars, Goto
  <1>7. CASE UNCHANGED <<commands, todo>> /\ (pc' = pc \/ {pc, pc'} \cap {"Command", "Finish"} = {})
    BY <1>7 DEF PendingCommands
  <1>8. QED
    BY <1>1, <1>3, <1>4, <1>5, <1>6, <1>7, QueueWriters

----------------------------------------------------------------------------
(* Record and instance *)

LEMMA ClashGrows == [Next]_vars => clash \subseteq clash'
  BY DEF Next, Acceptor, Worker, Accept, SetOverrides, Supersede, Mark, Queue, NextStep,
     AcceptorDies, Review, SaveShadow, NextDay, Startup, Drain, HandleSetShadow, Finish,
     EndDrain, Evaluate, Update, MarkPromoted, Clear, QueueClear, Rebuild, Prune, CommandFails,
     PromotionFails, Crash, nothingElse, vars

\* A command that has just been queued has had no effect.
LEMMA JustQueued ==
    ASSUME TypeOK, NEW s \in Sets \cup {Nothing}, Enqueue("set_shadow", s), UNCHANGED todo
    PROVE  commands' # << >> /\ ~Handled(Len(commands))'
  <1>1. /\ commands' # << >> /\ commands'[Len(commands')].status = "pending"
        /\ Len(commands') \notin todo'
    BY Queued, Ids
  <1>2. QED
    BY <1>1 DEF Handled, NextCommand

LEMMA SettledStep == TypeOK /\ QueueInv /\ SettledInv /\ [Next]_vars => SettledInv'
  <1> DEFINE Said == commands = << >> \/ Handled(Len(commands))
             Free == pc # "QueueClear" /\ \A a \in Acceptors : ~Unsent(a)
  <1> SUFFICES ASSUME TypeOK, QueueInv, SettledInv, [Next]_vars,
                      "fault" \notin clash', Free', Said'
               PROVE  overrides' = LastArg' /\ (pc' # "Down" => shadow' = LastArg')
    BY DEF SettledInv
  <1>0. /\ "fault" \notin clash
        /\ todo \subseteq DOMAIN commands
        /\ install \in [Acceptors -> [at : Steps, set : Bundles \cup {Nothing}]]
    BY ClashGrows DEF TypeOK, QueueInv, PendingCommands
  <1>1. Free /\ Said => overrides = LastArg /\ (pc # "Down" => shadow = LastArg)
    BY <1>0 DEF SettledInv
  <1>2. ASSUME NEW s \in Sets \cup {Nothing}, Enqueue("set_shadow", s), UNCHANGED todo
        PROVE  FALSE
    BY <1>2, JustQueued
  <1>3. CASE \E a \in Acceptors : Queue(a)
    BY <1>2, <1>3 DEF Queue, QueueShadow, NextStep, workerVars, TypeOK, Sets, At
  <1>4. CASE Review \/ SaveShadow \/ QueueClear
    BY <1>2, <1>4 DEF Review, SaveShadow, QueueClear, QueueShadow, workerVars, Sets
  <1>5. CASE \E a \in Acceptors : Accept(a)
    BY <1>0, <1>1, <1>5 DEF Accept, At, Unsent, Handled, NextCommand, LastArg, workerVars
  <1>6. CASE \E a \in Acceptors : SetOverrides(a) \/ Supersede(a) \/ Mark(a) \/ AcceptorDies(a)
    BY <1>0, <1>6 DEF SetOverrides, Supersede, Mark, AcceptorDies, NextStep, Unsent
  <1>7. CASE Startup \/ Rebuild
    BY <1>1, <1>7 DEF Startup, Rebuild, Instances, Unsent, Handled, NextCommand, LastArg,
       tableVars, nothingElse, Goto
  <1>8. CASE Drain \/ EndDrain \/ Prune \/ NextDay \/ Evaluate
    BY <1>1, <1>8 DEF Drain, EndDrain, Prune, NextDay, Evaluate, Unsent, Handled, NextCommand,
       LastArg, tableVars, workerVars, outsideVars, nothingElse, Goto
  <1>9. CASE Update \/ MarkPromoted \/ Clear
    BY <1>1, <1>9 DEF Update, MarkPromoted, Clear, Unsent, Handled, NextCommand, LastArg,
       tableVars, nothingElse, Goto
  <1>10. CASE CommandFails \/ PromotionFails
    BY <1>10 DEF CommandFails, PromotionFails
  <1>11. CASE HandleSetShadow
    <2>1. PICK c \in todo : /\ NextCommand(c)
                            /\ overrides' = commands[c].arg
                            /\ shadow' = commands[c].arg
      BY <1>11 DEF HandleSetShadow, Instances
    <2>2. UNCHANGED <<commands, todo>>
      BY <1>11 DEF HandleSetShadow
    <2>3. c \in DOMAIN commands /\ commands # << >> /\ LastArg' = commands[Len(commands)].arg
      BY <1>0, <2>1, <2>2 DEF LastArg
    <2>4. c \in Nat /\ c <= Len(commands) /\ Len(commands) \in Nat
          /\ Len(commands) \in DOMAIN commands
      BY <2>3, Ids
    <2>5. c # Len(commands) => Len(commands) \in PendingCommands
      BY <2>1, <2>4 DEF QueueInv
    <2>6. Len(commands) \in PendingCommands => c = Len(commands)
      BY <2>1, <2>2, <2>3, <2>4 DEF Handled, NextCommand, PendingCommands
    <2>7. QED
      BY <2>1, <2>3, <2>5, <2>6
  <1>12. CASE Finish
    <2>1. PICK c \in todo : /\ NextCommand(c)
                            /\ FinishCommand(c, "done")
                            /\ todo' = todo \ {c}
      BY <1>12 DEF Finish
    <2>2. c \in DOMAIN commands /\ commands # << >> /\ Len(commands) \in DOMAIN commands
      BY <1>0, <2>1, Ids
    <2>3. /\ LastArg' = LastArg /\ Len(commands') = Len(commands) /\ commands' # << >>
          /\ Len(commands) # c =>
                commands'[Len(commands)].status = commands[Len(commands)].status
      BY <2>1, <2>2, Finished
    <2>4. pc = "Finish" /\ pc' = "Command"
          /\ UNCHANGED <<overrides, shadow, install>>
      BY <1>12 DEF Finish, Goto, nothingElse
    <2>5. Said
      BY <2>1, <2>3, <2>4 DEF Handled
    <2>6. QED
      BY <1>1, <2>3, <2>4, <2>5 DEF Unsent
  <1>13. CASE Crash
    <2>1. pc \notin Promoting /\ install' = install
      BY <1>13 DEF Crash
    <2>2. pc' = "Down" /\ UNCHANGED <<overrides, commands>>
      BY <1>13 DEF Crash, Goto, tableVars
    <2>3. QED
      BY <1>1, <2>1, <2>2 DEF Unsent, Handled, LastArg, Promoting
  <1>14. CASE UNCHANGED vars
    BY <1>1, <1>14 DEF vars, tableVars, workerVars, Unsent, Handled, NextCommand, LastArg
  <1>15. QED
    BY <1>3, <1>4, <1>5, <1>6, <1>7, <1>8, <1>9, <1>10, <1>11, <1>12, <1>13, <1>14
    DEF Next, Acceptor, Worker

LEMMA OrderInit == Init => QueueInv /\ SettledInv
  BY DEF Init, QueueInit, QueueInv, PendingCommands, SettledInv, LastArg

THEOREM Settled == Spec => [](QueueInv /\ SettledInv)
  <1>1. TypeOK /\ QueueInv /\ SettledInv /\ [Next]_vars => (QueueInv /\ SettledInv)'
    BY OrderStep, SettledStep
  <1>2. QED
    BY <1>1, OrderInit, TypeCorrect, PTL DEF Spec

LEMMA QuietIsSettled ==
    ASSUME TypeOK, SettledInv, Quiet, "fault" \notin clash
    PROVE  overrides = LastArg /\ shadow = LastArg
  <1>1. commands = << >> \/ Handled(Len(commands))
    BY Ids DEF Quiet, PendingCommands, Handled
  <1>2. QED
    BY <1>1 DEF Quiet, SettledInv, Unsent, At

(* The shadow instance ends up running the overrides on record, in whatever *)
(* order acceptors, proposals, promotions and restarts write them: SettledInv *)
(* because every writer queues what it wrote and commands are handled in    *)
(* the order of their ids (install_shadow, drain_commands, promote).        *)
THEOREM ShadowFollowed == Spec => []ShadowFollowsOverrides
  <1>1. TypeOK /\ SettledInv => ShadowFollowsOverrides
    BY QuietIsSettled DEF ShadowFollowsOverrides
  <1>2. QED
    BY <1>1, TypeCorrect, Settled, PTL

----------------------------------------------------------------------------
(* The set on trial *)

LEMMA ApartStep == TypeOK /\ ApartInv /\ [Next]_vars => ApartInv'
  <1> SUFFICES ASSUME TypeOK, ApartInv, [Next]_vars
               PROVE  ApartInv'
    OBVIOUS
  <1>0. /\ clash \subseteq clash'
        /\ todo \subseteq DOMAIN commands
        /\ install \in [Acceptors -> [at : Steps, set : Bundles \cup {Nothing}]]
        /\ \A a \in Acceptors : install[a].at # "idle" => install[a].set \in Bundles
        /\ Bundles \cap Reviews = {} /\ Nothing \notin Reviews
    BY ClashGrows DEF TypeOK, At, Nothing
  <1>1. ASSUME clash' \subseteq Proposals, pc' \in Promoting
        PROVE  \A a \in Acceptors : At(a, "idle")'
    <2>1. clash \subseteq Proposals
      BY <1>0, <1>1
    <2>2. pc \in Promoting => \A a \in Acceptors : At(a, "idle")
      BY <2>1 DEF ApartInv
    <2>3. CASE \E a \in Acceptors : Acceptor(a)
      BY <1>0, <1>1, <2>2, <2>3 DEF Acceptor, Accept, SetOverrides, Supersede, Mark, Queue,
         AcceptorDies, NextStep, Coincidence, Proposals, At, workerVars
    <2>4. CASE Evaluate
      BY <1>1, <2>4 DEF Evaluate, Proposals, At, Promoting, Goto
    <2>5. CASE UNCHANGED install /\ pc \in Promoting
      BY <2>2, <2>5 DEF At
    <2>6. QED
      BY <1>1, <2>3, <2>4, <2>5
      DEF Next, Worker, Startup, Drain, HandleSetShadow, Finish, EndDrain, Update, MarkPromoted,
          Clear, QueueClear, Rebuild, Prune, CommandFails, PromotionFails, Crash, Review,
          SaveShadow, NextDay, nothingElse, Goto, workerVars, vars, Promoting
  <1>2. ASSUME clash' = {}
        PROVE  overrides' \notin Reviews
               /\ \A c \in DOMAIN commands' : commands'[c].arg \notin Reviews
    <2>1. clash = {}
      BY <1>0, <1>2
    <2>2. /\ overrides \notin Reviews
          /\ \A c \in DOMAIN commands : commands[c].arg \notin Reviews
      BY <2>1 DEF ApartInv
    <2>3. ASSUME NEW s \in Bundles \cup {Nothing}, Enqueue("set_shadow", s), UNCHANGED overrides
          PROVE  overrides' \notin Reviews
                 /\ \A c \in DOMAIN commands' : commands'[c].arg \notin Reviews
      BY <1>0, <2>2, <2>3, Queued DEF Sets
    <2>4. CASE \E a \in Acceptors : Queue(a)
      BY <1>0, <2>3, <2>4 DEF Queue, QueueShadow, At
    <2>5. CASE QueueClear
      BY <2>3, <2>5 DEF QueueClear
    <2>6. CASE Review \/ SaveShadow \/ CommandFails
      BY <1>2, <2>6 DEF Review, SaveShadow, CommandFails
    <2>7. CASE Finish
      <3>1. PICK c \in todo : FinishCommand(c, "done")
        BY <2>7 DEF Finish
      <3>2. /\ DOMAIN commands' = DOMAIN commands
            /\ \A d \in DOMAIN commands : commands'[d].arg = commands[d].arg
        BY <1>0, <3>1, Finished
      <3>3. QED
        BY <2>2, <2>7, <3>2 DEF Finish
    <2>8. CASE UNCHANGED commands /\ overrides' \in {overrides, Nothing}
      BY <1>0, <2>2, <2>8
    <2>9. CASE HandleSetShadow
      BY <1>0, <2>2, <2>9 DEF HandleSetShadow
    <2>10. CASE \E a \in Acceptors : SetOverrides(a)
      BY <1>0, <2>2, <2>10 DEF SetOverrides, At
    <2>11. QED
      BY <2>4, <2>5, <2>6, <2>7, <2>8, <2>9, <2>10
      DEF Next, Acceptor, Worker, Accept, Supersede, Mark, AcceptorDies, Startup, Drain, EndDrain,
          Evaluate, Update, MarkPromoted, Clear, ClearOverrides, Rebuild, Prune, PromotionFails,
          Crash, NextDay, tableVars, vars
  <1>3. QED
    BY <1>1, <1>2 DEF ApartInv

LEMMA TodayStep == TypeOK /\ TodayInv /\ [Next]_vars => TodayInv'
  <1> SUFFICES ASSUME TypeOK, TodayInv, [Next]_vars
               PROVE  TodayInv'
    OBVIOUS
  <1>0. /\ todo \subseteq DOMAIN commands /\ PendingCommands \subseteq DOMAIN commands
        /\ install \in [Acceptors -> [at : Steps, set : Bundles \cup {Nothing}]]
        /\ since \in [Bundles -> Nat]
        /\ \A a \in Acceptors : install[a].at # "idle" => install[a].set \in Bundles
        /\ Bundles \cap Reviews = {} /\ Nothing \notin Bundles
    BY DEF TypeOK, At, PendingCommands, Nothing
  <1>1. ASSUME NEW s \in Sets \cup {Nothing}, Enqueue("set_shadow", s),
               s \in Bundles => since[s] = day,
               UNCHANGED <<todo, since, day>>, pc' = pc \/ pc = "QueueClear",
               \A a \in Acceptors : install'[a] = install[a] \/ install'[a].at # "Queue"
        PROVE  TodayInv'
    <2>1. /\ PendingCommands' = PendingCommands \cup {Len(commands')}
          /\ commands'[Len(commands')].arg = s
          /\ \A d \in DOMAIN commands : commands'[d] = commands[d]
      BY <1>1, Queued
    <2>2. QED
      BY <1>0, <1>1, <2>1 DEF TodayInv, At
  <1>2. CASE \E a \in Acceptors : Queue(a)
    BY <1>0, <1>1, <1>2
    DEF Queue, QueueShadow, NextStep, TodayInv, Sets, At, Idle, workerVars, outsideVars
  <1>3. CASE Review \/ SaveShadow \/ QueueClear
    BY <1>0, <1>1, <1>3 DEF Review, SaveShadow, QueueClear, QueueShadow, Sets, workerVars,
       outsideVars, nothingElse
  <1>4. ASSUME NEW c \in todo, NEW answer \in {"done", "failed"}, FinishCommand(c, answer),
               todo' = todo \ {c}, UNCHANGED <<since, day, install>>,
               pc \notin {"Down", "Drain"}
        PROVE  TodayInv'
    <2>1. /\ PendingCommands' = PendingCommands \ {c}
          /\ \A d \in DOMAIN commands : commands'[d].arg = commands[d].arg
      BY <1>0, <1>4, Finished
    <2>2. QED
      BY <1>0, <1>4, <2>1 DEF TodayInv, At
  <1>5. CASE Finish \/ CommandFails
    BY <1>4, <1>5 DEF Finish, CommandFails, nothingElse, outsideVars
  <1>6. CASE \E a \in Acceptors : Accept(a) \/ SetOverrides(a) \/ Supersede(a) \/ AcceptorDies(a)
    <2>1. UNCHANGED <<since, commands, pc, todo, day>>
      BY <1>6 DEF Accept, SetOverrides, Supersede, AcceptorDies, NextStep, tableVars, workerVars,
         outsideVars
    <2>2. \A a \in Acceptors : install'[a] = install[a] \/ install'[a].at # "Queue"
      BY <1>0, <1>6 DEF Accept, SetOverrides, Supersede, AcceptorDies, NextStep, At, Idle
    <2>3. QED
      BY <2>1, <2>2 DEF TodayInv, At, PendingCommands
  <1>7. CASE \E a \in Acceptors : Mark(a)
    BY <1>0, <1>7 DEF Mark, NextStep, TodayInv, At, PendingCommands, workerVars, outsideVars
  <1>8. CASE Drain
    BY <1>8 DEF Drain, TodayInv, At, PendingCommands, tableVars, outsideVars, nothingElse
  <1>9. CASE \/ HandleSetShadow \/ EndDrain \/ Evaluate \/ Update \/ MarkPromoted \/ Clear
            \/ Rebuild \/ Prune \/ PromotionFails \/ UNCHANGED vars
    BY <1>9 DEF HandleSetShadow, EndDrain, Evaluate, Update, MarkPromoted, Clear, Rebuild, Prune,
       PromotionFails, Promoting, Goto, TodayInv, At, PendingCommands, tableVars, workerVars,
       outsideVars, nothingElse, vars
  <1>10. CASE Startup \/ Crash \/ NextDay
    BY <1>0, <1>10 DEF Startup, Crash, NextDay, Goto, TodayInv, At, PendingCommands, Idle,
       tableVars, workerVars, outsideVars, nothingElse
  <1>11. QED
    BY <1>2, <1>3, <1>5, <1>6, <1>7, <1>8, <1>9, <1>10 DEF Next, Acceptor, Worker

\* The types the steps on rows and installs need.
LEMMA RowTypes ==
    ASSUME TypeOK
    PROVE  /\ status \in [Bundles -> Statuses]
           /\ install \in [Acceptors -> [at : Steps, set : Bundles \cup {Nothing}]]
           /\ \A a \in Acceptors : install[a].at # "idle" => install[a].set \in Bundles
           /\ Nothing \notin Bundles /\ Nothing \notin Reviews /\ Bundles \cap Reviews = {}
           /\ todo \subseteq DOMAIN commands
  BY DEF TypeOK, At, Nothing

\* Every step but these leaves rows, installs and queue alone, and is neither
\* in the part of a promotion that has its row to itself nor enters it.
LEMMA TrialWriters ==
    ASSUME [Next]_vars
    PROVE  \/ \E a \in Acceptors : Acceptor(a)
           \/ Review \/ SaveShadow \/ CommandFails \/ Finish \/ MarkPromoted \/ Clear
           \/ QueueClear \/ Prune \/ Crash \/ PromotionFails
           \/ /\ UNCHANGED <<status, install, commands>> /\ clash \subseteq clash'
              /\ pc' = pc \/ {pc, pc'} \cap {"Clear", "QueueClear"} = {}
  BY DEF Next, Worker, NextDay, Startup, Drain, HandleSetShadow, EndDrain, Evaluate, Update,
     Rebuild, nothingElse, tableVars, workerVars, vars, Goto

LEMMA TrialStep ==
    TypeOK /\ InstallInv /\ MarkInv /\ ApartInv /\ TrialInv /\ [Next]_vars => TrialInv'
  <1> SUFFICES ASSUME TypeOK, InstallInv, MarkInv, ApartInv, TrialInv, [Next]_vars, clash' = {}
               PROVE  TrialInv'
    BY DEF TrialInv
  <1>0. /\ status \in [Bundles -> Statuses]
        /\ install \in [Acceptors -> [at : Steps, set : Bundles \cup {Nothing}]]
        /\ \A a \in Acceptors : install[a].at # "idle" => install[a].set \in Bundles
        /\ Nothing \notin Bundles
        /\ todo \subseteq DOMAIN commands
    BY RowTypes
  <1>1. clash = {}
    BY ClashGrows
  <1>2. /\ pc \in {"Clear", "QueueClear"} => OnTrial(Nothing)
        /\ \A a \in Acceptors : /\ At(a, "Mark") => OnTrial(Nothing)
                                /\ At(a, "Queue") => OnTrial(install[a].set)
        /\ \/ pc \in {"Clear", "QueueClear"}
           \/ \E a \in Acceptors : At(a, "Mark") \/ At(a, "Queue")
           \/ OnTrial(LastArg)
    BY <1>1 DEF TrialInv
  <1>3. /\ \A a, b \in Acceptors : a # b => At(a, "idle") \/ At(b, "idle")
        /\ pc \in Promoting => \A a \in Acceptors : At(a, "idle")
    BY <1>1 DEF MarkInv, ApartInv
  <1>4. CASE \E a \in Acceptors : Accept(a)
    <2>1. \A s \in Bundles : status'[s] = "shadow" <=> status[s] = "shadow"
      BY <1>0, <1>4 DEF Accept, Fresh
    <2>2. UNCHANGED <<commands, pc>>
          /\ \A a \in Acceptors : install'[a] = install[a]
                                 \/ (At(a, "idle") /\ install'[a].at = "SetOverrides")
      BY <1>0, <1>4 DEF Accept, workerVars, At
    <2>3. QED
      BY <1>2, <2>1, <2>2 DEF TrialInv, OnTrial, LastArg, At
  <1>5. CASE \E a \in Acceptors : SetOverrides(a)
    BY <1>0, <1>2, <1>5 DEF SetOverrides, NextStep, TrialInv, OnTrial, LastArg, At, workerVars
  <1>6. CASE \E a \in Acceptors : Supersede(a)
    <2>1. PICK a \in Acceptors : Supersede(a)
      BY <1>6
    <2>2. status[install[a].set] = "pending"
      BY <2>1 DEF Supersede, InstallInv, Installing, At
    <2>3. \A s \in Bundles : status'[s] # "shadow"
      BY <1>0, <2>1, <2>2 DEF Supersede, SupersedeOthers
    <2>4. /\ install'[a].at = "Mark"
          /\ \A b \in Acceptors : b # a => install'[b] = install[b] /\ At(b, "idle")
      BY <1>0, <1>3, <2>1 DEF Supersede, NextStep, At
    <2>5. QED
      BY <1>0, <2>3, <2>4 DEF TrialInv, OnTrial, At
  <1>7. CASE \E a \in Acceptors : Mark(a)
    <2>1. PICK a \in Acceptors : Mark(a)
      BY <1>7
    <2>2. OnTrial(Nothing) /\ install[a].set \in Bundles
      BY <1>0, <1>2, <2>1 DEF Mark, At
    <2>3. \A s \in Bundles : status'[s] = "shadow" <=> s = install[a].set
      BY <1>0, <2>1, <2>2 DEF Mark, OnTrial
    <2>4. /\ install'[a].at = "Queue" /\ install'[a].set = install[a].set
          /\ \A b \in Acceptors : b # a => install'[b] = install[b] /\ At(b, "idle")
          /\ pc' = pc /\ pc \notin Promoting
      BY <1>0, <1>3, <2>1 DEF Mark, NextStep, At, Coincidence, workerVars
    <2>5. \A b \in Acceptors : install'[b].at = "idle"
                             \/ (install'[b].at = "Queue" /\ install'[b].set = install[a].set)
      BY <2>4 DEF At
    <2>6. pc' \notin {"Clear", "QueueClear"} /\ a \in Acceptors
      BY <2>4 DEF Promoting
    <2>7. QED
      BY <2>3, <2>4, <2>5, <2>6 DEF TrialInv, OnTrial, At
  <1>8. CASE \E a \in Acceptors : Queue(a)
    <2>1. PICK a \in Acceptors : Queue(a)
      BY <1>8
    <2>2. OnTrial(install[a].set) /\ install[a].set \in Bundles
      BY <1>0, <1>2, <2>1 DEF Queue, At
    <2>3. LastArg' = install[a].set
      BY <2>1, <2>2, Queued DEF Queue, QueueShadow, Sets
    <2>4. /\ \A b \in Acceptors : install'[b].at = "idle"
          /\ pc' = pc /\ pc \notin Promoting /\ UNCHANGED status
      BY <1>0, <1>3, <2>1 DEF Queue, NextStep, At, Idle, Coincidence, workerVars
    <2>5. QED
      BY <2>2, <2>3, <2>4 DEF TrialInv, OnTrial, At, Promoting
  <1>9. CASE \/ \E a \in Acceptors : AcceptorDies(a)
            \/ Review \/ SaveShadow \/ CommandFails \/ PromotionFails
    BY <1>9 DEF AcceptorDies, Review, SaveShadow, CommandFails, PromotionFails
  <1>10. CASE Finish
    <2>1. LastArg' = LastArg
      BY <1>0, <1>10, Finished DEF Finish
    <2>2. UNCHANGED <<status, install>> /\ pc = "Finish" /\ pc' = "Command"
      BY <1>10 DEF Finish, nothingElse, Goto
    <2>3. QED
      BY <1>2, <2>1, <2>2 DEF TrialInv, OnTrial, At
  <1>11. CASE MarkPromoted
    <2>1. \A s \in Bundles : status'[s] # "shadow"
      BY <1>0, <1>11 DEF MarkPromoted
    <2>2. pc \in Promoting /\ pc' = "Clear" /\ UNCHANGED install
      BY <1>11 DEF MarkPromoted, Promoting, Goto, nothingElse
    <2>3. QED
      BY <1>0, <1>3, <2>1, <2>2 DEF TrialInv, OnTrial, At
  <1>12. CASE Clear \/ QueueClear
    <2>1. /\ pc \in {"Clear", "QueueClear"} /\ pc \in Promoting
          /\ UNCHANGED <<status, install>>
      BY <1>12 DEF Clear, QueueClear, Promoting, nothingElse
    <2>2. Clear => pc' = "QueueClear"
      BY DEF Clear, Goto
    <2>3. QueueClear => LastArg' = Nothing
      BY Queued DEF QueueClear
    <2>4. QED
      BY <1>0, <1>2, <1>3, <1>12, <2>1, <2>2, <2>3 DEF TrialInv, OnTrial, At
  <1>13. CASE Prune
    <2>1. \A s \in Bundles : status'[s] = "shadow" <=> status[s] = "shadow"
      BY <1>0, <1>13 DEF Prune
    <2>2. UNCHANGED <<commands, pc, install>>
      BY <1>13 DEF Prune, workerVars
    <2>3. QED
      BY <1>2, <2>1, <2>2 DEF TrialInv, OnTrial, LastArg, At
  <1>14. CASE Crash
    <2>1. pc \notin Promoting /\ pc' = "Down" /\ UNCHANGED <<status, install, commands>>
      BY <1>14 DEF Crash, Goto, tableVars
    <2>2. QED
      BY <1>2, <2>1 DEF TrialInv, OnTrial, LastArg, At, Promoting
  <1>15. CASE /\ UNCHANGED <<status, install, commands>>
              /\ pc' = pc \/ {pc, pc'} \cap {"Clear", "QueueClear"} = {}
    BY <1>2, <1>15 DEF TrialInv, OnTrial, LastArg, At
  <1>16. QED
    BY <1>4, <1>5, <1>6, <1>7, <1>8, <1>9, <1>10, <1>11, <1>12, <1>13, <1>14, <1>15, TrialWriters
    DEF Acceptor

\* A command that names no bundle leaves the latest one what it was.
LEMMA LatestKept ==
    ASSUME TypeOK, NEW x \in Reviews \cup {Nothing}, Enqueue("set_shadow", x), UNCHANGED todo,
           pc' # "Finish" \/ pc' = pc, NEW d, NEW s, Latest(d, s)
    PROVE  Latest(d, s)' /\ (Handled(d)' => Handled(d))
  <1>1. x \in Sets \cup {Nothing} /\ x \notin Bundles
    BY RowTypes DEF Sets
  <1>2. /\ DOMAIN commands' = DOMAIN commands \cup {Len(commands')}
        /\ \A e \in DOMAIN commands : commands'[e] = commands[e]
        /\ commands'[Len(commands')].arg = x
    BY <1>1, Queued
  <1>3. d \in DOMAIN commands
    BY DEF Latest
  <1>4. Latest(d, s)'
    BY <1>1, <1>2, <1>3 DEF Latest
  <1>5. Handled(d)' => Handled(d)
    BY <1>2, <1>3 DEF Handled, NextCommand
  <1>6. QED
    BY <1>4, <1>5

\* In the middle of an install nothing but that install is under way.
LEMMA Alone ==
    ASSUME TypeOK, MarkInv, ApartInv, clash' \subseteq Proposals, clash \subseteq clash',
           NEW a \in Acceptors, NEW step, ~At(a, "idle"), NextStep(a, step)
    PROVE  /\ \A b \in Acceptors : b # a => At(b, "idle") /\ install'[b] = install[b]
           /\ install'[a].at = step
           /\ step # "idle" => install'[a].set = install[a].set
           /\ pc' = pc /\ pc \notin Promoting
  <1>1. "installs" \notin clash
    BY DEF Proposals
  <1>2. install \in [Acceptors -> [at : Steps, set : Bundles \cup {Nothing}]]
    BY RowTypes
  <1>3. pc \notin Promoting
    BY DEF NextStep, Coincidence, Proposals
  <1>4. install' = [install EXCEPT ![a] = IF step = "idle" THEN Idle
                                          ELSE [install[a] EXCEPT !.at = step]]
    BY DEF NextStep
  <1>5. /\ \A b \in Acceptors : b # a => install'[b] = install[b]
        /\ install'[a].at = step
        /\ step # "idle" => install'[a].set = install[a].set
    BY <1>2, <1>4 DEF Idle
  <1>6. QED
    BY <1>1, <1>3, <1>5 DEF MarkInv, NextStep, workerVars

LEMMA LatestStep ==
    TypeOK /\ QueueInv /\ InstallInv /\ MarkInv /\ OneInShadow /\ ApartInv /\ LatestInv /\ [Next]_vars
        => LatestInv'
  <1> SUFFICES ASSUME TypeOK, QueueInv, InstallInv, MarkInv, OneInShadow, ApartInv, LatestInv,
                      [Next]_vars, clash' \subseteq Proposals
               PROVE  LatestInv'
    BY DEF LatestInv
  <1> DEFINE Spoken(s) == \/ \E a \in Acceptors : At(a, "Queue")
                          \/ \E d \in DOMAIN commands :
                                /\ Latest(d, s)
                                /\ \/ ~Handled(d)
                                   \/ \E a \in Acceptors : Unsent(a)
                                   \/ overrides \in Bundles => overrides = s
  <1>0. /\ status \in [Bundles -> Statuses]
        /\ install \in [Acceptors -> [at : Steps, set : Bundles \cup {Nothing}]]
        /\ \A a \in Acceptors : install[a].at # "idle" => install[a].set \in Bundles
        /\ Nothing \notin Bundles
        /\ todo \subseteq DOMAIN commands
    BY RowTypes
  <1>1. clash \subseteq Proposals /\ clash \subseteq clash'
    BY ClashGrows
  <1>2. /\ \A a \in Acceptors : At(a, "Queue") => status[install[a].set] = "shadow"
        /\ \A s \in Bundles : status[s] = "shadow" => Spoken(s)
    BY <1>1 DEF LatestInv
  <1>3. /\ \A s, t \in Bundles : status[s] = "shadow" /\ status[t] = "shadow" => s = t
        /\ pc \in Promoting => \A a \in Acceptors : At(a, "idle")
    BY <1>1 DEF OneInShadow, ApartInv, Proposals
  <1>4. ASSUME \A a \in Acceptors : At(a, "Queue")' => status'[install'[a].set] = "shadow",
               \A s \in Bundles : status'[s] = "shadow" => Spoken(s)'
        PROVE  LatestInv'
    BY <1>4 DEF LatestInv
  \* The steps that touch neither the rows in shadow nor what makes them spoken for.
  <1>5. ASSUME \A s \in Bundles : status'[s] = "shadow" <=> status[s] = "shadow",
               \A a \in Acceptors : At(a, "Queue")' <=> At(a, "Queue"),
               \A a \in Acceptors : At(a, "Queue") => install'[a] = install[a],
               \A a \in Acceptors : Unsent(a) => Unsent(a)',
               \A s \in Bundles, d \in DOMAIN commands :
                   Latest(d, s) => /\ d \in DOMAIN commands' /\ Latest(d, s)'
                                   /\ Handled(d)' => Handled(d),
               overrides' = overrides \/ overrides' \notin Bundles
        PROVE  LatestInv'
    <2>1. \A a \in Acceptors : At(a, "Queue")' => status'[install'[a].set] = "shadow"
      BY <1>0, <1>2, <1>5 DEF At
    <2>2. ASSUME NEW s \in Bundles, status'[s] = "shadow"
          PROVE  Spoken(s)'
      <3>1. Spoken(s)
        BY <1>2, <1>5, <2>2
      <3>2. CASE \E a \in Acceptors : At(a, "Queue")
        BY <1>5, <3>2
      <3>3. CASE \E d \in DOMAIN commands :
                    /\ Latest(d, s)
                    /\ \/ ~Handled(d)
                       \/ \E a \in Acceptors : Unsent(a)
                       \/ overrides \in Bundles => overrides = s
        <4>1. PICK d \in DOMAIN commands :
                    /\ Latest(d, s)
                    /\ \/ ~Handled(d)
                       \/ \E a \in Acceptors : Unsent(a)
                       \/ overrides \in Bundles => overrides = s
          BY <3>3
        <4>2. d \in DOMAIN commands' /\ Latest(d, s)' /\ (Handled(d)' => Handled(d))
          BY <1>5, <4>1
        <4>3. (\E a \in Acceptors : Unsent(a)) => \E a \in Acceptors : Unsent(a)'
          BY <1>5
        <4>4. (overrides \in Bundles => overrides = s) => (overrides' \in Bundles => overrides' = s)
          BY <1>5
        <4>5. QED
          BY <4>1, <4>2, <4>3, <4>4
      <3>4. QED
        BY <3>1, <3>2, <3>3
    <2>3. QED
      BY <2>1, <2>2, <1>4
  <1>6. ASSUME UNCHANGED commands,
               (pc' = pc /\ UNCHANGED todo) \/ pc' # "Finish"
        PROVE  \A s \in Bundles, d \in DOMAIN commands :
                   Latest(d, s) => /\ d \in DOMAIN commands' /\ Latest(d, s)'
                                   /\ Handled(d)' => Handled(d)
    BY <1>6 DEF Latest, Handled, NextCommand
  <1> HIDE DEF Spoken
  <1>7. CASE \E a \in Acceptors : Accept(a)
    <2>1. \A s \in Bundles : status'[s] = "shadow" <=> status[s] = "shadow"
      BY <1>0, <1>7 DEF Accept, Fresh
    <2>2. UNCHANGED <<commands, overrides, todo, pc>>
          /\ \A a \in Acceptors : install'[a] = install[a]
                                 \/ (At(a, "idle") /\ install'[a].at = "SetOverrides")
      BY <1>0, <1>7 DEF Accept, workerVars, At
    <2>3. QED
      BY <1>5, <1>6, <2>1, <2>2 DEF At, Unsent
  <1>8. CASE \E a \in Acceptors : SetOverrides(a)
    <2>1. PICK a \in Acceptors : SetOverrides(a)
      BY <1>8
    <2>2. /\ \A b \in Acceptors : b # a => At(b, "idle") /\ install'[b] = install[b]
          /\ install'[a].at = "Supersede"
      <3>1. ~At(a, "idle") /\ NextStep(a, "Supersede")
        BY <2>1 DEF SetOverrides, At
      <3>2. QED
        BY <1>1, <3>1, Alone
    <2>3. UNCHANGED <<status, commands, pc, todo>>
      BY <2>1 DEF SetOverrides, NextStep, workerVars
    <2>4. Unsent(a)' /\ ~At(a, "Queue")
      BY <2>1, <2>2 DEF Unsent, SetOverrides, At
    <2>5. ASSUME NEW s \in Bundles, status'[s] = "shadow"
          PROVE  Spoken(s)'
      <3>1. PICK d \in DOMAIN commands : Latest(d, s)
        BY <1>2, <2>2, <2>3, <2>4, <2>5 DEF Spoken, At
      <3>2. d \in DOMAIN commands' /\ Latest(d, s)'
        BY <2>3, <3>1 DEF Latest
      <3>3. QED
        BY <2>4, <3>2 DEF Spoken
    <2>6. \A b \in Acceptors : ~At(b, "Queue")'
      BY <2>2 DEF At
    <2>7. QED
      BY <1>4, <2>5, <2>6
  <1>9. CASE \E a \in Acceptors : Supersede(a)
    <2>1. PICK a \in Acceptors : Supersede(a)
      BY <1>9
    <2>2. status[install[a].set] = "pending"
      BY <2>1 DEF Supersede, InstallInv, Installing, At
    <2>3. \A s \in Bundles : status'[s] # "shadow"
      BY <1>0, <2>1, <2>2 DEF Supersede, SupersedeOthers
    <2>4. /\ \A b \in Acceptors : b # a => At(b, "idle") /\ install'[b] = install[b]
          /\ install'[a].at = "Mark"
      <3>1. ~At(a, "idle") /\ NextStep(a, "Mark")
        BY <2>1 DEF Supersede, At
      <3>2. QED
        BY <1>1, <3>1, Alone
    <2>5. \A b \in Acceptors : ~At(b, "Queue")'
      BY <2>4 DEF At
    <2>6. QED
      BY <1>4, <2>3, <2>5
  <1>10. CASE \E a \in Acceptors : Mark(a)
    <2>1. PICK a \in Acceptors : Mark(a)
      BY <1>10
    <2>2. /\ \A b \in Acceptors : b # a => At(b, "idle") /\ install'[b] = install[b]
          /\ install'[a].at = "Queue" /\ install'[a].set = install[a].set
      <3>1. ~At(a, "idle") /\ NextStep(a, "Queue")
        BY <2>1 DEF Mark, At
      <3>2. QED
        BY <1>1, <3>1, Alone
    <2>3. status'[install[a].set] = "shadow"
      BY <1>0, <2>1 DEF Mark, At
    <2>4. \A b \in Acceptors : At(b, "Queue")' => status'[install'[b].set] = "shadow"
      BY <2>2, <2>3 DEF At
    <2>5. \A s \in Bundles : Spoken(s)'
      BY <2>2 DEF Spoken, At
    <2>6. QED
      BY <1>4, <2>4, <2>5
  <1>11. CASE \E a \in Acceptors : Queue(a)
    <2>1. PICK a \in Acceptors : Queue(a)
      BY <1>11
    <2>2. /\ \A b \in Acceptors : b # a => At(b, "idle") /\ install'[b] = install[b]
          /\ install'[a].at = "idle"
      <3>1. ~At(a, "idle") /\ NextStep(a, "idle")
        BY <2>1 DEF Queue, At
      <3>2. QED
        BY <1>1, <3>1, Alone
    <2>3. /\ UNCHANGED <<status, todo>>
          /\ status[install[a].set] = "shadow" /\ install[a].set \in Bundles
          /\ Enqueue("set_shadow", install[a].set)
      BY <1>0, <1>2, <2>1 DEF Queue, QueueShadow, NextStep, workerVars, At
    <2>4. /\ Len(commands') \in DOMAIN commands' /\ ~Handled(Len(commands))'
          /\ commands'[Len(commands')].arg = install[a].set
      BY <2>3, Queued, JustQueued DEF Sets
    <2>5. \A e \in DOMAIN commands' : ~(Len(commands') < e)
      BY <2>3, Queued, Ids DEF Sets
    <2>6. PICK t \in Bundles : t = install[a].set
      BY <2>3
    <2>7. Latest(Len(commands), t)'
      BY <2>4, <2>5, <2>6 DEF Latest
    <2>8. ASSUME NEW s \in Bundles, status'[s] = "shadow"
          PROVE  Spoken(s)'
      <3>1. s = t
        BY <1>3, <2>3, <2>6, <2>8
      <3>2. QED
        BY <2>4, <2>7, <3>1 DEF Spoken
    <2>9. \A b \in Acceptors : ~At(b, "Queue")'
      BY <2>2 DEF At
    <2>10. QED
      BY <1>4, <2>8, <2>9
  <1>12. CASE \/ \E a \in Acceptors : AcceptorDies(a)
             \/ CommandFails \/ PromotionFails
    BY <1>12 DEF AcceptorDies, CommandFails, PromotionFails, Proposals
  <1>13. ASSUME NEW x \in Reviews \cup {Nothing}, Enqueue("set_shadow", x),
                UNCHANGED <<todo, status, install, overrides>>, pc' # "Finish" \/ pc' = pc
         PROVE  LatestInv'
    <2>1. x \in Sets \cup {Nothing}
      BY DEF Sets
    <2>2. DOMAIN commands \subseteq DOMAIN commands'
      BY <1>13, <2>1, Queued
    <2>3. \A s \in Bundles, d \in DOMAIN commands :
             Latest(d, s) => /\ d \in DOMAIN commands' /\ Latest(d, s)'
                             /\ Handled(d)' => Handled(d)
      BY <1>13, <2>2, LatestKept
    <2>4. QED
      BY <1>5, <1>13, <2>3 DEF At, Unsent
  <1>14. CASE Review \/ SaveShadow \/ QueueClear
    BY <1>13, <1>14 DEF Review, SaveShadow, QueueShadow, QueueClear, Goto, nothingElse, workerVars
  <1>15. CASE HandleSetShadow
    <2>1. PICK c \in todo : NextCommand(c) /\ overrides' = commands[c].arg
      BY <1>15 DEF HandleSetShadow
    <2>2. UNCHANGED <<status, install, commands, todo>>
      BY <1>15 DEF HandleSetShadow, nothingElse
    <2>3. ASSUME NEW s \in Bundles, status'[s] = "shadow", \A a \in Acceptors : ~At(a, "Queue")
          PROVE  Spoken(s)'
      <3>1. PICK d \in DOMAIN commands : Latest(d, s)
        BY <1>2, <2>2, <2>3 DEF Spoken
      <3>2. c \in DOMAIN commands /\ c \in Nat /\ d \in Nat /\ c \in PendingCommands
        BY <1>0, <2>1, Ids DEF QueueInv
      <3>3. CASE ~Handled(d)'
        <4>1. d \in DOMAIN commands' /\ Latest(d, s)'
          BY <2>2, <3>1 DEF Latest
        <4>2. QED
          BY <3>3, <4>1 DEF Spoken
      <3>4. CASE c = d
        <4>1. overrides' = s
          BY <2>1, <3>1, <3>4 DEF Latest
        <4>2. d \in DOMAIN commands' /\ Latest(d, s)'
          BY <2>2, <3>1 DEF Latest
        <4>3. QED
          BY <4>1, <4>2 DEF Spoken
      <3>5. CASE Handled(d)' /\ c # d
        <4>1. d \notin PendingCommands
          <5>1. d \notin todo \/ ~NextCommand(d)'
            BY <2>1, <2>2, <3>2, <3>5 DEF NextCommand
          <5>2. commands[d].status # "pending"
            BY <2>2, <3>5, <5>1 DEF Handled, NextCommand
          <5>3. QED
            BY <5>2 DEF PendingCommands
        <4>2. d < c
          BY <3>1, <3>2, <3>5, <4>1 DEF QueueInv
        <4>3. overrides' \notin Bundles
          BY <2>1, <3>1, <3>2, <4>2 DEF Latest
        <4>4. d \in DOMAIN commands' /\ Latest(d, s)'
          BY <2>2, <3>1 DEF Latest
        <4>5. QED
          BY <4>3, <4>4 DEF Spoken
      <3>6. QED
        BY <3>3, <3>4, <3>5
    <2>4. ASSUME NEW a \in Acceptors, At(a, "Queue")
          PROVE  \A s \in Bundles : Spoken(s)'
      BY <2>2, <2>4 DEF Spoken, At
    <2>5. QED
      BY <1>2, <1>4, <2>2, <2>3, <2>4 DEF At
  <1>16. CASE Finish
    <2>1. PICK c \in todo : NextCommand(c) /\ FinishCommand(c, "done")
      BY <1>16 DEF Finish
    <2>2. /\ UNCHANGED <<status, install, overrides>> /\ pc = "Finish" /\ pc' = "Command"
      BY <1>16 DEF Finish, Goto, nothingElse
    <2>3. /\ DOMAIN commands' = DOMAIN commands
          /\ \A d \in DOMAIN commands : commands'[d].arg = commands[d].arg
          /\ \A d \in DOMAIN commands : d # c => commands'[d].status = commands[d].status
      BY <1>0, <2>1, Finished
    <2>4. \A s \in Bundles, d \in DOMAIN commands :
             Latest(d, s) => /\ d \in DOMAIN commands' /\ Latest(d, s)'
                             /\ Handled(d)' => Handled(d)
      BY <2>1, <2>2, <2>3 DEF Latest, Handled
    <2>5. QED
      BY <1>5, <2>2, <2>4 DEF At, Unsent
  <1>17. CASE Drain \/ Startup \/ Rebuild \/ EndDrain \/ Evaluate \/ Update \/ Clear
    <2>1. UNCHANGED <<status, install, commands>> /\ pc' # "Finish"
          /\ (overrides' = overrides \/ overrides' = Nothing)
      BY <1>17 DEF Drain, Startup, Rebuild, EndDrain, Evaluate, Update, Clear, ClearOverrides, Goto,
         nothingElse, tableVars
    <2>2. QED
      BY <1>0, <1>5, <1>6, <2>1 DEF At, Unsent
  <1>18. CASE NextDay \/ Prune \/ UNCHANGED vars
    <2>1. \A s \in Bundles : status'[s] = "shadow" <=> status[s] = "shadow"
      BY <1>0, <1>18 DEF NextDay, Prune, tableVars, vars
    <2>2. UNCHANGED <<install, commands, overrides, pc, todo>>
      BY <1>18 DEF NextDay, Prune, tableVars, workerVars, vars
    <2>3. QED
      BY <1>5, <1>6, <2>1, <2>2 DEF At, Unsent
  <1>19. CASE MarkPromoted
    <2>1. \A s \in Bundles : status'[s] # "shadow"
      BY <1>0, <1>19 DEF MarkPromoted
    <2>2. pc \in Promoting /\ UNCHANGED install
      BY <1>19 DEF MarkPromoted, Promoting, nothingElse
    <2>3. \A b \in Acceptors : ~At(b, "Queue")'
      BY <1>3, <2>2 DEF At
    <2>4. QED
      BY <1>4, <2>1, <2>3
  <1>20. CASE Crash
    <2>1. install' = install
      BY <1>20 DEF Crash, Proposals
    <2>2. UNCHANGED <<status, commands, overrides>> /\ pc' = "Down"
      BY <1>20 DEF Crash, Goto, tableVars
    <2>3. QED
      BY <1>5, <1>6, <2>1, <2>2 DEF At, Unsent
  <1>21. QED
    BY <1>7, <1>8, <1>9, <1>10, <1>11, <1>12, <1>14, <1>15, <1>16, <1>17, <1>18, <1>19, <1>20
    DEF Next, Acceptor, Worker

----------------------------------------------------------------------------
(* What goes live *)

\* Nothing is served but a set that has been on trial for days, and by then
\* the command that installed it is handled.
LEMMA ServedRuns ==
    ASSUME TypeOK, QueueInv, TodayInv, LatestInv, clash \subseteq Proposals, pc = "Check",
           \A a \in Acceptors : At(a, "idle"), NEW s \in Bundles, Served(s),
           overrides \in Bundles
    PROVE  overrides = s
  <1>1. PICK d \in DOMAIN commands :
            /\ Latest(d, s)
            /\ \/ ~Handled(d)
               \/ \E a \in Acceptors : Unsent(a)
               \/ overrides \in Bundles => overrides = s
    BY DEF LatestInv, Served, At
  <1>2. \A a \in Acceptors : ~Unsent(a)
    BY DEF Unsent, At
  <1>3. ASSUME ~Handled(d)
        PROVE  FALSE
    <2>1. d \in PendingCommands \ todo /\ commands[d].arg = s
      BY <1>1, <1>3 DEF Handled, PendingCommands, QueueInv, Latest
    <2>2. since[s] = day
      BY <2>1 DEF TodayInv
    <2>3. day \in Nat /\ MinDays \in Nat \ {0} /\ day - since[s] >= MinDays
      BY DEF TypeOK, Served
    <2>4. QED
      BY <2>2, <2>3
  <1>4. QED
    BY <1>1, <1>2, <1>3

LEMMA ServedStep ==
    /\ TypeOK /\ QueueInv /\ ApartInv /\ TodayInv /\ LatestInv /\ ServedInv
    /\ [Next]_vars
    => ServedInv'
  <1> SUFFICES ASSUME TypeOK, QueueInv, ApartInv, TodayInv, LatestInv, ServedInv, [Next]_vars,
                      clash' \subseteq Proposals, pc' = "Update", overrides' \in Bundles
               PROVE  Served(overrides)'
    BY DEF ServedInv
  <1>0. status \in [Bundles -> Statuses] /\ clash \subseteq Proposals
    BY RowTypes, ClashGrows
  <1>1. ASSUME pc = "Update"
        PROVE  Served(overrides) \/ overrides \notin Bundles
    BY <1>0, <1>1 DEF ServedInv
  <1>2. CASE Evaluate
    <2>1. /\ pc = "Check" /\ UNCHANGED <<status, since, overrides, day>>
          /\ \A a \in Acceptors : At(a, "idle")
      BY <1>2 DEF Evaluate, Goto, Proposals, tableVars, outsideVars
    <2>2. PICK s \in Bundles : Served(s)
      BY <1>2 DEF Evaluate, Goto
    <2>3. overrides = s
      BY <1>0, <2>1, <2>2, ServedRuns
    <2>4. QED
      BY <2>1, <2>2, <2>3 DEF Served
  <1>3. CASE \E a \in Acceptors : Accept(a)
    <2>1. PICK a \in Acceptors : Accept(a)
      BY <1>3
    <2>2. UNCHANGED <<overrides, since, day, pc>>
      BY <2>1 DEF Accept, workerVars, outsideVars
    <2>3. \A s \in Bundles : /\ status'[s] = "shadow" <=> status[s] = "shadow"
      BY <1>0, <2>1 DEF Accept, Fresh
    <2>4. QED
      BY <1>1, <2>2, <2>3 DEF Served
  <1>4. ASSUME UNCHANGED <<status, since, overrides, day, pc>>
        PROVE  Served(overrides)'
    BY <1>1, <1>4 DEF Served
  <1>5. CASE \E a \in Acceptors : SetOverrides(a) \/ Supersede(a) \/ Mark(a) \/ Queue(a)
    BY <1>5 DEF SetOverrides, Supersede, Mark, Queue, NextStep, Coincidence, Promoting, Proposals,
       workerVars
  <1>6. CASE \/ \E a \in Acceptors : AcceptorDies(a)
            \/ Review \/ SaveShadow \/ UNCHANGED vars
    BY <1>4, <1>6 DEF AcceptorDies, Review, SaveShadow, tableVars, workerVars, outsideVars, vars
  <1>7. QED
    BY <1>2, <1>3, <1>5, <1>6
    DEF Next, Acceptor, Worker, NextDay, Startup, Drain, HandleSetShadow, Finish, EndDrain,
        Update, MarkPromoted, Clear, QueueClear, Rebuild, Prune, CommandFails, PromotionFails,
        Crash, Goto, workerVars, Proposals

LEMMA LiveStep ==
    /\ TypeOK /\ InstallInv /\ ApartInv /\ LatestInv /\ ServedInv /\ LiveInv
    /\ [Next]_vars
    => LiveInv'
  <1> SUFFICES ASSUME TypeOK, InstallInv, ApartInv, LatestInv, ServedInv, LiveInv, [Next]_vars,
                      clash' \subseteq Proposals
               PROVE  LiveInv'
    BY DEF LiveInv
  <1> DEFINE Promoted == \/ liveFile \notin Bundles
                         \/ status[liveFile] = "promoted"
                         \/ pc = "MarkPromoted" /\ status[liveFile] = "shadow"
             Clearing == pc \in {"MarkPromoted", "Clear", "QueueClear"}
  <1>0. /\ status \in [Bundles -> Statuses]
        /\ install \in [Acceptors -> [at : Steps, set : Bundles \cup {Nothing}]]
        /\ \A a \in Acceptors : install[a].at # "idle" => install[a].set \in Bundles
        /\ Nothing \notin Bundles
        /\ todo \subseteq DOMAIN commands
    BY RowTypes
  <1>1. clash \subseteq Proposals
    BY ClashGrows
  <1>2. /\ pc # "Down" => live = liveFile
        /\ Promoted
        /\ Clearing \/ LastArg = Nothing \/ LastArg # liveFile
    BY <1>1 DEF LiveInv
  <1>3. ASSUME pc' # "Down" => live' = liveFile', Promoted',
               Clearing' \/ LastArg' = Nothing \/ LastArg' # liveFile'
        PROVE  LiveInv'
    BY <1>3 DEF LiveInv
  \* The steps that leave the live set and the worker where they are.
  <1>4. ASSUME UNCHANGED <<pc, live, liveFile>>,
               \A s \in Bundles : status[s] \in {"shadow", "promoted"} => status'[s] = status[s],
               LastArg' = LastArg \/ LastArg' = Nothing \/ LastArg' # liveFile'
        PROVE  LiveInv'
    BY <1>2, <1>3, <1>4
  <1>5. CASE \E a \in Acceptors : Accept(a)
    BY <1>0, <1>4, <1>5 DEF Accept, Fresh, workerVars, LastArg
  <1>6. CASE \E a \in Acceptors : SetOverrides(a) \/ AcceptorDies(a)
    BY <1>4, <1>6 DEF SetOverrides, AcceptorDies, NextStep, tableVars, workerVars, LastArg
  <1>7. CASE \E a \in Acceptors : Supersede(a) \/ Mark(a)
    <2>1. PICK a \in Acceptors : Supersede(a) \/ Mark(a)
      BY <1>7
    <2>2. pc \notin Promoting /\ UNCHANGED <<pc, live, liveFile, commands>>
      BY <2>1 DEF Supersede, Mark, NextStep, Coincidence, Proposals, workerVars
    <2>3. status[install[a].set] = "pending" /\ install[a].set \in Bundles
      BY <1>0, <2>1 DEF Supersede, Mark, InstallInv, Installing, At
    <2>4. \A s \in Bundles : status[s] = "promoted" => status'[s] = "promoted"
      BY <1>0, <2>1, <2>3 DEF Supersede, SupersedeOthers, Mark
    <2>5. QED
      BY <1>2, <1>3, <2>2, <2>4 DEF Promoting, LastArg
  <1>8. CASE \E a \in Acceptors : Queue(a)
    <2>1. PICK a \in Acceptors : Queue(a)
      BY <1>8
    <2>2. pc \notin Promoting /\ UNCHANGED <<pc, live, liveFile, status>>
      BY <2>1 DEF Queue, NextStep, Coincidence, Proposals, workerVars
    <2>3. status[install[a].set] = "shadow" /\ install[a].set \in Bundles
      BY <1>0, <1>1, <2>1 DEF Queue, LatestInv, At
    <2>4. LastArg' = install[a].set
      BY <2>1, <2>3, Queued DEF Queue, QueueShadow, Sets
    <2>5. install[a].set # liveFile
      BY <1>2, <2>2, <2>3 DEF Promoting
    <2>6. QED
      BY <1>2, <1>4, <2>2, <2>4, <2>5
  <1>9. CASE Review
    <2>1. PICK r \in Reviews : r # live /\ Enqueue("set_shadow", r)
      BY <1>9 DEF Review, QueueShadow
    <2>2. pc # "Down" /\ UNCHANGED <<pc, live, liveFile, status>>
      BY <1>9 DEF Review, workerVars
    <2>3. LastArg' = r
      BY <2>1, Queued DEF Sets
    <2>4. QED
      BY <1>2, <1>4, <2>1, <2>2, <2>3
  <1>10. CASE SaveShadow
    <2>1. LastArg' = Nothing
      BY <1>10, Queued DEF SaveShadow, QueueShadow
    <2>2. QED
      BY <1>4, <1>10, <2>1 DEF SaveShadow, workerVars
  <1>11. CASE QueueClear
    <2>1. LastArg' = Nothing
      BY <1>11, Queued DEF QueueClear
    <2>2. pc = "QueueClear" /\ pc' = "Rebuild" /\ UNCHANGED <<live, liveFile, status>>
      BY <1>11 DEF QueueClear, Goto
    <2>3. QED
      BY <1>2, <1>3, <2>1, <2>2
  <1>12. CASE Update
    <2>1. pc = "Update" /\ live = liveFile /\ UNCHANGED <<status, commands>>
      BY <1>2, <1>12 DEF Update, tableVars
    <2>2. CASE live' = overrides /\ liveFile' = overrides /\ pc' = "MarkPromoted"
      <3>1. overrides \in Bundles => status[overrides] = "shadow"
        BY <1>1, <2>1 DEF ServedInv, Served
      <3>2. QED
        BY <1>3, <2>1, <2>2, <3>1
    <2>3. CASE UNCHANGED <<live, liveFile>> /\ pc' \in {"Rebuild", "Drain"}
      BY <1>2, <1>3, <2>1, <2>3 DEF LastArg
    <2>4. QED
      BY <1>12, <2>1, <2>2, <2>3 DEF Update, Goto
  <1>13. CASE MarkPromoted
    <2>1. /\ pc = "MarkPromoted" /\ pc' = "Clear" /\ UNCHANGED <<live, liveFile>>
          /\ \A s \in Bundles : status[s] \in {"shadow", "promoted"} => status'[s] = "promoted"
      BY <1>0, <1>13 DEF MarkPromoted, Goto
    <2>2. QED
      BY <1>2, <1>3, <2>1
  <1>14. CASE Clear
    BY <1>2, <1>3, <1>14 DEF Clear, Goto
  <1>15. CASE Finish
    <2>1. LastArg' = LastArg
      BY <1>0, <1>15, Finished DEF Finish
    <2>2. pc = "Finish" /\ pc' = "Command" /\ UNCHANGED <<live, liveFile, status>>
      BY <1>15 DEF Finish, Goto
    <2>3. QED
      BY <1>2, <1>3, <2>1, <2>2
  <1>16. CASE CommandFails \/ PromotionFails
    BY <1>16 DEF CommandFails, PromotionFails, Proposals
  <1>17. CASE Drain \/ HandleSetShadow \/ EndDrain \/ Evaluate \/ Rebuild
    <2>1. UNCHANGED <<status, commands, live, liveFile>> /\ ~Clearing /\ pc # "Down"
      BY <1>17 DEF Drain, HandleSetShadow, EndDrain, Evaluate, Rebuild, tableVars
    <2>2. QED
      BY <1>2, <1>3, <2>1 DEF LastArg
  <1>18. CASE Startup \/ Crash
    <2>1. /\ UNCHANGED <<status, commands, liveFile>> /\ ~Clearing
          /\ pc' = "Down" \/ live' = liveFile'
      BY <1>18 DEF Startup, Crash, Goto, Promoting, Proposals, tableVars
    <2>2. QED
      BY <1>2, <1>3, <2>1 DEF LastArg
  <1>19. CASE Prune \/ NextDay \/ UNCHANGED vars
    BY <1>0, <1>4, <1>19 DEF Prune, NextDay, tableVars, workerVars, vars, LastArg
  <1>20. QED
    BY <1>5, <1>6, <1>7, <1>8, <1>9, <1>10, <1>11, <1>12, <1>13, <1>14, <1>15, <1>16, <1>17,
       <1>18, <1>19 DEF Next, Acceptor, Worker

TrialParts ==
    /\ TypeOK /\ InstallInv /\ MarkInv /\ OneInShadow /\ QueueInv /\ SettledInv
    /\ ApartInv /\ TrialInv /\ TodayInv /\ LatestInv /\ ServedInv /\ LiveInv

LEMMA TrialInit == Init => TrialParts
  <1> SUFFICES ASSUME Init
               PROVE  TrialParts
    OBVIOUS
  <1>1. TypeOK /\ InstallInv /\ MarkInv /\ OneInShadow /\ QueueInv /\ SettledInv
    BY InitLemma, OrderInit DEF PInv
  <1>2. /\ pc = "Down" /\ commands = << >> /\ overrides = Nothing /\ liveFile = Nothing
        /\ \A s \in Bundles : status[s] = "absent"
        /\ \A a \in Acceptors : install[a].at = "idle"
        /\ Nothing \notin Bundles /\ Nothing \notin Reviews
    BY RowTypes, <1>1 DEF Init, QueueInit, Idle
  <1>3. ApartInv /\ TrialInv /\ TodayInv
    <2>1. \A a \in Acceptors : At(a, "idle") /\ ~At(a, "Mark") /\ ~At(a, "Queue")
      BY <1>2 DEF At
    <2>2. OnTrial(LastArg)
      BY <1>2 DEF OnTrial, LastArg
    <2>3. ApartInv
      BY <1>2, <2>1 DEF ApartInv
    <2>4. TrialInv
      BY <1>2, <2>1, <2>2 DEF TrialInv
    <2>5. TodayInv
      BY <1>2, <2>1 DEF TodayInv
    <2>6. QED
      BY <2>3, <2>4, <2>5
  <1>4. LatestInv /\ ServedInv /\ LiveInv
    BY <1>2 DEF LatestInv, ServedInv, LiveInv, LastArg, At
  <1>5. QED
    BY <1>1, <1>3, <1>4 DEF TrialParts

LEMMA TrialInvariance == Spec => []TrialParts
  <1>1. TrialParts /\ [Next]_vars => TrialParts'
    <2> SUFFICES ASSUME TrialParts, [Next]_vars
                 PROVE  TrialParts'
      OBVIOUS
    <2>1. (TypeOK /\ InstallInv /\ MarkInv /\ OneInShadow)'
      BY TypeStep, InstallStep, MarkStep DEF TrialParts
    <2>2. (QueueInv /\ SettledInv /\ ApartInv /\ TodayInv)'
      BY OrderStep, SettledStep, ApartStep, TodayStep DEF TrialParts
    <2>3. (TrialInv /\ LatestInv)'
      BY TrialStep, LatestStep DEF TrialParts
    <2>4. (ServedInv /\ LiveInv)'
      BY ServedStep, LiveStep DEF TrialParts
    <2>5. QED
      BY <2>1, <2>2, <2>3, <2>4 DEF TrialParts
  <1>2. QED
    BY <1>1, TrialInit, PTL DEF Spec

(* The bundle whose days are counted is the one that runs, when bundles are *)
(* the only source of sets and no install met another or a promotion: the   *)
(* last command always names the row in shadow, or nothing when there is    *)
(* none (install_shadow, promote).                                          *)
THEOREM TrialRuns == Spec => []TrialIsRun
  <1>1. TrialParts => TrialIsRun
    <2> SUFFICES ASSUME TrialParts, Quiet, clash = {}
                 PROVE  \A s \in Bundles : status[s] = "shadow" <=> shadow = s
      BY DEF TrialIsRun
    <2>1. shadow = LastArg
      BY QuietIsSettled DEF TrialParts
    <2>2. OnTrial(LastArg)
      BY DEF TrialParts, TrialInv, Quiet, At
    <2>3. QED
      BY <2>1, <2>2 DEF OnTrial
  <1>2. QED
    BY <1>1, TrialInvariance, PTL

(* With proposals at any moment but no install meeting another or a         *)
(* promotion, a quiet shadow instance never tests the live set: what goes   *)
(* live was the set on trial, its row is promoted for good, and the empty   *)
(* command of the promotion is the last to name it or a later one differs.  *)
THEOREM ShadowDiffers == Spec => []ShadowIsNotLive
  <1>1. TrialParts => ShadowIsNotLive
    <2> SUFFICES ASSUME TrialParts, Quiet, clash \subseteq Proposals
                 PROVE  shadow = Nothing \/ shadow # live
      BY DEF ShadowIsNotLive, Proposals
    <2>1. shadow = LastArg
      BY QuietIsSettled DEF TrialParts, Proposals
    <2>2. live = liveFile /\ (LastArg = Nothing \/ LastArg # liveFile)
      BY DEF TrialParts, LiveInv, Quiet
    <2>3. QED
      BY <2>1, <2>2
  <1>2. QED
    BY <1>1, TrialInvariance, PTL

(* With nothing but bundles and no encounter, what goes live is the newest  *)
(* set in shadow and has been there for shadow_min_days                     *)
(* (evaluate_promotion, promote).                                           *)
THEOREM ServedFirst == Spec => PromotedServed
  <1>1. TrialParts /\ [Next]_vars => [clash = {} /\ liveFile' # liveFile => Served(liveFile')]_vars
    <2> SUFFICES ASSUME TrialParts, [Next]_vars, clash = {}, liveFile' # liveFile
                 PROVE  Served(liveFile')
      OBVIOUS
    <2>1. Update
      BY DEF Next, Acceptor, Worker, Accept, SetOverrides, Supersede, Mark, Queue, NextStep,
         AcceptorDies, Review, SaveShadow, NextDay, Startup, Drain, HandleSetShadow, Finish,
         EndDrain, Evaluate, MarkPromoted, Clear, QueueClear, Rebuild, Prune, CommandFails,
         PromotionFails, Crash, tableVars, vars
    <2>2. pc = "Update" /\ overrides # Nothing /\ liveFile' = overrides
      BY <2>1 DEF Update
    <2>3. overrides \in Bundles
      BY <2>2 DEF TrialParts, TypeOK, Sets, ApartInv
    <2>4. QED
      BY <2>2, <2>3 DEF TrialParts, ServedInv
  <1>2. QED
    BY <1>1, TrialInvariance, PTL DEF Spec, PromotedServed
=============================================================================
