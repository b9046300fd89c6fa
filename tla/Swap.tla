---------------------------------- MODULE Swap ----------------------------------
(***************************************************************************)
(* How the live executor sends a swap (execution.LiveExecutor._swap): it   *)
(* asks whether the network is congested, orders and signs a transaction,  *)
(* sends it in a Jito bundle, falls back to Jupiter's /execute with the    *)
(* same transaction, and polls the chain for its signature.  Any request   *)
(* may arrive and its answer be lost; HttpClient then sends it again.      *)
(* Worker takes the four outcomes of a swap as given; here they are        *)
(* derived from the calls.                                                 *)
(***************************************************************************)
EXTENDS Integers, Sequences, FiniteSets

CONSTANTS
    MaxSwaps,       \* bound on buys and sells
    Sends,          \* times one request is sent: HttpClient's retries and one
    MaxLosses       \* bound on requests whose answer is lost and on restarts

ASSUME SwapAssumption ==
    MaxSwaps \in Nat \ {0} /\ Sends \in Nat \ {0} /\ MaxLosses \in Nat

VARIABLES
    \* the chain
    ledger,         \* signed transactions in the order of their signing
    \* the executor
    step,           \* the call _swap is at
    sends,          \* times the present request went unanswered
    answers,        \* what buy or sell returned, swap by swap
    \* history
    doubts,         \* what went wrong in a swap that its caller cannot see
    losses          \* counts what MaxLosses bounds

swapVars == <<ledger, step, sends, answers, doubts, losses>>

Fates == {"signed", "flying", "landed", "reverted", "expired"}
Doubts == {"lost", "overdue", "unsigned"}

SwapTypeOK ==
    /\ ledger \in Seq([swap : 1 .. MaxSwaps, fate : Fates])
    /\ step \in {"idle", "congestion", "order", "bundle", "execute", "confirm"}
    /\ sends \in 0 .. Sends - 1
    /\ answers \in Seq({"filled", "refused", "killed"}) /\ Len(answers) <= MaxSwaps
    /\ doubts \in [1 .. MaxSwaps -> SUBSET Doubts]
    /\ losses \in 0 .. MaxLosses

SwapInit ==
    /\ ledger = <<>> /\ step = "idle" /\ sends = 0 /\ answers = <<>>
    /\ doubts = [s \in 1 .. MaxSwaps |-> {}] /\ losses = 0

\* The swap under way, and the transaction it holds.
Swapping == Len(answers) + 1
Signed == Len(ledger)
Fate == ledger[Signed].fate

\* buy and sell answer ok, or ok = False with a reason.
Return(result) ==
    /\ answers' = Append(answers, result)
    /\ step' = "idle" /\ sends' = 0

Doubt(what) == doubts' = [doubts EXCEPT ![Swapping] = @ \union what]

\* A bug for the mutants: what is sent again is ordered and signed anew.
SentAnew == Append(ledger, [swap |-> Swapping, fate |-> "flying"])

\* A transaction that reaches a validator may land from then on.
Sent == [ledger EXCEPT ![Signed].fate = IF @ = "signed" THEN "flying" ELSE @]

Loss == losses < MaxLosses /\ losses' = losses + 1

----------------------------------------------------------------------------
(* Before anything is signed *)

\* buy or sell, the congestion check being a setting.
BuyOrSell ==
    /\ step = "idle" /\ Len(answers) < MaxSwaps
    /\ step' \in {"congestion", "order"}
    /\ UNCHANGED <<ledger, sends, answers, doubts, losses>>

\* The fees of recent slots: too high, or not to be had, and nothing is sent.
CheckCongestion ==
    /\ step = "congestion"
    /\ \/ step' = "order" /\ UNCHANGED <<sends, answers>>
       \/ Return("refused")
    /\ UNCHANGED <<ledger, doubts, losses>>

\* An order that fails, costs more than the tolerance or brings no transaction
\* ends the swap; else it is signed, and sent by the route of the settings.
Order ==
    /\ step = "order"
    /\ \/ Return("refused") /\ UNCHANGED ledger
       \/ /\ ledger' = Append(ledger, [swap |-> Swapping, fate |-> "signed"])
          /\ step' \in {"bundle", "execute"}
          /\ UNCHANGED <<sends, answers>>
    /\ UNCHANGED <<doubts, losses>>

----------------------------------------------------------------------------
(* _submit *)

\* What Jito did not take, for whatever reason, goes to /execute.
FallBack ==
    /\ step' = "execute" /\ sends' = 0
    /\ UNCHANGED answers

\* The bundle's id is answered: the signature is known from the transaction.
BundleTaken ==
    /\ step = "bundle"
    /\ ledger' = Sent
    /\ step' = "confirm" /\ sends' = 0
    /\ UNCHANGED <<answers, doubts, losses>>

\* No blockhash for the tip, or an answer that refuses the bundle.
BundleRefused ==
    /\ step = "bundle"
    /\ FallBack
    /\ UNCHANGED <<ledger, doubts, losses>>

\* A request without an answer is sent again, until its attempts are used up;
\* it may have arrived all the same.
Unanswered(GiveUp) ==
    /\ Loss
    /\ \/ UNCHANGED <<ledger, doubts>>
       \/ ledger' = Sent /\ Doubt({"lost"})
    /\ IF sends + 1 < Sends
       THEN sends' = sends + 1 /\ UNCHANGED <<step, answers>>
       ELSE GiveUp

BundleUnanswered == step = "bundle" /\ Unanswered(FallBack)

\* /execute answers with a signature, or, of a transaction it took, with none,
\* in which case nothing is confirmed.
Executed ==
    /\ step = "execute"
    /\ ledger' = Sent
    /\ \/ step' = "confirm" /\ sends' = 0 /\ UNCHANGED <<answers, doubts, losses>>
       \/ Loss /\ Doubt({"unsigned"}) /\ Return("filled")

\* /execute refuses what it did not take, or reports that what it took failed;
\* of a transaction in flight by the other route it knows nothing.
ExecuteRefused ==
    /\ step = "execute"
    /\ Return("refused")
    /\ UNCHANGED <<ledger, doubts, losses>>

ExecuteUnanswered == step = "execute" /\ Unanswered(Return("refused"))

----------------------------------------------------------------------------
(* confirm *)

Confirmed ==
    /\ step = "confirm" /\ Fate = "landed"
    /\ Return("filled")
    /\ UNCHANGED <<ledger, doubts, losses>>

Reverted ==
    /\ step = "confirm" /\ Fate = "reverted"
    /\ Return("refused")
    /\ UNCHANGED <<ledger, doubts, losses>>

\* Ninety seconds without a final answer: _swap only looks for "failed".
Overdue ==
    /\ step = "confirm"
    /\ Return("filled") /\ Doubt({"overdue"})
    /\ UNCHANGED <<ledger, losses>>

----------------------------------------------------------------------------

\* A transaction in flight lands, reverts or outlives its blockhash.
Settle(t) ==
    /\ ledger[t].fate = "flying"
    /\ \E fate \in {"landed", "reverted", "expired"} :
         ledger' = [ledger EXCEPT ![t].fate = fate]
    /\ UNCHANGED <<step, sends, answers, doubts, losses>>

\* The worker is killed in the middle of a swap.
Interrupted ==
    /\ step # "idle" /\ Loss
    /\ Return("killed")
    /\ UNCHANGED <<ledger, doubts>>

SwapNext ==
    \/ BuyOrSell \/ CheckCongestion \/ Order
    \/ BundleTaken \/ BundleRefused \/ BundleUnanswered
    \/ Executed \/ ExecuteRefused \/ ExecuteUnanswered
    \/ Confirmed \/ Reverted \/ Overdue
    \/ \E t \in DOMAIN ledger : Settle(t)
    \/ Interrupted

SwapSpec == SwapInit /\ [][SwapNext]_swapVars

----------------------------------------------------------------------------

Of(s, fates) == {t \in DOMAIN ledger : ledger[t].swap = s /\ ledger[t].fate \in fates}

\* What Worker assumes of an order, over both routes and every retry: one swap
\* moves tokens at most once; it is reported filled without having landed only
\* after a confirmation that timed out or a missing signature; and what was
\* reported refused can have landed, or land later, only after a request whose
\* answer was lost.
SwapsAsAssumed ==
    \A s \in DOMAIN answers :
        /\ Cardinality(Of(s, {"landed", "flying"})) <= 1
        /\ answers[s] = "filled" /\ doubts[s] \intersect {"overdue", "unsigned"} = {} =>
               Of(s, {"landed"}) # {}
        /\ answers[s] = "refused" /\ "lost" \notin doubts[s] =>
               Of(s, {"landed", "flying"}) = {}
=================================================================================
