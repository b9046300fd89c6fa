------------------------------ MODULE Portfolio ------------------------------
(***************************************************************************)
(* The book one SQLite file keeps for every trading instance               *)
(* (solbot/portfolio.py): the positions table, the balance:<instance> kv   *)
(* row and the trades journal.                                             *)
(*                                                                         *)
(* Each operation below is one BEGIN IMMEDIATE transaction of the code, so *)
(* one action.  Money is an integer number of units of account, and one    *)
(* unit of a token is what one unit of account bought at entry: size_usd   *)
(* therefore also stands for the quantity (qty) held.                      *)
(***************************************************************************)
EXTENDS Integers, Sequences, FiniteSets, FiniteSetsExt

CONSTANTS
    Instances,      \* "live", "paper", "shadow": who owns a book
    Mints,          \* tokens
    StartBalance    \* config paper_starting_balance

ASSUME StartBalanceAssumption == StartBalance \in Nat
ASSUME MintsAssumption == IsFiniteSet(Mints)

VARIABLES
    positions,      \* positions[id]: the row with that AUTOINCREMENT id
    balance,        \* balance[i]: the free cash of instance i
    trades          \* journal of completed trades, oldest first

portfolioVars == <<positions, balance, trades>>

PositionRow ==
    [instance : Instances, mint : Mints, status : {"open", "closed"},
     size_usd : Nat, entry_ts : Nat]

TradeRow == [position_id : Nat, instance : Instances, pnl_usd : Int]

PortfolioInit ==
    /\ positions = << >>
    /\ balance = [i \in Instances |-> StartBalance]
    /\ trades = << >>

----------------------------------------------------------------------------
(* Queries *)

OpenPositions(i) ==
    {p \in DOMAIN positions :
        positions[p].instance = i /\ positions[p].status = "open"}

PositionFor(i, m) == {p \in OpenPositions(i) : positions[p].mint = m}

SumSizes(ids) ==
    SumFunctionOnSet([p \in DOMAIN positions |-> positions[p].size_usd], ids)

DeployedUsd(i) == SumSizes(OpenPositions(i))

\* What the engine calls the wallet of an instance: free cash plus cost basis.
WalletUsd(i) == balance[i] + DeployedUsd(i)

----------------------------------------------------------------------------
(* Operations *)

\* A bug for the mutants: the position is written but the cash is not taken.
OpenPositionWithoutDebit(i, m, gross, ts) ==
    /\ positions' = Append(positions,
                           [instance |-> i, mint |-> m, status |-> "open",
                            size_usd |-> gross, entry_ts |-> ts])
    /\ UNCHANGED <<balance, trades>>

OpenPosition(i, m, gross, ts) ==
    /\ positions' = Append(positions,
                           [instance |-> i, mint |-> m, status |-> "open",
                            size_usd |-> gross, entry_ts |-> ts])
    /\ balance' = [balance EXCEPT ![i] = @ - gross]
    /\ UNCHANGED trades

\* A bug for the mutants: the profit is credited, the stake is not returned.
ClosePositionCreditsPnl(p, proceeds) ==
    LET i == positions[p].instance
        pnl == proceeds - positions[p].size_usd
    IN  /\ positions' = [positions EXCEPT ![p].status = "closed"]
        /\ trades' = Append(trades, [position_id |-> p, instance |-> i,
                                     pnl_usd |-> pnl])
        /\ balance' = [balance EXCEPT ![i] = @ + pnl]

\* The UPDATE is by id alone: it does not ask whether the row is still open.
ClosePosition(p, proceeds) ==
    LET i == positions[p].instance
        pnl == proceeds - positions[p].size_usd
    IN  /\ positions' = [positions EXCEPT ![p].status = "closed"]
        /\ trades' = Append(trades, [position_id |-> p, instance |-> i,
                                     pnl_usd |-> pnl])
        /\ balance' = [balance EXCEPT ![i] = @ + proceeds]

----------------------------------------------------------------------------
(* What the book promises whoever writes to it *)

PortfolioTypeOK ==
    /\ positions \in Seq(PositionRow)
    /\ balance \in [Instances -> Int]
    /\ trades \in Seq(TradeRow)

(* At most one open position per instance and token.  No constraint of the
   schema enforces it: it holds only because _entries_for_instance asks
   position_for before it buys and nobody else inserts. *)
OneOpenPerMint ==
    \A i \in Instances, m \in Mints :
        \A p, q \in PositionFor(i, m) : p = q

Journalled(i) == {t \in DOMAIN trades : trades[t].instance = i}

RealizedUsd(i) ==
    SumFunctionOnSet([t \in DOMAIN trades |-> trades[t].pnl_usd], Journalled(i))

(* Conservation of money, per instance: free cash is the starting balance,
   minus what is still deployed, plus what every journalled trade made.  It
   ties three tables together across every open, close and crash. *)
LedgerBalances ==
    \A i \in Instances :
        balance[i] = StartBalance - DeployedUsd(i) + RealizedUsd(i)

(* The journal the tax export reads has exactly one row per closed position
   and none for an open one: a position is sold at most once. *)
JournalMatchesBook ==
    \A p \in DOMAIN positions :
        Cardinality({t \in DOMAIN trades : trades[t].position_id = p})
            = IF positions[p].status = "closed" THEN 1 ELSE 0
=============================================================================
