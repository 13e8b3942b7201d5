------------------------------- MODULE Account -------------------------------
(***************************************************************************)
(* The account mirror that ExecutionGateway keeps (runtime/broker.py), the *)
(* profit-and-loss ledger it appends to (SessionMemory.record_pnl_event),  *)
(* the state file the engine saves at the end of a cycle (core/state.py)   *)
(* and the figures reported from the three (runtime/pnl.py).               *)
(*                                                                         *)
(* Money is in ticks: a share that wins pays Unit, prices lie strictly     *)
(* between 0 and Unit.  A position keeps its cost basis instead of its     *)
(* average price; what a partial sale releases is the basis in proportion, *)
(* rounded to a tick.  The venue is free: it may refuse, leave an order    *)
(* open or fill it.  A paper venue only refuses more.                      *)
(***************************************************************************)
EXTENDS Integers, FiniteSets, Functions

CONSTANTS
  Tokens,      \* outcome tokens
  Unit,        \* ticks in 1.0
  Funds,       \* spendable balances the platform may report to a new book
  Quantities,  \* order sizes
  Fees,        \* fees in ticks
  Amounts,     \* transfer amounts
  MaxOps,      \* bound: accepted venue operations
  Faults       \* which of "sink" (ledger write fails) and "crash" may happen

ASSUME AccountAssumption ==
  /\ IsFiniteSet(Tokens) /\ Unit \in Nat \ {0} /\ Funds \subseteq Nat /\ MaxOps \in Nat
  /\ Quantities \subseteq Nat \ {0} /\ Fees \subseteq Nat /\ Amounts \subseteq Nat \ {0}
  /\ Faults \subseteq {"sink", "crash"}

VARIABLES
  mirror,  \* AccountState, with the history fields flow, loose and applied
  ledger,  \* pnl_events, as the counts pnl_summary reads from it; lost: history, failed writes
  file,    \* the state file: {} before the first save, then {the saved mirror}
  ops      \* venue operations accepted so far; the next one's order id

vars == <<mirror, ledger, file, ops>>

Prices == 1..(Unit - 1)
Ids == 1..MaxOps
OrderStatus == {"NONE", "OPEN", "FILLED", "CANCELED", "REJECTED", "FAILED"}

(* flow: net external transfers (transferred_out is its outbound part);     *)
(* loose: cash from sales whose cost basis the mirror did not know, less    *)
(* the basis it dropped on their account; applied: the financial events     *)
(* this mirror has absorbed.                                                *)
Mirrors ==
  [start : Nat, cash : Int, realized : Int,
   qty : [Tokens -> Nat], cost : [Tokens -> Nat], mark : [Tokens -> 0..Unit],
   orders : [Ids -> OrderStatus],
   flow : Int, loose : Int, applied : SUBSET Ids]

TypeOK ==
  /\ mirror \in Mirrors /\ file \subseteq Mirrors
  /\ ledger \in [uncertain : Nat, recorded : SUBSET Ids, lost : SUBSET Ids]
  /\ ops \in 0..MaxOps

(* A book opens at the balance the platform reports it can spend. *)
NewBook(funds) ==
  [start |-> funds, cash |-> funds, realized |-> 0,
   qty |-> [t \in Tokens |-> 0], cost |-> [t \in Tokens |-> 0], mark |-> [t \in Tokens |-> 0],
   orders |-> [i \in Ids |-> "NONE"], flow |-> 0, loose |-> 0, applied |-> {}]

Init ==
  /\ mirror \in {NewBook(funds) : funds \in Funds} /\ file = {} /\ ops = 0
  /\ ledger = [uncertain |-> 0, recorded |-> {}, lost |-> {}]

Held(t) == mirror.qty[t] > 0                 \* token_id in state.positions

(* Append a fact to the ledger.  Its failure is logged and swallowed. *)
RecordPnl(partial) ==
  \/ ledger' = [ledger EXCEPT !.uncertain = IF partial THEN @ + 1 ELSE @,
                               !.recorded = @ \cup {ops + 1}]
  \/ "sink" \in Faults /\ ledger' = [ledger EXCEPT !.lost = @ \cup {ops + 1}]

(* A financial effect: the mirror moves, then the ledger is told. *)
Effect(m, partial) ==
  /\ ops < MaxOps /\ ops' = ops + 1
  /\ mirror' = [m EXCEPT !.applied = @ \cup {ops + 1}]
  /\ RecordPnl(partial)
  /\ UNCHANGED file

Filled(m) == [m EXCEPT !.orders[ops + 1] = "FILLED"]

----------------------------------------------------------------------------
(* Plausible mistakes; no specification uses them. *)
BuyFeeForgotten(t, q, p, fee) ==      \* realized_pnl not charged with the fee
  Effect(Filled([mirror EXCEPT !.cash = @ - (q * p + fee), !.qty[t] = @ + q,
                               !.cost[t] = @ + q * p, !.mark[t] = p]), FALSE)

SellKeepsBasis(t, q, p, fee) ==       \* the position is shrunk, its basis is not
  /\ Held(t) /\ q <= mirror.qty[t]
  /\ Effect(Filled([mirror EXCEPT !.cash = @ + q * p - fee,
                                  !.realized = @ + q * p - fee,
                                  !.qty[t] = @ - q, !.mark[t] = p]), FALSE)

SellOversold(t, q, p, fee) ==         \* the sale is not compared with what is held
  /\ Held(t)
  /\ LET basis == (mirror.cost[t] * q) \div mirror.qty[t]
     IN Effect(Filled([mirror EXCEPT !.cash = @ + q * p - fee,
                                     !.realized = @ + q * p - fee - basis,
                                     !.qty[t] = @ - q, !.cost[t] = @ - basis,
                                     !.mark[t] = IF q = mirror.qty[t] THEN 0 ELSE p]), FALSE)

SellUnmatchedComplete(t, q, p, fee) ==  \* unknown basis recorded as "complete"
  /\ ~(Held(t) /\ q <= mirror.qty[t])
  /\ Effect(Filled([mirror EXCEPT !.cash = @ + q * p - fee,
                                  !.loose = @ + q * p - fee - mirror.cost[t],
                                  !.qty[t] = 0, !.cost[t] = 0, !.mark[t] = 0]), FALSE)

CancelAnyStatus(ids) ==               \* cancel_orders without `status == "OPEN"`
  /\ mirror' = [mirror EXCEPT !.orders =
       [i \in Ids |-> IF i \in ids /\ mirror.orders[i] # "NONE" THEN "CANCELED" ELSE mirror.orders[i]]]
  /\ UNCHANGED <<ledger, file, ops>>

RedeemUnrecorded(t, winning) ==       \* a redemption that never reaches the ledger
  /\ Held(t)
  /\ ops < MaxOps /\ ops' = ops + 1
  /\ LET payout == IF winning THEN mirror.qty[t] * Unit ELSE 0
     IN mirror' = [mirror EXCEPT !.cash = @ + payout, !.realized = @ + payout - mirror.cost[t],
                                 !.qty[t] = 0, !.cost[t] = 0, !.mark[t] = 0,
                                 !.applied = @ \cup {ops + 1}]
  /\ UNCHANGED <<ledger, file>>

----------------------------------------------------------------------------
(* ---- place_order and _fill ---- *)
Buy(t, q, p, fee) ==
  Effect(Filled([mirror EXCEPT !.cash = @ - (q * p + fee), !.realized = @ - fee, !.qty[t] = @ + q,
                               !.cost[t] = @ + q * p, !.mark[t] = p]), FALSE)

(* The recorded position covers the sale: its basis is realised. *)
SellMatched(t, q, p, fee) ==
  /\ Held(t) /\ q <= mirror.qty[t]
  /\ LET proceeds == q * p - fee
         basis == (mirror.cost[t] * q) \div mirror.qty[t]
         gone == q = mirror.qty[t]
     IN Effect(Filled([mirror EXCEPT !.cash = @ + proceeds,
                                     !.realized = @ + proceeds - basis,
                                     !.qty[t] = @ - q, !.cost[t] = @ - basis,
                                     !.mark[t] = IF gone THEN 0 ELSE p]), FALSE)

(* It does not: the cash is booked, the profit is unknown, and whatever was *)
(* recorded of the position is dropped.                                     *)
SellUnmatched(t, q, p, fee) ==
  /\ ~(Held(t) /\ q <= mirror.qty[t])
  /\ LET proceeds == q * p - fee
     IN Effect(Filled([mirror EXCEPT !.cash = @ + proceeds,
                                     !.loose = @ + proceeds - mirror.cost[t],
                                     !.qty[t] = 0, !.cost[t] = 0, !.mark[t] = 0]), TRUE)

(* Accepted without a fill: the order is listed, nothing else moves. *)
PlaceUnfilled(status) ==
  /\ ops < MaxOps /\ ops' = ops + 1
  /\ mirror' = [mirror EXCEPT !.orders[ops + 1] = status]
  /\ UNCHANGED <<ledger, file>>

(* The venue says which of the orders it was asked about are gone. *)
CancelOrders(ids) ==
  /\ \E i \in ids : mirror.orders[i] = "OPEN"
  /\ mirror' = [mirror EXCEPT !.orders =
       [i \in Ids |-> IF i \in ids /\ mirror.orders[i] = "OPEN" THEN "CANCELED" ELSE mirror.orders[i]]]
  /\ UNCHANGED <<ledger, file, ops>>

Redeem(t, winning) ==
  /\ Held(t)
  /\ LET payout == IF winning THEN mirror.qty[t] * Unit ELSE 0
     IN Effect([mirror EXCEPT !.cash = @ + payout, !.realized = @ + payout - mirror.cost[t],
                              !.qty[t] = 0, !.cost[t] = 0, !.mark[t] = 0], FALSE)

RedeemUnmatched(t) == ~Held(t) /\ Effect(mirror, TRUE)

Transfer(in, amount) ==
  Effect([mirror EXCEPT !.cash = IF in THEN @ + amount ELSE @ - amount,
                        !.flow = IF in THEN @ + amount ELSE @ - amount], FALSE)

Mark(t, p) ==
  /\ Held(t) /\ mirror' = [mirror EXCEPT !.mark[t] = p]
  /\ UNCHANGED <<ledger, file, ops>>

(* The end of a cycle writes the state file, atomically. *)
Save == file' = {mirror} /\ UNCHANGED <<mirror, ledger, ops>>

(* The process dies; the next engine opens the file, or a new book when    *)
(* nothing was ever saved.  The ledger is durable.                         *)
Load == IF file = {} THEN {NewBook(funds) : funds \in Funds} ELSE file

Crash == "crash" \in Faults /\ mirror' \in Load /\ UNCHANGED <<ledger, file, ops>>

Trade ==
  \E t \in Tokens, q \in Quantities, p \in Prices, fee \in Fees :
    Buy(t, q, p, fee) \/ SellMatched(t, q, p, fee) \/ SellUnmatched(t, q, p, fee)

Next ==
  \/ Trade
  \/ \E s \in OrderStatus \ {"NONE", "FILLED"} : PlaceUnfilled(s)
  \/ \E ids \in SUBSET Ids : CancelOrders(ids)
  \/ \E t \in Tokens, w \in BOOLEAN : Redeem(t, w)
  \/ \E t \in Tokens : RedeemUnmatched(t)
  \/ \E in \in BOOLEAN, a \in Amounts : Transfer(in, a)
  \/ \E t \in Tokens, p \in 0..Unit : Mark(t, p)
  \/ Save
  \/ Crash

Spec == Init /\ [][Next]_vars

----------------------------------------------------------------------------
Sum(f) == FoldFunction(+, 0, f)
Basis(m) == Sum(m.cost)                                       \* sum of cost_basis
Exposure(m) == Sum([t \in Tokens |-> m.qty[t] * m.mark[t]])   \* AccountState.exposure
Equity(m) == m.cash + Exposure(m)                             \* AccountState.equity

(* pnl_summary: null (here: not Known) as soon as one event is uncertain *)
Known == ledger.uncertain = 0
TotalPnl(m) == m.realized + Exposure(m) - Basis(m)

(* The books balance: cash and cost basis are what was put in, plus what   *)
(* was realised, plus what is openly unattributed - through any mixture of *)
(* fills, redemptions, transfers and restarts (broker.py:195-381).         *)
BooksBalance ==
  mirror.cash + Basis(mirror) = mirror.start + mirror.flow + mirror.realized + mirror.loose

(* The console reads the state file for the figures and the ledger for     *)
(* whether they are known, and the two are written at different times.  A  *)
(* profit it states as known is exactly what the saved account is worth    *)
(* beyond what was put in and taken out (pnl.py:69-91, 113-152) - as long  *)
(* as no ledger write failed, for a lost row may be the one that says the  *)
(* profit is not known.                                                    *)
KnownProfitIsExact ==
  Known /\ ledger.lost = {} => \A m \in file : TotalPnl(m) = Equity(m) - m.start - m.flow

(* A restart may lose a fill from the mirror but never from the ledger:    *)
(* whatever the mirror or the state file has absorbed, the ledger holds or *)
(* failed to write when it happened (broker.py:65-90, engine.py:502).      *)
LedgerCoversMirror ==
  \A m \in file \cup {mirror} : m.applied \subseteq ledger.recorded \cup ledger.lost

(* A token that is no longer held keeps neither a cost basis nor a mark,   *)
(* whichever of its sales, over-sales and redemptions closed it            *)
(* (broker.py:252-265, 334).                                               *)
PositionsAreReal == \A t \in Tokens : mirror.qty[t] = 0 => mirror.cost[t] = 0 /\ mirror.mark[t] = 0

(* All four at once, through fills, over-sales, redemptions, transfers,     *)
(* restarts and failed ledger writes (broker.py:195-381, pnl.py:69-152).   *)
BooksAreRight ==
  /\ TypeOK /\ BooksBalance /\ KnownProfitIsExact
  /\ LedgerCoversMirror /\ PositionsAreReal

(* An order that left OPEN keeps its status whatever the venue lists as    *)
(* cancelled; only a restart may forget it (broker.py:301-308).            *)
SettledOrdersStay ==
  [][Crash \/ \A i \in Ids : mirror.orders[i] \notin {"NONE", "OPEN"} =>
                 mirror'.orders[i] = mirror.orders[i]]_vars
=============================================================================
