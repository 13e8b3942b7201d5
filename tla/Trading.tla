------------------------------- MODULE Trading -------------------------------
(***************************************************************************)
(* What surrounds an order: the account it is booked in (Account), the     *)
(* rules and the transport it passes (OrderGate), the venue's client       *)
(* (WriteClient) and the money that arrives and leaves (Bridge).  Their    *)
(* states do not meet, so they are put side by side: every behaviour is    *)
(* one of one machine, named by part, while the others wait where they     *)
(* began.                                                                  *)
(***************************************************************************)
EXTENDS Account

CONSTANTS
  None,
  MaxRules, Sizes, Cuts, Balance, Lots, Whole, Fee, MaxWrites,  \* OrderGate; its Unit is Account's
  Threads, Quotes, MaxClients, MaxPatches,                      \* WriteClient
  Deposits, Amount, Pages, Withdrawals, Start                   \* Bridge

VARIABLES
  part,  \* the machine this behaviour is one of
  \* OrderGate
  gateSetup, gateBook, gateCall, gateHeard, gateLast, gateWrites,
  \* WriteClient
  walInit, walLock, walPc, walWork, walOriginal, walClient, walSetup,
  walStale, walTrading, walMade, walReady, walClosed, walQuotes, walOrders,
  \* Bridge
  monChain, monKind, monRoute, monCredited, monBalance, monWatched, monPage,
  monAsking, monOut, monMixed

Gate == INSTANCE OrderGate WITH
  Funds <- Balance, setup <- gateSetup, book <- gateBook, call <- gateCall, heard <- gateHeard, last <- gateLast,
  writes <- gateWrites

Wallet == INSTANCE WriteClient WITH
  init <- walInit, lock <- walLock, pc <- walPc, work <- walWork,
  original <- walOriginal, client <- walClient, setup <- walSetup,
  stale <- walStale, trading <- walTrading, made <- walMade,
  ready <- walReady, closed <- walClosed, quotes <- walQuotes,
  orders <- walOrders

Money == INSTANCE Bridge WITH
  chain <- monChain,
  kind <- monKind, route <- monRoute, credited <- monCredited,
  balance <- monBalance, watched <- monWatched, page <- monPage,
  asking <- monAsking, out <- monOut, mixed <- monMixed

gateVars == <<gateSetup, gateBook, gateCall, gateHeard, gateLast, gateWrites>>
walVars == <<walInit, walLock, walPc, walWork, walOriginal, walClient,
             walSetup, walStale, walTrading, walMade, walReady, walClosed,
             walQuotes, walOrders>>
monVars == <<monChain, monKind, monRoute, monCredited, monBalance, monWatched,
             monPage, monAsking, monOut, monMixed>>

Parts == {"own", "gate", "wal", "mon"}

EveryInit ==
  /\ part \in Parts
  /\ Init
  /\ Gate!Init
  /\ Wallet!Init
  /\ Money!Init

(* One machine moves, the others wait where they began. *)
EveryNext ==
  /\ UNCHANGED part
  /\ \/ /\ part = "own" /\ Next
        /\ UNCHANGED <<gateVars, walVars, monVars>>
     \/ /\ part = "gate" /\ Gate!Next
        /\ UNCHANGED <<vars, walVars, monVars>>
     \/ /\ part = "wal" /\ Wallet!Next
        /\ UNCHANGED <<vars, gateVars, monVars>>
     \/ /\ part = "mon" /\ Money!Next
        /\ UNCHANGED <<vars, gateVars, walVars>>

EverySpec == EveryInit /\ [][EveryNext]_<<part, vars, gateVars, walVars, monVars>>

ASSUME TradingAssumption ==
  Gate!OrderGateAssumption /\ Wallet!WriteClientAssumption /\ Money!BridgeAssumption

----------------------------------------------------------------------------
(* Nothing a rule refuses reaches the venue, and simulated purchases are   *)
(* paid for (core/risk.py:70-118, market_guard.py:60-120,                  *)
(* paper_trading.py:66-94).                                                *)
OnlyWhatTheRulesAllow == part = "gate" => Gate!OnlyWhatTheRulesAllow

(* An order goes out on a connection built for trading, and a quote is     *)
(* used once, whatever the threads that share the client do meanwhile      *)
(* (_polymarket/write.py:118-341).                                         *)
OrdersUseTheirClient == part = "wal" => Wallet!TradesOnItsOwnClient /\ Wallet!QuoteIsUsedOnce

(* What the funding page says of a deposit or a withdrawal is true unless  *)
(* two of the same amount were confounded (_polymarket/write.py:420-720).  *)
PanelTellsTheTruth == part = "mon" => Money!PanelTellsTheTruth
==============================================================================
