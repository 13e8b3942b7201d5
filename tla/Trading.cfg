SPECIFICATION OneSpec
CONSTANTS
  Tokens = {t1}
  Unit = 3
  Funds = {3}
  Quantities = {1, 2}
  Fees = {1}
  Amounts = {2}
  MaxOps = 3
  Faults = {"crash", "sink"}
  None = None
  MaxRules = 2
  Sizes = {1, 2}
  Cuts = {0, 1}
  Balance = 5
  Lots = {1, 2}
  Whole = 2
  Fee = 1
  MaxWrites = 2
  Threads = {h1, h2}
  Quotes = {q1}
  MaxClients = 2
  MaxPatches = 2
  d1 = d1
  d2 = d2
  Deposits = {d1, d2}
  Amount <- Worth
  Pages = {p1}
  Withdrawals <- Payouts
  Start = 0
SYMMETRY Symmetric
CHECK_DEADLOCK FALSE
INVARIANTS
  BooksAreRight
  OnlyWhatTheRulesAllow
  OrdersUseTheirClient
  PanelTellsTheTruth
PROPERTIES
  SettledOrdersStay
