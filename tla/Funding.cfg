SPECIFICATION FairSpec
CONSTANTS
  MaxAsks = 2
  MaxMoney = 2
  Amounts = {2}
  Budget = 1
  Crashes = TRUE
INVARIANTS
  AsksAreKept
  CancelledInTimeMovesNothing
PROPERTIES
  AnswersMatchTheirAsk
  AnswersAreClaimed
