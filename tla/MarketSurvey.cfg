SPECIFICATION SurveySpec
CONSTANTS
  c1 = c1
  c2 = c2
  e1 = e1
  Contracts = {c1, c2}
  Topics = {e1}
  TopicOf <- OneEvent
  Volatile = {c2}
  Fresh = 2
  Backoff = 1
  Retry = 2
  Interval = 1
  Delays = {1}
  MaxAppts = 2
  Sources <- Order
  Listing <- Lists
  Subjects = {"a", "b", "w"}
  MaxPages = 3
  Wanted = {"w"}
INVARIANTS
  NoPageIsSkipped
  ChoicesAreHonest
PROPERTIES
  EveryPageIsRead
