------------------------------- MODULE Markets -------------------------------
(***************************************************************************)
(* The way of a market to the robot: a venue's listings are read and some  *)
(* topics chosen (MarketSurvey), and every contract ever listed is         *)
(* screened and looked at again (MarketWork).  Their states do not meet,   *)
(* so they are put side by side: every behaviour is one of one machine,    *)
(* named by part, while the other waits where it began.                    *)
(***************************************************************************)
EXTENDS Integers, FiniteSets, Sequences

CONSTANTS
  Contracts, Topics, TopicOf, Volatile, Fresh, Backoff, Retry, Interval, Delays, MaxAppts,  \* MarketWork
  Sources, Listing, Subjects, MaxPages, Wanted                                              \* MarketSurvey

VARIABLES
  part,  \* the machine this behaviour is one of
  \* MarketWork
  workRow, workQueue, workAppts, workStage, workListed, workScan,
  workAble, workStale, workOwed,
  \* MarketSurvey
  surResume, surSearch, surStage, surCursor, surActive, surTurn, surPages,
  surProbe, surSeen, surVerdict, surOffered, surRow, surChosen, surQueued

Work == INSTANCE MarketWork WITH
  row <- workRow, queue <- workQueue, appts <- workAppts, stage <- workStage,
  listed <- workListed, scan <- workScan, able <- workAble,
  stale <- workStale, owed <- workOwed

Survey == INSTANCE MarketSurvey WITH
  Topics <- Subjects, resume <- surResume, search <- surSearch, stage <- surStage,
  cursor <- surCursor, active <- surActive, turn <- surTurn, pages <- surPages,
  probe <- surProbe, seen <- surSeen, verdict <- surVerdict, offered <- surOffered,
  row <- surRow, chosen <- surChosen, queued <- surQueued

workVars == <<workRow, workQueue, workAppts, workStage, workListed, workScan,
              workAble, workStale, workOwed>>
surVars == <<surResume, surSearch, surStage, surCursor, surActive, surTurn, surPages,
             surProbe, surSeen, surVerdict, surOffered, surRow, surChosen, surQueued>>
marketVars == <<part, workVars, surVars>>

MarketsInit == part \in {"work", "survey"} /\ Work!Init /\ Survey!Init

(* One machine moves, the other waits where it began. *)
MarketsNext ==
  /\ UNCHANGED part
  /\ \/ part = "work" /\ Work!Next /\ UNCHANGED surVars
     \/ part = "survey" /\ Survey!Next /\ UNCHANGED workVars

MarketsSpec == MarketsInit /\ [][MarketsNext]_marketVars

ASSUME MarketsAssumption == Work!MarketWorkAssumption /\ Survey!MarketSurveyAssumption

----------------------------------------------------------------------------
(* A topic is left out only for answers that hold: no price move, listing  *)
(* or failure leaves an old rejection behind (runtime/memory.py:2010-2200, *)
(* runtime/market_discovery.py:640-760).                                   *)
ExclusionIsInformed == part = "work" => Work!ExclusionIsInformed

(* A review the model asked for keeps an appointment until it is held      *)
(* (runtime/memory.py:2253-2340).                                          *)
ReviewsAreKept == part = "work" => Work!ReviewsAreKept

(* No page is passed over (runtime/market_discovery.py:760-1126).          *)
NoPageIsSkipped == part = "survey" => Survey!NoPageIsSkipped

(* Nothing is dropped by the screener alone, nothing chosen by a round     *)
(* that failed or was deleted (runtime/market_discovery.py:1126-1440).     *)
ChoicesAreHonest == part = "survey" => Survey!ChoicesAreHonest

==============================================================================
