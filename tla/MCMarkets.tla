------------------------------ MODULE MCMarkets ------------------------------
(***************************************************************************)
(* MarketWork: two contracts of one event, one with a price that moves.    *)
(* MarketSurvey: two pages listed by deadline, three in the catalog;       *)
(* topics "a" and "b" are on both.  Each machine has a run of its own, the *)
(* other one waits.                                                        *)
(***************************************************************************)
EXTENDS Markets

CONSTANTS c1, c2, e1

OneEvent == [c \in {c1, c2} |-> e1]
Order == <<"deadline", "catalog">>
Lists == [deadline |-> <<{"a"}, {"b"}>>, catalog |-> <<{"a"}, {"a", "b"}, {"b"}>>]

(* The worker goes on, whatever the capacity of the providers does         *)
(* (plugins/api/_polymarket/runtime.py:82-219).                            *)
WorkInit == MarketsInit /\ part = "work"
WorkSpec == WorkInit /\ [][MarketsNext]_marketVars /\ WF_workVars(Work!Loop)

(* Surveys go on; nobody has to delete a round or to crash.                *)
SurveyInit == MarketsInit /\ part = "survey" /\ workAble
SurveySpec == SurveyInit /\ [][MarketsNext]_marketVars /\ WF_surVars(Survey!Step)

----------------------------------------------------------------------------
(* When providers answer from some time on, a review that is due is held   *)
(* or put off, whatever else is due (plugins/api/_polymarket/runtime.py:   *)
(* 155-188, runtime/memory.py:2285-2324).                                  *)
ReviewsHappen == Work!ReviewsHappen

(* And a contract whose price holds still is screened in the end, if any   *)
(* are (runtime/memory.py:2095-2118, runtime/market_discovery.py:314-402). *)
EveryContractIsScreened == Work!EveryContractIsScreened

(* While the listings answer and nothing crashes every page of every       *)
(* source is read again and again (runtime/market_discovery.py:549-806).   *)
EveryPageIsRead == Survey!EveryPageIsRead
==============================================================================
