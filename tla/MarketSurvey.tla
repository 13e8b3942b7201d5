----------------------------- MODULE MarketSurvey -----------------------------
(***************************************************************************)
(* MarketDiscovery of one venue: a survey reads the listings page by page,  *)
(* cycle after cycle, from where the last one stopped (_adaptive_survey     *)
(* with save_survey_resume); the screener's confident refusals are taken    *)
(* out of what was read, though never too many of them; a model chooses     *)
(* from the rest under a row of the decision ledger (_select).              *)
(*                                                                          *)
(* A listing is a fixed sequence of pages.  What the screener, the model    *)
(* and the operator say is open.  The process may die between two steps.    *)
(***************************************************************************)
EXTENDS Integers, FiniteSets, Sequences, FiniteSetsExt

CONSTANTS
  Sources,     \* the listings in the order a pass asks them: by deadline, the catalog
  Listing,     \* source -> its pages, each the set of topics on it
  MaxPages,    \* max_scan_pages, per survey
  Topics,      \* whatever a venue may name
  Wanted       \* topics only a search the model asked for will find

SourceSet == {Sources[i] : i \in 1..Len(Sources)}

MarketSurveyAssumption ==
  /\ Sources \in Seq(SourceSet) /\ Len(Sources) > 0
  /\ \A i, j \in 1..Len(Sources) : i # j => Sources[i] # Sources[j]
  /\ \A s \in SourceSet : Listing[s] \in Seq(SUBSET Topics) /\ Len(Listing[s]) > 0
  /\ IsFiniteSet(Topics) /\ Wanted \subseteq Topics /\ MaxPages \in Nat \ {0}

VARIABLES
  resume,   \* survey_plans.resume_json: the cursors and the sources still to read, or none
  search,   \* survey_plans.queries_json is not empty
  stage,    \* "idle", "read", "page" (a page is in, not yet judged), "filter", "round"
  cursor,   \* pages of each source behind the survey
  active,   \* the sources this survey still reads
  turn,     \* the source the pass asked last, 0 before the first
  pages,    \* pages read by this survey
  probe,    \* disagreement_probe_used
  seen,     \* the topics this survey has read
  verdict,  \* what the screener says of each: "keep", or drop it, "sure" or "unsure"
  offered,  \* the topics the round is given
  row,      \* the round's row in the ledger
  chosen,   \* what discover returned last
  queued    \* history: the pages of each source that reached the screening queue in this sweep

vars == <<resume, search, stage, cursor, active, turn, pages, probe, seen, verdict, offered, row,
          chosen, queued>>
survey == <<cursor, active, turn, pages, probe>>
round == <<offered, row, chosen>>

Verdicts == {"keep", "sure", "unsure"}
Begin == [s \in SourceSet |-> 0]
NoResume == [saved |-> FALSE, cursors |-> Begin, active |-> {}]

TypeOK ==
  /\ resume \in [saved : BOOLEAN, cursors : [SourceSet -> Nat], active : SUBSET SourceSet]
  /\ search \in BOOLEAN /\ stage \in {"idle", "read", "page", "filter", "round"}
  /\ cursor \in [SourceSet -> Nat]
  /\ \A s \in SourceSet : resume.cursors[s] < Len(Listing[s]) /\ cursor[s] < Len(Listing[s])
  /\ active \subseteq SourceSet /\ turn \in 0..Len(Sources) /\ pages \in 0..MaxPages
  /\ probe \in BOOLEAN /\ seen \subseteq Topics /\ verdict \in [Topics -> Verdicts]
  /\ offered \subseteq Topics /\ chosen \subseteq Topics
  /\ row \in {"none", "STARTED", "OK", "NO_ACTION", "PROVIDER_ERROR", "deleted"}
  /\ queued \in [SourceSet -> SUBSET Nat]

Init ==
  /\ resume = NoResume /\ search = FALSE /\ stage = "idle"
  /\ cursor = Begin /\ active = {} /\ turn = 0 /\ pages = 0 /\ probe = FALSE
  /\ seen = {} /\ verdict = [t \in Topics |-> "keep"]
  /\ offered = {} /\ row = "none" /\ chosen = {}
  /\ queued = [s \in SourceSet |-> {}]

----------------------------------------------------------------------------
(* ---- The survey ---- *)
(* The next source a pass over the active ones asks; after the last it starts over. *)
Positions(act) == {i \in 1..Len(Sources) : Sources[i] \in act}
NextTurn(act) ==
  IF \E i \in Positions(act) : i > turn THEN Min({i \in Positions(act) : i > turn})
  ELSE Min(Positions(act))
Asked == Sources[NextTurn(active)]

MayRead == stage = "read" /\ active # {} /\ pages < MaxPages

(* save_resume: nothing left to read clears it. *)
Saved(act) ==
  IF act = {} THEN NoResume ELSE [saved |-> TRUE, cursors |-> cursor, active |-> act]

StopSurvey(saved) ==                    \* the survey is over, its resume written
  /\ resume' = saved /\ stage' = "filter" /\ active' = {}

StartSurvey ==                          \* from the stored cursors, of the sources then unread
  /\ stage = "idle"
  /\ cursor' = IF resume.saved THEN resume.cursors ELSE Begin
  /\ active' = IF resume.active = {} THEN SourceSet ELSE resume.active
  /\ queued' = [s \in SourceSet |-> IF cursor'[s] = 0 THEN {} ELSE queued[s]]
  /\ turn' = 0 /\ pages' = 0 /\ probe' = FALSE /\ seen' = {} /\ stage' = "read"
  /\ verdict' = [t \in Topics |-> "keep"]
  /\ UNCHANGED <<resume, search, round>>

ListingFailsSkips ==                    \* a mistake: a page that cannot be read is passed over
  /\ MayRead /\ cursor[Asked] + 1 < Len(Listing[Asked])
  /\ cursor' = [cursor EXCEPT ![Asked] = @ + 1] /\ turn' = NextTurn(active)
  /\ UNCHANGED <<resume, search, stage, active, pages, probe, seen, verdict, round, queued>>

ListingFails ==                         \* the source is left out for the rest of this survey
  /\ MayRead
  /\ active' = active \ {Asked} /\ turn' = NextTurn(active)
  /\ UNCHANGED <<resume, search, stage, cursor, pages, probe, seen, verdict, round, queued>>

ReadPage ==                             \* the listing answers, the page is queued and screened
  /\ MayRead
  /\ LET s == Asked
         p == cursor[s] + 1
         last == p = Len(Listing[s])
     IN  /\ cursor' = IF last THEN cursor ELSE [cursor EXCEPT ![s] = p]
         /\ active' = IF last THEN active \ {s} ELSE active
         /\ queued' = [queued EXCEPT ![s] = @ \cup {p}]
         /\ seen' = seen \cup Listing[s][p]
         /\ \E v \in [seen' -> Verdicts] :
              verdict' = [t \in Topics |-> IF t \in seen' THEN v[t] ELSE "keep"]
  /\ turn' = NextTurn(active) /\ pages' = pages + 1 /\ stage' = "page"
  /\ UNCHANGED <<resume, search, probe, round>>

(* What the typed evaluator and the language model say of reading on.  When both *)
(* answer and disagree, one more page is read; the second time that ends it.     *)
GoOn ==
  /\ stage = "page" /\ stage' = "read"
  /\ UNCHANGED <<resume, search, survey, seen, verdict, round, queued>>

Disagree ==
  /\ stage = "page"
  /\ IF probe THEN StopSurvey(Saved(active)) /\ UNCHANGED <<cursor, turn, pages, probe>>
     ELSE /\ probe' = TRUE /\ stage' = "read"
          /\ UNCHANGED <<resume, cursor, active, turn, pages>>
  /\ UNCHANGED <<search, seen, verdict, round, queued>>

StopHereForgets ==                      \* a mistake: a frontier good enough ends the catalog
  /\ stage = "page" /\ StopSurvey(NoResume)
  /\ UNCHANGED <<search, cursor, turn, pages, probe, seen, verdict, round, queued>>

StopHere ==                             \* enough was read, or pause: the catalog continues next time
  /\ stage = "page" /\ StopSurvey(Saved(active))
  /\ UNCHANGED <<search, cursor, turn, pages, probe, seen, verdict, round, queued>>

OutOfTime ==                            \* max_scan_seconds, looked at before and after a page
  /\ \/ stage = "page"
     \/ MayRead /\ turn # 0
  /\ StopSurvey(Saved(active))
  /\ UNCHANGED <<search, cursor, turn, pages, probe, seen, verdict, round, queued>>

EndSurvey ==                            \* the page limit, or nothing left to ask
  /\ stage = "read" /\ (active = {} \/ pages = MaxPages)
  /\ StopSurvey(Saved(active))
  /\ UNCHANGED <<search, cursor, turn, pages, probe, seen, verdict, round, queued>>

----------------------------------------------------------------------------
(* ---- Choosing ---- *)
(* Excluded: refused at or above the threshold, or set apart by screen_outliers *)
(* (trusted); with any evaluator error nothing is.  Of these as many come back  *)
(* as ceil(sqrt(n)) still lacks, the least confident refusals first.            *)
SquareRootUp(n) == CHOOSE k \in 0..n : k * k >= n /\ \A j \in 0..n : j * j >= n => k <= j
NoFrontier(n) == 0                      \* a mistake: the screener may refuse everything
SmallestFrontier(n) == Max({1, SquareRootUp(n)})

Frontier(pool, trusted) ==
  LET out == {t \in pool : verdict[t] = "sure"} \cup trusted
      need == Max({0, SmallestFrontier(Cardinality(pool)) - Cardinality(pool \ out)})
      back == Min({need, Cardinality(out)})
  IN  {(pool \ out) \cup r : r \in {q \in kSubset(back, out) :
         (\E t \in q : verdict[t] = "sure") => trusted \subseteq q}}

NothingRead ==                          \* discover returns ()
  /\ stage = "filter" /\ seen = {}
  /\ chosen' = {} /\ stage' = "idle"
  /\ UNCHANGED <<resume, search, survey, seen, verdict, offered, row, queued>>

Requested == IF search THEN SUBSET Wanted ELSE {{}}     \* what _with_requested may add

BeginRound ==                           \* the filter, begin_decision
  /\ stage = "filter"
  /\ \E found \in Requested :
       LET pool == seen \cup found IN
       /\ pool # {}
       /\ seen' = pool
       /\ \/ offered' = pool            \* an evaluator error: nothing is filtered
          \/ \E trusted \in SUBSET {t \in pool : verdict[t] = "unsure"} :
               offered' \in Frontier(pool, trusted)
  /\ row' = "STARTED" /\ chosen' = {} /\ stage' = "round"
  /\ UNCHANGED <<resume, search, survey, verdict, queued>>

(* The model's answer: topics the survey read, the screener's refusals among   *)
(* them, or found with the round's tools, each once; with it the plan for the  *)
(* next survey.                                                                *)
Choose ==
  /\ stage = "round" /\ row = "STARTED"
  /\ chosen' \in SUBSET (seen \cup Wanted)
  /\ search' \in BOOLEAN
  /\ row' \in {"OK"} \cup (IF chosen' = {} THEN {"NO_ACTION"} ELSE {})   \* "OK" with a topic nobody knows
  /\ stage' = "idle"
  /\ UNCHANGED <<resume, survey, seen, verdict, offered, queued>>

NoAnswer ==                             \* no model, no selection: a formula does not stand in
  /\ stage = "round" /\ row = "STARTED"
  /\ row' = "PROVIDER_ERROR" /\ chosen' = {} /\ stage' = "idle"
  /\ UNCHANGED <<resume, search, survey, seen, verdict, offered, queued>>

ForgetRound ==                          \* the operator deletes the row while the model works
  /\ stage = "round" /\ row = "STARTED"
  /\ row' = "deleted"
  /\ UNCHANGED <<resume, search, stage, survey, seen, verdict, offered, chosen, queued>>

CancelledChooses ==                     \* a mistake: the answer counts although the row is gone
  /\ stage = "round" /\ row = "deleted"
  /\ chosen' \in SUBSET offered /\ stage' = "idle"
  /\ UNCHANGED <<resume, search, survey, seen, verdict, offered, row, queued>>

Cancelled ==                            \* DecisionCancelled, or found deleted once answered
  /\ stage = "round" /\ row = "deleted"
  /\ chosen' = {} /\ stage' = "idle"
  /\ UNCHANGED <<resume, search, survey, seen, verdict, offered, row, queued>>

Crash ==                                \* what SQLite holds is what is left
  /\ stage # "idle"
  /\ stage' = "idle" /\ cursor' = Begin /\ active' = {} /\ turn' = 0 /\ pages' = 0
  /\ probe' = FALSE /\ seen' = {} /\ verdict' = [t \in Topics |-> "keep"]
  /\ offered' = {} /\ chosen' = {}
  /\ UNCHANGED <<resume, search, row, queued>>

Step ==
  \/ StartSurvey \/ ListingFails \/ ReadPage \/ GoOn \/ Disagree \/ StopHere \/ OutOfTime
  \/ EndSurvey \/ NothingRead \/ BeginRound \/ Choose \/ NoAnswer \/ Cancelled

Next == Step \/ ForgetRound \/ Crash
Spec == Init /\ [][Next]_vars
FairSpec == Spec /\ WF_vars(Step)

----------------------------------------------------------------------------
(* No page is passed over: whatever stopped the surveys before - the clock, the *)
(* page limit, an answer, a crash - the pages behind a cursor, stored or in use,  *)
(* were queued since the source was last begun.                                  *)
Behind(s, k) == 1..k \subseteq queued[s]
NoPageIsSkipped ==
  /\ TypeOK
  /\ \A s \in SourceSet : resume.saved => Behind(s, resume.cursors[s])
  /\ stage \in {"read", "page"} => \A s \in SourceSet : Behind(s, cursor[s])

(* The screener saves tokens and never decides: from n topics a round is offered *)
(* at least the square root of n, every one the screener did not refuse, and a   *)
(* refusal it was sure of only when all it was less sure of are back as well.    *)
FrontierIsKept ==
  stage = "round" =>
    /\ Cardinality(offered) * Cardinality(offered) >= Cardinality(seen)
    /\ {t \in seen : verdict[t] = "keep"} \subseteq offered
    /\ (\E t \in offered : verdict[t] = "sure") => {t \in seen : verdict[t] = "unsure"} \subseteq offered

(* A deleted or failed round selects nothing, and what discover hands on was    *)
(* chosen by a round that is recorded as having chosen it.                       *)
OnlyRecordedChoices == chosen # {} => row = "OK" \/ stage \in {"read", "page", "filter"}

(* Between the pages read and the topics handed on nothing is dropped by the    *)
(* screener alone and nothing is chosen by a round that failed, was deleted or   *)
(* was cut off (market_discovery.py:1126-1173, 1301-1440).                       *)
ChoicesAreHonest == FrontierIsKept /\ OnlyRecordedChoices

(* Every page of every listing is read again and again, however early surveys   *)
(* are stopped, once the listings answer and the process stays up: "every market *)
(* eventually reaches the queue".                                                *)
Reads(s, p) == ReadPage /\ Asked = s /\ cursor[s] + 1 = p
EveryPageIsRead ==
  <>[][~ListingFails /\ ~Crash]_vars =>
    \A s \in SourceSet : \A p \in 1..Len(Listing[s]) : []<><<Reads(s, p)>>_vars
=============================================================================
