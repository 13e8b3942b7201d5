---------------------------- MODULE DecisionCycle ----------------------------
(***************************************************************************)
(* One engine cycle after another: TradingEngine._process_platform_topics  *)
(* (runtime/engine.py) evaluates outcomes one by one; a round opens a row  *)
(* in the decision ledger, asks the model, checks the risk chain and trades *)
(* (runtime/evaluation.py, runtime/actions.py); the state file is saved    *)
(* when the cycle ends.  Meanwhile the console deletes ledger rows          *)
(* (SessionMemory.forget_decisions) and the operator pauses and resumes.   *)
(*                                                                         *)
(* A round is known by its ledger id.  What the model answered is reduced  *)
(* to what it asks of the venue, an order to the round that sent it.       *)
(***************************************************************************)
EXTENDS Integers, FiniteSets

CONSTANTS
  MaxRounds,   \* bound: rounds opened
  MaxForgets,  \* bound: rows the operator deletes
  Faults       \* {"crash"} when the process may die

ASSUME CycleAssumption ==
  /\ MaxRounds \in Nat /\ MaxForgets \in Nat
  /\ Faults \subseteq {"crash"}

VARIABLES
  pc,         \* where the engine stands
  cur,        \* the round it works on; rounds are numbered as they open
  row,        \* decision_ledger: status of each round's row
  action,     \* execution_actions: what kind of row the round left there
  cancelled,  \* _CANCELLED, in process memory
  stop,       \* engine.stop_requested(): the saved pause
  venue,      \* rounds whose order the venue accepted
  mirror,     \* rounds whose order the account mirror lists
  file,       \* the same in the saved state file
  forget,     \* the console's deletion in progress
  forgets,    \* deletions begun
  exempt,     \* history: the pause came after the order's last check
  tossed,     \* history: rounds deleted while the model was still answering
  orphans,    \* history: rounds a crash cut off, or whose deletion it did
  screened,   \* history: rounds the cheap screener skipped
  escaped     \* history: rounds an error nobody catches threw out of the order

vars == <<pc, cur, row, action, cancelled, stop, venue, mirror, file, forget, forgets, exempt, tossed, orphans, screened, escaped>>

Ids == 1..MaxRounds
Between == {"idle", "next"}
Statuses == {"PROVIDER_ERROR", "RISK_REJECTED", "NO_ACTION", "EXECUTION_ERROR", "COMPLETED"}

TypeOK ==
  /\ pc \in Between \cup {"ask", "check", "risk", "execute", "place", "send", "record", "finish"}
  /\ cur \in 0..MaxRounds /\ forgets \in 0..MaxForgets
  /\ row \in [Ids -> {"none", "STARTED", "deleted"} \cup Statuses]
  /\ action \in [Ids -> {"none", "nothing", "failed", "venue"}]
  /\ stop \in BOOLEAN /\ exempt \in BOOLEAN
  /\ cancelled \subseteq Ids /\ venue \subseteq Ids /\ mirror \subseteq Ids /\ file \subseteq Ids
  /\ tossed \subseteq Ids /\ orphans \subseteq Ids /\ screened \subseteq Ids /\ escaped \subseteq Ids
  /\ forget \in [pc : {"idle", "look", "delete"}, id : 0..MaxRounds]

Init ==
  /\ pc = "idle" /\ cur = 0
  /\ row = [d \in Ids |-> "none"] /\ action = [d \in Ids |-> "none"]
  /\ cancelled = {} /\ stop = FALSE /\ venue = {} /\ mirror = {} /\ file = {}
  /\ forget = [pc |-> "idle", id |-> 0] /\ forgets = 0
  /\ exempt = FALSE /\ tossed = {} /\ orphans = {} /\ screened = {} /\ escaped = {}

operatorVars == <<stop, forget, forgets, exempt, tossed>>
bookVars == <<venue, mirror, file>>
history == <<orphans, screened, escaped>>

Goto(from, to) == pc = from /\ pc' = to

(* complete_decision; when the row is gone its ValueError ends the round too. *)
Complete(status, act) ==
  /\ row' = IF row[cur] = "deleted" THEN row ELSE [row EXCEPT ![cur] = status]
  /\ action' = IF act = "none" THEN action ELSE [action EXCEPT ![cur] = act]
  /\ pc' = "next"
  /\ UNCHANGED <<cur, cancelled, operatorVars, history>>

----------------------------------------------------------------------------
(* Plausible mistakes; no specification uses them. *)
AskSilent ==                    \* a provider failure leaves the row as it is
  /\ pc = "ask"
  /\ \/ pc' = "next" \/ pc' = "check"
  /\ UNCHANGED <<cur, row, action, cancelled, operatorVars, history, bookVars>>

PlaceThenCheck ==               \* the pause is looked at once the order is out
  /\ pc = "place"
  /\ venue' = venue \cup {cur} /\ mirror' = mirror \cup {cur} /\ UNCHANGED file
  /\ IF stop THEN Complete("NO_ACTION", "nothing")
     ELSE pc' = "record" /\ UNCHANGED <<cur, row, action, cancelled, operatorVars, history>>

PlaceUnchecked ==               \* no look at the pause before the order goes out
  /\ Goto("place", "send")
  /\ UNCHANGED <<cur, row, action, cancelled, operatorVars, history, bookVars>>

RecordSkipped ==                \* an order that leaves no execution row
  /\ Goto("record", "finish")
  /\ UNCHANGED <<cur, row, action, cancelled, operatorVars, history, bookVars>>

ForgetUncancelled(d) ==         \* a running analysis is not told to stop
  /\ forget.pc = "idle" /\ forgets < MaxForgets /\ row[d] \notin {"none", "deleted"}
  /\ forgets' = forgets + 1 /\ forget' = [pc |-> "look", id |-> d]
  /\ UNCHANGED <<pc, cur, row, action, cancelled, stop, bookVars, exempt, tossed, history>>

EnterPastCeiling ==                   \* the round is opened past the cycle's ceiling
  /\ pc = "next" /\ ~stop
  /\ cur' = cur + 1 /\ pc' = "ask"
  /\ row' = [row EXCEPT ![cur'] = "STARTED"]
  /\ cancelled' = cancelled \ {cur'}
  /\ UNCHANGED <<action, operatorVars, history, bookVars>>

----------------------------------------------------------------------------
(* ---- The cycle ---- *)
StartCycle ==
  /\ Goto("idle", "next")
  /\ UNCHANGED <<cur, row, action, cancelled, operatorVars, history, bookVars>>

EndCycle ==                     \* the state file is saved
  /\ Goto("next", "idle") /\ file' = mirror
  /\ UNCHANGED <<cur, row, action, cancelled, operatorVars, history, venue, mirror>>

(* A read before the round raised what the loop does not catch.            *)
CutShort ==
  /\ Goto("next", "idle")
  /\ UNCHANGED <<cur, row, action, cancelled, operatorVars, history, bookVars>>

(* begin_decision; an unreadable order book skips the outcome before this. *)
Enter ==
  /\ pc = "next" /\ ~stop /\ cur < MaxRounds
  /\ cur' = cur + 1 /\ pc' = "ask"
  /\ row' = [row EXCEPT ![cur + 1] = "STARTED"]
  /\ cancelled' = cancelled \ {cur + 1}
  /\ UNCHANGED <<action, operatorVars, history, bookVars>>

(* A screened-out round: its row is opened, then the status it should get  *)
(* is named through a class this module does not import.  The NameError is *)
(* none of the errors the cycle catches: it ends without saving.           *)
EnterScreened ==
  /\ pc = "next" /\ ~stop /\ cur < MaxRounds
  /\ cur' = cur + 1 /\ pc' = "idle"
  /\ row' = [row EXCEPT ![cur + 1] = "STARTED"]
  /\ cancelled' = cancelled \ {cur + 1} /\ screened' = screened \cup {cur + 1}
  /\ UNCHANGED <<action, operatorVars, orphans, escaped, bookVars>>

(* ---- One round ---- *)
Ask ==
  /\ pc = "ask" /\ UNCHANGED bookVars
  /\ \/ cur \in cancelled /\ pc' = "next"              \* DecisionCancelled
        /\ UNCHANGED <<cur, row, action, cancelled, operatorVars, history>>
     \/ Complete("PROVIDER_ERROR", "none")
     \/ pc' = "check" /\ UNCHANGED <<cur, row, action, cancelled, operatorVars, history>>

CheckCancelled ==
  /\ pc = "check" /\ pc' = IF cur \in cancelled THEN "next" ELSE "risk"
  /\ UNCHANGED <<cur, row, action, cancelled, operatorVars, history, bookVars>>

Risk ==
  /\ pc = "risk" /\ UNCHANGED bookVars
  /\ \/ Complete("RISK_REJECTED", "nothing")
     \/ pc' = "execute" /\ UNCHANGED <<cur, row, action, cancelled, operatorVars, history>>

Fail == Complete("EXECUTION_ERROR", "failed")

(* An error Fail's clause does not name: a KeyError, which the loop over    *)
(* the outcomes takes for a skipped one, or a failed connection, which ends *)
(* the cycle unsaved.                                                       *)
Escape ==
  /\ pc' \in Between /\ escaped' = escaped \cup {cur}
  /\ UNCHANGED <<cur, row, action, cancelled, operatorVars, orphans, screened>>

(* Up to the quote: a pause, a hold or nothing to sell ends the round;      *)
(* cancelling open orders needs no quote.                                   *)
Execute ==
  /\ pc = "execute" /\ UNCHANGED bookVars
  /\ \/ Complete("NO_ACTION", "nothing")
     \/ ~stop /\ (Complete("COMPLETED", "venue") \/ Fail \/ Escape)
     \/ ~stop /\ pc' = "place" /\ UNCHANGED <<cur, row, action, cancelled, operatorVars, history>>

Place ==                        \* the last look at the pause
  /\ pc = "place" /\ UNCHANGED bookVars
  /\ IF stop THEN Complete("NO_ACTION", "nothing")
     ELSE pc' = "send" /\ UNCHANGED <<cur, row, action, cancelled, operatorVars, history>>

(* gateway.place_order: accepted, refused, or accepted with an answer that  *)
(* cannot be used or does not arrive.                                       *)
Send ==
  /\ pc = "send" /\ UNCHANGED file
  /\ \/ venue' = venue \cup {cur} /\ mirror' = mirror \cup {cur} /\ pc' = "record"
        /\ UNCHANGED <<cur, row, action, cancelled, operatorVars, history>>
     \/ /\ Fail \/ Escape
        /\ venue' \in {venue, venue \cup {cur}} /\ UNCHANGED mirror

Record ==                       \* memory.record_action
  /\ Goto("record", "finish") /\ action' = [action EXCEPT ![cur] = "venue"]
  /\ UNCHANGED <<cur, row, cancelled, operatorVars, history, bookVars>>

FinishRound == pc = "finish" /\ Complete("COMPLETED", "none") /\ UNCHANGED bookVars

(* ---- The operator ---- *)
Pause ==
  /\ ~stop /\ stop' = TRUE /\ exempt' = (pc = "send")
  /\ UNCHANGED <<pc, cur, row, action, cancelled, bookVars, forget, forgets, tossed, history>>

Resume ==
  /\ stop /\ stop' = FALSE /\ exempt' = FALSE
  /\ UNCHANGED <<pc, cur, row, action, cancelled, bookVars, forget, forgets, tossed, history>>

(* forget_decisions, statement by statement: a running round is cancelled, *)
(* rounds with a venue action are kept, the others are deleted.            *)
ForgetCancel(d) ==
  /\ forget.pc = "idle" /\ forgets < MaxForgets /\ row[d] \notin {"none", "deleted"}
  /\ forgets' = forgets + 1 /\ forget' = [pc |-> "look", id |-> d]
  /\ cancelled' = IF row[d] = "STARTED" THEN cancelled \cup {d} ELSE cancelled
  /\ UNCHANGED <<pc, cur, row, action, stop, bookVars, exempt, tossed, history>>

ForgetLook ==
  /\ forget.pc = "look"
  /\ forget' = [forget EXCEPT !.pc = IF action[forget.id] = "venue" THEN "idle" ELSE "delete"]
  /\ UNCHANGED <<pc, cur, row, action, cancelled, stop, bookVars, forgets, exempt, tossed, history>>

ForgetDelete ==
  /\ forget.pc = "delete" /\ forget' = [forget EXCEPT !.pc = "idle"]
  /\ row' = [row EXCEPT ![forget.id] = "deleted"]
  /\ tossed' = IF forget.id = cur /\ pc \in {"ask", "check"} THEN tossed \cup {cur} ELSE tossed
  /\ UNCHANGED <<pc, cur, action, cancelled, stop, bookVars, forgets, exempt, history>>

(* The process dies and starts again; SQLite and the state file survive. *)
Crash ==
  /\ "crash" \in Faults
  /\ pc' = "idle" /\ cancelled' = {} /\ stop' = FALSE /\ exempt' = FALSE
  /\ forget' = [forget EXCEPT !.pc = "idle"] /\ mirror' = file
  /\ orphans' = orphans \cup (IF pc \in Between THEN {} ELSE {cur})
                        \cup (IF forget.pc = "idle" THEN {} ELSE {forget.id})
  /\ UNCHANGED <<cur, row, action, venue, file, forgets, tossed, screened, escaped>>

Round == Ask \/ CheckCancelled \/ Risk \/ Execute \/ Place \/ Send \/ Record \/ FinishRound
Engine == StartCycle \/ EndCycle \/ CutShort \/ Enter \/ EnterScreened \/ Round
Operator == Pause \/ Resume \/ (\E d \in Ids : ForgetCancel(d)) \/ ForgetLook \/ ForgetDelete

Next == Engine \/ Operator \/ Crash

Spec == Init /\ [][Next]_vars

----------------------------------------------------------------------------
(* A row is STARTED only while its round is being worked on or its         *)
(* deletion is under way, or for ever when a crash cut either off, the     *)
(* screener skipped it, or an order or a quote failed in a way the round   *)
(* does not catch: whatever else an analysed round meets, it concludes its *)
(* row (evaluation.py:250-580, 543; memory.py:1562-1568).                  *)
EveryRoundConcludes ==
  \A d \in Ids : row[d] = "STARTED" =>
    \/ d = cur /\ pc \notin Between
    \/ d = forget.id /\ forget.pc # "idle"
    \/ d \in orphans \cup screened \cup escaped

(* A decision deleted while the model was still answering never trades     *)
(* (evaluation.py:474-478, memory.py:1567-1568).                           *)
DeletedEarlyNeverTrades == tossed \cap venue = {}

(* A round whose order the venue took is never booked as one that did      *)
(* nothing (actions.py:129-151, evaluation.py:519-580).                    *)
LedgerIsHonest ==
  \A d \in venue : row[d] \in {"STARTED", "EXECUTION_ERROR", "COMPLETED", "deleted"}

(* Every order in the saved account has its execution row, which is what   *)
(* protects its decision from deletion (actions.py:134-145, engine.py:502).*)
BookIsAudited == \A d \in file : action[d] = "venue"

(* The ledger and the account tell the same story of every round, through  *)
(* failures, deletions and crashes at any point: no row left open but by a *)
(* crash or an error nobody catches, no deleted decision traded, no trade  *)
(* booked as none, no saved one without its row                            *)
(* (evaluation.py:250-580, actions.py:54-151, memory.py:1541-1568).        *)
RoundsAreSound ==
  /\ TypeOK /\ EveryRoundConcludes /\ DeletedEarlyNeverTrades
  /\ LedgerIsHonest /\ BookIsAudited

(* After a pause only an order that had passed its last check still goes   *)
(* out (actions.py:54-58, 129-133, evaluation.py:261, 519).                *)
PauseStopsTrading == [][venue' # venue /\ stop => exempt]_vars

(* "A round that was not run, because the cheap screener said nothing had  *)
(* changed since the last" is booked under a status of its own             *)
(* (memory.py:1461-1467, evaluation.py:280-295).                           *)
ScreenedRoundsAreBooked == \A d \in screened : row[d] \in {"SCREENED_OUT", "deleted"}
=============================================================================
