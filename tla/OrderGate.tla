------------------------------ MODULE OrderGate ------------------------------
(***************************************************************************)
(* What lies between an action somebody wants and the venue that carries   *)
(* it out: the chain of agent-policy rules (core/risk.py, asked by         *)
(* runtime/evaluation.py), the quote, the chain of business rules that the *)
(* guarded platform puts before every write (runtime/market_guard.py,      *)
(* broker.py) and the transport - the plugin's own, or in paper trading    *)
(* the one that fills here (runtime/paper_trading.py).                     *)
(*                                                                         *)
(* A rule is free: it may answer differently each time it is asked, raise, *)
(* or say something nobody understands.  One action is carried out at a    *)
(* time.  A purchase is asked for in money and quoted in shares at a       *)
(* price, which the venue sets: what is quoted need not be worth what was  *)
(* asked for.  A winning share pays Unit.                                  *)
(***************************************************************************)
EXTENDS Integers, FiniteSetsExt, Functions

CONSTANTS
  MaxRules,          \* rules of one category that the operator enabled
  Sizes,             \* sizes asked for: ticks, and shares where a tool sells
  Cuts,              \* sizes a rule may reduce an action to
  Funds,             \* declared simulated funds, and the live balance
  Lots,              \* shares a venue quotes for a purchase
  Unit,              \* ticks
  Whole, Fee,        \* cash is counted in Whole-ths of a tick: Fee of them go on each tick traded
  MaxWrites,         \* bound: writes the venue or the simulation accepted
  None

OrderGateAssumption ==
  /\ MaxRules \in Nat /\ Sizes \subseteq Nat /\ Cuts \subseteq Nat /\ None \notin Nat
  /\ Funds \in Int /\ Lots \subseteq Nat /\ Unit \in Nat /\ Whole \in Nat /\ Fee \in Nat

VARIABLES
  setup,   \* what bootstrap_engine wired: paper, and the rules that started, by lane
  book,    \* the account mirror: cash, and shares held
  call,    \* the action on its way, None between two
  heard,   \* history: what the rules answered about it, by lane
  last,    \* history: the write that just took effect, with what was heard
  writes   \* writes that took effect, at the venue and in the simulation

vars == <<setup, book, call, heard, last, writes>>

Lanes == {"agent", "business"}
(* HALT is treated as REJECT by every caller and is not told apart here. *)
Answers == [outcome : {"ALLOW", "REJECT", "UNKNOWN", "RAISES"}, value : {None}]
             \cup [outcome : {"ADJUST"}, value : {None} \cup Cuts]

Prices == 1..(Unit - 1)

(* size is money, or the shares of a sale; shares and price are the quote's. *)
Kinds == {"BUY", "SELL", "INBOUND", "OUTBOUND", "REDEEM", "CANCEL"}
Calls == [kind : Kinds, by : {"decision", "tool", "sweep"}, asked : Nat, size : Nat,
          shares : Nat, price : Nat, at : {"agent", "quote", "business"}]
Wanted(kind, by, size, at) ==
  [kind |-> kind, by |-> by, asked |-> size, size |-> size, shares |-> 0, price |-> 0, at |-> at]

Heard(lane) == UNION {[1..n -> Answers] : n \in 0..setup[lane]}

TypeOK ==
  /\ setup \in [paper : BOOLEAN, agent : 0..MaxRules, business : 0..MaxRules]
  /\ book \in [cash : Int, held : Nat] /\ writes \in [venue : Nat, paper : Nat]
  /\ call \in {None} \cup Calls
  /\ \A lane \in Lanes : heard[lane] \in Heard(lane)
  /\ last \in {None} \cup [call : Calls, agent : Heard("agent"), business : Heard("business")]

(* A rule plugin that cannot start is skipped with a warning, so any number *)
(* of the enabled ones is in the chain.  Paper wraps the plugin, the guard  *)
(* wraps both.                                                              *)
Init ==
  /\ setup \in [paper : BOOLEAN, agent : 0..MaxRules, business : 0..MaxRules]
  /\ book = [cash |-> Funds, held |-> 0] /\ writes = [venue |-> 0, paper |-> 0]
  /\ call = None /\ last = None /\ heard = [lane \in Lanes |-> <<>>]

----------------------------------------------------------------------------
(* ---- RiskCoordinator.evaluate ---- *)
RefusesAloud(answer) ==   \* mistake: a rule that crashes lets the action through
  \/ answer.outcome \in {"REJECT", "UNKNOWN"}
  \/ answer.outcome = "ADJUST" /\ answer.value = None

(* A rule that raises, answers nonsense, or says "reduce" without saying to *)
(* what has not allowed anything.                                           *)
Refuses(answer) ==
  \/ answer.outcome \in {"REJECT", "UNKNOWN", "RAISES"}
  \/ answer.outcome = "ADJUST" /\ answer.value = None

Adjustments(answers) == {a.value : a \in {b \in Range(answers) : b.outcome = "ADJUST"}}

(* The chain is a conjunction and the smallest adjustment wins, never more  *)
(* than was asked for; requested is {} when the asker names no size.        *)
Evaluate(answers, requested) ==
  IF \E a \in Range(answers) : Refuses(a) THEN [outcome |-> "REJECT", value |-> None]
  ELSE IF Adjustments(answers) = {} THEN [outcome |-> "ALLOW", value |-> None]
  ELSE [outcome |-> "ADJUST", value |-> Min((Adjustments(answers) \ {None}) \cup requested)]

Verdicts(lane) == [1..setup[lane] -> Answers]

Drop == call' = None /\ heard' = [lane \in Lanes |-> <<>>]
Begin(c) == call = None /\ call' = c /\ last' = None
Untouched == UNCHANGED <<setup, book, last, writes>>

----------------------------------------------------------------------------
(* ---- who asks ---- *)
(* The model's final decision, or a tool it calls before deciding. *)
Propose(kind, by, size) ==
  /\ by = "decision" => kind \in {"BUY", "SELL", "CANCEL"}
  /\ Begin(Wanted(kind, by, size, "agent"))
  /\ UNCHANGED <<setup, book, heard, writes>>

(* The settlement sweep redeems what is held; no model asked for it. *)
Sweep ==
  /\ book.held > 0
  /\ Begin(Wanted("REDEEM", "sweep", 0, "business"))
  /\ UNCHANGED <<setup, book, heard, writes>>

(* The agent lane.  Only a decision is reduced, and only in its money: a    *)
(* sale is sized by a fraction of the position, a tool by its arguments.    *)
Reduced(c, verdict) ==
  IF c.by = "decision" /\ c.kind = "BUY" /\ verdict.outcome = "ADJUST"
  THEN Min({c.size, verdict.value}) ELSE c.size

Quoted(kind) == kind \in {"BUY", "SELL"}

AskAgentRules(answers) ==
  /\ call # None /\ call.at = "agent"
  /\ LET requested == IF call.by = "decision" THEN {call.size} ELSE {}
         verdict == Evaluate(answers, requested)
     IN IF verdict.outcome = "REJECT" THEN Drop
        ELSE /\ call' = [call EXCEPT !.size = Reduced(call, verdict),
                                     !.at = IF Quoted(call.kind) THEN "quote" ELSE "business"]
             /\ heard' = [heard EXCEPT !["agent"] = answers]
  /\ Untouched

(* What is asked for, and never nothing: a sale decided on is a part of     *)
(* what is held.                                                            *)
Wishes == (IF call.kind = "SELL" /\ call.by = "decision" THEN 1..book.held ELSE {call.size}) \ {0}

(* _execute_decision and get_quote: the venue names the price, and for a    *)
(* purchase how many shares the money buys.                                 *)
GetQuote ==
  /\ call # None /\ call.at = "quote"
  /\ \/ Wishes = {} /\ Drop
     \/ \E n \in Wishes, p \in Prices, lot \in Lots :
          /\ call' = [call EXCEPT !.size = n, !.shares = IF call.kind = "BUY" THEN lot ELSE n,
                                  !.price = p, !.at = "business"]
          /\ UNCHANGED heard
  /\ Untouched

----------------------------------------------------------------------------
(* ---- GuardedMarketApi._check and the gateway's write ---- *)
StoppedByRefusal(answers) == Evaluate(answers, {}).outcome = "REJECT"  \* mistake: full size goes out

(* Here nothing can be made smaller, so ADJUST refuses too. *)
Stopped(answers) == Evaluate(answers, {}).outcome # "ALLOW"

AskBusinessRules(answers) ==
  /\ call # None /\ call.at = "business"
  /\ Stopped(answers) /\ Drop /\ Untouched

Cost(ticks) == ticks * (Whole + Fee)
Notional(c) == c.shares * c.price

CoveredBeforeFee == call.kind = "BUY" => call.size * Whole <= book.cash   \* mistake

(* PaperWriteTransport: refuses a buy of more than the simulated cash; it   *)
(* remembers the amount that was asked for, not what the quote comes to.    *)
Covered == call.kind = "BUY" => Cost(call.size) <= book.cash

Accepts == ~setup.paper \/ Covered

(* The quote has run out, the simulation or the venue will not have it. *)
Fails(answers) ==
  /\ call # None /\ call.at = "business" /\ ~Stopped(answers)
  /\ setup.paper /\ ~Quoted(call.kind) => ~Accepts
  /\ Drop /\ Untouched

(* What an accepted action does to the mirror: an order is booked at its    *)
(* quote; see Account for the rest.                                         *)
Filled(won) ==
  CASE call.kind = "BUY" -> [cash |-> book.cash - Cost(Notional(call)), held |-> book.held + call.shares]
    [] call.kind = "SELL" -> [cash |-> book.cash + Notional(call) * (Whole - Fee),
                              held |-> IF call.shares <= book.held THEN book.held - call.shares ELSE 0]
    [] call.kind = "REDEEM" -> [cash |-> book.cash + IF won THEN book.held * Unit * Whole ELSE 0, held |-> 0]
    [] call.kind = "INBOUND" -> [book EXCEPT !.cash = @ + call.size * Whole]
    [] call.kind = "OUTBOUND" -> [book EXCEPT !.cash = @ - call.size * Whole]
    [] OTHER -> book

TakesEffect(answers) ==
  /\ call # None /\ call.at = "business" /\ ~Stopped(answers) /\ Accepts
  /\ writes.venue + writes.paper < MaxWrites
  /\ \E won \in BOOLEAN : book' = Filled(won)
  /\ writes' = IF setup.paper THEN [writes EXCEPT !.paper = @ + 1]
                              ELSE [writes EXCEPT !.venue = @ + 1]
  /\ last' = [call |-> call, agent |-> heard["agent"], business |-> answers]
  /\ Drop /\ UNCHANGED setup

(* The live venue accepts an order and leaves it open. *)
Opens(answers) ==
  /\ call # None /\ call.at = "business" /\ Quoted(call.kind) /\ ~setup.paper /\ ~Stopped(answers)
  /\ writes.venue < MaxWrites
  /\ writes' = [writes EXCEPT !.venue = @ + 1]
  /\ last' = [call |-> call, agent |-> heard["agent"], business |-> answers]
  /\ Drop /\ UNCHANGED <<setup, book>>

Next ==
  \/ \E kind \in Kinds, by \in {"decision", "tool"}, size \in Sizes : Propose(kind, by, size)
  \/ Sweep
  \/ \E answers \in Verdicts("agent") : AskAgentRules(answers)
  \/ GetQuote
  \/ \E answers \in Verdicts("business") :
       AskBusinessRules(answers) \/ Fails(answers) \/ TakesEffect(answers) \/ Opens(answers)

Spec == Init /\ [][Next]_vars

----------------------------------------------------------------------------
Consent == [outcome : {"ALLOW"}, value : {None}] \cup [outcome : {"ADJUST"}, value : Cuts]

(* What took effect was allowed by every rule that started, in both lanes,  *)
(* whichever of them raised, mumbled or tried to shrink what no longer can  *)
(* be shrunk; a decided purchase never asks for more money than the         *)
(* smallest cut a rule wanted.  In paper trading nothing but quotes reaches *)
(* the venue, and a simulated purchase whose quote comes to no more than    *)
(* what was asked for spends no money that is not there (core/risk.py:      *)
(* 76-118, market_guard.py:60-120, paper_trading.py:48-94, broker.py:200).  *)
OnlyWhatTheRulesAllow ==
  /\ TypeOK
  /\ last # None =>
       /\ \A i \in 1..setup.business :
            i \in DOMAIN last.business /\ last.business[i].outcome = "ALLOW"
       /\ last.call.by # "sweep" =>
            \A i \in 1..setup.agent :
              i \in DOMAIN last.agent /\ last.agent[i] \in Consent
       /\ last.call.kind = "BUY" /\ last.call.by = "decision" =>
            /\ last.call.size <= last.call.asked
            /\ \A i \in DOMAIN last.agent :
                 last.agent[i].outcome = "ADJUST" => last.call.size <= last.agent[i].value
  /\ setup.paper => writes.venue = 0
  /\ setup.paper /\ last # None /\ last.call.kind = "BUY" /\ Notional(last.call) <= last.call.size =>
       book.cash >= 0

(* "a rule here can still reduce a requested size with ADJUST rather than   *)
(* only refusing it" (plugins/agent_policy/custom_rules.py:19-23, said of   *)
(* "every tool call the model makes, plus the trade it proposes").          *)
ReductionsApply ==
  last # None /\ last.call.kind \in {"BUY", "SELL", "OUTBOUND"} =>
    \A i \in DOMAIN last.agent :
      last.agent[i].outcome = "ADJUST" => last.call.size <= last.agent[i].value
=============================================================================
