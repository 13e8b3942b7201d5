------------------------------- MODULE Funding -------------------------------
(***************************************************************************)
(* The robot asks for money and takes up its decision again when it hears. *)
(* A decision calls ENSURE_FUNDS; the plugin files a request in its book   *)
(* (FundingRequests, plugins/api/_funding.py), which the operator answers  *)
(* in the console; SessionMemory keeps a continuation, and a later cycle   *)
(* reads the answer and decides afresh (engine._resume_funded_decisions).  *)
(*                                                                         *)
(* The robot's event thread and the console's request share the book's     *)
(* file and no lock.  Each of the book's methods is one step here.  The    *)
(* two venues differ: Binance moves the money when a request is approved   *)
(* and reports a configured balance; Polymarket reads the platform's       *)
(* balance when the operator says that money was sent, and may fail to     *)
(* read it.  The console may answer in the middle of an ask, and the robot *)
(* ask in the middle of an answer.                                         *)
(***************************************************************************)
EXTENDS Integers, FiniteSets

CONSTANTS
  MaxAsks,     \* bound: requests filed
  MaxMoney,    \* bound: the platform's balance
  Amounts,     \* the amounts a decision may ask for
  Budget,      \* decision_max_attempts, the decisions one cycle may make
  Crashes      \* whether the process may die

ASSUME FundingAssumption ==
  /\ MaxAsks \in Nat \ {0} /\ MaxMoney \in Nat /\ Amounts \subseteq Nat \ {0} /\ Budget \in Nat \ {0}
  /\ Crashes \in BOOLEAN

VARIABLES
  venue,    \* "binance" or "polymarket"
  money,    \* AccountFunds.available
  book,     \* the funding file: the request that waits (0: none), its amount, available_when_asked,
            \*   whether expires_at has passed, and the states of the settled ones; as history what
            \*   the platform really held when it was asked for, and at most while it waited
  cont,     \* funding_continuations: "none", "open" or "closed"
  robot,    \* the event thread
  used,     \* _decisions_this_cycle
  console,  \* the operator's request in flight; "at" is the request it read, or, of a deposit and
            \*   as history, the one that waited when the balance was read
  told,     \* history: reminders put before a decision, per request
  moved,    \* history: requests for which money was moved
  unfiled,  \* history: of those, the ones whose outcome a crash kept out of the book
  withdrawn \* history: requests the robot took back while the operator's answer was under way

vars == <<venue, money, book, cont, robot, used, console, told, moved, unfiled, withdrawn>>
Asks == 1..MaxAsks
Outcomes == {"satisfied", "partial", "refused", "failed"}
Thinking == {"resume", "claimed", "plan", "decide", "consult", "record", "remember"}

TypeOK ==
  /\ venue \in {"binance", "polymarket"} /\ money \in 0..MaxMoney
  /\ book \in [pending : 0..MaxAsks, amount : {0} \cup Amounts, had : 0..MaxMoney, late : BOOLEAN,
               held : 0..MaxMoney, peak : 0..MaxMoney, settled : [Asks -> Outcomes \cup {"none"}]]
  /\ cont \in [Asks -> {"none", "open", "closed"}]
  /\ robot \in [pc : {"idle"} \cup Thinking, todo : SUBSET Asks, at : 0..MaxAsks,
                back : {"resume", "plan"}, want : {0} \cup Amounts,
                had : 0..MaxMoney, held : 0..MaxMoney]
  /\ used \in 0..Budget
  /\ console \in [pc : {"idle", "transfer", "balance", "deposit", "credit", "file"}, at : 0..MaxAsks,
                  amount : {0} \cup Amounts, had : 0..MaxMoney, seen : 0..MaxMoney, outcome : Outcomes]
  /\ told \in [Asks -> Nat]
  /\ unfiled \subseteq moved /\ moved \subseteq Asks /\ withdrawn \subseteq Asks

Idle == [pc |-> "idle", todo |-> {}, at |-> 0, back |-> "plan", want |-> 0, had |-> 0, held |-> 0]
Unattended == [pc |-> "idle", at |-> 0, amount |-> 0, had |-> 0, seen |-> 0, outcome |-> "failed"]
Blank == [pending |-> 0, amount |-> 0, had |-> 0, late |-> FALSE, held |-> 0, peak |-> 0,
          settled |-> [r \in Asks |-> "none"]]

Init ==
  /\ venue \in {"binance", "polymarket"} /\ money \in 0..MaxMoney
  /\ book = Blank /\ cont = [r \in Asks |-> "none"]
  /\ robot = Idle /\ used = 0 /\ console = Unattended
  /\ told = [r \in Asks |-> 0]
  /\ moved = {} /\ unfiled = {} /\ withdrawn = {}

(* ---- The book ---- *)
(* Two plausible mistakes; no specification uses them. *)
SettleLeavesWaiting(b, state) ==    \* settle() without clearing "pending"
  IF b.pending = 0 THEN b ELSE [b EXCEPT !.settled[b.pending] = state]

ExpiredForgets(b) ==                \* pending() clears an overdue request without filing it
  IF b.late THEN [Blank EXCEPT !.settled = b.settled] ELSE b

Settle(b, state) ==                 \* settle(): whichever request waits now
  IF b.pending = 0 THEN b
  ELSE [Blank EXCEPT !.settled = [b.settled EXCEPT ![b.pending] = state]]

(* pending() expires a request on reading it; there is no timer. *)
Expired(b) == IF b.late THEN Settle(b, "failed") ELSE b

Status(r) ==                        \* funding_status(): find() does not look at the deadline
  IF book.pending = r THEN "pending"
  ELSE IF book.settled[r] = "none" THEN "failed" ELSE book.settled[r]

(* The id of the next request: every earlier one waits or is settled. *)
Fresh == Cardinality({r \in Asks : book.pending = r \/ book.settled[r] # "none"}) + 1

Filing(b) ==                        \* record(): the new request waits
  [b EXCEPT !.pending = Fresh, !.amount = robot.want, !.had = robot.had, !.held = robot.held,
            !.late = FALSE, !.peak = money]

envVars == <<venue, money>>
historyVars == <<told, moved, unfiled, withdrawn>>

----------------------------------------------------------------------------
(* Plausible mistakes; no specification uses them. *)
StartCycleAll ==                    \* continuations listed without looking at resolved_at
  /\ robot.pc = "idle"
  /\ robot' = [Idle EXCEPT !.pc = "resume", !.todo = {r \in Asks : cont[r] # "none"}]
  /\ used' = 0
  /\ UNCHANGED <<envVars, book, cont, console, historyVars>>

ReadShortfall ==                    \* the balance compared with the shortfall, not the amount
  /\ console.pc = "balance"
  /\ console' = IF money >= console.amount - console.had
                 THEN [console EXCEPT !.pc = "file", !.outcome = "satisfied"] ELSE Unattended
  /\ UNCHANGED <<envVars, book, cont, robot, used, historyVars>>

TakeOutcomeUncounted ==             \* a market is decided without looking at the budget
  /\ robot.pc = "plan"
  /\ used' = used + 1 /\ robot' = [robot EXCEPT !.pc = "decide", !.back = "plan"]
  /\ UNCHANGED <<envVars, book, cont, console, historyVars>>

ClaimWhole(r) ==                    \* a partial answer is treated as no answer yet
  /\ robot.pc = "resume" /\ r \in robot.todo /\ \A q \in robot.todo : r <= q
  /\ Status(r) \notin {"pending", "partial"}
  /\ cont' = [cont EXCEPT ![r] = "closed"]
  /\ robot' = [robot EXCEPT !.pc = "claimed", !.at = r, !.todo = @ \ {r}]
  /\ UNCHANGED <<envVars, book, used, console, historyVars>>

----------------------------------------------------------------------------
(* ---- The robot: taking up what was answered ---- *)
StartCycle ==                       \* when can_decide says yes; a cycle without it resumes nothing
  /\ robot.pc = "idle"
  /\ robot' = [Idle EXCEPT !.pc = "resume", !.todo = {r \in Asks : cont[r] = "open"}]
  /\ used' = 0
  /\ UNCHANGED <<envVars, book, cont, console, historyVars>>

Decide == [robot EXCEPT !.pc = "decide", !.at = 0, !.want = 0, !.had = 0, !.held = 0]
Turn(r) == robot.pc = "resume" /\ r \in robot.todo /\ \A q \in robot.todo : r <= q

StillWaiting(r) ==                  \* pending, or its status could not be read
  /\ Turn(r)
  /\ robot' = [robot EXCEPT !.todo = @ \ {r}]
  /\ UNCHANGED <<envVars, book, cont, used, console, historyVars>>

Claim(r) ==                         \* close_funding_continuation, before the decision is made
  /\ Turn(r) /\ Status(r) # "pending"
  /\ cont' = [cont EXCEPT ![r] = "closed"]
  /\ robot' = [robot EXCEPT !.pc = "claimed", !.at = r, !.todo = @ \ {r}]
  /\ UNCHANGED <<envVars, book, used, console, historyVars>>

Remind ==                           \* _reconsider_after_funding: a fresh decision, with the answer
  /\ robot.pc = "claimed" /\ used < Budget
  /\ used' = used + 1
  /\ told' = [told EXCEPT ![robot.at] = @ + 1]
  /\ robot' = [Decide EXCEPT !.back = "resume"]
  /\ UNCHANGED <<envVars, book, cont, console, moved, unfiled, withdrawn>>

DropReminder ==                     \* no budget left, or the market is gone or unreadable
  /\ robot.pc = "claimed" /\ robot' = [robot EXCEPT !.pc = "resume", !.at = 0]
  /\ UNCHANGED <<envVars, book, cont, used, console, historyVars>>

Resumed ==                          \* all read, or stop_requested broke the loop off
  /\ robot.pc = "resume" /\ robot' = [robot EXCEPT !.pc = "plan", !.todo = {}]
  /\ UNCHANGED <<envVars, book, cont, used, console, historyVars>>

(* ---- The robot: the cycle's own decisions, and the asking ---- *)
TakeOutcome ==
  /\ robot.pc = "plan" /\ used < Budget
  /\ used' = used + 1 /\ robot' = [robot EXCEPT !.pc = "decide", !.back = "plan"]
  /\ UNCHANGED <<envVars, book, cont, console, historyVars>>

EndCycle ==
  /\ robot.pc = "plan" /\ robot' = Idle
  /\ UNCHANGED <<envVars, book, cont, used, console, historyVars>>

(* A balance that cannot be read is reported as 0, whatever it is, and the    *)
(* request says so (Polymarket's account_funds).                             *)
EnsureFunds(amount) ==              \* ensure_funds up to the question of a request already waiting
  /\ robot.pc = "decide" /\ Fresh \in Asks
  /\ \E had \in {money} \cup (IF venue = "polymarket" THEN {0} ELSE {}) :
       /\ had < amount
       /\ book' = Expired(book)
       /\ robot' = [robot EXCEPT !.pc = IF book'.pending = 0 THEN "record" ELSE "consult",
                                 !.want = amount, !.had = had, !.held = money]
  /\ UNCHANGED <<envVars, cont, used, console, historyVars>>

(* The robot takes back what waits.                                          *)
Withdraw ==
  withdrawn' = withdrawn \cup {r \in Asks : book.pending = r /\ console.at = r
                                           /\ console.pc \in {"transfer", "balance", "file"}}

KeepOld ==                          \* KEEP_OLD, or the question got no usable answer
  /\ robot.pc = "consult" /\ robot' = Decide
  /\ UNCHANGED <<envVars, book, cont, used, console, historyVars>>

DropBoth ==
  /\ robot.pc = "consult" /\ Withdraw /\ book' = Settle(book, "refused")
  /\ robot' = Decide
  /\ UNCHANGED <<envVars, cont, used, console, told, moved, unfiled>>

Replace(amount) ==                  \* KEEP_NEW, or USE_NEW_AMOUNT with another amount
  /\ robot.pc = "consult" /\ Withdraw /\ book' = Settle(book, "refused")
  /\ robot' = [robot EXCEPT !.pc = "record", !.want = amount]
  /\ UNCHANGED <<envVars, cont, used, console, told, moved, unfiled>>

Record ==                           \* record(): what still waits is retired first
  /\ robot.pc = "record" /\ Withdraw /\ book' = Filing(Settle(book, "refused"))
  /\ robot' = [robot EXCEPT !.pc = "remember", !.at = Fresh]
  /\ UNCHANGED <<envVars, cont, used, console, told, moved, unfiled>>

Remember ==                         \* _remember_funding_wait; a write that fails is only logged
  /\ robot.pc = "remember"
  /\ cont' \in {cont, [cont EXCEPT ![robot.at] = "open"]}
  /\ robot' = Decide
  /\ UNCHANGED <<envVars, book, used, console, historyVars>>

Conclude ==                         \* the decision ends, having spent money or not
  /\ robot.pc = "decide" /\ robot' = [robot EXCEPT !.pc = robot.back]
  /\ money' \in {money} \cup (IF venue = "polymarket" THEN {0} ELSE {})
  /\ UNCHANGED <<venue, book, cont, used, console, historyVars>>

----------------------------------------------------------------------------
(* ---- The console ---- *)
Attended == console.pc = "idle"
consoleRest == <<envVars, cont, robot, used, told, withdrawn>>

OpenPanel ==                        \* funding_notices: pending() expires what is overdue
  /\ Attended /\ book' = Expired(book) /\ book' # book
  /\ UNCHANGED <<consoleRest, console, moved, unfiled>>

(* approve_funding (Binance) and confirm_funding (Polymarket) read pending()  *)
(* and then talk to the venue.                                                *)
Answer ==
  /\ Attended /\ book.pending # 0 /\ book' = Expired(book)
  /\ console' = IF book'.pending = 0 THEN console
                ELSE [console EXCEPT !.pc = IF venue = "binance" THEN "transfer" ELSE "balance",
                                     !.at = book'.pending, !.amount = book'.amount, !.had = book'.had]
  /\ UNCHANGED <<consoleRest, moved, unfiled>>

Transfer ==                         \* done, or failed before or after the venue took it
  /\ console.pc = "transfer"
  /\ \/ moved' = moved \cup {console.at} /\ console' = [console EXCEPT !.pc = "file", !.outcome = "satisfied"]
     \/ moved' \in {moved, moved \cup {console.at}} /\ console' = [console EXCEPT !.pc = "file", !.outcome = "failed"]
  /\ UNCHANGED <<consoleRest, book, unfiled>>

(* What a balance says about a request; "none" leaves it waiting. *)
Verdict(amount, had, seen) == IF seen >= amount THEN "satisfied" ELSE IF seen > had THEN "partial" ELSE "none"

ReadBalance ==                      \* confirm_funding; the balance may be unreadable
  /\ console.pc = "balance"
  /\ LET verdict == Verdict(console.amount, console.had, money) IN
     console' \in {Unattended, IF verdict = "none" THEN Unattended
                               ELSE [console EXCEPT !.pc = "file", !.outcome = verdict]}
  /\ UNCHANGED <<consoleRest, book, moved, unfiled>>

ConfirmDeposit ==                   \* confirm_deposit: the chain and the balance first
  /\ Attended /\ venue = "polymarket" /\ console' = [console EXCEPT !.pc = "deposit"]
  /\ UNCHANGED <<consoleRest, book, moved, unfiled>>

DepositSeen ==
  /\ console.pc = "deposit"
  /\ console' \in {Unattended, [console EXCEPT !.pc = "credit", !.at = book.pending, !.seen = money]}
  /\ UNCHANGED <<consoleRest, book, moved, unfiled>>

Credit ==                           \* then the request, if one waits, is let off by that balance
  /\ console.pc = "credit"
  /\ LET live == Expired(book)
         verdict == Verdict(live.amount, live.had, console.seen) IN
     book' = IF verdict = "none" THEN live ELSE Settle(live, verdict)
  /\ console' = Unattended
  /\ UNCHANGED <<consoleRest, moved, unfiled>>

Reject ==                           \* reject_funding, with its reason: the balance is read first
  /\ Attended /\ book.pending # 0
  /\ console' = [console EXCEPT !.pc = "file", !.at = book.pending, !.outcome = "refused"]
  /\ UNCHANGED <<consoleRest, book, moved, unfiled>>

File ==
  /\ console.pc = "file" /\ book' = Settle(book, console.outcome) /\ console' = Unattended
  /\ UNCHANGED <<consoleRest, moved, unfiled>>

----------------------------------------------------------------------------
(* ---- The environment ---- *)
DeadlinePasses ==
  /\ book.pending # 0 /\ ~book.late /\ book' = [book EXCEPT !.late = TRUE]
  /\ UNCHANGED <<envVars, cont, robot, used, console, historyVars>>

MoneyArrives ==                     \* Binance reports a configured balance, whatever arrives
  /\ venue = "polymarket" /\ money < MaxMoney /\ money' = money + 1
  /\ book' = IF book.pending # 0 /\ book.peak < money' THEN [book EXCEPT !.peak = money'] ELSE book
  /\ UNCHANGED <<venue, cont, robot, used, console, historyVars>>

Crash ==                            \* the process dies; the book and the continuations remain
  /\ Crashes /\ robot' = Idle /\ used' = 0 /\ console' = Unattended
  /\ unfiled' = IF console.pc = "file" /\ console.at \in moved THEN unfiled \cup {console.at} ELSE unfiled
  /\ UNCHANGED <<venue, money, book, cont, told, moved, withdrawn>>

Robot ==
  \/ StartCycle \/ Remind \/ DropReminder \/ Resumed \/ TakeOutcome \/ EndCycle
  \/ KeepOld \/ DropBoth \/ Record \/ Remember \/ Conclude
  \/ \E r \in Asks : StillWaiting(r) \/ Claim(r)
  \/ \E amount \in Amounts : EnsureFunds(amount) \/ Replace(amount)

Console ==
  \/ OpenPanel \/ Answer \/ Transfer \/ ReadBalance \/ ConfirmDeposit \/ DepositSeen \/ Credit
  \/ Reject \/ File

Next ==
  \/ Robot \/ Console \/ DeadlinePasses \/ MoneyArrives \/ Crash

Spec == Init /\ [][Next]_vars

(* The plugin's worker starts cycle after cycle (capacity comes back), a      *)
(* model call ends, one decision uses a bounded number of tools, a status     *)
(* is read in the end, time passes and a console request that was sent is     *)
(* carried out.  Nobody has to open the console.                              *)
Going ==
  StartCycle \/ Resumed \/ EndCycle \/ Remind \/ DropReminder \/ KeepOld \/ Record \/ Remember
Sent == Transfer \/ ReadBalance \/ DepositSeen \/ Credit \/ File

Fairness ==
  /\ WF_vars(Going) /\ WF_vars(Sent) /\ SF_vars(Conclude) /\ WF_vars(DeadlinePasses)
  /\ \A r \in Asks : SF_vars(Claim(r)) /\ SF_vars(StillWaiting(r))

FairSpec == Spec /\ Fairness

----------------------------------------------------------------------------
(* An answer wakes the decision it belongs to once: however often the      *)
(* process dies, no request puts two reminders before the model.           *)
OneReminderPerAsk == \A r \in Asks : told[r] <= 1

(* An answer filed on the request it was read for is true of it, whatever   *)
(* the robot did meanwhile: "satisfied" means that the money moved for this *)
(* request, or that the balance reached this amount since it was filed;     *)
(* "partial" that the balance grew over what the platform held when it was  *)
(* asked for, unless the request was filed with less than that (a balance   *)
(* that could not be read counts as 0).                                     *)
AnswersMatchTheirAsk ==
  [][LET r == book.pending IN r # 0 /\ console.at = r =>
       /\ book'.settled[r] = "satisfied" => IF venue = "binance" THEN r \in moved ELSE book.peak >= book.amount
       /\ book'.settled[r] = "partial" => book.peak > book.held \/ book.had < book.held]_vars

(* "Cancelling it means no money moves for it" (_funding.py:268): nothing   *)
(* moved for a request that is refused, superseded or cancelled.            *)
CancelledMovesNothing == \A r \in Asks : book.settled[r] = "refused" => r \notin moved

(* What there is of that: nothing moved for it unless the robot took it     *)
(* back while the operator's answer was under way, or a crash kept the      *)
(* transfer's outcome out of the book.                                      *)
CancelledInTimeMovesNothing ==
  \A r \in Asks : book.settled[r] = "refused" /\ r \notin unfiled \cup withdrawn => r \notin moved

(* A continuation that waits for an answer can still get one: its request   *)
(* waits in the book or is filed there, whatever superseded or expired it.  *)
NothingIsForgotten ==
  \A r \in Asks : cont[r] = "open" => book.pending = r \/ book.settled[r] # "none"

(* A request and the decision that waits for it stay together: its answer   *)
(* can be found and reaches the model once, through crashes, deadlines and  *)
(* later requests (memory.py:401-461, _funding.py:57-153).                *)
AsksAreKept == TypeOK /\ OneReminderPerAsk /\ NothingIsForgotten

(* An answer is claimed: once the request of an open continuation is        *)
(* settled, some cycle closes the continuation.                             *)
AnswersAreClaimed ==
  \A r \in Asks : cont[r] = "open" /\ book.settled[r] # "none" ~> cont[r] = "closed"

(* "A request past its deadline is failed" (docs/API_PLUGINS.md:100): the   *)
(* robot does not wait for ever, even if nobody opens the console.          *)
EveryAskIsAnswered == \A r \in Asks : cont[r] = "open" ~> cont[r] = "closed"
=============================================================================
