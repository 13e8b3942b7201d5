---------------------------- MODULE FundingProofs ----------------------------
(* Proofs about Funding, for any number of requests, any amounts and any    *)
(* budget: what holds whatever the operator and the robot do at once, the   *)
(* operator in the middle of an ask or the robot in the middle of an answer. *)
EXTENDS Funding, FiniteSetTheorems, TLAPS

----------------------------------------------------------------------------
(* The book, as a value. *)
Books == [pending : 0..MaxAsks, amount : {0} \cup Amounts, had : 0..MaxMoney, late : BOOLEAN,
          held : 0..MaxMoney, peak : 0..MaxMoney, settled : [Asks -> Outcomes \cup {"none"}]]

Consoles == [pc : {"idle", "transfer", "balance", "deposit", "credit", "file"}, at : 0..MaxAsks,
             amount : {0} \cup Amounts, had : 0..MaxMoney, seen : 0..MaxMoney, outcome : Outcomes]
Robots == [pc : {"idle"} \cup Thinking, todo : SUBSET Asks, at : 0..MaxAsks,
           back : {"resume", "plan"}, want : {0} \cup Amounts, had : 0..MaxMoney, held : 0..MaxMoney]

(* The request that waits is not settled. *)
WellFiled(b) == b \in Books /\ (b.pending # 0 => b.settled[b.pending] = "none")

(* The requests it holds, and that they were numbered as they were filed. *)
Known(b) == {r \in Asks : b.pending = r \/ b.settled[r] # "none"}
Numbered == \E n \in 0..MaxAsks : Known(book) = 1..n

(* An ask that has got past its first look finds a number. *)
AskInv ==
  /\ WellFiled(book) /\ Numbered
  /\ robot.pc \in {"consult", "record"} => Fresh \in Asks

(* A continuation belongs to a request the book holds; it is closed before  *)
(* its reminder, and the event thread is the only one to close it.          *)
ContInv ==
  /\ \A r \in Asks : cont[r] # "none" => r \in Known(book)
  /\ \A r \in Asks : told[r] # 0 => cont[r] = "closed"
  /\ \A r \in robot.todo : cont[r] = "open"
  /\ robot.pc = "claimed" => robot.at \in Asks /\ cont[robot.at] = "closed" /\ told[robot.at] = 0
  /\ robot.pc = "remember" => robot.at \in Known(book) /\ cont[robot.at] = "none"

(* The console answers a request, not the lack of one. *)
Answering == {"transfer", "balance", "file"}
AnswersOne == console.pc \in Answering => console.at # 0

Inductive == TypeOK /\ AskInv /\ ContInv /\ AnswersOne /\ OneReminderPerAsk

(* The console's answer is about a request the book knows: it still waits,  *)
(* or the robot took it back or found it overdue in the meantime.           *)
Unless == moved \ (unfiled \cup withdrawn)

AnswerInv ==
  /\ console.at \in {0} \cup Known(book)
  /\ console.pc \in Answering =>
       console.at = book.pending \/ console.at \in withdrawn \/ book.settled[console.at] = "failed"
  /\ console.pc = "transfer" => venue = "binance"
  /\ console.pc \in {"balance", "deposit", "credit"} => venue = "polymarket"

(* What the console says of a request that still waits is true of it.       *)
PeakInv ==
  book.pending # 0 =>
    /\ money <= book.peak
    /\ console.at = book.pending =>
         /\ console.pc \in {"transfer", "balance"} => console.amount = book.amount /\ console.had = book.had
         /\ console.pc = "credit" => console.seen <= book.peak
         /\ console.pc = "file" /\ console.outcome = "satisfied" =>
              IF venue = "binance" THEN console.at \in moved ELSE book.peak >= book.amount
         /\ console.pc = "file" /\ console.outcome = "partial" => book.peak > book.had

MovedInv ==
  \A r \in Unless :
    \/ book.settled[r] \notin {"refused", "none"}
    \/ console.pc = "file" /\ console.at = r /\ console.outcome # "refused"

Calm == AnswerInv /\ PeakInv /\ MovedInv

----------------------------------------------------------------------------
USE FundingAssumption DEF Asks, Outcomes

LEMMA AmountsAreNumbers == \A a \in {0} \cup Amounts : a \in Int
<1> SUFFICES ASSUME NEW a \in {0} \cup Amounts PROVE a \in Int
  OBVIOUS
<1>1. CASE a = 0
  BY <1>1
<1>2. CASE a \in Amounts
  <2>1. a \in Nat
    BY <1>2, Zenon
  <2> QED
    BY <2>1
<1> QED
  BY <1>1, <1>2, Zenon

(* Settling leaves no request waiting and forgets none. *)
LEMMA SettleFacts ==
  ASSUME NEW b, WellFiled(b), NEW state \in Outcomes
  PROVE  /\ WellFiled(Settle(b, state)) /\ Settle(b, state).pending = 0
         /\ Known(Settle(b, state)) = Known(b)
         /\ \A r \in Asks : Settle(b, state).settled[r] =
                            IF r = b.pending THEN state ELSE b.settled[r]
<1>1. CASE b.pending = 0
  BY <1>1 DEF WellFiled, Books, Known, Settle
<1>2. CASE b.pending # 0
  <2> DEFINE c == Settle(b, state)
  <2>1. c = [Blank EXCEPT !.settled = [b.settled EXCEPT ![b.pending] = state]]
    BY <1>2 DEF Settle
  <2>2. c = [pending |-> 0, amount |-> 0, had |-> 0, late |-> FALSE, held |-> 0, peak |-> 0,
             settled |-> [b.settled EXCEPT ![b.pending] = state]]
    BY <2>1 DEF Blank
  <2>3. b.settled \in [Asks -> Outcomes \cup {"none"}] /\ b.pending \in Asks
    BY <1>2 DEF WellFiled, Books
  <2> HIDE DEF c
  <2>4. c \in Books /\ c.pending = 0
    BY <2>2, <2>3 DEF Books
  <2>5. \A r \in Asks : c.settled[r] = IF r = b.pending THEN state ELSE b.settled[r]
    BY <2>2, <2>3
  <2>6. Known(c) = Known(b)
    BY <2>3, <2>4, <2>5 DEF Known
  <2> QED
    BY <2>4, <2>5, <2>6 DEF WellFiled, c
<1> QED
  BY <1>1, <1>2

(* Reading the book settles what is overdue, as failed, or changes nothing. *)
LEMMA ExpiredFacts ==
  ASSUME NEW b, WellFiled(b)
  PROVE  /\ WellFiled(Expired(b)) /\ Known(Expired(b)) = Known(b)
         /\ Expired(b) # b => Expired(b).pending = 0
         /\ \A r \in Asks : \/ Expired(b).settled[r] = b.settled[r]
                            \/ r = b.pending /\ Expired(b).settled[r] = "failed"
  BY SettleFacts DEF Expired

(* The next request gets the number after those the book knows. *)
LEMMA FreshIsNext ==
  ASSUME Numbered
  PROVE  \E n \in 0..MaxAsks : Known(book) = 1..n /\ Fresh = n + 1
<1>1. PICK n \in 0..MaxAsks : Known(book) = 1..n
  BY DEF Numbered
<1>2. Fresh = Cardinality(Known(book)) + 1
  BY DEF Fresh, Known
<1>3. Cardinality(1..n) = n
  BY FS_Interval
<1> QED
  BY <1>1, <1>2, <1>3

LEMMA InitInductive == Init => Inductive
<1> SUFFICES ASSUME Init PROVE Inductive
  OBVIOUS
<1>1. TypeOK
  <2>1. book \in Books
    BY DEF Init, Blank, Books
  <2>2. robot \in [pc : {"idle"} \cup Thinking, todo : SUBSET Asks, at : 0..MaxAsks,
                   back : {"resume", "plan"}, want : {0} \cup Amounts, had : 0..MaxMoney,
                   held : 0..MaxMoney]
    BY DEF Init, Idle, Thinking
  <2>3. console \in [pc : {"idle", "transfer", "balance", "deposit", "credit", "file"}, at : 0..MaxAsks,
                     amount : {0} \cup Amounts, had : 0..MaxMoney, seen : 0..MaxMoney, outcome : Outcomes]
    BY DEF Init, Unattended
  <2>4. cont \in [Asks -> {"none", "open", "closed"}] /\ told \in [Asks -> Nat] /\ used \in 0..Budget
    BY DEF Init
  <2> QED
    BY <2>1, <2>2, <2>3, <2>4 DEF Init, TypeOK, Books
<1>2. AskInv
  <2>1. Known(book) = 1..0
    BY DEF Init, Blank, Known
  <2> QED
    BY <1>1, <2>1 DEF Init, Blank, Idle, AskInv, WellFiled, Books, Numbered, TypeOK
<1>3. ContInv /\ AnswersOne /\ OneReminderPerAsk
  BY DEF Init, Idle, Unattended, Answering, ContInv, AnswersOne, OneReminderPerAsk
<1> QED
  BY <1>1, <1>2, <1>3 DEF Inductive

(* Every step but four leaves the continuations and their reminders alone,  *)
(* and changes the book only by settling the request that waits in it.      *)
LEMMA Kept ==
  ASSUME Inductive, TypeOK', WellFiled(book'), Known(book') = Known(book), UNCHANGED <<cont, told>>,
         robot'.pc \in {"consult", "record"} => Fresh \in Asks,
         console' = console \/ AnswersOne',
         \A r \in robot'.todo : cont[r] = "open",
         robot'.pc \in {"claimed", "remember"} => robot'.pc = robot.pc /\ robot'.at = robot.at
  PROVE  Inductive'
<1>1. Fresh' = Fresh
  BY DEF Fresh, Known
<1>2. AskInv'
  BY <1>1 DEF Inductive, AskInv, Numbered
<1>3. ContInv' /\ OneReminderPerAsk'
  BY DEF Inductive, ContInv, OneReminderPerAsk
<1>4. AnswersOne'
  BY DEF Inductive, AnswersOne
<1> QED
  BY <1>2, <1>3, <1>4 DEF Inductive

LEMMA RobotValues ==
  /\ \A p \in {"idle", "resume", "claimed", "plan", "decide", "consult", "record", "remember"} :
       p \in {"idle"} \cup Thinking
  /\ 0 \in 0..MaxAsks /\ 0 \in 0..MaxMoney /\ 0 \in {0} \cup Amounts
  /\ Asks \subseteq 0..MaxAsks
  BY DEF Thinking

(* A step of the robot that reads or decides. *)
LEMMA ReadingSteps ==
  ASSUME Inductive, NEW r \in Asks,
         \/ StartCycle \/ StillWaiting(r) \/ DropReminder \/ Resumed \/ TakeOutcome \/ EndCycle
         \/ KeepOld \/ Conclude
  PROVE  Inductive'
<1> DEFINE Fits == /\ robot' \in Robots
                   /\ robot'.pc \notin {"claimed", "consult", "record", "remember"}
                   /\ \A q \in robot'.todo : cont[q] = "open"
<1>1. UNCHANGED <<venue, book, cont, console, told, moved, unfiled, withdrawn>>
  BY DEF StartCycle, StillWaiting, DropReminder, Resumed, TakeOutcome, EndCycle, KeepOld, Conclude,
         envVars, historyVars
<1>2. robot \in Robots /\ \A q \in robot.todo : cont[q] = "open"
  BY DEF Inductive, TypeOK, ContInv, Robots
<1>3. Fits
  <2>1. CASE StartCycle
    BY <2>1, RobotValues DEF StartCycle, Idle, Robots
  <2>2. CASE StillWaiting(r)
    BY <1>2, <2>2, RobotValues DEF StillWaiting, Turn, Robots
  <2>3. CASE DropReminder
    BY <1>2, <2>3, RobotValues DEF DropReminder, Robots
  <2>4. CASE Resumed
    BY <1>2, <2>4, RobotValues DEF Resumed, Robots
  <2>5. CASE TakeOutcome
    BY <1>2, <2>5, RobotValues DEF TakeOutcome, Robots
  <2>6. CASE EndCycle
    BY <2>6, RobotValues DEF EndCycle, Idle, Robots
  <2>7. CASE KeepOld
    BY <1>2, <2>7, RobotValues DEF KeepOld, Decide, Robots
  <2>8. CASE Conclude
    BY <1>2, <2>8, RobotValues DEF Conclude, Robots
  <2> QED
    BY <2>1, <2>2, <2>3, <2>4, <2>5, <2>6, <2>7, <2>8
<1>4. money' \in 0..MaxMoney /\ used' \in 0..Budget
  BY DEF Inductive, TypeOK, StartCycle, StillWaiting, DropReminder, Resumed, TakeOutcome, EndCycle,
         KeepOld, Conclude, envVars
<1>5. TypeOK'
  BY <1>1, <1>3, <1>4 DEF Inductive, TypeOK, Robots
<1>6. WellFiled(book') /\ Known(book') = Known(book)
  BY <1>1 DEF Inductive, AskInv
<1> QED
  BY <1>1, <1>3, <1>5, <1>6, Kept

(* Taking an answer up: the continuation is closed first. *)
LEMMA ClaimSteps ==
  ASSUME Inductive, NEW r \in Asks, Claim(r) \/ Remind
  PROVE  Inductive'
<1>1. UNCHANGED <<venue, money, book, console, moved, unfiled, withdrawn>>
  BY DEF Claim, Remind, envVars, historyVars
<1>2. robot \in Robots /\ told \in [Asks -> Nat] /\ cont \in [Asks -> {"none", "open", "closed"}]
  BY DEF Inductive, TypeOK, Robots
<1>3. CASE Claim(r)
  <2>1. /\ cont' = [cont EXCEPT ![r] = "closed"] /\ told' = told /\ used' = used
        /\ robot' = [robot EXCEPT !.pc = "claimed", !.at = r, !.todo = @ \ {r}]
        /\ r \in robot.todo
    BY <1>3 DEF Claim, Turn, historyVars
  <2>2. cont[r] = "open"
    BY <2>1 DEF Inductive, ContInv
  <2>3. robot' \in Robots
    BY <1>2, <2>1, RobotValues DEF Robots
  <2>4. TypeOK'
    BY <1>1, <1>2, <2>1, <2>3 DEF Inductive, TypeOK, Robots
  <2>5. AskInv'
    BY <1>1, <1>2, <2>1 DEF Inductive, AskInv, Numbered, Fresh
  <2>6. ContInv'
    BY <1>1, <1>2, <2>1, <2>2 DEF Inductive, ContInv
  <2> QED
    BY <1>1, <2>1, <2>4, <2>5, <2>6 DEF Inductive, AnswersOne, OneReminderPerAsk
<1>4. CASE Remind
  <2>1. /\ robot.pc = "claimed" /\ cont' = cont /\ told' = [told EXCEPT ![robot.at] = @ + 1]
        /\ used' \in 0..Budget
    BY <1>4 DEF Remind, Inductive, TypeOK
  <2>2. robot' \in Robots /\ robot'.pc = "decide" /\ robot'.todo = robot.todo
    BY <1>2, <1>4, RobotValues DEF Remind, Decide, Robots
  <2>3. robot.at \in Asks /\ cont[robot.at] = "closed" /\ told[robot.at] = 0
    BY <2>1 DEF Inductive, ContInv
  <2>4. TypeOK'
    <3>1. told' \in [Asks -> Nat]
      BY <1>2, <2>1, <2>3
    <3> QED
      BY <1>1, <2>1, <2>2, <3>1 DEF Inductive, TypeOK, Robots
  <2>5. AskInv'
    BY <1>1, <2>2 DEF Inductive, AskInv, Numbered, Fresh
  <2>6. ContInv' /\ OneReminderPerAsk'
    BY <1>1, <1>2, <2>1, <2>2, <2>3 DEF Inductive, ContInv, OneReminderPerAsk
  <2> QED
    BY <1>1, <2>4, <2>5, <2>6 DEF Inductive, AnswersOne
<1> QED
  BY <1>3, <1>4

(* Asking: what waits is settled, and a new request is filed at most once. *)
LEMMA AskingSteps ==
  ASSUME Inductive, NEW amount,
         DropBoth \/ (amount \in Amounts /\ (EnsureFunds(amount) \/ Replace(amount)))
  PROVE  Inductive'
<1>1. /\ UNCHANGED <<venue, money, cont, used, console, told, moved, unfiled>>
      /\ withdrawn' \subseteq Asks
  BY DEF EnsureFunds, DropBoth, Replace, Withdraw, envVars, historyVars, Inductive, TypeOK
<1>2. robot \in Robots /\ WellFiled(book)
  BY DEF Inductive, TypeOK, AskInv, Robots
<1>3. WellFiled(book') /\ Known(book') = Known(book)
  <2>1. book' = Expired(book) \/ book' = Settle(book, "refused")
    BY DEF EnsureFunds, DropBoth, Replace
  <2> QED
    BY <1>2, <2>1, SettleFacts, ExpiredFacts
<1>4. robot' \in Robots
  <2>1. CASE amount \in Amounts /\ EnsureFunds(amount)
    <3>1. money \in 0..MaxMoney
      BY DEF Inductive, TypeOK
    <3>2. PICK had \in {money, 0} :
            robot' = [robot EXCEPT !.pc = IF book'.pending = 0 THEN "record" ELSE "consult",
                                   !.want = amount, !.had = had, !.held = money]
      BY <2>1 DEF EnsureFunds
    <3>3. had \in 0..MaxMoney
      BY <3>1, RobotValues
    <3> QED
      BY <1>2, <2>1, <3>1, <3>2, <3>3, RobotValues DEF Robots
  <2>2. CASE DropBoth
    BY <1>2, <2>2, RobotValues DEF DropBoth, Decide, Robots
  <2>3. CASE amount \in Amounts /\ Replace(amount)
    BY <1>2, <2>3, RobotValues DEF Replace, Robots
  <2> QED
    BY <2>1, <2>2, <2>3
<1>5. TypeOK'
  BY <1>1, <1>3, <1>4 DEF Inductive, TypeOK, WellFiled, Books, Robots
<1>6. robot'.todo = robot.todo /\ robot'.pc \in {"decide", "consult", "record"}
  BY <1>2 DEF EnsureFunds, DropBoth, Replace, Decide, Robots
<1>7. \A q \in robot'.todo : cont[q] = "open"
  BY <1>6 DEF Inductive, ContInv
<1>8. robot'.pc \in {"consult", "record"} => Fresh \in Asks
  BY DEF EnsureFunds, DropBoth, Replace, Decide, Inductive, AskInv
<1> QED
  BY <1>1, <1>3, <1>5, <1>6, <1>7, <1>8, Kept

LEMMA RecordStep ==
  ASSUME Inductive, Record
  PROVE  Inductive'
<1> DEFINE old == Settle(book, "refused")
<1>1. /\ UNCHANGED <<venue, money, cont, used, console, told, moved, unfiled>>
      /\ robot.pc = "record" /\ book' = Filing(old) /\ withdrawn' \subseteq Asks
      /\ robot' = [robot EXCEPT !.pc = "remember", !.at = Fresh]
  BY DEF Record, Withdraw, envVars, historyVars, Inductive, TypeOK
<1> HIDE DEF old
<1>2. PICK n \in 0..MaxAsks : Known(book) = 1..n /\ Fresh = n + 1
  BY FreshIsNext DEF Inductive, AskInv
<1>3. Fresh \in Asks
  BY <1>1 DEF Inductive, AskInv
<1>4. robot \in Robots /\ money \in 0..MaxMoney /\ cont \in [Asks -> {"none", "open", "closed"}]
  BY DEF Inductive, TypeOK, Robots
<1>5. WellFiled(old) /\ old.pending = 0 /\ Known(old) = 1..n
  BY <1>2, SettleFacts DEF Inductive, AskInv, old
<1>6. book' = [pending |-> Fresh, amount |-> robot.want, had |-> robot.had, late |-> FALSE, held |-> robot.held, peak |-> money,
               settled |-> old.settled]
  BY <1>1, <1>5 DEF Filing, WellFiled, Books
<1>7. old.settled[Fresh] = "none"
  BY <1>2, <1>3, <1>5 DEF Known
<1>8. WellFiled(book')
  BY <1>3, <1>4, <1>5, <1>6, <1>7 DEF WellFiled, Books, Robots
<1>9. Known(book') = 1..(n + 1)
  <2>1. Known(book') = Known(old) \cup {Fresh}
    BY <1>3, <1>5, <1>6 DEF Known
  <2> QED
    BY <1>2, <1>5, <2>1
<1>10. robot' \in Robots /\ robot'.pc = "remember" /\ robot'.at = Fresh /\ robot'.todo = robot.todo
  BY <1>1, <1>3, <1>4, RobotValues DEF Robots
<1>11. TypeOK'
  BY <1>1, <1>8, <1>10 DEF Inductive, TypeOK, WellFiled, Books, Robots
<1>12. AskInv'
  BY <1>2, <1>3, <1>8, <1>9, <1>10 DEF AskInv, Numbered
<1>13. cont[Fresh] = "none"
  BY <1>2, <1>3, <1>4 DEF Inductive, ContInv
<1>14. ContInv' /\ OneReminderPerAsk'
  BY <1>1, <1>2, <1>3, <1>9, <1>10, <1>13 DEF Inductive, ContInv, OneReminderPerAsk
<1> QED
  BY <1>1, <1>11, <1>12, <1>14 DEF Inductive, AnswersOne

LEMMA RememberStep ==
  ASSUME Inductive, Remember
  PROVE  Inductive'
<1>1. /\ UNCHANGED <<venue, money, book, used, console, told, moved, unfiled, withdrawn>> /\ robot.pc = "remember"
      /\ cont' \in {cont, [cont EXCEPT ![robot.at] = "open"]}
  BY DEF Remember, envVars, historyVars
<1>2. robot \in Robots /\ cont \in [Asks -> {"none", "open", "closed"}]
  BY DEF Inductive, TypeOK, Robots
<1>3. robot' \in Robots /\ robot'.pc = "decide" /\ robot'.todo = robot.todo
  BY <1>1, <1>2, RobotValues DEF Remember, Decide, Robots
<1>4. robot.at \in Known(book) /\ robot.at \in Asks /\ cont[robot.at] = "none"
  BY <1>1 DEF Inductive, ContInv, Known
<1>5. TypeOK'
  BY <1>1, <1>2, <1>3 DEF Inductive, TypeOK, Robots
<1>6. AskInv'
  BY <1>1, <1>3 DEF Inductive, AskInv, Numbered
<1>7. OneReminderPerAsk'
  BY <1>1 DEF Inductive, OneReminderPerAsk
<1>8. ContInv'
  <2>1. CASE cont' = cont
    BY <1>1, <1>3, <2>1 DEF Inductive, ContInv, Known
  <2>2. CASE cont' = [cont EXCEPT ![robot.at] = "open"]
    <3>1. told[robot.at] = 0
      BY <1>4 DEF Inductive, ContInv, TypeOK
    <3>2. \A r \in robot.todo : cont'[r] = "open"
      BY <1>2, <1>4, <2>2 DEF Inductive, ContInv, Robots
    <3> QED
      BY <1>1, <1>2, <1>3, <1>4, <2>2, <3>1, <3>2 DEF Inductive, ContInv, Known
  <2> QED
    BY <1>1, <2>1, <2>2
<1> QED
  BY <1>1, <1>5, <1>6, <1>7, <1>8 DEF Inductive, AnswersOne

(* The console's steps and the environment's settle what waits, or leave it, *)
(* and touch neither the continuations nor the robot.                        *)
LEMMA AnsweringSteps ==
  ASSUME Inductive, Console \/ DeadlinePasses \/ MoneyArrives
  PROVE  Inductive'
<1>1. UNCHANGED <<cont, robot, used, told, venue, withdrawn>>
  BY DEF Console, OpenPanel, Answer, Transfer, ReadBalance, ConfirmDeposit, DepositSeen, Credit, Reject,
         File, DeadlinePasses, MoneyArrives, consoleRest, envVars, historyVars
<1>2. WellFiled(book) /\ console \in Consoles /\ AnswersOne /\ money \in 0..MaxMoney
  BY DEF Inductive, AskInv, TypeOK, Consoles
<1>3. WellFiled(book') /\ Known(book') = Known(book)
  <2>1. ASSUME book' = book \/ book' = Expired(book)
               \/ \E b \in {book, Expired(book)}, state \in Outcomes : book' = Settle(b, state)
        PROVE  WellFiled(book') /\ Known(book') = Known(book)
    BY <1>2, <2>1, SettleFacts, ExpiredFacts
  <2>2. CASE OpenPanel \/ Answer \/ Transfer \/ ReadBalance \/ ConfirmDeposit \/ DepositSeen \/ Reject
    BY <2>1, <2>2 DEF OpenPanel, Answer, Transfer, ReadBalance, ConfirmDeposit, DepositSeen, Reject
  <2>3. CASE Credit
    BY <2>1, <2>3 DEF Credit, Verdict
  <2>4. CASE File
    BY <1>2, <2>1, <2>4 DEF File, Consoles
  <2>5. CASE DeadlinePasses
    BY <1>2, <2>5 DEF DeadlinePasses, WellFiled, Books, Known
  <2>6. CASE MoneyArrives
    <3>1. money' \in 0..MaxMoney
      BY <1>2, <2>6 DEF MoneyArrives
    <3>2. book' = book \/ book' = [book EXCEPT !.peak = money']
      BY <2>6 DEF MoneyArrives
    <3> QED
      BY <1>2, <3>1, <3>2 DEF WellFiled, Books, Known
  <2> QED
    BY <2>2, <2>3, <2>4, <2>5, <2>6 DEF Console
<1>4. console' \in Consoles /\ AnswersOne'
  <2>1. CASE console' = console \/ console' = Unattended
    BY <1>2, <2>1 DEF Consoles, Unattended, AnswersOne, Answering
  <2>2. CASE Answer
    <3>1. book'.pending \in 0..MaxAsks /\ book'.amount \in {0} \cup Amounts /\ book'.had \in 0..MaxMoney
      BY <1>3 DEF WellFiled, Books
    <3> QED
      BY <1>2, <2>1, <2>2, <3>1 DEF Answer, Consoles, AnswersOne, Answering
  <2>3. CASE Transfer \/ ReadBalance
    BY <1>2, <2>1, <2>3 DEF Transfer, ReadBalance, Verdict, Consoles, AnswersOne, Answering
  <2>4. CASE ConfirmDeposit \/ DepositSeen
    BY <1>2, <2>1, <2>4 DEF ConfirmDeposit, DepositSeen, Consoles, AnswersOne, Answering, WellFiled, Books
  <2>5. CASE Reject
    BY <1>2, <2>5 DEF Reject, Consoles, AnswersOne, Answering, WellFiled, Books
  <2>6. CASE OpenPanel \/ Credit \/ File \/ DeadlinePasses \/ MoneyArrives
    BY <2>1, <2>6 DEF OpenPanel, Credit, File, DeadlinePasses, MoneyArrives
  <2> QED
    BY <2>2, <2>3, <2>4, <2>5, <2>6 DEF Console
<1>5. money' \in 0..MaxMoney
  BY <1>2 DEF Console, OpenPanel, Answer, Transfer, ReadBalance, ConfirmDeposit, DepositSeen, Credit, Reject,
              File, DeadlinePasses, MoneyArrives, consoleRest, envVars
<1>6. unfiled' \subseteq moved' /\ moved' \subseteq Asks
  <2>1. unfiled \subseteq moved /\ moved \subseteq Asks
    BY DEF Inductive, TypeOK
  <2>2. CASE Transfer
    <3>1. console.at \in Asks
      BY <1>2, <2>2 DEF Transfer, AnswersOne, Answering, Consoles
    <3>2. unfiled' = unfiled /\ (moved' = moved \/ moved' = moved \cup {console.at})
      BY <2>2 DEF Transfer
    <3> QED
      BY <2>1, <3>1, <3>2
  <2>3. CASE ~Transfer
    <3>1. moved' = moved /\ unfiled' = unfiled
      BY <2>3 DEF Console, OpenPanel, Answer, ReadBalance, ConfirmDeposit, DepositSeen, Credit, Reject,
                  File, DeadlinePasses, MoneyArrives, historyVars
    <3> QED
      BY <2>1, <3>1
  <2> QED
    BY <2>2, <2>3
<1>7. TypeOK'
  BY <1>1, <1>3, <1>4, <1>5, <1>6 DEF Inductive, TypeOK, WellFiled, Books, Consoles
<1> QED
  BY <1>1, <1>3, <1>4, <1>7, Kept DEF Inductive, AskInv, ContInv

(* A process that dies leaves the book and the continuations as they are. *)
LEMMA CrashStep ==
  ASSUME Inductive, Crash
  PROVE  Inductive'
<1>1. /\ UNCHANGED <<venue, money, book, cont, told, moved, withdrawn>> /\ robot' = Idle /\ used' = 0
      /\ console' = Unattended /\ unfiled' \in {unfiled, unfiled \cup {console.at}}
      /\ unfiled' # unfiled => console.at \in moved
  BY DEF Crash
<1>2. robot' \in Robots
  BY <1>1, RobotValues DEF Idle, Robots
<1>3. TypeOK'
  <2>1. TypeOK
    BY DEF Inductive
  <2>2. console' \in Consoles
    BY <1>1, FundingAssumption DEF Unattended, Consoles, Outcomes
  <2>3. used' \in 0..Budget
    BY <1>1, FundingAssumption
  <2>4. unfiled' \subseteq moved' /\ moved' \subseteq Asks
    BY <1>1, <2>1 DEF TypeOK
  <2> QED
    BY <1>1, <1>2, <2>1, <2>2, <2>3, <2>4 DEF TypeOK, Robots, Consoles
<1> QED
  BY <1>1, <1>3, Kept DEF Idle, Unattended, Inductive, AskInv, AnswersOne, Answering

LEMMA NextInductive == Inductive /\ [Next]_vars => Inductive'
<1> SUFFICES ASSUME Inductive, [Next]_vars PROVE Inductive'
  OBVIOUS
<1>1. CASE Robot
  <2>1. CASE StartCycle \/ DropReminder \/ Resumed \/ TakeOutcome \/ EndCycle \/ KeepOld \/ Conclude
    BY <2>1, ReadingSteps
  <2>2. CASE \E r \in Asks : StillWaiting(r)
    BY <2>2, ReadingSteps
  <2>3. CASE Remind
    BY <2>3, ClaimSteps
  <2>4. CASE \E r \in Asks : Claim(r)
    BY <2>4, ClaimSteps
  <2>5. CASE DropBoth \/ \E amount \in Amounts : EnsureFunds(amount) \/ Replace(amount)
    BY <2>5, AskingSteps
  <2> QED
    BY <1>1, <2>1, <2>2, <2>3, <2>4, <2>5, RecordStep, RememberStep DEF Robot
<1>2. CASE UNCHANGED vars
  <2>1. TypeOK'
    <3>1. TypeOK /\ UNCHANGED <<venue, money, book, cont, robot, used, console, told, moved, unfiled, withdrawn>>
      BY <1>2 DEF vars, Inductive
    <3>2. book' \in Books /\ robot' \in Robots /\ console' \in Consoles
      BY <3>1 DEF TypeOK, Books, Robots, Consoles
    <3> QED
      BY <3>1, <3>2 DEF TypeOK, Books, Robots, Consoles
  <2> QED
    BY <1>2, <2>1, Kept DEF vars, Inductive, AskInv, ContInv
<1> QED
  BY <1>1, <1>2, AnsweringSteps, CrashStep DEF Next

LEMMA Inductively == Spec => []Inductive
<1>1. Inductive /\ [Next]_vars => Inductive'
  BY NextInductive
<1> QED
  BY <1>1, InitInductive, PTL DEF Spec

(* Whatever happens at once, and however often the process dies, the state  *)
(* keeps its type.                                                          *)
THEOREM TypeCorrect == Spec => []TypeOK
<1>1. Inductive => TypeOK
  BY DEF Inductive
<1> QED
  BY <1>1, Inductively, PTL

(* No request is put before the model twice as an answered one              *)
(* (engine._resume_funded_decisions closes the continuation before it       *)
(* decides), for any number of requests, cycles and crashes.                *)
THEOREM RemindedOnce == Spec => []OneReminderPerAsk
<1>1. Inductive => OneReminderPerAsk
  BY DEF Inductive
<1> QED
  BY <1>1, Inductively, PTL

(* A continuation that is open always belongs to a request the book holds,  *)
(* so its answer can be read, whatever superseded or expired the request.   *)
THEOREM AnswersCanBeFound == Spec => []NothingIsForgotten
<1>1. Inductive => NothingIsForgotten
  BY DEF Inductive, TypeOK, ContInv, NothingIsForgotten, Known
<1> QED
  BY <1>1, Inductively, PTL

----------------------------------------------------------------------------
(* What an answer says, whatever overlaps. *)

Matched ==
  LET r == book.pending IN r # 0 /\ console.at = r =>
    /\ book'.settled[r] = "satisfied" => IF venue = "binance" THEN r \in moved ELSE book.peak >= book.amount
    /\ book'.settled[r] = "partial" => book.peak > book.had

(* A request that waits has had no money moved for it, except while its own *)
(* approval is about to be filed.                                           *)
LEMMA UnmovedWaits ==
  ASSUME Inductive, MovedInv, ~(console.pc = "file" /\ console.at = book.pending)
  PROVE  book.pending \notin Unless
<1>1. CASE book.pending = 0
  BY <1>1 DEF Inductive, TypeOK, Unless
<1>2. CASE book.pending # 0
  BY <1>2 DEF Inductive, AskInv, WellFiled, MovedInv
<1> QED
  BY <1>1, <1>2

(* Steps of the robot that leave the book alone. *)
LEMMA CalmBeside ==
  ASSUME Inductive, Calm, UNCHANGED <<venue, book, console, moved, unfiled, withdrawn>>,
         money' \in 0..MaxMoney, money' <= money
  PROVE  Calm' /\ Matched
<1>1. AnswerInv' /\ MovedInv'
  BY DEF Calm, AnswerInv, MovedInv, Unless, Known
<1>2. money \in Int /\ book.peak \in Int
  BY DEF Inductive, TypeOK
<1>3. PeakInv'
  BY <1>2 DEF Calm, PeakInv
<1>4. Matched
  BY DEF Matched, Inductive, AskInv, WellFiled, TypeOK
<1> QED
  BY <1>1, <1>3, <1>4 DEF Calm

(* Steps that settle what waits as refused or overdue, and perhaps file a   *)
(* request after that, under whatever answer is in flight.                  *)
LEMMA CalmSettling ==
  ASSUME Inductive, Calm, WellFiled(book'), Known(book) \subseteq Known(book'),
         UNCHANGED <<venue, money, console, moved, unfiled>>, withdrawn \subseteq withdrawn',
         \A r \in Asks : \/ book'.settled[r] = book.settled[r]
                         \/ r = book.pending /\ book'.settled[r] = "failed"
                         \/ /\ r = book.pending /\ book'.settled[r] = "refused"
                            /\ console.at = r /\ console.pc \in Answering => r \in withdrawn',
         book'.pending # 0 => book' = book \/ (book'.peak = money /\ book'.pending \notin Known(book))
  PROVE  Calm' /\ Matched
<1>1. /\ WellFiled(book) /\ book.pending \in 0..MaxAsks /\ moved \subseteq Asks
      /\ console.at \in {0} \cup Known(book)
  BY DEF Inductive, AskInv, TypeOK, Calm, AnswerInv
<1>2. AnswerInv'
  <2>1. ASSUME console.pc \in Answering
        PROVE  console.at = book'.pending \/ console.at \in withdrawn' \/ book'.settled[console.at] = "failed"
    <3>1. console.at \in Asks /\ console.at \in Known(book')
      BY <1>1, <2>1 DEF Inductive, AnswersOne, Known
    <3>2. CASE console.at = book.pending
      <4>1. book.settled[console.at] = "none"
        BY <1>1, <3>1, <3>2 DEF WellFiled
      <4> QED
        BY <2>1, <3>1, <3>2, <4>1 DEF Known
    <3>3. CASE console.at # book.pending
      BY <2>1, <3>1, <3>3 DEF Calm, AnswerInv
    <3> QED
      BY <3>2, <3>3
  <2>2. console.at \in {0} \cup Known(book')
    BY <1>1
  <2>3. /\ console.pc = "transfer" => venue = "binance"
        /\ console.pc \in {"balance", "deposit", "credit"} => venue = "polymarket"
    BY DEF Calm, AnswerInv
  <2> QED
    BY <2>1, <2>2, <2>3 DEF AnswerInv
<1>3. PeakInv'
  <2>1. CASE book'.pending = 0
    BY <2>1 DEF PeakInv
  <2>2. CASE book' = book
    BY <2>2 DEF Calm, PeakInv
  <2>3. CASE book'.pending # 0 /\ book'.peak = money /\ book'.pending \notin Known(book)
    <3>1. console.at # book'.pending
      BY <1>1, <2>3
    <3>2. money \in Int
      BY DEF Inductive, TypeOK
    <3> QED
      BY <2>3, <3>1, <3>2 DEF PeakInv
  <2> QED
    BY <2>1, <2>2, <2>3
<1>4. MovedInv'
  <2>1. ASSUME NEW r \in moved \ (unfiled \cup withdrawn')
        PROVE  \/ book'.settled[r] \notin {"refused", "none"}
               \/ console.pc = "file" /\ console.at = r /\ console.outcome # "refused"
    <3>1. r \in Asks /\ r \in Unless
      BY <1>1, <2>1 DEF Unless
    <3>2. CASE r = book.pending
      <4>1. book.settled[r] = "none"
        BY <1>1, <3>1, <3>2 DEF WellFiled
      <4> QED
        BY <3>1, <4>1 DEF Calm, MovedInv
    <3>3. CASE r # book.pending
      BY <3>1, <3>3 DEF Calm, MovedInv
    <3> QED
      BY <3>2, <3>3
  <2> QED
    BY <2>1 DEF MovedInv, Unless
<1>5. Matched
  BY <1>1 DEF Matched, WellFiled
<1> QED
  BY <1>2, <1>3, <1>4, <1>5 DEF Calm

(* What Withdraw records, of the request that waits. *)
LEMMA WithdrawFacts ==
  ASSUME Withdraw, Inductive
  PROVE  /\ withdrawn \subseteq withdrawn'
         /\ book.pending \in Asks /\ console.at = book.pending /\ console.pc \in Answering =>
              book.pending \in withdrawn'
  BY DEF Withdraw, Answering

LEMMA CalmRobot ==
  ASSUME Inductive, Inductive', Calm, Robot
  PROVE  Calm' /\ Matched
<1>1. UNCHANGED <<venue, console, moved, unfiled>>
  BY DEF Robot, StartCycle, Remind, DropReminder, Resumed, TakeOutcome, EndCycle, KeepOld, DropBoth, Record,
         Remember, Conclude, StillWaiting, Claim, EnsureFunds, Replace, envVars, historyVars
<1>2. WellFiled(book) /\ WellFiled(book') /\ money \in 0..MaxMoney /\ money' \in 0..MaxMoney
  BY DEF Inductive, AskInv, TypeOK
<1>3. CASE \/ StartCycle \/ Remind \/ DropReminder \/ Resumed \/ TakeOutcome \/ EndCycle \/ KeepOld
           \/ Remember \/ Conclude \/ \E r \in Asks : StillWaiting(r) \/ Claim(r)
  <2>1. book' = book /\ withdrawn' = withdrawn
    BY <1>3 DEF StartCycle, Remind, DropReminder, Resumed, TakeOutcome, EndCycle, KeepOld, StillWaiting, Claim,
                Remember, Conclude, historyVars
  <2>2. money' <= money
    <3>1. money' \in {money, 0}
      BY <1>3 DEF StartCycle, Remind, DropReminder, Resumed, TakeOutcome, EndCycle, KeepOld, StillWaiting, Claim,
                  Remember, Conclude, envVars
    <3> QED
      BY <1>2, <3>1
  <2> QED
    BY <1>1, <1>2, <2>1, <2>2, CalmBeside
<1>4. CASE \E amount \in Amounts : EnsureFunds(amount)
  <2>1. book' = Expired(book) /\ money' = money /\ withdrawn' = withdrawn
    BY <1>4 DEF EnsureFunds, envVars, historyVars
  <2>2. /\ WellFiled(Expired(book)) /\ Known(Expired(book)) = Known(book)
        /\ Expired(book) # book => Expired(book).pending = 0
        /\ \A r \in Asks : \/ Expired(book).settled[r] = book.settled[r]
                           \/ r = book.pending /\ Expired(book).settled[r] = "failed"
    BY <1>2, ExpiredFacts
  <2> QED
    BY <1>1, <1>2, <2>1, <2>2, CalmSettling
<1>5. CASE DropBoth \/ \E amount \in Amounts : Replace(amount)
  <2>1. Withdraw /\ book' = Settle(book, "refused") /\ money' = money
    BY <1>5 DEF DropBoth, Replace, envVars
  <2>2. /\ Settle(book, "refused").pending = 0 /\ Known(Settle(book, "refused")) = Known(book)
        /\ \A r \in Asks : Settle(book, "refused").settled[r] = IF r = book.pending THEN "refused" ELSE book.settled[r]
    BY <1>2, SettleFacts
  <2> QED
    BY <1>1, <1>2, <2>1, <2>2, WithdrawFacts, CalmSettling
<1>6. CASE Record
  <2> DEFINE old == Settle(book, "refused")
  <2>1. Withdraw /\ money' = money /\ book' = Filing(old) /\ Fresh \in Asks
    BY <1>6 DEF Record, envVars, Inductive, AskInv
  <2>2. /\ WellFiled(old) /\ Known(old) = Known(book)
        /\ \A r \in Asks : old.settled[r] = IF r = book.pending THEN "refused" ELSE book.settled[r]
        /\ old.pending = 0
    BY <1>2, SettleFacts
  <2> HIDE DEF old
  <2>3. book'.settled = old.settled /\ book'.peak = money /\ book'.pending = Fresh
    BY <2>1, <2>2 DEF Filing, WellFiled, Books
  <2>4. Fresh \notin Known(book)
    <3>1. PICK n \in 0..MaxAsks : Known(book) = 1..n /\ Fresh = n + 1
      BY FreshIsNext DEF Inductive, AskInv
    <3> QED
      BY <3>1
  <2>5. Known(book) \subseteq Known(book')
    <3>1. \A r \in Known(old) : r \in Asks /\ old.settled[r] # "none"
      BY <2>2 DEF Known
    <3> QED
      BY <2>2, <2>3, <3>1 DEF Known
  <2> QED
    BY <1>1, <1>2, <2>1, <2>2, <2>3, <2>4, <2>5, WithdrawFacts, CalmSettling
<1> QED
  BY <1>3, <1>4, <1>5, <1>6 DEF Robot

(* The console starts on what waits. *)
LEMMA CalmStarts ==
  ASSUME Inductive, Inductive', Calm, OpenPanel \/ Answer \/ ConfirmDeposit \/ Reject
  PROVE  Calm' /\ Matched
<1>1. console.pc = "idle" /\ UNCHANGED <<venue, money, moved, unfiled, withdrawn>>
  BY DEF OpenPanel, Answer, ConfirmDeposit, Reject, Attended, consoleRest, envVars
<1>2. WellFiled(book) /\ WellFiled(book') /\ console \in Consoles /\ venue \in {"binance", "polymarket"}
  BY DEF Inductive, AskInv, TypeOK, Consoles
<1>3. /\ WellFiled(Expired(book)) /\ Known(Expired(book)) = Known(book)
      /\ Expired(book) # book => Expired(book).pending = 0
      /\ \A r \in Asks : \/ Expired(book).settled[r] = book.settled[r]
                         \/ r = book.pending /\ Expired(book).settled[r] = "failed"
  BY <1>2, ExpiredFacts
<1>4. book' = book \/ book' = Expired(book)
  BY DEF OpenPanel, Answer, ConfirmDeposit, Reject
<1>5. CASE console' = console
  BY <1>1, <1>2, <1>3, <1>4, <1>5, CalmSettling
<1>6. CASE console' # console
  <2>1. book' = book
    BY <1>1, <1>3, <1>4, <1>6 DEF OpenPanel, Answer, ConfirmDeposit, Reject
  <2>2. console.at \in {0} \cup Known(book)
    BY DEF Calm, AnswerInv
  <2>3. MovedInv'
    BY <1>1, <2>1 DEF Calm, MovedInv, Unless
  <2>4. Matched
    BY <1>2, <2>1 DEF Matched, WellFiled, Books
  <2>5. CASE Answer
    <3>1. book.pending \in Asks /\ console' = [console EXCEPT !.pc = IF venue = "binance" THEN "transfer" ELSE "balance",
                                             !.at = book.pending, !.amount = book.amount, !.had = book.had]
      <4>1. book.pending \in Asks
        BY <1>2, <2>5 DEF Answer, WellFiled, Books
      <4>2. console' = [console EXCEPT !.pc = IF venue = "binance" THEN "transfer" ELSE "balance",
                                       !.at = book.pending, !.amount = book.amount, !.had = book.had]
        BY <1>6, <2>1, <2>5 DEF Answer
      <4> QED
        BY <4>1, <4>2
    <3>2. console'.pc = (IF venue = "binance" THEN "transfer" ELSE "balance") /\ console'.at = book.pending
          /\ console'.amount = book.amount /\ console'.had = book.had
      BY <1>2, <3>1 DEF Consoles
    <3>3. AnswerInv'
      BY <1>1, <1>2, <2>1, <3>1, <3>2 DEF AnswerInv, Answering, Known
    <3>4. PeakInv'
      BY <1>1, <1>2, <2>1, <3>2 DEF Calm, PeakInv
    <3> QED
      BY <2>3, <2>4, <3>3, <3>4 DEF Calm
  <2>6. CASE ConfirmDeposit
    <3>1. console'.pc = "deposit" /\ venue = "polymarket" /\ console'.at = console.at
      BY <1>2, <2>6 DEF ConfirmDeposit, Consoles
    <3>2. AnswerInv'
      BY <1>1, <2>1, <2>2, <3>1 DEF AnswerInv, Answering, Known
    <3>3. PeakInv'
      BY <1>1, <2>1, <3>1 DEF Calm, PeakInv
    <3> QED
      BY <2>3, <2>4, <3>2, <3>3 DEF Calm
  <2>7. CASE Reject
    <3>1. console'.pc = "file" /\ console'.at = book.pending /\ book.pending \in Asks /\ console'.outcome = "refused"
      BY <1>2, <2>7 DEF Reject, Consoles, WellFiled, Books
    <3>2. AnswerInv'
      BY <1>1, <2>1, <3>1 DEF AnswerInv, Answering, Known
    <3>3. PeakInv'
      BY <1>1, <2>1, <3>1 DEF Calm, PeakInv
    <3> QED
      BY <2>3, <2>4, <3>2, <3>3 DEF Calm
  <2>8. CASE OpenPanel
    BY <1>6, <2>8 DEF OpenPanel
  <2> QED
    BY <2>5, <2>6, <2>7, <2>8
<1> QED
  BY <1>5, <1>6

(* The venue is asked: the book stands still in these steps. *)
LEMMA CalmVenue ==
  ASSUME Inductive, Inductive', Calm, Transfer \/ ReadBalance \/ DepositSeen
  PROVE  Calm' /\ Matched
<1>1. UNCHANGED <<venue, money, book, unfiled, withdrawn>> /\ console.pc \in {"transfer", "balance", "deposit"}
  BY DEF Transfer, ReadBalance, DepositSeen, consoleRest, envVars
<1>2. WellFiled(book) /\ console \in Consoles /\ venue \in {"binance", "polymarket"} /\ money \in 0..MaxMoney
  BY DEF Inductive, AskInv, TypeOK, Consoles
<1>3. Matched
  BY <1>1, <1>2 DEF Matched, WellFiled, Books
<1>4. /\ console.at \in {0} \cup Known(book)
      /\ console.pc \in Answering =>
           console.at = book.pending \/ console.at \in withdrawn \/ book.settled[console.at] = "failed"
      /\ book.pending # 0 => money <= book.peak
  BY DEF Calm, AnswerInv, PeakInv
<1>5. CASE console' = Unattended /\ moved' = moved
  <2>1. console'.pc = "idle" /\ console'.at = 0
    BY <1>5 DEF Unattended
  <2>2. AnswerInv' /\ PeakInv'
    BY <1>1, <1>4, <2>1 DEF AnswerInv, PeakInv, Answering
  <2>3. MovedInv'
    BY <1>1, <1>5, <2>1 DEF Calm, MovedInv, Unless
  <2> QED
    BY <1>3, <2>2, <2>3 DEF Calm
<1>6. CASE Transfer
  <2>1. console.pc = "transfer" /\ venue = "binance"
    BY <1>6 DEF Transfer, Calm, AnswerInv
  <2>2. \/ /\ console' = [console EXCEPT !.pc = "file", !.outcome = "satisfied"]
           /\ moved' = moved \cup {console.at}
        \/ /\ console' = [console EXCEPT !.pc = "file", !.outcome = "failed"]
           /\ moved' = moved \/ moved' = moved \cup {console.at}
    BY <1>6 DEF Transfer
  <2>3. /\ console'.pc = "file" /\ console'.at = console.at /\ console'.outcome \in {"satisfied", "failed"}
        /\ console'.outcome = "satisfied" => console.at \in moved'
        /\ moved' \subseteq moved \cup {console.at}
    BY <1>2, <2>2 DEF Consoles
  <2>4. AnswerInv'
    BY <1>1, <1>4, <2>1, <2>3 DEF AnswerInv, Answering, Known
  <2>5. PeakInv'
    BY <1>1, <1>4, <2>1, <2>3 DEF PeakInv
  <2>6. MovedInv'
    BY <1>1, <2>1, <2>3 DEF Calm, MovedInv, Unless
  <2> QED
    BY <1>3, <2>4, <2>5, <2>6 DEF Calm
<1>7. CASE ReadBalance /\ console' # Unattended
  <2>1. console.pc = "balance" /\ venue = "polymarket" /\ moved' = moved
    BY <1>7 DEF ReadBalance, Calm, AnswerInv
  <2>2. \/ console' = [console EXCEPT !.pc = "file", !.outcome = "satisfied"] /\ money >= console.amount
        \/ console' = [console EXCEPT !.pc = "file", !.outcome = "partial"] /\ money > console.had
    BY <1>7 DEF ReadBalance, Verdict
  <2>3. console'.pc = "file" /\ console'.at = console.at
    BY <1>2, <2>2 DEF Consoles
  <2>4. AnswerInv'
    BY <1>1, <1>4, <2>1, <2>3 DEF AnswerInv, Answering, Known
  <2>5. ASSUME book.pending # 0, console.at = book.pending
        PROVE  \/ console'.outcome = "satisfied" /\ book.peak >= book.amount
               \/ console'.outcome = "partial" /\ book.peak > book.had
    <3>1. console.amount = book.amount /\ console.had = book.had /\ money <= book.peak
      BY <2>1, <2>5 DEF Calm, PeakInv
    <3>2. money \in Int /\ book.peak \in Int /\ book.had \in Int
      BY <1>2 DEF WellFiled, Books
    <3>3. book.amount \in Int
      <4>1. book.amount \in {0} \cup Amounts
        BY <1>2 DEF WellFiled, Books
      <4> QED
        BY <4>1, AmountsAreNumbers
    <3>4. CASE console' = [console EXCEPT !.pc = "file", !.outcome = "satisfied"] /\ money >= console.amount
      <4>1. console'.outcome = "satisfied"
        BY <1>2, <3>4 DEF Consoles
      <4> QED
        BY <3>1, <3>2, <3>3, <3>4, <4>1
    <3>5. CASE console' = [console EXCEPT !.pc = "file", !.outcome = "partial"] /\ money > console.had
      <4>1. console'.outcome = "partial"
        BY <1>2, <3>5 DEF Consoles
      <4> QED
        BY <3>1, <3>2, <3>5, <4>1
    <3> QED
      BY <2>2, <3>4, <3>5
  <2>6. PeakInv'
    BY <1>1, <1>4, <2>1, <2>3, <2>5 DEF PeakInv
  <2>7. MovedInv'
    BY <1>1, <2>1 DEF Calm, MovedInv, Unless
  <2> QED
    BY <1>3, <2>4, <2>6, <2>7 DEF Calm
<1>8. CASE DepositSeen /\ console' # Unattended
  <2>1. console.pc = "deposit" /\ venue = "polymarket" /\ moved' = moved
    BY <1>8 DEF DepositSeen, Calm, AnswerInv
  <2>2. console' = [console EXCEPT !.pc = "credit", !.at = book.pending, !.seen = money]
    BY <1>8 DEF DepositSeen
  <2>3. console'.pc = "credit" /\ console'.seen = money /\ console'.at = book.pending
    BY <1>2, <2>2 DEF Consoles
  <2>4. AnswerInv'
    BY <1>1, <1>2, <2>1, <2>3 DEF AnswerInv, Answering, Known, WellFiled, Books
  <2>5. PeakInv'
    BY <1>1, <1>4, <2>1, <2>3 DEF PeakInv
  <2>6. MovedInv'
    BY <1>1, <2>1 DEF Calm, MovedInv, Unless
  <2> QED
    BY <1>3, <2>4, <2>5, <2>6 DEF Calm
<1> QED
  <2>1. ReadBalance \/ DepositSeen => moved' = moved
    BY DEF ReadBalance, DepositSeen
  <2> QED
    BY <1>5, <1>6, <1>7, <1>8, <2>1

(* The answer is filed on whatever waits by then; what is moved and not     *)
(* withdrawn is the request it was read for.                                *)
LEMMA CalmAnswers ==
  ASSUME Inductive, Inductive', Calm, Credit \/ File
  PROVE  Calm' /\ Matched
<1>1. /\ UNCHANGED <<venue, money, moved, unfiled, withdrawn>> /\ console'.pc = "idle" /\ console'.at = 0
      /\ console.pc \in {"credit", "file"}
  BY DEF Credit, File, Unattended, consoleRest, envVars
<1>2. WellFiled(book) /\ console \in Consoles /\ moved \subseteq Asks
  BY DEF Inductive, AskInv, TypeOK, Consoles
<1>3. AnswerInv'
  BY <1>1 DEF AnswerInv, Answering
<1>4. CASE File
  <2>1. console.pc = "file" /\ book' = Settle(book, console.outcome) /\ console.outcome \in Outcomes
    BY <1>2, <1>4 DEF File, Consoles
  <2>2. /\ book'.pending = 0
        /\ \A r \in Asks : book'.settled[r] = IF r = book.pending THEN console.outcome ELSE book.settled[r]
    BY <1>2, <2>1, SettleFacts
  <2>3. PeakInv'
    BY <2>2 DEF PeakInv
  <2>4. MovedInv'
    <3>1. ASSUME NEW r \in Unless PROVE book'.settled[r] \notin {"refused", "none"}
      <4>1. r \in Asks
        BY <1>2 DEF Unless
      <4>2. CASE r = book.pending
        <5>1. book.settled[r] = "none"
          BY <1>2, <4>1, <4>2 DEF WellFiled
        <5>2. console.outcome # "refused"
          BY <3>1, <5>1 DEF Calm, MovedInv
        <5> QED
          BY <2>1, <2>2, <4>1, <4>2, <5>2
      <4>3. CASE r # book.pending
        <5>1. r \notin withdrawn
          BY DEF Unless
        <5>2. console.at = r => book.settled[r] = "failed"
          BY <2>1, <4>3, <5>1 DEF Calm, AnswerInv, Answering
        <5>3. book.settled[r] \notin {"refused", "none"}
          BY <3>1, <5>2 DEF Calm, MovedInv
        <5> QED
          BY <2>2, <4>1, <4>3, <5>3
      <4> QED
        BY <4>2, <4>3
    <3> QED
      BY <1>1, <3>1 DEF MovedInv, Unless
  <2>5. Matched
    <3>1. book.pending # 0 => book.pending \in Asks
      BY <1>2 DEF WellFiled, Books
    <3> QED
      BY <2>1, <2>2, <3>1 DEF Matched, Calm, PeakInv
  <2> QED
    BY <1>3, <2>3, <2>4, <2>5 DEF Calm
<1>5. CASE Credit
  <2> DEFINE live == Expired(book)
             verdict == Verdict(live.amount, live.had, console.seen)
  <2>1. /\ console.pc = "credit" /\ venue = "polymarket"
        /\ book' = IF verdict = "none" THEN live ELSE Settle(live, verdict)
    BY <1>5 DEF Credit, Calm, AnswerInv
  <2>2. /\ WellFiled(live) /\ (live # book => live.pending = 0)
        /\ \A r \in Asks : \/ live.settled[r] = book.settled[r]
                           \/ r = book.pending /\ live.settled[r] = "failed"
    BY <1>2, ExpiredFacts
  <2>3. verdict \in {"satisfied", "partial", "none"}
    BY DEF Verdict
  <2>4. Settle(live, verdict).pending = 0 /\
        (verdict # "none" => \A r \in Asks : Settle(live, verdict).settled[r] =
                                               IF r = live.pending THEN verdict ELSE live.settled[r])
    <3>1. CASE verdict = "none"
      BY <3>1, <2>2 DEF Settle, Blank
    <3>2. CASE verdict \in Outcomes
      BY <2>2, <3>2, SettleFacts
    <3> QED
      BY <2>3, <3>1, <3>2
  <2>5. /\ console.seen \in Int
        /\ book.pending # 0 /\ console.at = book.pending => console.seen <= book.peak
        /\ book.pending # 0 => money <= book.peak
    BY <1>2, <2>1 DEF Consoles, Calm, PeakInv
  <2>6. /\ verdict = "satisfied" => live.amount <= console.seen
        /\ verdict = "partial" => live.had < console.seen
    <3>1. live.had \in Int /\ live.amount \in {0} \cup Amounts
      BY <2>2 DEF WellFiled, Books
    <3>3. live.amount \in Int
      BY <3>1, AmountsAreNumbers
    <3> QED
      BY <2>5, <3>1, <3>3 DEF Verdict
  <2> HIDE DEF live, verdict
  <2>7. book.pending \notin Unless
    BY <2>1, UnmovedWaits DEF Calm
  <2>8. MovedInv'
    <3>1. ASSUME NEW r \in Unless PROVE book'.settled[r] \notin {"refused", "none"}
      <4>1. r \in Asks /\ r # book.pending /\ book.settled[r] \notin {"refused", "none"}
        BY <1>2, <2>1, <2>7, <3>1 DEF Calm, MovedInv, Unless
      <4>2. live.settled[r] = book.settled[r] /\ r # live.pending
        BY <2>2, <4>1
      <4> QED
        BY <2>1, <2>4, <4>1, <4>2
    <3> QED
      BY <1>1, <3>1 DEF MovedInv, Unless
  <2>9. CASE live # book
    <3>1. live.pending = 0
      BY <2>2, <2>9
    <3>2. book'.pending = 0
      BY <2>1, <2>4, <3>1
    <3>3. \A r \in Asks : book'.settled[r] = live.settled[r]
      BY <2>1, <2>4, <3>1
    <3>4. Matched
      BY <1>2, <2>2, <3>3 DEF Matched, WellFiled, Books
    <3> QED
      BY <1>3, <2>8, <3>2, <3>4 DEF Calm, PeakInv
  <2>10. CASE live = book
    <3>1. PeakInv'
      <4>1. book' = book \/ book'.pending = 0
        BY <2>1, <2>4, <2>10
      <4> QED
        BY <1>1, <2>5, <4>1 DEF PeakInv
    <3>2. ASSUME book.pending # 0, console.at = book.pending
          PROVE  /\ book'.settled[book.pending] = "satisfied" => book.peak >= book.amount
                 /\ book'.settled[book.pending] = "partial" => book.peak > book.had
      <4>1. book.pending \in Asks /\ book.settled[book.pending] = "none" /\ book.peak \in Int /\ book.had \in Int
        BY <1>2, <3>2 DEF WellFiled, Books
      <4>2. book.amount \in Int
        <5>1. book.amount \in {0} \cup Amounts
          BY <1>2 DEF WellFiled, Books
        <5> QED
          BY <5>1, AmountsAreNumbers
      <4>3. book'.settled[book.pending] = verdict
        BY <2>1, <2>4, <2>10, <4>1
      <4> QED
        BY <2>5, <2>6, <2>10, <3>2, <4>1, <4>2, <4>3
    <3>3. Matched
      BY <2>1, <3>2 DEF Matched
    <3> QED
      BY <1>3, <2>8, <3>1, <3>3 DEF Calm
  <2> QED
    BY <2>9, <2>10
<1> QED
  BY <1>4, <1>5

(* The deadline and the arrival of money change what the book says of the  *)
(* request that waits, not which one it is; a crash ends every answer.     *)
LEMMA CalmElse ==
  ASSUME Inductive, Inductive', Calm, DeadlinePasses \/ MoneyArrives \/ Crash
  PROVE  Calm' /\ Matched
<1>1. WellFiled(book) /\ console \in Consoles /\ money \in 0..MaxMoney /\ moved \subseteq Asks
  BY DEF Inductive, AskInv, TypeOK, Consoles
<1>2. ASSUME UNCHANGED <<venue, console, moved, unfiled, withdrawn>>,
             book'.pending = book.pending, book'.amount = book.amount, book'.had = book.had,
             book'.settled = book.settled, book'.peak \in Int, book.peak <= book'.peak,
             book.pending # 0 => money' <= book'.peak
      PROVE  Calm' /\ Matched
  <2>1. AnswerInv'
    BY <1>2 DEF Calm, AnswerInv, Known
  <2>2. book.peak \in Int /\ book.had \in Int /\ book.amount \in Int /\ console.seen \in Int
    <3>1. book.amount \in {0} \cup Amounts
      BY <1>1 DEF WellFiled, Books
    <3>2. book.peak \in Int /\ book.had \in Int
      BY <1>1 DEF WellFiled, Books
    <3>3. console.seen \in Int
      BY <1>1 DEF Consoles
    <3> QED
      BY <3>1, <3>2, <3>3, AmountsAreNumbers
  <2>3. PeakInv'
    BY <1>2, <2>2 DEF Calm, PeakInv
  <2>4. MovedInv'
    BY <1>2 DEF Calm, MovedInv, Unless
  <2>5. Matched
    BY <1>1, <1>2 DEF Matched, WellFiled, Books
  <2> QED
    BY <2>1, <2>3, <2>4, <2>5 DEF Calm
<1>3. CASE DeadlinePasses
  <2>1. UNCHANGED <<venue, money, console, moved, unfiled, withdrawn>> /\ book' = [book EXCEPT !.late = TRUE]
    BY <1>3 DEF DeadlinePasses, envVars, historyVars
  <2>2. book'.pending = book.pending /\ book'.amount = book.amount /\ book'.had = book.had
        /\ book'.settled = book.settled /\ book'.peak = book.peak /\ book.peak \in Int
    BY <1>1, <2>1 DEF WellFiled, Books
  <2>3. book.pending # 0 => money <= book.peak
    BY DEF Calm, PeakInv
  <2> QED
    BY <1>1, <1>2, <2>1, <2>2, <2>3
<1>4. CASE MoneyArrives
  <2>1. /\ UNCHANGED <<venue, console, moved, unfiled, withdrawn>> /\ money' = money + 1
        /\ book' = IF book.pending # 0 /\ book.peak < money' THEN [book EXCEPT !.peak = money'] ELSE book
    BY <1>4 DEF MoneyArrives, historyVars
  <2>2. money \in Int /\ money' \in Int /\ book.peak \in Int
    BY <1>1, <2>1 DEF WellFiled, Books
  <2>3. /\ book'.pending = book.pending /\ book'.amount = book.amount /\ book'.had = book.had
        /\ book'.settled = book.settled
        /\ book'.peak = IF book.pending # 0 /\ book.peak < money' THEN money' ELSE book.peak
    BY <1>1, <2>1 DEF WellFiled, Books
  <2> QED
    BY <1>2, <2>1, <2>2, <2>3
<1>5. CASE Crash
  <2>1. /\ UNCHANGED <<venue, money, book, moved, withdrawn>> /\ console'.pc = "idle" /\ console'.at = 0
        /\ unfiled' = IF console.pc = "file" /\ console.at \in moved THEN unfiled \cup {console.at} ELSE unfiled
    BY <1>5 DEF Crash, Unattended
  <2>2. AnswerInv' /\ PeakInv'
    BY <2>1 DEF Calm, AnswerInv, PeakInv, Answering
  <2>3. MovedInv'
    <3>1. ASSUME NEW r \in moved \ (unfiled' \cup withdrawn) PROVE book.settled[r] \notin {"refused", "none"}
      BY <2>1, <3>1 DEF Calm, MovedInv, Unless
    <3> QED
      BY <2>1, <3>1 DEF MovedInv, Unless
  <2>4. Matched
    BY <1>1, <2>1 DEF Matched, WellFiled, Books
  <2> QED
    BY <2>2, <2>3, <2>4 DEF Calm
<1> QED
  BY <1>3, <1>4, <1>5

LEMMA InitCalm == Init => Calm
  BY DEF Init, Blank, Unattended, Calm, AnswerInv, PeakInv, MovedInv, Unless, Answering

LEMMA NextCalm ==
  ASSUME Inductive, Inductive', Calm, [Next]_vars
  PROVE  Calm' /\ [Matched]_vars
<1>1. CASE Robot
  BY <1>1, CalmRobot
<1>2. CASE Console
  BY <1>2, CalmStarts, CalmVenue, CalmAnswers DEF Console
<1>3. CASE DeadlinePasses \/ MoneyArrives \/ Crash
  BY <1>3, CalmElse
<1>4. CASE UNCHANGED vars
  BY <1>4 DEF vars, Calm, AnswerInv, PeakInv, MovedInv, Unless, Known
<1> QED
  BY <1>1, <1>2, <1>3, <1>4 DEF Next

(* All three at once: an answer can be found, and is given once.            *)
THEOREM AsksKept == Spec => []AsksAreKept
  BY TypeCorrect, RemindedOnce, AnswersCanBeFound, PTL DEF AsksAreKept

(* Nothing moved for a request the book holds as refused, superseded or     *)
(* cancelled, unless the robot took it back while its approval was under    *)
(* way or the process died between the transfer and the filing: for any     *)
(* number of requests, whoever acts in the middle of whose step.            *)
THEOREM CancelledIsUnmoved == Spec => []CancelledInTimeMovesNothing
<1>1. Inductive /\ Calm => CancelledInTimeMovesNothing
  <2> SUFFICES ASSUME Inductive, Calm, NEW r \in Asks, book.settled[r] = "refused",
                      r \notin unfiled \cup withdrawn, r \in moved
               PROVE  FALSE
    BY DEF CancelledInTimeMovesNothing
  <2>1. console.pc = "file" /\ console.at = r
    BY DEF Calm, MovedInv, Unless
  <2>2. book.pending = r
    BY <2>1 DEF Calm, AnswerInv, Answering
  <2> QED
    BY <2>2 DEF Inductive, AskInv, WellFiled
<1>2. Inductive /\ Inductive' /\ Calm /\ [Next]_vars => Calm'
  BY NextCalm
<1> QED
  BY <1>1, <1>2, Inductively, InitCalm, PTL DEF Spec

(* "satisfied" and "partial" are true of the request they were read for     *)
(* when they are filed on it: Binance has moved its amount, or Polymarket's *)
(* balance reached it, or grew, since it was filed, a balance that could    *)
(* not be read when it was filed aside.  The robot may ask, consult,        *)
(* supersede and spend while the operator's answer is under way.            *)
THEOREM AnswersAreTrue == Spec => AnswersMatchTheirAsk
<1>1. Inductive /\ Inductive' /\ Calm /\ [Next]_vars => Calm' /\ [Matched]_vars
  BY NextCalm
<1>2. Inductive /\ [Matched]_vars =>
        [LET r == book.pending IN r # 0 /\ console.at = r =>
           /\ book'.settled[r] = "satisfied" => IF venue = "binance" THEN r \in moved ELSE book.peak >= book.amount
           /\ book'.settled[r] = "partial" => book.peak > book.held \/ book.had < book.held]_vars
  <2>1. Inductive => book.peak \in Int /\ book.had \in Int /\ book.held \in Int
    BY DEF Inductive, TypeOK
  <2> QED
    BY <2>1 DEF Matched
<1>3. Spec => [][Matched]_vars
  BY <1>1, Inductively, InitCalm, PTL DEF Spec
<1> QED
  BY <1>2, <1>3, Inductively, PTL DEF AnswersMatchTheirAsk
=============================================================================
