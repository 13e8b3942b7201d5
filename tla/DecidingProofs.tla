---------------------------- MODULE DecidingProofs ----------------------------
(***************************************************************************)
(* The safety properties of Deciding for any number of rounds, workers,    *)
(* clients and providers.  DecisionCycle: what the ledger, the order book  *)
(* and the cancellation set look like at each point of a round, and who is *)
(* responsible for a row that is still open.  Providers: whose turn it is  *)
(* to probe and to announce, and that the registry and the history of its  *)
(* failures stay in step.  ProviderSession: how far each round's one       *)
(* conversation has come, and which call may be read.  The last section    *)
(* brings the three together.                                              *)
(***************************************************************************)
EXTENDS Deciding, TLAPS

(* ---- DecisionCycle ---- *)

InRound == pc \notin Between
Forgetting(d) == d = forget.id /\ forget.pc # "idle"
BeforeOrder == {"ask", "check", "risk", "execute", "place", "send"}

(* Nothing is recorded of a round that has not been opened; the round in    *)
(* progress has its row, open or deleted, and until its order is out the    *)
(* venue does not know it.                                                  *)
RoundInv ==
  /\ InRound => cur \in Ids /\ row[cur] \in {"STARTED", "deleted"}
  /\ pc \in BeforeOrder => cur \notin venue
  /\ \A d \in venue \cup tossed \cup screened : d <= cur
  /\ \A d \in Ids : row[d] # "none" \/ action[d] # "none" => d <= cur
  /\ forget.pc # "idle" => forget.id \in Ids /\ row[forget.id] # "none"

(* A row with a venue action is still open only just before its round ends. *)
OpenInv ==
  \A d \in Ids : row[d] = "STARTED" /\ (action[d] = "venue" \/ d \in cancelled) =>
    \/ action[d] = "venue" /\ d = cur /\ pc = "finish"
    \/ action[d] # "venue" /\ Forgetting(d)
    \/ d \in orphans \cup screened \cup escaped

(* A running round that is being deleted has been told so, and one that was *)
(* deleted while the model answered stops at the check.                     *)
CancelInv ==
  /\ pc \in {"ask", "check"} /\ Forgetting(cur) => cur \in cancelled
  /\ \A d \in tossed : d = cur => pc \in Between \/ (pc \in {"ask", "check"} /\ d \in cancelled)

(* What the mirror or the state file lists, the venue accepted, and it has  *)
(* its execution row or is about to get it.                                 *)
BookInv ==
  /\ mirror \subseteq venue /\ file \subseteq venue
  /\ \A d \in mirror : action[d] = "venue" \/ (d = cur /\ pc = "record")

ExemptInv == pc = "send" /\ stop => exempt

IInv ==
  /\ TypeOK /\ RoundInv /\ OpenInv /\ CancelInv /\ BookInv /\ ExemptInv
  /\ EveryRoundConcludes /\ DeletedEarlyNeverTrades /\ LedgerIsHonest /\ BookIsAudited

----------------------------------------------------------------------------
USE CycleAssumption DEF Ids, Between

LEMMA InitIInv == Init => IInv
<1> SUFFICES ASSUME Init PROVE IInv
  OBVIOUS
<1>1. TypeOK
  <2>1. row \in [Ids -> {"none", "STARTED", "deleted"} \cup Statuses] /\ action \in [Ids -> {"none", "nothing", "failed", "venue"}]
    BY DEF Init
  <2>2. forget \in [pc : {"idle", "look", "delete"}, id : 0..MaxRounds]
    BY DEF Init
  <2>3. cur \in 0..MaxRounds /\ forgets \in 0..MaxForgets
    BY DEF Init
  <2>4. stop \in BOOLEAN /\ exempt \in BOOLEAN
    BY Zenon DEF Init
  <2> QED
    BY <2>1, <2>2, <2>3, <2>4 DEF Init, TypeOK
<1>2. RoundInv /\ OpenInv /\ CancelInv /\ BookInv /\ ExemptInv
  BY DEF Init, RoundInv, OpenInv, CancelInv, BookInv, ExemptInv, InRound, BeforeOrder
<1>3. EveryRoundConcludes /\ DeletedEarlyNeverTrades /\ LedgerIsHonest /\ BookIsAudited
  BY DEF Init, EveryRoundConcludes, DeletedEarlyNeverTrades, LedgerIsHonest, BookIsAudited
<1> QED
  BY <1>1, <1>2, <1>3 DEF IInv

(* Concluding a round, whatever its status: the invariant asks only that a  *)
(* round whose order is out is not booked as one that did nothing, and that *)
(* an execution row is not overwritten.                                     *)
LEMMA CompleteIInv ==
  ASSUME IInv, InRound,
         NEW status \in Statuses, NEW act \in {"none", "nothing", "failed", "venue"},
         Complete(status, act), UNCHANGED <<mirror, file>>,
         venue' = venue \/ (venue' = venue \cup {cur} /\ pc = "send"),
         cur \in venue' => status \in {"EXECUTION_ERROR", "COMPLETED"},
         act \in {"nothing", "failed"} => pc \in BeforeOrder, pc # "record"
  PROVE IInv'
<1> USE DEF Complete, operatorVars, history
<1>1. TypeOK'
  BY DEF IInv, TypeOK, RoundInv, InRound
<1>2. \A d \in Ids : d # cur => row'[d] = row[d] /\ action'[d] = action[d]
  BY DEF IInv, TypeOK
<1>3. row'[cur] \in Statuses \cup {"deleted"}
  BY DEF IInv, TypeOK, RoundInv, InRound
<1>4. RoundInv'
  <2>1. cur \in Ids /\ pc' = "next" /\ cur' = cur
    BY DEF IInv, RoundInv, InRound
  <2>2. \A d \in (venue \cup tossed \cup screened)' : d <= cur'
    BY <2>1 DEF IInv, RoundInv
  <2>3. \A d \in Ids : row'[d] # "none" \/ action'[d] # "none" => d <= cur'
    BY <2>1, <1>2 DEF IInv, RoundInv
  <2>4. forget'.pc # "idle" => forget'.id \in Ids /\ row'[forget'.id] # "none"
    BY <2>1, <1>2, <1>3 DEF IInv, RoundInv, Statuses
  <2> QED
    BY <2>1, <2>2, <2>3, <2>4 DEF RoundInv, InRound, BeforeOrder
<1>5. OpenInv'
  BY <1>2, <1>3 DEF IInv, TypeOK, OpenInv, RoundInv, InRound, Forgetting, Statuses
<1>6. CancelInv'
  BY DEF IInv, CancelInv
<1>7. BookInv'
  <2>1. cur \in mirror => action'[cur] = "venue"
    BY DEF IInv, TypeOK, BookInv, RoundInv, InRound
  <2> QED
    BY <1>2, <2>1 DEF IInv, TypeOK, BookInv
<1>8. ExemptInv'
  BY DEF ExemptInv
<1>9. EveryRoundConcludes'
  BY <1>2, <1>3 DEF IInv, TypeOK, EveryRoundConcludes, Statuses
<1>10. DeletedEarlyNeverTrades'
  BY DEF IInv, DeletedEarlyNeverTrades, CancelInv
<1>11. LedgerIsHonest'
  <2>1. row'[cur] \in {status, "deleted"}
    BY DEF IInv, TypeOK, RoundInv, InRound
  <2>2. \A d \in venue' : d # cur => d \in Ids /\ d \in venue
    BY DEF IInv, TypeOK
  <2> QED
    BY <1>2, <2>1, <2>2 DEF IInv, LedgerIsHonest
<1>12. BookIsAudited'
  <2>1. cur \in file => action'[cur] = "venue"
    BY DEF IInv, TypeOK, BookInv, RoundInv, InRound, BookIsAudited
  <2> QED
    BY <1>2, <2>1 DEF IInv, TypeOK, BookIsAudited
<1> QED
  BY <1>1, <1>4, <1>5, <1>6, <1>7, <1>8, <1>9, <1>10, <1>11, <1>12 DEF IInv

(* A step of the round that only moves on.  *)
LEMMA AdvanceIInv ==
  ASSUME IInv, InRound,
         pc' \in {"check", "risk", "execute", "place", "send"},
         UNCHANGED <<cur, row, action, cancelled, operatorVars, history, bookVars>>,
         pc \in BeforeOrder, pc' = "check" => pc = "ask",
         pc' \notin {"ask", "check"} => cur \notin tossed,
         pc' = "send" => ~stop
  PROVE IInv'
<1> USE DEF operatorVars, history, bookVars
<1>1. TypeOK' /\ RoundInv' /\ BookInv' /\ ExemptInv'
  BY DEF IInv, TypeOK, RoundInv, BookInv, ExemptInv, InRound, BeforeOrder
<1>2. OpenInv' /\ CancelInv'
  BY DEF IInv, TypeOK, OpenInv, CancelInv, Forgetting, BeforeOrder
<1>3. EveryRoundConcludes' /\ DeletedEarlyNeverTrades' /\ LedgerIsHonest' /\ BookIsAudited'
  BY DEF IInv, EveryRoundConcludes, DeletedEarlyNeverTrades, LedgerIsHonest, BookIsAudited
<1> QED
  BY <1>1, <1>2, <1>3 DEF IInv

(* An error nobody catches leaves everything as it was, but for the venue.  *)
LEMMA EscapeIInv ==
  ASSUME IInv, pc \in {"execute", "send"}, Escape, UNCHANGED <<mirror, file>>,
         venue' = venue \/ (venue' = venue \cup {cur} /\ pc = "send")
  PROVE IInv'
<1> USE DEF Escape, operatorVars
<1>1. cur \in Ids /\ row[cur] \in {"STARTED", "deleted"} /\ cur \notin tossed
  BY DEF IInv, RoundInv, CancelInv, InRound
<1>2. TypeOK' /\ RoundInv' /\ CancelInv' /\ BookInv' /\ ExemptInv'
  BY <1>1 DEF IInv, TypeOK, RoundInv, CancelInv, BookInv, ExemptInv, InRound, BeforeOrder
<1>3. OpenInv' /\ EveryRoundConcludes'
  BY <1>1 DEF IInv, TypeOK, OpenInv, EveryRoundConcludes, Forgetting
<1>4. DeletedEarlyNeverTrades' /\ LedgerIsHonest' /\ BookIsAudited'
  BY <1>1 DEF IInv, DeletedEarlyNeverTrades, LedgerIsHonest, BookIsAudited
<1> QED
  BY <1>2, <1>3, <1>4 DEF IInv

LEMMA NextIInv == IInv /\ [Next]_vars => IInv'
<1> SUFFICES ASSUME IInv, [Next]_vars PROVE IInv'
  OBVIOUS
<1> DEFINE Same == UNCHANGED <<cur, row, action, cancelled, operatorVars, history>>
<1>ask. CASE Ask
  <2>1. pc = "ask" /\ UNCHANGED bookVars
    BY <1>ask DEF Ask
  <2>2. CASE cur \in cancelled /\ pc' = "next" /\ Same
    <3> USE DEF operatorVars, history, bookVars
    <3>1. TypeOK' /\ RoundInv' /\ CancelInv' /\ BookInv' /\ ExemptInv'
      BY <2>1, <2>2 DEF IInv, TypeOK, RoundInv, CancelInv, BookInv, ExemptInv, InRound, BeforeOrder
    <3>2. OpenInv' /\ EveryRoundConcludes'
      BY <2>1, <2>2 DEF IInv, TypeOK, RoundInv, InRound, OpenInv, EveryRoundConcludes, Forgetting
    <3>3. DeletedEarlyNeverTrades' /\ LedgerIsHonest' /\ BookIsAudited'
      BY <2>1, <2>2 DEF IInv, DeletedEarlyNeverTrades, LedgerIsHonest, BookIsAudited
    <3> QED
      BY <3>1, <3>2, <3>3 DEF IInv
  <2>3. CASE Complete("PROVIDER_ERROR", "none")
    BY <2>1, <2>3, CompleteIInv DEF InRound, BeforeOrder, Statuses, bookVars, IInv, RoundInv
  <2>4. CASE pc' = "check" /\ Same
    BY <2>1, <2>4, AdvanceIInv DEF InRound, BeforeOrder
  <2> QED
    BY <1>ask, <2>2, <2>3, <2>4 DEF Ask
<1>check. CASE CheckCancelled
  <2>1. CASE cur \in cancelled
    <3> USE <1>check, <2>1 DEF CheckCancelled, operatorVars, history, bookVars
    <3>1. TypeOK' /\ RoundInv' /\ CancelInv' /\ BookInv' /\ ExemptInv'
      BY DEF IInv, TypeOK, RoundInv, CancelInv, BookInv, ExemptInv, InRound, BeforeOrder
    <3>2. OpenInv' /\ EveryRoundConcludes'
      BY DEF IInv, TypeOK, RoundInv, InRound, OpenInv, EveryRoundConcludes, Forgetting
    <3>3. DeletedEarlyNeverTrades' /\ LedgerIsHonest' /\ BookIsAudited'
      BY DEF IInv, DeletedEarlyNeverTrades, LedgerIsHonest, BookIsAudited
    <3> QED
      BY <3>1, <3>2, <3>3 DEF IInv
  <2>2. CASE cur \notin cancelled
    BY <1>check, <2>2, AdvanceIInv DEF CheckCancelled, InRound, BeforeOrder, IInv, CancelInv
  <2> QED
    BY <2>1, <2>2
<1>untossed. ASSUME pc \in {"risk", "execute", "place", "send"} PROVE cur \notin tossed
  BY <1>untossed DEF IInv, CancelInv
<1>risk. CASE Risk
  <2>1. pc = "risk" /\ UNCHANGED bookVars
    BY <1>risk DEF Risk
  <2>2. CASE Complete("RISK_REJECTED", "nothing")
    BY <2>1, <2>2, CompleteIInv DEF InRound, BeforeOrder, Statuses, bookVars, IInv, RoundInv
  <2>3. CASE pc' = "execute" /\ Same
    BY <2>1, <2>3, <1>untossed, AdvanceIInv DEF InRound, BeforeOrder
  <2> QED
    BY <1>risk, <2>2, <2>3 DEF Risk
<1>execute. CASE Execute
  <2>1. pc = "execute" /\ UNCHANGED bookVars
    BY <1>execute DEF Execute
  <2>2. ASSUME NEW status \in {"NO_ACTION", "COMPLETED", "EXECUTION_ERROR"},
               NEW act \in {"nothing", "venue", "failed"}, Complete(status, act)
        PROVE  IInv'
    BY <2>1, <2>2, CompleteIInv DEF InRound, BeforeOrder, Statuses, bookVars, IInv, RoundInv
  <2>3. CASE ~stop /\ pc' = "place" /\ Same
    BY <2>1, <2>3, <1>untossed, AdvanceIInv DEF InRound, BeforeOrder
  <2>4. CASE Escape
    BY <2>1, <2>4, EscapeIInv DEF bookVars
  <2> QED
    BY <1>execute, <2>2, <2>3, <2>4 DEF Execute, Fail
<1>place. CASE Place
  <2>1. pc = "place" /\ UNCHANGED bookVars
    BY <1>place DEF Place
  <2>2. CASE stop
    BY <1>place, <2>1, <2>2, CompleteIInv DEF Place, InRound, BeforeOrder, Statuses, bookVars, IInv, RoundInv
  <2>3. CASE ~stop
    BY <1>place, <2>1, <2>3, <1>untossed, AdvanceIInv DEF Place, InRound, BeforeOrder
  <2> QED
    BY <2>2, <2>3
<1>send. CASE Send
  <2>1. pc = "send" /\ UNCHANGED file
    BY <1>send DEF Send
  <2>2. CASE venue' = venue \cup {cur} /\ mirror' = mirror \cup {cur} /\ pc' = "record" /\ Same
    <3> USE <2>1, <2>2 DEF operatorVars, history
    <3>1. TypeOK' /\ RoundInv' /\ CancelInv' /\ BookInv' /\ ExemptInv'
      BY <1>untossed DEF IInv, TypeOK, RoundInv, CancelInv, BookInv, ExemptInv, InRound, BeforeOrder
    <3>2. OpenInv' /\ EveryRoundConcludes'
      BY DEF IInv, TypeOK, OpenInv, EveryRoundConcludes, Forgetting
    <3>3. DeletedEarlyNeverTrades' /\ LedgerIsHonest' /\ BookIsAudited'
      BY <1>untossed DEF IInv, RoundInv, InRound, DeletedEarlyNeverTrades, LedgerIsHonest, BookIsAudited
    <3> QED
      BY <3>1, <3>2, <3>3 DEF IInv
  <2>3. CASE Fail /\ UNCHANGED mirror /\ (venue' = venue \/ venue' = venue \cup {cur})
    BY <2>1, <2>3, CompleteIInv DEF Fail, InRound, BeforeOrder, Statuses
  <2>4. CASE Escape /\ UNCHANGED mirror /\ (venue' = venue \/ venue' = venue \cup {cur})
    BY <2>1, <2>4, EscapeIInv
  <2> QED
    BY <1>send, <2>1, <2>2, <2>3, <2>4 DEF Send
<1>finish. CASE FinishRound
  BY <1>finish, CompleteIInv DEF FinishRound, InRound, Statuses, bookVars
<1> USE DEF IInv, TypeOK, RoundInv, OpenInv, CancelInv, BookInv, ExemptInv, InRound, BeforeOrder, Forgetting,
            EveryRoundConcludes, DeletedEarlyNeverTrades, LedgerIsHonest, BookIsAudited,
            operatorVars, bookVars, history, Goto
<1>1. CASE StartCycle
  BY <1>1 DEF StartCycle
<1>2. CASE EndCycle
  BY <1>2 DEF EndCycle
<1>cut. CASE CutShort
  BY <1>cut DEF CutShort
<1>3. CASE Enter
  BY <1>3 DEF Enter
<1>4. CASE EnterScreened
  BY <1>4 DEF EnterScreened
<1>5. CASE Record
  BY <1>5 DEF Record
<1>6. CASE Pause
  BY <1>6 DEF Pause
<1>7. CASE Resume
  BY <1>7 DEF Resume
<1>8. CASE ForgetLook
  BY <1>8 DEF ForgetLook
<1>9. CASE ForgetDelete
  BY <1>9 DEF ForgetDelete
<1>10. CASE Crash
  BY <1>10 DEF Crash
<1>11. ASSUME NEW d \in Ids, ForgetCancel(d) PROVE IInv'
  <2> USE <1>11 DEF ForgetCancel
  <2>1. forget'.id = d /\ forget'.pc = "look" /\ forget.pc = "idle"
    OBVIOUS
  <2>2. TypeOK' /\ RoundInv' /\ BookInv' /\ ExemptInv'
    BY <2>1
  <2>3. CancelInv' /\ OpenInv'
    BY <2>1
  <2>4. EveryRoundConcludes' /\ DeletedEarlyNeverTrades' /\ LedgerIsHonest' /\ BookIsAudited'
    BY <2>1
  <2> QED
    BY <2>2, <2>3, <2>4
<1>12. CASE UNCHANGED vars
  BY <1>12 DEF vars
<1> QED
  BY <1>ask, <1>check, <1>risk, <1>execute, <1>place, <1>send, <1>finish,
     <1>1, <1>2, <1>cut, <1>3, <1>4, <1>5, <1>6, <1>7, <1>8, <1>9, <1>10, <1>11, <1>12 DEF Next, Engine, Round, Operator

----------------------------------------------------------------------------
(* The invariant holds of every behaviour of the cycle, its rounds, the     *)
(* console's deletions and the crashes in any order.                        *)
THEOREM InductiveInvariant == Spec => []IInv
<1>1. Init => IInv
  BY InitIInv
<1>2. IInv /\ [Next]_vars => IInv'
  BY NextIInv
<1> QED
  BY <1>1, <1>2, PTL DEF Spec

(* Type correctness: no round is opened past the bound, whatever the        *)
(* console and the crashes do to the ledger in between.                     *)
THEOREM TypeCorrect == Spec => []TypeOK
  BY InductiveInvariant, PTL DEF IInv

(* Every round that was analysed concludes its row; a row stays open only   *)
(* while somebody works on it, or when a crash, the screener's error or an  *)
(* error of the venue that nobody catches cut its round off                 *)
(* (evaluation.py:250-580).                                                 *)
THEOREM RoundsConclude == Spec => []EveryRoundConcludes
  BY InductiveInvariant, PTL DEF IInv

(* A decision deleted while the model was still answering never trades      *)
(* (evaluation.py:474-478, memory.py:1562-1568).                            *)
THEOREM EarlyDeletionsHold == Spec => []DeletedEarlyNeverTrades
  BY InductiveInvariant, PTL DEF IInv

(* An order the venue took is never booked as a round that did nothing      *)
(* (actions.py:129-151).                                                    *)
THEOREM LedgerHonest == Spec => []LedgerIsHonest
  BY InductiveInvariant, PTL DEF IInv

(* Every order in the saved account has its execution row                   *)
(* (actions.py:134-145, engine.py:502).                                     *)
THEOREM BookAudited == Spec => []BookIsAudited
  BY InductiveInvariant, PTL DEF IInv

(* All of it at once: ledger and account agree on every round.              *)
THEOREM RoundsSound == Spec => []RoundsAreSound
  BY TypeCorrect, RoundsConclude, EarlyDeletionsHold, LedgerHonest, BookAudited, PTL DEF RoundsAreSound

(* A pause lets out only the order that had passed its last check           *)
(* (actions.py:54-58, 129-133).                                             *)
THEOREM PausesStopTrading == Spec => PauseStopsTrading
<1>1. IInv /\ [Next]_vars => [venue' # venue /\ stop => exempt]_vars
  <2> SUFFICES ASSUME IInv, Next, venue' # venue PROVE stop => exempt
    BY DEF vars
  <2>1. Send
    BY DEF Next, Engine, Round, Operator, StartCycle, EndCycle, CutShort, Enter, EnterScreened, Ask, CheckCancelled, Risk,
           Execute, Place, Record, FinishRound, Pause, Resume, ForgetCancel, ForgetLook, ForgetDelete, Crash,
           bookVars
  <2> QED
    BY <2>1 DEF Send, IInv, ExemptInv
<1> QED
  BY <1>1, InductiveInvariant, PTL DEF Spec, PauseStopsTrading

----------------------------------------------------------------------------
(* ---- Providers: who is told ---- *)

Probing == [pc : {"idle", "list", "next", "probing"}, left : SUBSET Pooled, at : SUBSET Pooled]
Checking == [pc : {"idle", "read", "store", "tell"}, reading : {"yes", "no"}]

(* A probe or a check under way is the only one of its kind, and a recheck  *)
(* probes before it checks; nothing is probed by a worker that is not there.*)
Turns ==
  /\ poolProbe \in [Pool!Threads -> Probing] /\ poolCheck \in [Pool!Threads -> Checking]
  /\ poolCheck["background"].pc # "idle" => ~Pool!Recheckings
  /\ poolProbe["console"].pc # "idle" =>
       poolCheck["console"].pc = "idle" /\ poolProbe["background"].pc = "idle"
  /\ \A b \in Pool!Threads :
       /\ poolProbe[b].at # {} => poolProbe[b].pc = "probing"
       /\ poolProbe[b].pc \in {"idle", "list"} => poolProbe[b].left = {}
       /\ poolProbe[b].at \cap poolProbe[b].left = {}

LEMMA TurnsStart == Pool!Init => Turns
<1> SUFFICES ASSUME Pool!Init PROVE Turns
  OBVIOUS
<1>1. /\ poolProbe = [b \in Pool!Threads |-> [pc |-> "idle", left |-> {}, at |-> {}]]
      /\ poolCheck = [k \in Pool!Threads |-> [pc |-> "idle", reading |-> "no"]]
      /\ "background" \in Pool!Threads /\ "console" \in Pool!Threads
  BY DEF Pool!Init, Pool!Idle, Pool!Threads
<1> QED
  BY <1>1 DEF Turns, Pool!Recheckings, Probing, Checking

(* A worker's step; the last one of a recheck hands over to its check.      *)
LEMMA ProbesTakeTurns ==
  ASSUME Turns, NEW b \in Pool!Threads, Pool!Probes(b)
  PROVE  Turns'
<1>1. /\ poolProbe \in [Pool!Threads -> Probing] /\ poolCheck \in [Pool!Threads -> Checking]
      /\ Pool!Threads = {"background", "console"}
  BY DEF Turns, Pool!Threads
<1>2. /\ poolProbe[b].pc # "idle"
      /\ \E r \in Probing :
           /\ poolProbe' = [poolProbe EXCEPT ![b] = r]
           /\ r.at # {} => r.pc = "probing"
           /\ r.pc \in {"idle", "list"} => r.left = {}
           /\ r.at \cap r.left = {}
           /\ \/ UNCHANGED poolCheck
              \/ b = "console" /\ r.pc = "idle" /\ poolCheck' = [poolCheck EXCEPT ![b].pc = "read"]
  <2>1. /\ poolProbe[b] \in Probing
        /\ poolProbe[b].at # {} => poolProbe[b].pc = "probing"
        /\ poolProbe[b].at \cap poolProbe[b].left = {}
    BY <1>1 DEF Turns
  <2>2. CASE Pool!ProbeList(b)
    <3> DEFINE r == [pc |-> "next", left |-> {p \in Pooled : Pool!NeedsProbe(poolSt[p])}, at |-> {}]
    <3>1. r \in Probing /\ r.at = {} /\ r.pc = "next"
      BY DEF Probing
    <3>2. poolProbe' = [poolProbe EXCEPT ![b] = r] /\ poolProbe[b].pc = "list"
          /\ UNCHANGED poolCheck
      BY <2>2 DEF Pool!ProbeList
    <3> HIDE DEF r
    <3> QED
      BY <3>1, <3>2
  <2>3. CASE Pool!ProbesDone(b)
    <3> DEFINE r == [poolProbe[b] EXCEPT !.pc = "idle"]
    <3>1. r \in Probing /\ r.at = {} /\ r.left = {} /\ r.pc = "idle"
      BY <2>1, <2>3 DEF Probing, Pool!ProbesDone
    <3>2. poolProbe' = [poolProbe EXCEPT ![b] = r] /\ poolProbe[b].pc = "next"
          /\ poolCheck' = IF b = "console" THEN [poolCheck EXCEPT ![b].pc = "read"] ELSE poolCheck
      BY <2>3 DEF Pool!ProbesDone
    <3>3. \/ UNCHANGED poolCheck
          \/ b = "console" /\ poolCheck' = [poolCheck EXCEPT ![b].pc = "read"]
      <4>1. CASE b = "console"
        BY <3>2, <4>1
      <4>2. CASE b # "console"
        BY <3>2, <4>2
      <4> QED
        BY <4>1, <4>2
    <3> HIDE DEF r
    <3> QED
      BY <3>1, <3>2, <3>3
  <2>4. CASE \E p \in Pooled : Pool!ProbeNext(b, p)
    <3>1. PICK p \in Pooled : Pool!ProbeNext(b, p)
      BY <2>4
    <3> DEFINE r == [pc |-> "probing", left |-> poolProbe[b].left \ {p}, at |-> {p}]
    <3>2. r \in Probing /\ r.at \cap r.left = {} /\ r.pc = "probing"
      BY <2>1 DEF Probing
    <3>3. poolProbe' = [poolProbe EXCEPT ![b] = r] /\ poolProbe[b].pc = "next"
          /\ UNCHANGED poolCheck
      BY <3>1 DEF Pool!ProbeNext
    <3> HIDE DEF r
    <3> QED
      BY <3>2, <3>3
  <2>5. CASE \E p \in Pooled : Pool!Probed(b, p)
    <3>1. PICK p \in Pooled : Pool!Probed(b, p)
      BY <2>5
    <3> DEFINE r == [poolProbe[b] EXCEPT !.pc = "next", !.at = {}]
    <3>2. r \in Probing /\ r.at = {} /\ r.pc = "next"
      BY <2>1 DEF Probing
    <3>3. poolProbe' = [poolProbe EXCEPT ![b] = r] /\ poolProbe[b].at # {}
          /\ UNCHANGED poolCheck
      BY <3>1 DEF Pool!Probed
    <3> HIDE DEF r
    <3> QED
      BY <2>1, <3>2, <3>3
  <2> QED
    BY <2>2, <2>3, <2>4, <2>5 DEF Pool!Probes
<1>3. PICK r \in Probing :
        /\ poolProbe' = [poolProbe EXCEPT ![b] = r]
        /\ r.at # {} => r.pc = "probing"
        /\ r.pc \in {"idle", "list"} => r.left = {}
        /\ r.at \cap r.left = {}
        /\ \/ UNCHANGED poolCheck
           \/ b = "console" /\ r.pc = "idle" /\ poolCheck' = [poolCheck EXCEPT ![b].pc = "read"]
  BY <1>2
<1>4. /\ poolProbe' \in [Pool!Threads -> Probing] /\ poolProbe'[b] = r
      /\ \A t \in Pool!Threads : t # b => poolProbe'[t] = poolProbe[t]
  BY <1>1, <1>3
<1>5. /\ poolCheck' \in [Pool!Threads -> Checking]
      /\ \A k \in Pool!Threads : poolCheck'[k].reading = poolCheck[k].reading
      /\ \/ UNCHANGED poolCheck
         \/ /\ b = "console" /\ r.pc = "idle" /\ poolCheck'["console"].pc = "read"
            /\ poolCheck'["background"] = poolCheck["background"]
  <2>1. CASE UNCHANGED poolCheck
    BY <1>1, <2>1
  <2>2. CASE b = "console" /\ r.pc = "idle" /\ poolCheck' = [poolCheck EXCEPT ![b].pc = "read"]
    BY <1>1, <2>2 DEF Checking
  <2> QED
    BY <1>3, <2>1, <2>2
<1>6. QED
  <2>1. \A t \in Pool!Threads :
          /\ poolProbe'[t].at # {} => poolProbe'[t].pc = "probing"
          /\ poolProbe'[t].pc \in {"idle", "list"} => poolProbe'[t].left = {}
          /\ poolProbe'[t].at \cap poolProbe'[t].left = {}
    BY <1>3, <1>4 DEF Turns
  <2>2. /\ poolCheck["background"].pc # "idle" =>
             poolProbe["console"].pc = "idle" /\ poolCheck["console"].pc = "idle"
        /\ poolProbe["console"].pc # "idle" =>
             poolCheck["console"].pc = "idle" /\ poolProbe["background"].pc = "idle"
    BY DEF Turns, Pool!Recheckings
  <2>3. poolCheck'["background"].pc # "idle" =>
          poolProbe'["console"].pc = "idle" /\ poolCheck'["console"].pc = "idle"
    BY <1>1, <1>2, <1>4, <1>5, <2>2
  <2>4. poolProbe'["console"].pc # "idle" =>
          poolCheck'["console"].pc = "idle" /\ poolProbe'["background"].pc = "idle"
    BY <1>1, <1>2, <1>4, <1>5, <2>2
  <2> QED
    BY <1>4, <1>5, <2>1, <2>3, <2>4 DEF Turns, Pool!Recheckings

(* A check reads, stores and announces by itself.                           *)
LEMMA ChecksTakeTurns ==
  ASSUME Turns, NEW k \in Pool!Threads, Pool!Checks(k)
  PROVE  Turns'
<1>1. /\ poolProbe \in [Pool!Threads -> Probing] /\ poolCheck \in [Pool!Threads -> Checking]
      /\ Pool!Threads = {"background", "console"}
      /\ poolCheck["background"].pc # "idle" =>
           poolProbe["console"].pc = "idle" /\ poolCheck["console"].pc = "idle"
      /\ poolProbe["console"].pc # "idle" =>
           poolCheck["console"].pc = "idle" /\ poolProbe["background"].pc = "idle"
  BY DEF Turns, Pool!Threads, Pool!Recheckings
<1>2. poolCheck[k].pc # "idle"
  BY DEF Pool!Checks, Pool!Read, Pool!Store, Pool!Announce
<1>3. \A j \in Pool!Threads : j # k => poolCheck[j].pc = "idle"
  BY <1>1, <1>2
<1>4. poolProbe["console"].pc = "idle"
  BY <1>1, <1>2
<1>5. ASSUME NEW r \in Checking, poolCheck' = [poolCheck EXCEPT ![k] = r],
             \/ UNCHANGED poolProbe
             \/ /\ poolProbe["background"].pc = "idle"
                /\ poolProbe' = [poolProbe EXCEPT !["background"].pc = "list"]
      PROVE  Turns'
  <2>1. /\ poolCheck' \in [Pool!Threads -> Checking] /\ poolCheck'[k] = r
        /\ \A j \in Pool!Threads : j # k => poolCheck'[j].pc = "idle"
    BY <1>1, <1>3, <1>5
  <2>2. /\ poolProbe' \in [Pool!Threads -> Probing] /\ poolProbe'["console"] = poolProbe["console"]
        /\ \A b \in Pool!Threads :
             /\ poolProbe'[b].at # {} => poolProbe'[b].pc = "probing"
             /\ poolProbe'[b].pc \in {"idle", "list"} => poolProbe'[b].left = {}
             /\ poolProbe'[b].at \cap poolProbe'[b].left = {}
    <3>1. CASE UNCHANGED poolProbe
      BY <1>1, <3>1 DEF Turns
    <3>2. CASE /\ poolProbe["background"].pc = "idle"
               /\ poolProbe' = [poolProbe EXCEPT !["background"].pc = "list"]
      <4>1. poolProbe["background"].left = {} /\ poolProbe["background"].at = {}
        BY <1>1, <3>2 DEF Turns
      <4>2. /\ poolProbe' \in [Pool!Threads -> Probing]
            /\ poolProbe'["background"].left = {} /\ poolProbe'["background"].at = {}
            /\ poolProbe'["console"] = poolProbe["console"]
        BY <1>1, <3>2, <4>1 DEF Probing
      <4>3. /\ poolProbe["console"].at # {} => poolProbe["console"].pc = "probing"
            /\ poolProbe["console"].pc \in {"idle", "list"} => poolProbe["console"].left = {}
            /\ poolProbe["console"].at \cap poolProbe["console"].left = {}
        BY <1>1 DEF Turns
      <4> QED
        BY <1>1, <4>2, <4>3
    <3> QED
      BY <1>5, <3>1, <3>2
  <2> QED
    BY <1>1, <1>4, <2>1, <2>2 DEF Turns, Pool!Recheckings
<1>6. ASSUME Pool!Read(k) PROVE Turns'
  <2> DEFINE r == [pc |-> "store", reading |-> Pool!HasReady(poolSt')]
  <2>1. r \in Checking
    BY DEF Checking, Pool!HasReady
  <2>2. /\ poolCheck' = [poolCheck EXCEPT ![k] = r]
        /\ \/ UNCHANGED poolProbe
           \/ /\ poolProbe["background"].pc = "idle"
              /\ poolProbe' = [poolProbe EXCEPT !["background"].pc = "list"]
    BY <1>6 DEF Pool!Read
  <2> HIDE DEF r
  <2> QED
    BY <1>5, <2>1, <2>2
<1>7. ASSUME Pool!Store(k) \/ Pool!Announce(k) PROVE Turns'
  <2> DEFINE Tells == [poolCheck[k] EXCEPT !.pc = "tell"]
  <2>1. Tells \in Checking /\ Pool!Idle \in Checking
    BY <1>1 DEF Checking, Pool!Idle
  <2>2. /\ \/ poolCheck' = [poolCheck EXCEPT ![k] = Tells]
           \/ poolCheck' = [poolCheck EXCEPT ![k] = Pool!Idle]
        /\ UNCHANGED poolProbe
    BY <1>7 DEF Pool!Store, Pool!Announce
  <2> HIDE DEF Tells
  <2> QED
    BY <1>5, <2>1, <2>2
<1> QED
  BY <1>6, <1>7 DEF Pool!Checks

LEMMA TurnsStep ==
  ASSUME ~Overlapping, Turns, [Pool!Next]_Pool!vars
  PROVE  Turns'
<1>1. /\ poolProbe \in [Pool!Threads -> Probing] /\ poolCheck \in [Pool!Threads -> Checking]
      /\ Pool!Threads = {"background", "console"}
  BY DEF Turns, Pool!Threads
<1>2. ASSUME UNCHANGED <<poolProbe, poolCheck>> PROVE Turns'
  BY <1>2 DEF Turns, Pool!Recheckings
<1>3. ASSUME NEW c \in Callers, Pool!Calls(c) PROVE Turns'
  <2>1. UNCHANGED <<poolProbe, poolCheck>>
    BY <1>3 DEF Pool!Calls, Pool!Attempt, Pool!CancelCall, Pool!Ask, Pool!Answer
  <2> QED
    BY <1>2, <2>1
<1>4. ASSUME Pool!Wake PROVE Turns'
  <2>1. /\ ~Pool!Recheckings /\ poolCheck["background"].pc = "idle"
        /\ poolCheck' = [poolCheck EXCEPT !["background"].pc = "read"]
        /\ UNCHANGED poolProbe
    BY <1>4 DEF Pool!Wake
  <2>2. /\ poolCheck' \in [Pool!Threads -> Checking] /\ poolCheck'["background"].pc = "read"
        /\ poolCheck'["console"] = poolCheck["console"]
    BY <1>1, <2>1 DEF Checking
  <2> QED
    BY <1>1, <2>1, <2>2 DEF Turns, Pool!Recheckings
<1>5. ASSUME NEW ps, Pool!Recheck(ps) PROVE Turns'
  <2>1. /\ \A b \in Pool!Threads : poolProbe[b].pc = "idle" /\ poolCheck[b].pc = "idle"
        /\ poolProbe' = [poolProbe EXCEPT !["console"].pc = "list"]
        /\ UNCHANGED poolCheck
    BY <1>5 DEF Pool!Recheck
  <2>2. /\ poolProbe' \in [Pool!Threads -> Probing] /\ poolProbe'["background"] = poolProbe["background"]
        /\ poolProbe'["console"].left = poolProbe["console"].left
        /\ poolProbe'["console"].at = poolProbe["console"].at
        /\ poolProbe["console"].at = {} /\ poolProbe["console"].left = {}
    BY <1>1, <2>1 DEF Probing, Turns
  <2>3. \A b \in Pool!Threads :
          /\ poolProbe'[b].at # {} => poolProbe'[b].pc = "probing"
          /\ poolProbe'[b].pc \in {"idle", "list"} => poolProbe'[b].left = {}
          /\ poolProbe'[b].at \cap poolProbe'[b].left = {}
    BY <1>1, <2>2 DEF Turns
  <2>4. poolCheck'["background"].pc = "idle" /\ poolCheck'["console"].pc = "idle"
        /\ poolProbe'["background"].pc = "idle"
    BY <1>1, <2>1, <2>2
  <2> QED
    BY <1>1, <2>1, <2>2, <2>3, <2>4 DEF Turns
<1>6. ASSUME Pool!Tick \/ (\E p \in Pooled, m \in {"up", "limited", "broken"} : Pool!Change(p, m))
             \/ UNCHANGED Pool!vars
      PROVE  Turns'
  <2>1. UNCHANGED <<poolProbe, poolCheck>>
    BY <1>6 DEF Pool!Tick, Pool!Change, Pool!vars
  <2> QED
    BY <1>2, <2>1
<1> QED
  BY <1>3, <1>4, <1>5, <1>6, ProbesTakeTurns, ChecksTakeTurns DEF Pool!Next

(* A recheck probes before it checks, and the plugins know what the watch   *)
(* believes, unless an announcer is under way or the last one was           *)
(* overtaken.  The recheck and the watch may do all of this at once.        *)
ToldInv ==
  /\ poolProbe \in [Pool!Threads -> Probing] /\ poolCheck \in [Pool!Threads -> Checking]
  /\ poolTold \in {"yes", "no", "unknown"}
  /\ \A b \in Pool!Threads : poolProbe[b].at # {} => poolProbe[b].pc = "probing"
  /\ poolProbe["console"].pc # "idle" => poolCheck["console"].pc = "idle"
  /\ Pool!PluginsHeard

LEMMA ToldStart == Pool!Init => ToldInv
<1> SUFFICES ASSUME Pool!Init PROVE ToldInv
  OBVIOUS
<1>1. /\ poolProbe = [b \in Pool!Threads |-> [pc |-> "idle", left |-> {}, at |-> {}]]
      /\ poolCheck = [k \in Pool!Threads |-> [pc |-> "idle", reading |-> "no"]]
      /\ poolTold = "unknown" /\ "console" \in Pool!Threads
  BY DEF Pool!Init, Pool!Idle, Pool!Threads
<1> QED
  BY <1>1 DEF ToldInv, Probing, Checking, Pool!PluginsHeard, Pool!Settled

(* Steps that neither store nor announce: an announcer that was under way   *)
(* still is.                                                                *)
LEMMA ToldBeside ==
  ASSUME ToldInv, UNCHANGED <<poolTold, poolMay, poolOvertaken>>,
         poolProbe' \in [Pool!Threads -> Probing], poolCheck' \in [Pool!Threads -> Checking],
         \A b \in Pool!Threads : poolProbe'[b].at # {} => poolProbe'[b].pc = "probing",
         poolProbe'["console"].pc # "idle" => poolCheck'["console"].pc = "idle",
         \A k \in Pool!Threads : poolCheck[k].pc = "tell" => poolCheck'[k].pc = "tell"
  PROVE  ToldInv'
<1>1. (\A k \in Pool!Threads : poolCheck'[k].pc \in {"idle", "read", "store"}) =>
        \A k \in Pool!Threads : poolCheck[k].pc \in {"idle", "read", "store"}
  BY DEF ToldInv, Checking
<1> QED
  BY <1>1 DEF ToldInv, Pool!PluginsHeard, Pool!Settled

LEMMA ToldByProbes ==
  ASSUME ToldInv, NEW b \in Pool!Threads, Pool!Probes(b)
  PROVE  ToldInv'
<1>1. /\ poolProbe \in [Pool!Threads -> Probing] /\ poolCheck \in [Pool!Threads -> Checking]
      /\ Pool!Threads = {"background", "console"}
      /\ poolProbe["console"].pc # "idle" => poolCheck["console"].pc = "idle"
      /\ \A t \in Pool!Threads : poolProbe[t].at # {} => poolProbe[t].pc = "probing"
  BY DEF ToldInv, Pool!Threads
<1>2. UNCHANGED <<poolTold, poolMay, poolOvertaken>>
  BY DEF Pool!Probes, Pool!ProbeList, Pool!ProbesDone, Pool!ProbeNext, Pool!Probed
<1>3. ASSUME NEW r \in Probing, poolProbe' = [poolProbe EXCEPT ![b] = r], poolProbe[b].pc # "idle",
             r.at # {} => r.pc = "probing",
             \/ UNCHANGED poolCheck
             \/ b = "console" /\ r.pc = "idle" /\ poolCheck' = [poolCheck EXCEPT ![b].pc = "read"]
      PROVE  ToldInv'
  <2>1. /\ poolProbe' \in [Pool!Threads -> Probing] /\ poolProbe'[b] = r
        /\ \A t \in Pool!Threads : t # b => poolProbe'[t] = poolProbe[t]
    BY <1>1, <1>3
  <2>2. \A t \in Pool!Threads : poolProbe'[t].at # {} => poolProbe'[t].pc = "probing"
    BY <1>1, <1>3, <2>1
  <2>3. CASE UNCHANGED poolCheck
    <3>1. poolProbe'["console"].pc # "idle" => poolCheck'["console"].pc = "idle"
      BY <1>1, <1>3, <2>1, <2>3
    <3> QED
      BY <1>1, <1>2, <2>1, <2>2, <2>3, <3>1, ToldBeside
  <2>4. CASE b = "console" /\ r.pc = "idle" /\ poolCheck' = [poolCheck EXCEPT ![b].pc = "read"]
    <3>1. /\ poolCheck["console"].pc = "idle" /\ poolProbe'["console"].pc = "idle"
          /\ poolCheck' \in [Pool!Threads -> Checking] /\ poolCheck'["background"] = poolCheck["background"]
      BY <1>1, <1>3, <2>1, <2>4 DEF Checking
    <3>2. \A k \in Pool!Threads : poolCheck[k].pc = "tell" => poolCheck'[k].pc = "tell"
      BY <1>1, <3>1
    <3> QED
      BY <1>2, <2>1, <2>2, <3>1, <3>2, ToldBeside
  <2> QED
    BY <1>3, <2>3, <2>4
<1>4. poolProbe[b] \in Probing
  BY <1>1
<1>5. CASE Pool!ProbeList(b)
  <2> DEFINE r == [pc |-> "next", left |-> {p \in Pooled : Pool!NeedsProbe(poolSt[p])}, at |-> {}]
  <2>1. r \in Probing /\ r.at = {}
    BY DEF Probing
  <2>2. poolProbe' = [poolProbe EXCEPT ![b] = r] /\ poolProbe[b].pc # "idle" /\ UNCHANGED poolCheck
    BY <1>5 DEF Pool!ProbeList
  <2> HIDE DEF r
  <2> QED
    BY <1>3, <2>1, <2>2
<1>6. CASE Pool!ProbesDone(b)
  <2> DEFINE r == [poolProbe[b] EXCEPT !.pc = "idle"]
  <2>1. poolProbe[b].pc = "next" /\ r \in Probing /\ r.at = {} /\ r.pc = "idle"
    BY <1>1, <1>4, <1>6 DEF Probing, Pool!ProbesDone
  <2>2. /\ poolProbe' = [poolProbe EXCEPT ![b] = r]
        /\ poolCheck' = IF b = "console" THEN [poolCheck EXCEPT ![b].pc = "read"] ELSE poolCheck
    BY <1>6 DEF Pool!ProbesDone
  <2> HIDE DEF r
  <2>3. CASE b = "console"
    BY <1>3, <2>1, <2>2, <2>3
  <2>4. CASE b # "console"
    BY <1>3, <2>1, <2>2, <2>4
  <2> QED
    BY <2>3, <2>4
<1>7. ASSUME NEW p \in Pooled, Pool!ProbeNext(b, p) PROVE ToldInv'
  <2> DEFINE r == [pc |-> "probing", left |-> poolProbe[b].left \ {p}, at |-> {p}]
  <2>1. r \in Probing /\ r.pc = "probing"
    BY <1>4 DEF Probing
  <2>2. poolProbe' = [poolProbe EXCEPT ![b] = r] /\ poolProbe[b].pc # "idle" /\ UNCHANGED poolCheck
    BY <1>7 DEF Pool!ProbeNext
  <2> HIDE DEF r
  <2> QED
    BY <1>3, <2>1, <2>2
<1>8. ASSUME NEW p \in Pooled, Pool!Probed(b, p) PROVE ToldInv'
  <2> DEFINE r == [poolProbe[b] EXCEPT !.pc = "next", !.at = {}]
  <2>1. r \in Probing /\ r.at = {}
    BY <1>4 DEF Probing
  <2>2. poolProbe' = [poolProbe EXCEPT ![b] = r] /\ poolProbe[b].at # {} /\ UNCHANGED poolCheck
    BY <1>8 DEF Pool!Probed
  <2> HIDE DEF r
  <2>3. poolProbe[b].pc # "idle"
    BY <1>1, <2>2
  <2> QED
    BY <1>3, <2>1, <2>2, <2>3
<1> QED
  BY <1>5, <1>6, <1>7, <1>8 DEF Pool!Probes

(* A check reads, stores and announces; what it announces is what the watch *)
(* believes by then, or that announcement is overtaken.                     *)
LEMMA ToldByChecks ==
  ASSUME ToldInv, NEW k \in Pool!Threads, Pool!Checks(k)
  PROVE  ToldInv'
<1>1. /\ poolProbe \in [Pool!Threads -> Probing] /\ poolCheck \in [Pool!Threads -> Checking]
      /\ Pool!Threads = {"background", "console"}
      /\ poolProbe["console"].pc # "idle" => poolCheck["console"].pc = "idle"
      /\ \A t \in Pool!Threads : poolProbe[t].at # {} => poolProbe[t].pc = "probing"
  BY DEF ToldInv, Pool!Threads
<1>2. poolCheck[k].pc \in {"read", "store", "tell"}
  BY DEF Pool!Checks, Pool!Read, Pool!Store, Pool!Announce
<1>3. ASSUME NEW r \in Checking, poolCheck' = [poolCheck EXCEPT ![k] = r]
      PROVE  /\ poolCheck' \in [Pool!Threads -> Checking] /\ poolCheck'[k] = r
             /\ \A j \in Pool!Threads : j # k => poolCheck'[j] = poolCheck[j]
             /\ poolProbe["console"].pc # "idle" => poolCheck'["console"].pc = "idle"
  BY <1>1, <1>2, <1>3
<1>4. CASE Pool!Read(k)
  <2> DEFINE r == [pc |-> "store", reading |-> Pool!HasReady(poolSt')]
  <2>1. r \in Checking /\ r.pc = "store"
    BY DEF Checking, Pool!HasReady
  <2>2. /\ poolCheck' = [poolCheck EXCEPT ![k] = r] /\ UNCHANGED <<poolTold, poolMay, poolOvertaken>>
        /\ poolCheck[k].pc = "read"
        /\ poolProbe' = IF poolProbe["background"].pc = "idle" THEN [poolProbe EXCEPT !["background"].pc = "list"]
                        ELSE poolProbe
    BY <1>4 DEF Pool!Read
  <2> HIDE DEF r
  <2>3. /\ poolProbe' \in [Pool!Threads -> Probing] /\ poolProbe'["console"] = poolProbe["console"]
        /\ \A t \in Pool!Threads : poolProbe'[t].at # {} => poolProbe'[t].pc = "probing"
    <3>1. CASE poolProbe["background"].pc = "idle"
      <4>1. /\ poolProbe["background"].at = {} /\ poolProbe["background"] \in Probing
            /\ poolProbe' = [poolProbe EXCEPT !["background"].pc = "list"]
        BY <1>1, <2>2, <3>1
      <4>2. /\ poolProbe' \in [Pool!Threads -> Probing] /\ poolProbe'["console"] = poolProbe["console"]
            /\ poolProbe'["background"].at = {}
        BY <1>1, <4>1 DEF Probing
      <4> QED
        BY <1>1, <4>2
    <3>2. CASE poolProbe["background"].pc # "idle"
      BY <1>1, <2>2, <3>2
    <3> QED
      BY <3>1, <3>2
  <2>4. /\ poolCheck' \in [Pool!Threads -> Checking] /\ poolCheck'[k] = r
        /\ \A j \in Pool!Threads : j # k => poolCheck'[j] = poolCheck[j]
        /\ poolProbe["console"].pc # "idle" => poolCheck'["console"].pc = "idle"
    BY <1>3, <2>1, <2>2
  <2>5. \A j \in Pool!Threads : poolCheck[j].pc = "tell" => poolCheck'[j].pc = "tell"
    BY <2>2, <2>4
  <2>6. poolProbe'["console"].pc # "idle" => poolCheck'["console"].pc = "idle"
    BY <2>3, <2>4
  <2> QED
    BY <2>2, <2>3, <2>4, <2>5, <2>6, ToldBeside
<1>5. CASE Pool!Store(k)
  <2> DEFINE r == IF poolTold = poolCheck[k].reading THEN Pool!Idle
                  ELSE [poolCheck[k] EXCEPT !.pc = "tell"]
  <2>1. /\ poolCheck[k] \in Checking /\ poolCheck[k].pc = "store" /\ poolTold' = poolCheck[k].reading
        /\ UNCHANGED <<poolMay, poolOvertaken, poolProbe>> /\ poolCheck' = [poolCheck EXCEPT ![k] = r]
    BY <1>1, <1>5 DEF Pool!Store
  <2>2. /\ r \in Checking /\ poolTold' \in {"yes", "no"}
        /\ r.pc # "tell" => poolTold' = poolTold
    BY <2>1 DEF Checking, Pool!Idle
  <2> HIDE DEF r
  <2>3. /\ poolCheck' \in [Pool!Threads -> Checking] /\ poolCheck'[k] = r
        /\ \A j \in Pool!Threads : j # k => poolCheck'[j] = poolCheck[j]
        /\ poolProbe["console"].pc # "idle" => poolCheck'["console"].pc = "idle"
    BY <1>3, <2>1, <2>2
  <2>4. Pool!PluginsHeard'
    <3> SUFFICES ASSUME Pool!Settled', ~poolOvertaken' PROVE poolMay' = (poolTold' = "yes")
      BY DEF Pool!PluginsHeard
    <3>1. poolTold' = poolTold /\ \A j \in Pool!Threads : poolCheck[j].pc \in {"idle", "read", "store"}
      BY <2>1, <2>2, <2>3 DEF Pool!Settled
    <3> QED
      BY <2>1, <2>2, <3>1 DEF ToldInv, Pool!PluginsHeard, Pool!Settled
  <2> QED
    BY <1>1, <2>1, <2>2, <2>3, <2>4 DEF ToldInv
<1>6. CASE Pool!Announce(k)
  <2>1. /\ poolMay' = (poolCheck[k].reading = "yes") /\ poolOvertaken' = (poolTold # poolCheck[k].reading)
        /\ UNCHANGED <<poolTold, poolProbe>> /\ poolCheck' = [poolCheck EXCEPT ![k] = Pool!Idle]
    BY <1>6 DEF Pool!Announce
  <2>2. Pool!Idle \in Checking
    BY DEF Checking, Pool!Idle
  <2>3. /\ poolCheck' \in [Pool!Threads -> Checking]
        /\ poolProbe["console"].pc # "idle" => poolCheck'["console"].pc = "idle"
    BY <1>3, <2>1, <2>2
  <2>4. ~poolOvertaken' => poolMay' = (poolTold' = "yes")
    <3>1. ASSUME ~poolOvertaken' PROVE poolTold = poolCheck[k].reading
      BY <2>1, <3>1, Zenon
    <3>2. ASSUME poolTold = poolCheck[k].reading PROVE poolMay' = (poolTold' = "yes")
      BY <2>1, <3>2, Zenon
    <3> QED
      BY <3>1, <3>2
  <2> QED
    BY <1>1, <2>1, <2>3, <2>4 DEF ToldInv, Pool!PluginsHeard
<1> QED
  BY <1>4, <1>5, <1>6 DEF Pool!Checks

LEMMA ToldStep ==
  ASSUME ToldInv, [Pool!Next]_Pool!vars
  PROVE  ToldInv'
<1>1. /\ poolProbe \in [Pool!Threads -> Probing] /\ poolCheck \in [Pool!Threads -> Checking]
      /\ Pool!Threads = {"background", "console"}
      /\ poolProbe["console"].pc # "idle" => poolCheck["console"].pc = "idle"
      /\ \A t \in Pool!Threads : poolProbe[t].at # {} => poolProbe[t].pc = "probing"
  BY DEF ToldInv, Pool!Threads
<1>2. ASSUME UNCHANGED <<poolProbe, poolCheck, poolTold, poolMay, poolOvertaken>> PROVE ToldInv'
  BY <1>2 DEF ToldInv, Pool!PluginsHeard, Pool!Settled
<1>3. ASSUME NEW c \in Callers, Pool!Calls(c) PROVE ToldInv'
  <2>1. UNCHANGED <<poolProbe, poolCheck, poolTold, poolMay, poolOvertaken>>
    BY <1>3 DEF Pool!Calls, Pool!Attempt, Pool!CancelCall, Pool!Ask, Pool!Answer
  <2> QED
    BY <1>2, <2>1
<1>4. ASSUME Pool!Wake PROVE ToldInv'
  <2>1. /\ poolCheck["background"].pc = "idle" /\ poolCheck' = [poolCheck EXCEPT !["background"].pc = "read"]
        /\ UNCHANGED <<poolProbe, poolTold, poolMay, poolOvertaken>>
    BY <1>4 DEF Pool!Wake
  <2>2. /\ poolCheck' \in [Pool!Threads -> Checking] /\ poolCheck'["console"] = poolCheck["console"]
    BY <1>1, <2>1 DEF Checking
  <2>3. \A k \in Pool!Threads : poolCheck[k].pc = "tell" => poolCheck'[k].pc = "tell"
    BY <1>1, <2>1, <2>2
  <2> QED
    BY <1>1, <2>1, <2>2, <2>3, ToldBeside
<1>5. ASSUME NEW ps, Pool!Recheck(ps) PROVE ToldInv'
  <2>1. /\ poolProbe["console"].pc = "idle" /\ poolCheck["console"].pc = "idle"
        /\ poolProbe' = [poolProbe EXCEPT !["console"].pc = "list"]
        /\ UNCHANGED <<poolCheck, poolTold, poolMay, poolOvertaken>>
    BY <1>5 DEF Pool!Recheck, Pool!Recheckings
  <2>2. poolProbe["console"].at = {} /\ poolProbe["console"] \in Probing
    BY <1>1, <2>1
  <2>3. /\ poolProbe' \in [Pool!Threads -> Probing] /\ poolProbe'["background"] = poolProbe["background"]
        /\ poolProbe'["console"].at = {}
    BY <1>1, <2>1, <2>2 DEF Probing
  <2>4. \A t \in Pool!Threads : poolProbe'[t].at # {} => poolProbe'[t].pc = "probing"
    BY <1>1, <2>3
  <2> QED
    BY <1>1, <2>1, <2>3, <2>4, ToldBeside
<1>6. ASSUME Pool!Tick \/ (\E p \in Pooled, m \in {"up", "limited", "broken"} : Pool!Change(p, m))
             \/ UNCHANGED Pool!vars
      PROVE  ToldInv'
  <2>1. UNCHANGED <<poolProbe, poolCheck, poolTold, poolMay, poolOvertaken>>
    BY <1>6 DEF Pool!Tick, Pool!Change, Pool!vars
  <2> QED
    BY <1>2, <2>1
<1> QED
  BY <1>3, <1>4, <1>5, <1>6, ToldByProbes, ToldByChecks DEF Pool!Next

LEMMA BelievedIsHeard == Pool!Spec => []Pool!PluginsHeard
<1>1. ToldInv /\ [Pool!Next]_Pool!vars => ToldInv'
  BY ToldStep
<1>2. ToldInv => Pool!PluginsHeard
  BY DEF ToldInv
<1> QED
  BY <1>1, <1>2, ToldStart, PTL DEF Pool!Spec

----------------------------------------------------------------------------
(* ---- Providers: who is asked ---- *)

Putting == [pc : {"idle", "next", "asking"}, left : SUBSET Pooled, at : SUBSET Pooled]

(* The registry's word on a provider and the history of its failures.       *)
Match(s, d) ==
  /\ DOMAIN s = {"wait", "probation", "fails", "probed"} /\ s.probation \in BOOLEAN
  /\ DOMAIN d = {"streak", "owed", "unproved"}
  /\ d.streak = s.fails /\ d.owed = s.wait /\ d.unproved = s.probation

Recorded ==
  /\ DOMAIN poolSt = Pooled /\ DOMAIN poolDue = Pooled
  /\ \A p \in Pooled : Match(poolSt[p], poolDue[p])

(* Who is being probed has failed and served its backoff; who is listed for *)
(* a call is ready, and stays so until it is asked.  Before the first look  *)
(* nobody has failed.                                                       *)
Checked(p) == poolSt[p].probation /\ poolSt[p].wait = 0
AskInv ==
  /\ Recorded
  /\ poolCall \in [Callers -> Putting] /\ poolLooked \in BOOLEAN
  /\ \A b \in Pool!Threads, p \in Pooled : p \in poolProbe[b].left \cup poolProbe[b].at => Checked(p)
  /\ \A c \in Callers :
       /\ poolCall[c].left \cap poolCall[c].at = {}
       /\ \A p \in Pooled : p \in poolCall[c].left \cup poolCall[c].at => Pool!Ready(poolSt[p])
  /\ ~poolLooked => /\ \A p \in Pooled : ~poolSt[p].probation
                    /\ \A c \in Callers : poolCall[c].left \cup poolCall[c].at = {}

(* Each of the registry's operations keeps the two in step.                 *)
LEMMA FailureOwes ==
  ASSUME NEW s, NEW d, Match(s, d), NEW kind, NEW stated
  PROVE  Match(Pool!RecordFailure(s, kind, stated), Pool!Owes(d, kind, stated))
BY DEF Match, Pool!RecordFailure, Pool!Owes

LEMMA SuccessSettles ==
  ASSUME NEW s, NEW d, Match(s, d)
  PROVE  Match(Pool!RecordSuccess(s), Pool!Settles)
BY DEF Match, Pool!RecordSuccess, Pool!Settles

LEMMA ReportProves ==
  ASSUME NEW s, NEW d, Match(s, d), s.wait = 0
  PROVE  Match(Pool!RecordProbeSuccess(s), [d EXCEPT !.unproved = FALSE])
BY DEF Match, Pool!RecordProbeSuccess

LEMMA ProbeIsNoted ==
  ASSUME NEW s, NEW d, Match(s, d)
  PROVE  LET r == [s EXCEPT !.probed = 0] IN
         Match(r, d) /\ r.wait = s.wait /\ r.probation = s.probation
BY DEF Match

LEMMA RecheckForgives ==
  ASSUME NEW s, NEW d, Match(s, d)
  PROVE  LET r == [s EXCEPT !.wait = 0, !.fails = 0, !.probed = ProbeInterval] IN
         /\ Match(r, [d EXCEPT !.streak = 0, !.owed = 0])
         /\ r.wait = 0 /\ r.probation = s.probation
BY DEF Match

LEMMA TickServes ==
  ASSUME NEW s, NEW d, Match(s, d)
  PROVE  LET r == [s EXCEPT !.wait = Pool!Less(@), !.probed = Pool!Smaller(@ + 1, ProbeInterval)] IN
         /\ Match(r, [d EXCEPT !.owed = Pool!Less(@)])
         /\ s.wait = 0 => r.wait = 0
         /\ r.probation = s.probation
<1>1. s.wait = 0 => Pool!Less(s.wait) = 0
  BY DEF Pool!Less
<1> QED
  BY <1>1 DEF Match

LEMMA AskStart == Pool!Init => AskInv
<1> SUFFICES ASSUME Pool!Init PROVE AskInv
  OBVIOUS
<1>1. /\ poolSt = [p \in Pooled |-> Pool!Fresh]
      /\ poolDue = [p \in Pooled |-> [streak |-> 0, owed |-> 0, unproved |-> FALSE]]
      /\ poolCall = [c \in Callers |-> [pc |-> "idle", left |-> {}, at |-> {}]]
      /\ poolProbe = [b \in Pool!Threads |-> [pc |-> "idle", left |-> {}, at |-> {}]]
      /\ poolLooked = FALSE
  BY DEF Pool!Init
<1>2. Match(Pool!Fresh, [streak |-> 0, owed |-> 0, unproved |-> FALSE]) /\ ~Pool!Fresh.probation
  BY DEF Match, Pool!Fresh
<1>3. Recorded /\ \A p \in Pooled : ~poolSt[p].probation
  BY <1>1, <1>2 DEF Recorded
<1>4. poolCall \in [Callers -> Putting] /\ \A c \in Callers : poolCall[c].left = {} /\ poolCall[c].at = {}
  BY <1>1 DEF Putting
<1>5. \A b \in Pool!Threads : poolProbe[b].left = {} /\ poolProbe[b].at = {}
  BY <1>1
<1> QED
  BY <1>1, <1>3, <1>4, <1>5 DEF AskInv

(* What changes nobody's standing: lists are made of those who belong there,*)
(* and time and the operator only shorten a wait.                           *)
WaitsShorten ==
  \A q \in Pooled : /\ poolSt'[q].probation = poolSt[q].probation
                    /\ poolSt[q].wait = 0 => poolSt'[q].wait = 0
FailedAreProbed ==
  \A b \in Pool!Threads, q \in Pooled : q \in poolProbe'[b].left \cup poolProbe'[b].at =>
    q \in poolProbe[b].left \cup poolProbe[b].at \/ Checked(q)
ReadyAreListed ==
  /\ poolCall' \in [Callers -> Putting]
  /\ \A c \in Callers : poolCall'[c].left \cap poolCall'[c].at = {}
  /\ \A c \in Callers, q \in Pooled : q \in poolCall'[c].left \cup poolCall'[c].at =>
       q \in poolCall[c].left \cup poolCall[c].at \/ (poolLooked /\ Pool!Ready(poolSt[q]))

LEMMA StandingKept ==
  ASSUME AskInv, Recorded', poolLooked' = poolLooked, WaitsShorten, FailedAreProbed, ReadyAreListed
  PROVE  AskInv'
<1>1. \A b \in Pool!Threads, q \in Pooled :
        q \in poolProbe'[b].left \cup poolProbe'[b].at => Checked(q)'
  BY DEF AskInv, Checked, WaitsShorten, FailedAreProbed
<1>2. \A c \in Callers, q \in Pooled :
        q \in poolCall'[c].left \cup poolCall'[c].at => Pool!Ready(poolSt'[q])
  BY DEF AskInv, Pool!Ready, WaitsShorten, ReadyAreListed
<1>3. ASSUME ~poolLooked
      PROVE  /\ \A p \in Pooled : ~poolSt'[p].probation
             /\ \A c \in Callers : poolCall'[c].left \cup poolCall'[c].at = {}
  <2>1. \A p \in Pooled : ~poolSt'[p].probation
    BY <1>3 DEF AskInv, WaitsShorten
  <2>2. \A c \in Callers, q \in Pooled : q \notin poolCall'[c].left \cup poolCall'[c].at
    BY <1>3 DEF AskInv, ReadyAreListed
  <2>3. \A c \in Callers : poolCall'[c].left \subseteq Pooled /\ poolCall'[c].at \subseteq Pooled
    BY DEF Putting, ReadyAreListed
  <2> QED
    BY <2>1, <2>2, <2>3
<1> QED
  BY <1>1, <1>2, <1>3 DEF AskInv, ReadyAreListed

LEMMA NobodyListed ==
  ASSUME AskInv, UNCHANGED poolCall
  PROVE  ReadyAreListed
BY DEF AskInv, ReadyAreListed

(* An outcome is recorded for one that leaves every list.                   *)
LeavesLists(p) ==
  /\ \A b \in Pool!Threads, q \in Pooled : q \in poolProbe'[b].left \cup poolProbe'[b].at =>
       q # p /\ q \in poolProbe[b].left \cup poolProbe[b].at
  /\ poolCall' \in [Callers -> Putting]
  /\ \A c \in Callers : poolCall'[c].left \cap poolCall'[c].at = {}
  /\ \A c \in Callers, q \in Pooled : q \in poolCall'[c].left \cup poolCall'[c].at =>
       q # p /\ q \in poolCall[c].left \cup poolCall[c].at

LEMMA OutcomeRecorded ==
  ASSUME AskInv, poolLooked, poolLooked' = poolLooked, NEW p \in Pooled, NEW s, NEW d, Match(s, d),
         poolSt' = [poolSt EXCEPT ![p] = s], poolDue' = [poolDue EXCEPT ![p] = d],
         LeavesLists(p)
  PROVE  AskInv'
<1>1. \A q \in Pooled : q # p => poolSt'[q] = poolSt[q]
  BY DEF AskInv, Recorded
<1>2. Recorded'
  <2>1. DOMAIN poolSt' = Pooled /\ DOMAIN poolDue' = Pooled
    BY DEF AskInv, Recorded
  <2>2. \A q \in Pooled : Match(poolSt'[q], poolDue'[q])
    BY DEF AskInv, Recorded
  <2> QED
    BY <2>1, <2>2 DEF Recorded
<1>3. \A b \in Pool!Threads, q \in Pooled :
        q \in poolProbe'[b].left \cup poolProbe'[b].at => Checked(q)'
  BY <1>1 DEF AskInv, Checked, LeavesLists
<1>4. \A c \in Callers, q \in Pooled :
        q \in poolCall'[c].left \cup poolCall'[c].at => Pool!Ready(poolSt'[q])
  BY <1>1 DEF AskInv, LeavesLists
<1> QED
  BY <1>2, <1>3, <1>4 DEF AskInv, LeavesLists

LEMMA RefusalRecorded ==
  ASSUME AskInv, NEW p \in Pooled, Pool!Refuses(p)
  PROVE  \E s, d : /\ Match(s, d)
                   /\ poolSt' = [poolSt EXCEPT ![p] = s] /\ poolDue' = [poolDue EXCEPT ![p] = d]
<1>1. PICK kind, stated : Pool!Fails(p, kind, stated)
  <2>1. CASE poolMood[p] = "limited"
    BY <2>1 DEF Pool!Refuses
  <2>2. CASE poolMood[p] # "limited"
    BY <2>2 DEF Pool!Refuses
  <2> QED
    BY <2>1, <2>2
<1>2. Match(Pool!RecordFailure(poolSt[p], kind, stated), Pool!Owes(poolDue[p], kind, stated))
  BY FailureOwes DEF AskInv, Recorded
<1> QED
  BY <1>1, <1>2 DEF Pool!Fails

LEMMA SuccessRecorded ==
  ASSUME AskInv, NEW p \in Pooled, Pool!Succeeds(p)
  PROVE  \E s, d : /\ Match(s, d)
                   /\ poolSt' = [poolSt EXCEPT ![p] = s] /\ poolDue' = [poolDue EXCEPT ![p] = d]
<1>1. Match(Pool!RecordSuccess(poolSt[p]), Pool!Settles)
  BY SuccessSettles DEF AskInv, Recorded
<1> QED
  BY <1>1 DEF Pool!Succeeds

(* A caller's step: with no other caller, only who is asked may change.     *)
LEMMA CallsAsk ==
  ASSUME \A c, d \in Callers : c = d, Turns, AskInv, NEW c \in Callers, Pool!Calls(c)
  PROVE  AskInv'
<1>1. /\ poolCall \in [Callers -> Putting] /\ poolCall[c] \in Putting /\ Callers = {c}
      /\ poolCall[c].left \cap poolCall[c].at = {}
  BY DEF AskInv
<1>2. ASSUME NEW r \in Putting, poolCall' = [poolCall EXCEPT ![c] = r], r.left \cap r.at = {}
      PROVE  /\ poolCall' \in [Callers -> Putting]
             /\ \A e \in Callers : poolCall'[e] = r /\ poolCall'[e].left \cap poolCall'[e].at = {}
  BY <1>1, <1>2
<1>3. ASSUME UNCHANGED <<poolSt, poolDue, poolProbe, poolLooked>>,
             NEW r \in Putting, poolCall' = [poolCall EXCEPT ![c] = r], r.left \cap r.at = {},
             \A q \in Pooled : q \in r.left \cup r.at =>
               q \in poolCall[c].left \cup poolCall[c].at \/ (poolLooked /\ Pool!Ready(poolSt[q]))
      PROVE  AskInv'
  <2>1. /\ poolCall' \in [Callers -> Putting]
        /\ \A e \in Callers : poolCall'[e] = r /\ poolCall'[e].left \cap poolCall'[e].at = {}
    BY <1>2, <1>3
  <2>2. Recorded'
    BY <1>3 DEF AskInv, Recorded
  <2>3. WaitsShorten /\ FailedAreProbed
    BY <1>3 DEF WaitsShorten, FailedAreProbed
  <2>4. ReadyAreListed
    BY <1>1, <1>3, <2>1 DEF ReadyAreListed
  <2> QED
    BY <1>3, <2>2, <2>3, <2>4, StandingKept
<1>4. ASSUME Pool!Attempt(c) PROVE AskInv'
  <2> DEFINE r == [pc |-> "next", left |-> {p \in Pooled : Pool!Ready(poolSt[p])}, at |-> {}]
  <2>1. /\ r \in Putting /\ r.left \cap r.at = {}
        /\ \A q \in Pooled : q \in r.left \cup r.at => Pool!Ready(poolSt[q])
    BY DEF Putting
  <2>2. /\ poolCall' = [poolCall EXCEPT ![c] = r] /\ poolLooked
        /\ UNCHANGED <<poolSt, poolDue, poolProbe, poolLooked>>
    BY <1>4 DEF Pool!Attempt
  <2> HIDE DEF r
  <2> QED
    BY <1>3, <2>1, <2>2
<1>5. ASSUME Pool!CancelCall(c) PROVE AskInv'
  <2> DEFINE r == [pc |-> "idle", left |-> {}, at |-> {}]
  <2>1. r \in Putting /\ r.left = {} /\ r.at = {}
    BY DEF Putting
  <2>2. /\ poolCall' = [poolCall EXCEPT ![c] = r]
        /\ UNCHANGED <<poolSt, poolDue, poolProbe, poolLooked>>
    BY <1>5 DEF Pool!CancelCall
  <2> HIDE DEF r
  <2> QED
    BY <1>3, <2>1, <2>2
<1>6. ASSUME NEW p \in Pooled, Pool!Ask(c, p) PROVE AskInv'
  <2> DEFINE r == [pc |-> "asking", left |-> poolCall[c].left \ {p}, at |-> {p}]
  <2>1. /\ poolCall' = [poolCall EXCEPT ![c] = r] /\ p \in poolCall[c].left
        /\ UNCHANGED <<poolSt, poolDue, poolProbe, poolLooked>>
    BY <1>6 DEF Pool!Ask
  <2>2. /\ r \in Putting /\ r.left \cap r.at = {} /\ p \in poolCall[c].left
        /\ r.left = poolCall[c].left \ {p} /\ r.at = {p}
    BY <1>1, <2>1 DEF Putting
  <2> HIDE DEF r
  <2>3. \A q \in Pooled : q \in r.left \cup r.at =>
          q \in poolCall[c].left \cup poolCall[c].at \/ (poolLooked /\ Pool!Ready(poolSt[q]))
    BY <2>2
  <2> QED
    BY <1>3, <2>1, <2>2, <2>3
<1>7. ASSUME NEW p \in Pooled, Pool!Answer(c, p) PROVE AskInv'
  <2>1. poolCall[c].at = {p} /\ UNCHANGED <<poolProbe, poolLooked>>
    BY <1>7 DEF Pool!Answer
  <2>2. /\ p \notin poolCall[c].left /\ poolLooked /\ Pool!Ready(poolSt[p])
        /\ \A b \in Pool!Threads : p \notin poolProbe[b].left \cup poolProbe[b].at
    BY <1>1, <2>1 DEF AskInv, Checked, Pool!Ready
  <2>3. \E s, d : /\ Match(s, d)
                  /\ poolSt' = [poolSt EXCEPT ![p] = s] /\ poolDue' = [poolDue EXCEPT ![p] = d]
    <3>1. Pool!Succeeds(p) \/ Pool!Refuses(p)
      BY <1>7 DEF Pool!Answer
    <3> QED
      BY <3>1, SuccessRecorded, RefusalRecorded
  <2>4. \E r \in Putting : poolCall' = [poolCall EXCEPT ![c] = r] /\ r.at = {} /\ r.left \subseteq poolCall[c].left
    <3>1. CASE poolMood[p] = "up"
      <4> DEFINE r == [pc |-> "idle", left |-> {}, at |-> {}]
      <4>1. r \in Putting /\ r.left = {} /\ r.at = {}
        BY DEF Putting
      <4>2. poolCall' = [poolCall EXCEPT ![c] = r]
        BY <1>7, <3>1 DEF Pool!Answer
      <4> HIDE DEF r
      <4> QED
        BY <4>1, <4>2
    <3>2. CASE poolMood[p] # "up"
      <4> DEFINE m == IF poolCall[c].left = {} THEN "idle" ELSE "next"
                r == [poolCall[c] EXCEPT !.pc = m, !.at = {}]
      <4>1. m \in {"idle", "next"}
        OBVIOUS
      <4>2. poolCall' = [poolCall EXCEPT ![c].pc = m, ![c].at = {}]
        BY <1>7, <3>2 DEF Pool!Answer
      <4> HIDE DEF m
      <4>3. r \in Putting /\ r.at = {} /\ r.left = poolCall[c].left
        BY <1>1, <4>1 DEF Putting
      <4>4. poolCall' = [poolCall EXCEPT ![c] = r]
        BY <1>1, <4>2
      <4> HIDE DEF r
      <4> QED
        BY <4>3, <4>4
    <3> QED
      BY <3>1, <3>2
  <2>5. PICK r \in Putting : poolCall' = [poolCall EXCEPT ![c] = r] /\ r.at = {} /\ r.left \subseteq poolCall[c].left
    BY <2>4
  <2>6. /\ poolCall' \in [Callers -> Putting]
        /\ \A e \in Callers : poolCall'[e] = r /\ poolCall'[e].left \cap poolCall'[e].at = {}
    BY <1>2, <2>5
  <2>7. \A e \in Callers, q \in Pooled : q \in poolCall'[e].left \cup poolCall'[e].at =>
          q # p /\ q \in poolCall[e].left \cup poolCall[e].at
    BY <1>1, <2>2, <2>5, <2>6
  <2>8. \A b \in Pool!Threads, q \in Pooled : q \in poolProbe'[b].left \cup poolProbe'[b].at =>
          q # p /\ q \in poolProbe[b].left \cup poolProbe[b].at
    BY <2>1, <2>2
  <2>9. LeavesLists(p)
    BY <2>6, <2>7, <2>8 DEF LeavesLists
  <2> QED
    BY <2>1, <2>2, <2>3, <2>9, OutcomeRecorded
<1> QED
  BY <1>4, <1>5, <1>6, <1>7 DEF Pool!Calls

(* A worker's step: it lists who has failed, and what it finds out is       *)
(* recorded for one that nobody can be about to ask.                        *)
LEMMA ProbesAsk ==
  ASSUME Turns, AskInv, NEW b \in Pool!Threads, Pool!Probes(b)
  PROVE  AskInv'
<1>1. /\ poolProbe \in [Pool!Threads -> Probing] /\ poolProbe[b] \in Probing
      /\ Pool!Threads = {"background", "console"}
      /\ poolProbe[b].at \cap poolProbe[b].left = {}
  BY DEF Turns, Pool!Threads
<1>2. /\ poolCall \in [Callers -> Putting]
      /\ \A c \in Callers : poolCall[c].left \cap poolCall[c].at = {}
  BY DEF AskInv
<1>3. ASSUME Recorded', UNCHANGED <<poolCall, poolLooked>>,
             \A q \in Pooled : poolSt'[q].probation = poolSt[q].probation /\ poolSt'[q].wait = poolSt[q].wait,
             NEW r, poolProbe' = [poolProbe EXCEPT ![b] = r],
             \A q \in Pooled : q \in r.left \cup r.at => q \in poolProbe[b].left \cup poolProbe[b].at \/ Checked(q)
      PROVE  AskInv'
  <2>1. \A t \in Pool!Threads, q \in Pooled : q \in poolProbe'[t].left \cup poolProbe'[t].at =>
          q \in poolProbe[t].left \cup poolProbe[t].at \/ Checked(q)
    BY <1>1, <1>3
  <2>2. WaitsShorten /\ FailedAreProbed
    BY <1>3, <2>1 DEF WaitsShorten, FailedAreProbed
  <2> QED
    BY <1>3, <2>2, NobodyListed, StandingKept
<1>4. ASSUME UNCHANGED <<poolSt, poolDue>> PROVE Recorded'
  BY <1>4 DEF AskInv, Recorded
<1>5. ASSUME Pool!ProbeList(b) PROVE AskInv'
  <2> DEFINE r == [pc |-> "next", left |-> {p \in Pooled : Pool!NeedsProbe(poolSt[p])}, at |-> {}]
  <2>1. \A q \in Pooled : q \in r.left \cup r.at => Checked(q)
    BY DEF Checked, Pool!NeedsProbe
  <2>2. /\ poolProbe' = [poolProbe EXCEPT ![b] = r]
        /\ UNCHANGED <<poolSt, poolDue, poolCall, poolLooked>>
    BY <1>5 DEF Pool!ProbeList
  <2> HIDE DEF r
  <2> QED
    BY <1>3, <1>4, <2>1, <2>2
<1>6. ASSUME Pool!ProbesDone(b) PROVE AskInv'
  <2> DEFINE r == [poolProbe[b] EXCEPT !.pc = "idle"]
  <2>1. /\ poolProbe' = [poolProbe EXCEPT ![b] = r]
        /\ UNCHANGED <<poolSt, poolDue, poolCall, poolLooked>>
    BY <1>6 DEF Pool!ProbesDone
  <2>2. r.left = poolProbe[b].left /\ r.at = poolProbe[b].at
    BY <1>1 DEF Probing
  <2> HIDE DEF r
  <2> QED
    BY <1>3, <1>4, <2>1, <2>2
<1>7. ASSUME NEW p \in Pooled, Pool!ProbeNext(b, p) PROVE AskInv'
  <2> DEFINE r == [pc |-> "probing", left |-> poolProbe[b].left \ {p}, at |-> {p}]
             s == [poolSt[p] EXCEPT !.probed = 0]
  <2>1. /\ poolProbe' = [poolProbe EXCEPT ![b] = r] /\ p \in poolProbe[b].left
        /\ poolSt' = [poolSt EXCEPT ![p] = s]
        /\ UNCHANGED <<poolDue, poolCall, poolLooked>>
    BY <1>7 DEF Pool!ProbeNext
  <2>2. \A q \in Pooled : q \in r.left \cup r.at => q \in poolProbe[b].left
    BY <2>1
  <2>3. Match(s, poolDue[p]) /\ s.wait = poolSt[p].wait /\ s.probation = poolSt[p].probation
    BY ProbeIsNoted DEF AskInv, Recorded
  <2> HIDE DEF r, s
  <2>4. Recorded'
    BY <2>1, <2>3 DEF AskInv, Recorded
  <2>5. \A q \in Pooled : poolSt'[q].probation = poolSt[q].probation /\ poolSt'[q].wait = poolSt[q].wait
    BY <2>1, <2>3 DEF AskInv, Recorded
  <2> QED
    BY <1>3, <2>1, <2>2, <2>4, <2>5
<1>8. ASSUME NEW p \in Pooled, Pool!Probed(b, p) PROVE AskInv'
  <2>1. poolProbe[b].at = {p} /\ UNCHANGED <<poolCall, poolLooked>>
        /\ poolProbe' = [poolProbe EXCEPT ![b].pc = "next", ![b].at = {}]
    BY <1>8 DEF Pool!Probed
  <2>2. /\ p \notin poolProbe[b].left /\ Checked(p)
        /\ \A t \in Pool!Threads : t # b => poolProbe[t].left = {} /\ poolProbe[t].at = {}
    <3>1. poolProbe[b].pc = "probing"
      BY <2>1 DEF Turns
    <3>2. \A t \in Pool!Threads : t # b => poolProbe[t].pc = "idle"
      BY <1>1, <3>1 DEF Turns
    <3> QED
      BY <1>1, <2>1, <3>2 DEF Turns, AskInv
  <2>3. poolLooked /\ \A c \in Callers : p \notin poolCall[c].left \cup poolCall[c].at
    BY <2>2 DEF AskInv, Checked, Pool!Ready
  <2>4. \E s, d : /\ Match(s, d)
                  /\ poolSt' = [poolSt EXCEPT ![p] = s] /\ poolDue' = [poolDue EXCEPT ![p] = d]
    <3>1. CASE Pool!Refuses(p)
      BY <3>1, RefusalRecorded
    <3>2. CASE Pool!Succeeds(p)
      BY <3>2, SuccessRecorded
    <3>3. CASE /\ poolSt' = [poolSt EXCEPT ![p] = Pool!RecordProbeSuccess(@)]
               /\ poolDue' = [poolDue EXCEPT ![p].unproved = FALSE]
      <4>1. Match(Pool!RecordProbeSuccess(poolSt[p]), [poolDue[p] EXCEPT !.unproved = FALSE])
        BY <2>2, ReportProves DEF AskInv, Recorded, Checked
      <4>2. poolDue' = [poolDue EXCEPT ![p] = [poolDue[p] EXCEPT !.unproved = FALSE]]
        BY <3>3
      <4> QED
        BY <3>3, <4>1, <4>2
    <3> QED
      BY <1>8, <3>1, <3>2, <3>3 DEF Pool!Probed
  <2>5. poolProbe'[b].left = poolProbe[b].left /\ poolProbe'[b].at = {}
        /\ \A t \in Pool!Threads : t # b => poolProbe'[t] = poolProbe[t]
    BY <1>1, <2>1 DEF Probing
  <2>6. \A t \in Pool!Threads, q \in Pooled : q \in poolProbe'[t].left \cup poolProbe'[t].at =>
          q # p /\ q \in poolProbe[t].left \cup poolProbe[t].at
    BY <2>2, <2>5
  <2>7. LeavesLists(p)
    BY <1>2, <2>1, <2>3, <2>6 DEF LeavesLists
  <2> QED
    BY <2>1, <2>3, <2>4, <2>7, OutcomeRecorded
<1> QED
  BY <1>5, <1>6, <1>7, <1>8 DEF Pool!Probes

(* The first look takes a client's word for its quota; nobody is listed yet.*)
LEMMA ChecksAsk ==
  ASSUME Turns, AskInv, NEW k \in Pool!Threads, Pool!Checks(k)
  PROVE  AskInv'
<1>1. /\ poolProbe \in [Pool!Threads -> Probing] /\ Pool!Threads = {"background", "console"}
      /\ \A b \in Pool!Threads : poolProbe[b].left \subseteq Pooled /\ poolProbe[b].at \subseteq Pooled
  BY DEF Turns, Pool!Threads, Probing
<1>2. /\ poolCall \in [Callers -> Putting] /\ poolLooked \in BOOLEAN
      /\ \A c \in Callers : poolCall[c].left \cap poolCall[c].at = {}
  BY DEF AskInv
<1>3. /\ poolCall' = poolCall
      /\ \A b \in Pool!Threads : poolProbe'[b].left = poolProbe[b].left /\ poolProbe'[b].at = poolProbe[b].at
  <2>1. poolCall' = poolCall /\ (\/ UNCHANGED poolProbe
                                 \/ poolProbe' = [poolProbe EXCEPT !["background"].pc = "list"])
    BY DEF Pool!Checks, Pool!Read, Pool!Store, Pool!Announce
  <2>2. CASE UNCHANGED poolProbe
    BY <2>1, <2>2
  <2>3. CASE poolProbe' = [poolProbe EXCEPT !["background"].pc = "list"]
    BY <1>1, <2>1, <2>3 DEF Probing
  <2> QED
    BY <2>1, <2>2, <2>3
<1>4. ASSUME UNCHANGED <<poolSt, poolDue, poolLooked>> PROVE AskInv'
  <2>1. Recorded'
    BY <1>4 DEF AskInv, Recorded
  <2>2. WaitsShorten /\ FailedAreProbed
    BY <1>3, <1>4 DEF WaitsShorten, FailedAreProbed
  <2> QED
    BY <1>3, <1>4, <2>1, <2>2, NobodyListed, StandingKept
<1>5. ASSUME Pool!Read(k), ~poolLooked PROVE AskInv'
  <2>1. PICK stated \in Stated :
          LET dry(p) == p \in Reporting /\ poolMood[p] = "limited" IN
          /\ poolSt' = [p \in Pooled |-> IF dry(p) THEN Pool!RecordFailure(poolSt[p], "rate_limit", stated)
                                        ELSE poolSt[p]]
          /\ poolDue' = [p \in Pooled |-> IF dry(p) THEN Pool!Owes(poolDue[p], "rate_limit", stated)
                                         ELSE poolDue[p]]
    BY <1>5 DEF Pool!Read, Pool!FirstLook
  <2>2. poolLooked' = TRUE
    BY <1>5 DEF Pool!Read
  <2>3. \A p \in Pooled : Match(poolSt'[p], poolDue'[p])
    <3> TAKE p \in Pooled
    <3>1. Match(poolSt[p], poolDue[p])
      BY DEF AskInv, Recorded
    <3>2. Match(Pool!RecordFailure(poolSt[p], "rate_limit", stated),
                Pool!Owes(poolDue[p], "rate_limit", stated))
      BY <3>1, FailureOwes
    <3> QED
      BY <2>1, <3>1, <3>2
  <2>4. Recorded'
    BY <2>1, <2>3 DEF Recorded
  <2>5. \A b \in Pool!Threads, q \in Pooled : q \notin poolProbe[b].left \cup poolProbe[b].at
    BY <1>5 DEF AskInv, Checked
  <2>6. \A c \in Callers : poolCall[c].left \cup poolCall[c].at = {}
    BY <1>5 DEF AskInv
  <2> QED
    BY <1>2, <1>3, <2>2, <2>4, <2>5, <2>6 DEF AskInv
<1>6. ASSUME Pool!Read(k), poolLooked PROVE AskInv'
  <2>1. UNCHANGED <<poolSt, poolDue>> /\ poolLooked' = TRUE
    BY <1>6 DEF Pool!Read, Pool!FirstLook
  <2> QED
    BY <1>2, <1>4, <1>6, <2>1
<1>7. ASSUME Pool!Store(k) \/ Pool!Announce(k) PROVE AskInv'
  <2>1. UNCHANGED <<poolSt, poolDue, poolLooked>>
    BY <1>7 DEF Pool!Store, Pool!Announce
  <2> QED
    BY <1>4, <2>1
<1> QED
  BY <1>5, <1>6, <1>7 DEF Pool!Checks

LEMMA AskStep ==
  ASSUME ~Overlapping, \A c, d \in Callers : c = d, Turns, AskInv, [Pool!Next]_Pool!vars
  PROVE  AskInv'
<1>1. /\ poolProbe \in [Pool!Threads -> Probing] /\ Pool!Threads = {"background", "console"}
  BY DEF Turns, Pool!Threads
<1>2. /\ poolCall \in [Callers -> Putting]
      /\ \A c \in Callers : poolCall[c].left \cap poolCall[c].at = {}
  BY DEF AskInv
<1>3. ASSUME UNCHANGED <<poolSt, poolDue, poolCall, poolProbe, poolLooked>> PROVE AskInv'
  BY <1>3 DEF AskInv, Recorded, Checked
<1>4. ASSUME Pool!Wake \/ (\E p \in Pooled, m \in {"up", "limited", "broken"} : Pool!Change(p, m))
             \/ UNCHANGED Pool!vars
      PROVE  AskInv'
  <2>1. UNCHANGED <<poolSt, poolDue, poolCall, poolProbe, poolLooked>>
    BY <1>4 DEF Pool!Wake, Pool!Change, Pool!vars
  <2> QED
    BY <1>3, <2>1
<1>5. ASSUME NEW ps, Pool!Recheck(ps) PROVE AskInv'
  <2>1. /\ poolSt' = [p \in Pooled |-> IF p \in ps
                        THEN [poolSt[p] EXCEPT !.wait = 0, !.fails = 0, !.probed = ProbeInterval]
                        ELSE poolSt[p]]
        /\ poolDue' = [p \in Pooled |-> IF p \in ps THEN [poolDue[p] EXCEPT !.streak = 0, !.owed = 0]
                                       ELSE poolDue[p]]
        /\ poolProbe' = [poolProbe EXCEPT !["console"].pc = "list"]
        /\ UNCHANGED <<poolCall, poolLooked>>
    BY <1>5 DEF Pool!Recheck
  <2>2. \A p \in Pooled : /\ Match(poolSt'[p], poolDue'[p])
                          /\ poolSt'[p].probation = poolSt[p].probation
                          /\ poolSt[p].wait = 0 => poolSt'[p].wait = 0
    <3> TAKE p \in Pooled
    <3>1. Match(poolSt[p], poolDue[p])
      BY DEF AskInv, Recorded
    <3> QED
      BY <2>1, <3>1, RecheckForgives
  <2>3. Recorded'
    BY <2>1, <2>2 DEF Recorded
  <2>4. \A b \in Pool!Threads : poolProbe'[b].left = poolProbe[b].left /\ poolProbe'[b].at = poolProbe[b].at
    BY <1>1, <2>1 DEF Probing
  <2>5. WaitsShorten /\ FailedAreProbed
    BY <2>2, <2>4 DEF WaitsShorten, FailedAreProbed
  <2> QED
    BY <2>1, <2>3, <2>5, NobodyListed, StandingKept
<1>6. ASSUME Pool!Tick PROVE AskInv'
  <2>1. /\ poolSt' = [p \in Pooled |-> [poolSt[p] EXCEPT !.wait = Pool!Less(@),
                                         !.probed = Pool!Smaller(@ + 1, ProbeInterval)]]
        /\ poolDue' = [p \in Pooled |-> [poolDue[p] EXCEPT !.owed = Pool!Less(@)]]
        /\ UNCHANGED <<poolCall, poolProbe, poolLooked>>
    BY <1>6 DEF Pool!Tick
  <2>2. \A p \in Pooled : /\ Match(poolSt'[p], poolDue'[p])
                          /\ poolSt'[p].probation = poolSt[p].probation
                          /\ poolSt[p].wait = 0 => poolSt'[p].wait = 0
    <3> TAKE p \in Pooled
    <3>1. Match(poolSt[p], poolDue[p])
      BY DEF AskInv, Recorded
    <3> QED
      BY <2>1, <3>1, TickServes
  <2>3. Recorded'
    BY <2>1, <2>2 DEF Recorded
  <2>4. WaitsShorten /\ FailedAreProbed
    BY <2>1, <2>2 DEF WaitsShorten, FailedAreProbed
  <2> QED
    BY <2>1, <2>3, <2>4, NobodyListed, StandingKept
<1> QED
  BY <1>4, <1>5, <1>6, CallsAsk, ProbesAsk, ChecksAsk DEF Pool!Next

LEMMA DueAreAsked ==
  ASSUME ~Overlapping, \A c, d \in Callers : c = d
  PROVE  Pool!Spec => Pool!AskedWhenDue
<1>1. Turns /\ AskInv /\ [Pool!Next]_Pool!vars => (Turns /\ AskInv)'
  BY TurnsStep, AskStep
<1>2. AskInv => \A c \in Callers, p \in Pooled :
                  Pool!Ask(c, p) => poolDue[p].owed = 0 /\ ~poolDue[p].unproved
  <2> SUFFICES ASSUME AskInv, NEW c \in Callers, NEW p \in Pooled, Pool!Ask(c, p)
               PROVE  poolDue[p].owed = 0 /\ ~poolDue[p].unproved
    OBVIOUS
  <2>1. Pool!Ready(poolSt[p]) /\ Match(poolSt[p], poolDue[p])
    BY DEF AskInv, Recorded, Pool!Ask
  <2> QED
    BY <2>1 DEF Match, Pool!Ready
<1>3. AskInv => [\A c \in Callers, p \in Pooled :
                   Pool!Ask(c, p) => poolDue[p].owed = 0 /\ ~poolDue[p].unproved]_Pool!vars
  BY <1>2
<1> QED
  BY <1>1, <1>3, TurnsStart, AskStart, PTL DEF Pool!Spec, Pool!AskedWhenDue

----------------------------------------------------------------------------
(* ---- ProviderSession ---- *)

Moments == {"idle", "choose", "step", "calling", "exited", "tool", "unclear", "final"}
Talks == Workers \X Nat
Asked == [name : Talk!Names \cup {None}, conversation : Talks \cup {None}, provider : Clients]
Sessions == [open : BOOLEAN, conversation : Talks \cup {None}, serial : Nat]
Progress == [steps : 0..Steps, asks : 0..MaxAsks, tries : 0..Talk!MaxTries]
Files == [Talk!Names -> Nat \cup {None}]
Children == [worker : Workers, serial : Nat, name : Talk!Names, n : Nat]

TalkTypes ==
  /\ talkAt \in [Workers -> Moments]
  /\ talkTodo \in [Workers -> SUBSET Clients]
  /\ talkAsked \in [Workers -> Asked \cup {None}]
  /\ talkCalls \in [Workers -> Nat]
  /\ talkProgress \in [Workers -> Progress]
  /\ talkBound \in [Workers -> BOOLEAN]
  /\ talkSession \in [Workers -> Sessions]
  /\ talkFile \in [Workers -> Files]
  /\ talkOrphans \subseteq Children
  /\ talkBridge \in [Workers -> Nat \cup {None}]
  /\ DOMAIN talkUpstream = Workers
  /\ talkCatalog \in BOOLEAN
  /\ DOMAIN talkGot = Workers
  /\ talkBegun \in [Workers -> Nat]
  /\ talkLate \in [Workers -> BOOLEAN]

(* What a bridge makes of a request keeps the schema and the tools' names.  *)
Faithful(u) ==
  /\ DOMAIN u = {"strict", "body", "declared"}
  /\ "schema" \in u.declared => "schema" \in u.body
  /\ {Talk!Restored(f) : f \in u.body} \subseteq u.declared

(* An attempt begins its conversation with its first call, and keeps it     *)
(* from its first answer on; what a call may read is its own answer, or one *)
(* of a child that outlived a call of this attempt.                         *)
Speaking(w) ==
  /\ talkSession[w].open <=> talkAt[w] \notin {"idle", "choose"}
  /\ ~talkSession[w].open => talkSession[w].conversation = None
  /\ talkSession[w].conversation \in {None, <<w, talkSession[w].serial>>}
  /\ talkAt[w] \notin {"idle", "choose"} => talkAsked[w] \in Asked
  /\ talkAt[w] \in {"calling", "exited"} =>
       /\ talkAsked[w].name \in Talk!Names
       /\ talkAsked[w].conversation = <<w, talkSession[w].serial>>
  /\ talkAt[w] \in {"tool", "unclear", "final"} => talkSession[w].conversation # None
  /\ talkAt[w] = "step" => talkSession[w].conversation # None \/ talkBegun[w] = 0
  /\ talkAt[w] \in {"calling", "exited"} =>
       \/ talkSession[w].conversation # None
       \/ talkBegun[w] = 1 /\ talkAsked[w].name # "plugin_consultation"
  /\ talkBegun[w] <= 1

Bounded(w) ==
  /\ talkBound[w] => talkAt[w] \notin {"idle", "choose", "final"}
  /\ talkAt[w] \in {"tool", "unclear"} => talkProgress[w].steps < Steps
  /\ talkAt[w] \in {"calling", "exited"} /\ talkAsked[w].name # "trade_decision" =>
       talkProgress[w].steps < Steps

Wired(w) ==
  /\ talkBridge[w] # None => talkAt[w] \in {"calling", "exited"} /\ talkBridge[w] = talkCalls[w]
  /\ talkUpstream[w] # None => talkAt[w] = "calling" /\ Faithful(talkUpstream[w])

Heard(w) ==
  /\ talkGot[w] # None => talkGot[w] = talkCalls[w] \/ talkLate[w]
  /\ talkAt[w] \in {"calling", "exited"} =>
       talkLate[w] \/ talkFile[w][talkAsked[w].name] \in {None, talkCalls[w]}
  /\ \A o \in talkOrphans : o.worker = w =>
       /\ o.serial <= talkSession[w].serial
       /\ o.serial = talkSession[w].serial => talkLate[w]

Sound(w) == Speaking(w) /\ Bounded(w) /\ Wired(w) /\ Heard(w)
TalkInv == TalkTypes /\ \A w \in Workers : Sound(w)

(* One worker's step leaves the others' rounds alone.                       *)
OnlyMoves(w) ==
  \A x \in Workers : x # w =>
    /\ talkAt'[x] = talkAt[x] /\ talkAsked'[x] = talkAsked[x] /\ talkCalls'[x] = talkCalls[x]
    /\ talkProgress'[x] = talkProgress[x] /\ talkBound'[x] = talkBound[x]
    /\ talkSession'[x] = talkSession[x] /\ talkFile'[x] = talkFile[x]
    /\ talkBridge'[x] = talkBridge[x] /\ talkUpstream'[x] = talkUpstream[x]
    /\ talkGot'[x] = talkGot[x] /\ talkBegun'[x] = talkBegun[x] /\ talkLate'[x] = talkLate[x]
    /\ \A o \in talkOrphans' : o.worker = x => o \in talkOrphans

LEMMA OthersStay ==
  ASSUME TalkInv, NEW w \in Workers, TalkTypes', OnlyMoves(w), Sound(w)'
  PROVE  TalkInv'
<1>1. ASSUME NEW x \in Workers, x # w PROVE Sound(x)'
  <2>1. Sound(x)
    BY DEF TalkInv
  <2>2. Speaking(x)'
    BY <1>1, <2>1 DEF Sound, Speaking, OnlyMoves
  <2>3. Bounded(x)' /\ Wired(x)'
    BY <1>1, <2>1 DEF Sound, Bounded, Wired, OnlyMoves
  <2>4. Heard(x)'
    BY <1>1, <2>1 DEF Sound, Heard, OnlyMoves
  <2> QED
    BY <2>2, <2>3, <2>4 DEF Sound
<1> QED
  BY <1>1 DEF TalkInv

LEMMA TalkStart ==
  ASSUME Talk!ProviderSessionAssumption, Talk!Init
  PROVE  TalkInv
<1>1. Talk!NoProgress \in Progress /\ Talk!NoSession \in Sessions /\ Talk!NoFiles \in Files
  BY DEF Talk!ProviderSessionAssumption, Talk!NoProgress, Talk!NoSession, Talk!NoFiles,
         Progress, Sessions, Files, Talk!MaxTries
<1>2. TalkTypes
  BY <1>1 DEF Talk!Init, TalkTypes, Moments
<1>3. ASSUME NEW w \in Workers PROVE Sound(w)
  <2>1. /\ talkAt[w] = "idle" /\ talkSession[w] = Talk!NoSession /\ talkBegun[w] = 0
        /\ talkBound[w] = FALSE /\ talkBridge[w] = None /\ talkUpstream[w] = None
        /\ talkGot[w] = None /\ talkOrphans = {}
    BY <1>3 DEF Talk!Init
  <2>2. Speaking(w)
    BY <2>1 DEF Speaking, Talk!NoSession
  <2> QED
    BY <2>1, <2>2 DEF Sound, Bounded, Wired, Heard
<1> QED
  BY <1>2, <1>3 DEF TalkInv

(* A call begins the attempt's conversation or resumes it, and clears what  *)
(* the last one of its kind had left.                                       *)
LEMMA CallStarts ==
  ASSUME Talk!ProviderSessionAssumption, TalkInv, NEW w \in Workers, NEW name \in Talk!Names,
         Talk!Call(w, name), talkAt[w] \in {"step", "tool", "unclear", "final"},
         name = "plugin_consultation" => talkAt[w] \in {"tool", "unclear"},
         name # "trade_decision" => talkProgress[w].steps < Steps,
         NEW q \in Progress, talkProgress' = [talkProgress EXCEPT ![w] = q],
         q.steps = talkProgress[w].steps,
         UNCHANGED <<talkTodo, talkBound, talkSession, talkOrphans, talkUpstream, talkCatalog, talkLate>>
  PROVE  TalkInv'
<1> DEFINE n == talkCalls[w] + 1
           c == IF talkSession[w].conversation # None THEN talkSession[w].conversation
                ELSE <<w, talkSession[w].serial>>
           k == [talkAsked[w] EXCEPT !.name = name, !.conversation = c]
           f == [talkFile[w] EXCEPT ![name] = None]
           e == IF talkSession[w].conversation = None THEN talkBegun[w] + 1 ELSE talkBegun[w]
           b == IF talkAsked[w].provider.bridged THEN n ELSE None
<1>1. TalkTypes /\ Sound(w)
  BY DEF TalkInv
<1>2. /\ talkAt[w] \in Moments /\ talkCalls[w] \in Nat /\ talkSession[w] \in Sessions
      /\ talkFile[w] \in Files /\ talkBegun[w] \in Nat /\ talkAsked[w] \in Asked
      /\ None \notin Talks /\ None \notin Nat
  BY <1>1 DEF TalkTypes, Sound, Speaking, Talk!ProviderSessionAssumption, Talks
<1>3. /\ talkCalls' = [talkCalls EXCEPT ![w] = n]
      /\ talkAsked' = [talkAsked EXCEPT ![w].name = name, ![w].conversation = c]
      /\ talkBegun' = [talkBegun EXCEPT ![w] = e]
      /\ talkFile' = [talkFile EXCEPT ![w][name] = None]
      /\ talkBridge' = [talkBridge EXCEPT ![w] = b]
      /\ talkGot' = [talkGot EXCEPT ![w] = None]
      /\ talkAt' = [talkAt EXCEPT ![w] = "calling"]
  BY DEF Talk!Call, Talk!Slot, Talk!Mine, Talk!Resumed, Talk!Conversation, Talk!Fresh
<1>4. /\ n \in Nat /\ b \in {None, n} /\ e \in Nat
      /\ c = <<w, talkSession[w].serial>> /\ c \in Talks
  BY <1>1, <1>2 DEF Sound, Speaking, Sessions, Talks
<1>5. /\ e <= 1
      /\ \/ talkSession[w].conversation # None
         \/ e = 1 /\ name # "plugin_consultation"
  <2>1. talkAt[w] # "step" => talkSession[w].conversation # None
    BY <1>1 DEF Sound, Speaking
  <2>2. talkAt[w] = "step" => talkSession[w].conversation # None \/ talkBegun[w] = 0
    BY <1>1 DEF Sound, Speaking
  <2>3. talkBegun[w] <= 1
    BY <1>1 DEF Sound, Speaking
  <2> QED
    BY <1>2, <2>1, <2>2, <2>3
<1> HIDE DEF n, c, e, b
<1>6. k \in Asked /\ k.name = name /\ k.conversation = c
  BY <1>2, <1>4 DEF Asked
<1>7. f \in Files /\ f[name] = None
  BY <1>2 DEF Files
<1>8. /\ talkAsked' = [talkAsked EXCEPT ![w] = k]
      /\ talkFile' = [talkFile EXCEPT ![w] = f]
  BY <1>1, <1>2, <1>3 DEF TalkTypes, Asked, Files
<1> HIDE DEF k, f
<1>9. TalkTypes'
  <2>1. /\ talkAt' \in [Workers -> Moments] /\ talkCalls' \in [Workers -> Nat]
        /\ talkBegun' \in [Workers -> Nat]
    BY <1>1, <1>3, <1>4 DEF TalkTypes, Moments
  <2>2. talkBridge' \in [Workers -> Nat \cup {None}] /\ DOMAIN talkGot' = Workers
    BY <1>1, <1>3, <1>4 DEF TalkTypes
  <2>3. /\ talkAsked' \in [Workers -> Asked \cup {None}] /\ talkFile' \in [Workers -> Files]
        /\ talkProgress' \in [Workers -> Progress]
    BY <1>1, <1>6, <1>7, <1>8 DEF TalkTypes
  <2> QED
    BY <1>1, <2>1, <2>2, <2>3 DEF TalkTypes
<1>10. OnlyMoves(w)
  BY <1>1, <1>3, <1>8 DEF TalkTypes, OnlyMoves
<1>11. /\ talkAt'[w] = "calling" /\ talkCalls'[w] = n /\ talkBegun'[w] = e /\ talkBridge'[w] = b
       /\ talkGot'[w] = None /\ talkAsked'[w] = k /\ talkFile'[w] = f /\ talkProgress'[w] = q
       /\ talkSession'[w] = talkSession[w] /\ talkUpstream'[w] = talkUpstream[w]
       /\ talkLate'[w] = talkLate[w] /\ talkBound'[w] = talkBound[w]
  BY <1>1, <1>3, <1>8 DEF TalkTypes
<1>12. Speaking(w)'
  BY <1>1, <1>4, <1>5, <1>6, <1>11 DEF Sound, Speaking
<1>13. Bounded(w)'
  BY <1>6, <1>11 DEF Bounded
<1>14. talkUpstream[w] = None
  BY <1>1 DEF Sound, Wired
<1>15. Wired(w)'
  BY <1>4, <1>11, <1>14 DEF Wired
<1>16. Heard(w)'
  BY <1>1, <1>6, <1>7, <1>11 DEF Sound, Heard
<1> QED
  BY <1>9, <1>10, <1>12, <1>13, <1>15, <1>16, OthersStay DEF Sound

(* A worker that has no call under way and none behind it changes its       *)
(* moment, its bounds and its session only.                                 *)
LEMMA BetweenCalls ==
  ASSUME TalkInv, NEW w \in Workers, TalkTypes', OnlyMoves(w),
         talkAt[w] \notin {"calling", "exited"}, talkAt'[w] \notin {"calling", "exited"},
         talkAt'[w] \in {"idle", "choose"} <=> talkAt[w] \in {"idle", "choose"},
         talkBound'[w] => talkAt'[w] \notin {"idle", "choose", "final"},
         talkAt'[w] \in {"step", "tool", "unclear", "final"} => talkSession[w].conversation # None,
         talkAt'[w] \in {"tool", "unclear"} => talkProgress'[w].steps < Steps,
         UNCHANGED <<talkAsked, talkCalls, talkSession, talkFile, talkOrphans, talkBridge,
                     talkUpstream, talkCatalog, talkGot, talkBegun, talkLate>>
  PROVE  TalkInv'
<1>1. Sound(w)
  BY DEF TalkInv
<1>2. Speaking(w)'
  BY <1>1 DEF Sound, Speaking
<1>3. Bounded(w)' /\ Wired(w)' /\ Heard(w)'
  BY <1>1 DEF Sound, Bounded, Wired, Heard
<1> QED
  BY <1>2, <1>3, OthersStay DEF Sound

(* An attempt that is over leaves nothing but its children behind.          *)
LEMMA AttemptOver ==
  ASSUME Talk!ProviderSessionAssumption, TalkInv, NEW w \in Workers, TalkTypes', OnlyMoves(w),
         talkAt'[w] \in {"idle", "choose"}, talkBound'[w] = FALSE,
         talkSession'[w].open = FALSE, talkSession'[w].conversation = None,
         talkSession'[w].serial = talkSession[w].serial,
         talkBridge'[w] = None, talkUpstream'[w] = None, talkBegun'[w] = talkBegun[w],
         talkCalls'[w] = talkCalls[w], talkLate'[w] = talkLate[w], talkOrphans' = talkOrphans,
         talkGot'[w] # None => talkGot'[w] = talkCalls[w] \/ talkLate[w]
  PROVE  TalkInv'
<1>1. Sound(w)
  BY DEF TalkInv
<1>2. Speaking(w)'
  BY <1>1 DEF Sound, Speaking
<1>3. Bounded(w)' /\ Wired(w)' /\ Heard(w)'
  BY <1>1 DEF Sound, Bounded, Wired, Heard
<1> QED
  BY <1>2, <1>3, OthersStay DEF Sound

(* A call that is over has left the round a conversation to go on with.     *)
LEMMA CallOver ==
  ASSUME Talk!ProviderSessionAssumption, TalkInv, NEW w \in Workers, TalkTypes', OnlyMoves(w),
         talkAt'[w] \in {"step", "tool", "unclear", "final"},
         talkBound'[w] => talkAt'[w] # "final",
         talkAt'[w] \in {"tool", "unclear"} => talkProgress'[w].steps < Steps,
         talkSession'[w].open, talkSession'[w].serial = talkSession[w].serial,
         talkSession'[w].conversation = <<w, talkSession[w].serial>>,
         talkAt[w] \in {"calling", "exited"}, talkAsked'[w] = talkAsked[w],
         talkBridge'[w] = None, talkUpstream'[w] = None, talkBegun'[w] = talkBegun[w],
         talkCalls'[w] = talkCalls[w], talkLate[w] => talkLate'[w],
         \A o \in talkOrphans' : o \in talkOrphans \/ (o.serial = talkSession[w].serial /\ talkLate'[w]),
         talkGot'[w] # None => talkGot'[w] = talkCalls[w] \/ talkLate[w]
  PROVE  TalkInv'
<1>1. Sound(w) /\ talkSession[w].serial \in Nat /\ None \notin Talks
  BY DEF TalkInv, TalkTypes, Sessions, Talks, Talk!ProviderSessionAssumption
<1>2. <<w, talkSession[w].serial>> # None
  BY <1>1 DEF Talks
<1>3. Speaking(w)'
  BY <1>1, <1>2 DEF Sound, Speaking
<1>4. Bounded(w)' /\ Wired(w)'
  BY <1>1 DEF Sound, Bounded, Wired
<1>5. Heard(w)'
  BY <1>1 DEF Sound, Heard
<1> QED
  BY <1>3, <1>4, <1>5, OthersStay DEF Sound

LEMMA Closed ==
  ASSUME TalkTypes, Talk!ProviderSessionAssumption, NEW w \in Workers, Talk!Close(w)
  PROVE  /\ talkSession' \in [Workers -> Sessions] /\ talkFile' \in [Workers -> Files]
         /\ talkBound' \in [Workers -> BOOLEAN]
         /\ talkSession'[w].open = FALSE /\ talkSession'[w].conversation = None
         /\ talkSession'[w].serial = talkSession[w].serial /\ talkBound'[w] = FALSE
         /\ \A x \in Workers : x # w => /\ talkSession'[x] = talkSession[x] /\ talkFile'[x] = talkFile[x]
                                        /\ talkBound'[x] = talkBound[x]
<1> DEFINE s == [talkSession[w] EXCEPT !.open = FALSE, !.conversation = None]
<1>1. /\ s \in Sessions /\ s.open = FALSE /\ s.conversation = None /\ s.serial = talkSession[w].serial
  <2>1. talkSession[w] \in Sessions
    BY DEF TalkTypes
  <2> QED
    BY <2>1 DEF Sessions
<1>2. /\ talkSession' = [talkSession EXCEPT ![w] = s]
      /\ talkFile' = [talkFile EXCEPT ![w] = Talk!NoFiles]
      /\ talkBound' = [talkBound EXCEPT ![w] = FALSE]
  BY DEF Talk!Close, Talk!Slot
<1>3. Talk!NoFiles \in Files
  BY DEF Talk!NoFiles, Files
<1> HIDE DEF s
<1>4. talkSession' \in [Workers -> Sessions] /\ talkSession'[w] = s
      /\ \A x \in Workers : x # w => talkSession'[x] = talkSession[x]
  BY <1>1, <1>2 DEF TalkTypes
<1>5. /\ talkFile' \in [Workers -> Files] /\ talkBound' \in [Workers -> BOOLEAN] /\ talkBound'[w] = FALSE
      /\ \A x \in Workers : x # w => talkFile'[x] = talkFile[x] /\ talkBound'[x] = talkBound[x]
  BY <1>2, <1>3 DEF TalkTypes
<1> QED
  BY <1>1, <1>4, <1>5

LEMMA HungUp ==
  ASSUME TalkTypes, NEW w \in Workers, Talk!Hangup(w)
  PROVE  /\ talkBridge' \in [Workers -> Nat \cup {None}] /\ DOMAIN talkUpstream' = Workers
         /\ talkBridge'[w] = None /\ talkUpstream'[w] = None
         /\ \A x \in Workers : x # w => talkBridge'[x] = talkBridge[x] /\ talkUpstream'[x] = talkUpstream[x]
BY DEF TalkTypes, Talk!Hangup

(* A failed question is no answer to its tool; any other failure ends the   *)
(* attempt.  A child may outlive a question only.                           *)
LEMMA FailureHandled ==
  ASSUME Talk!ProviderSessionAssumption, TalkInv, NEW w \in Workers,
         talkAt[w] \in {"calling", "exited"}, Talk!Failed(w), Talk!Hangup(w),
         UNCHANGED <<talkTodo, talkAsked, talkCalls, talkProgress, talkCatalog, talkGot, talkBegun>>,
         talkOrphans' \subseteq Children, talkLate' \in [Workers -> BOOLEAN],
         \A x \in Workers : x # w => talkLate'[x] = talkLate[x],
         talkLate[w] => talkLate'[w],
         \A o \in talkOrphans' : \/ o \in talkOrphans
                                 \/ o.worker = w /\ o.serial = talkSession[w].serial /\ talkLate'[w],
         talkAsked[w].name # "plugin_consultation" => UNCHANGED <<talkOrphans, talkLate>>
  PROVE  TalkInv'
<1>1. TalkTypes /\ Sound(w)
  BY DEF TalkInv
<1>2. /\ talkBridge' \in [Workers -> Nat \cup {None}] /\ DOMAIN talkUpstream' = Workers
      /\ talkBridge'[w] = None /\ talkUpstream'[w] = None
      /\ \A x \in Workers : x # w => talkBridge'[x] = talkBridge[x] /\ talkUpstream'[x] = talkUpstream[x]
  BY <1>1, HungUp
<1>3. \A x \in Workers : x # w => \A o \in talkOrphans' : o.worker = x => o \in talkOrphans
  OBVIOUS
<1>4. CASE talkAsked[w].name = "plugin_consultation"
  <2>1. talkAt' = [talkAt EXCEPT ![w] = "tool"] /\ UNCHANGED <<talkSession, talkFile, talkBound>>
    BY <1>4 DEF Talk!Failed
  <2>2. TalkTypes' /\ OnlyMoves(w)
    BY <1>1, <1>2, <1>3, <2>1 DEF TalkTypes, OnlyMoves, Moments
  <2>3. talkAt'[w] = "tool"
    BY <1>1, <2>1 DEF TalkTypes
  <2>4. /\ talkSession[w].open /\ talkSession[w].conversation = <<w, talkSession[w].serial>>
        /\ talkProgress[w].steps < Steps
        /\ talkGot[w] # None => talkGot[w] = talkCalls[w] \/ talkLate[w]
    BY <1>1, <1>4 DEF Sound, Speaking, Bounded, Heard
  <2> QED
    BY <1>2, <2>1, <2>2, <2>3, <2>4, CallOver
<1>5. CASE talkAsked[w].name # "plugin_consultation"
  <2>1. talkAt' = [talkAt EXCEPT ![w] = "choose"] /\ Talk!Close(w) /\ UNCHANGED <<talkOrphans, talkLate>>
    BY <1>5 DEF Talk!Failed
  <2>2. /\ talkSession' \in [Workers -> Sessions] /\ talkFile' \in [Workers -> Files]
        /\ talkBound' \in [Workers -> BOOLEAN]
        /\ talkSession'[w].open = FALSE /\ talkSession'[w].conversation = None
        /\ talkSession'[w].serial = talkSession[w].serial /\ talkBound'[w] = FALSE
        /\ \A x \in Workers : x # w => /\ talkSession'[x] = talkSession[x] /\ talkFile'[x] = talkFile[x]
                                       /\ talkBound'[x] = talkBound[x]
    BY <1>1, <2>1, Closed
  <2>3. TalkTypes' /\ OnlyMoves(w) /\ talkAt'[w] = "choose"
    BY <1>1, <1>2, <1>3, <2>1, <2>2 DEF TalkTypes, OnlyMoves, Moments
  <2>4. talkGot[w] # None => talkGot[w] = talkCalls[w] \/ talkLate[w]
    BY <1>1 DEF Sound, Heard
  <2> QED
    BY <1>2, <2>1, <2>2, <2>3, <2>4, AttemptOver
<1> QED
  BY <1>4, <1>5

LEMMA TimeOutHandled ==
  ASSUME Talk!ProviderSessionAssumption, TalkInv, NEW w \in Workers, Talk!TimesOut(w)
  PROVE  TalkInv'
<1>1. TalkTypes /\ Sound(w) /\ talkAt[w] = "calling"
  BY DEF TalkInv, Talk!TimesOut
<1> DEFINE child == [worker |-> w, serial |-> talkSession[w].serial, name |-> talkAsked[w].name,
                     n |-> talkCalls[w]]
<1>2. child \in Children /\ child.worker = w /\ child.serial = talkSession[w].serial
  BY <1>1 DEF TalkTypes, Sessions, Children, Sound, Speaking
<1>3. \/ UNCHANGED <<talkOrphans, talkLate>>
      \/ /\ talkAsked[w].name = "plugin_consultation"
         /\ talkOrphans' = talkOrphans \cup {child} /\ talkLate' = [talkLate EXCEPT ![w] = TRUE]
  <2>1. PICK lives \in {FALSE, talkAsked[w].name = "plugin_consultation"} :
          /\ talkOrphans' = IF lives THEN talkOrphans \cup {child} ELSE talkOrphans
          /\ talkLate' = [talkLate EXCEPT ![w] = @ \/ lives]
    BY DEF Talk!TimesOut, Talk!Mine, Talk!Slot
  <2> HIDE DEF child
  <2>2. CASE lives
    <3>1. talkAsked[w].name = "plugin_consultation"
      BY <2>2
    <3>2. talkOrphans' = talkOrphans \cup {child} /\ talkLate' = [talkLate EXCEPT ![w] = TRUE]
      BY <2>1, <2>2
    <3> QED
      BY <3>1, <3>2
  <2>3. CASE ~lives
    <3>1. talkOrphans' = talkOrphans /\ talkLate' = [talkLate EXCEPT ![w] = talkLate[w]]
      BY <1>1, <2>1, <2>3 DEF TalkTypes
    <3>2. talkLate' = talkLate
      BY <1>1, <3>1 DEF TalkTypes
    <3> QED
      BY <3>1, <3>2
  <2> QED
    BY <2>2, <2>3
<1> HIDE DEF child
<1>4. /\ talkOrphans' \subseteq Children /\ talkLate' \in [Workers -> BOOLEAN]
      /\ \A x \in Workers : x # w => talkLate'[x] = talkLate[x]
      /\ talkLate[w] => talkLate'[w]
      /\ \A o \in talkOrphans' : \/ o \in talkOrphans
                                 \/ o.worker = w /\ o.serial = talkSession[w].serial /\ talkLate'[w]
      /\ talkAsked[w].name # "plugin_consultation" => UNCHANGED <<talkOrphans, talkLate>>
  <2>1. CASE UNCHANGED <<talkOrphans, talkLate>>
    BY <1>1, <2>1 DEF TalkTypes
  <2>2. CASE /\ talkAsked[w].name = "plugin_consultation"
             /\ talkOrphans' = talkOrphans \cup {child} /\ talkLate' = [talkLate EXCEPT ![w] = TRUE]
    BY <1>1, <1>2, <2>2 DEF TalkTypes
  <2> QED
    BY <1>3, <2>1, <2>2
<1>5. /\ Talk!Failed(w) /\ Talk!Hangup(w)
      /\ UNCHANGED <<talkTodo, talkAsked, talkCalls, talkProgress, talkCatalog, talkGot, talkBegun>>
  BY DEF Talk!TimesOut
<1> QED
  BY <1>1, <1>4, <1>5, FailureHandled

LEMMA CallFailureHandled ==
  ASSUME Talk!ProviderSessionAssumption, TalkInv, NEW w \in Workers, Talk!CallFails(w)
  PROVE  TalkInv'
<1>1. /\ talkAt[w] = "exited" /\ Talk!Failed(w) /\ Talk!Hangup(w)
      /\ UNCHANGED <<talkTodo, talkAsked, talkCalls, talkProgress, talkCatalog, talkGot, talkBegun>>
      /\ UNCHANGED <<talkOrphans, talkLate>>
  BY DEF Talk!CallFails, Talk!History
<1>2. talkOrphans \subseteq Children /\ talkLate \in [Workers -> BOOLEAN]
  BY DEF TalkInv, TalkTypes
<1> QED
  BY <1>1, <1>2, FailureHandled

(* A round's first attempt, or its next one: a session of its own, with no  *)
(* conversation yet.                                                        *)
LEMMA AttemptStarts ==
  ASSUME Talk!ProviderSessionAssumption, TalkInv, NEW w \in Workers, Talk!Attempt(w)
  PROVE  TalkInv'
<1>1. TalkTypes /\ Sound(w) /\ talkAt[w] = "choose"
  BY DEF TalkInv, Talk!Attempt
<1> DEFINE s == [open |-> TRUE, conversation |-> None, serial |-> talkSession[w].serial + 1]
<1>2. /\ talkSession[w] \in Sessions /\ talkSession[w].serial \in Nat /\ ~talkSession[w].open
      /\ None \notin Nat /\ None \notin Talks
  BY <1>1 DEF TalkTypes, Sessions, Sound, Speaking, Talk!ProviderSessionAssumption, Talks
<1>3. PICK p \in talkTodo[w] :
        /\ talkTodo' = [talkTodo EXCEPT ![w] = @ \ {p}]
        /\ talkAsked' = [talkAsked EXCEPT ![w] = [name |-> None, conversation |-> None, provider |-> p]]
  BY DEF Talk!Attempt
<1>4. /\ talkAt' = [talkAt EXCEPT ![w] = "step"] /\ talkCalls' = [talkCalls EXCEPT ![w] = 0]
      /\ talkProgress' = [talkProgress EXCEPT ![w] = Talk!NoProgress]
      /\ talkBound' = [talkBound EXCEPT ![w] = TRUE]
      /\ talkGot' = [talkGot EXCEPT ![w] = None] /\ talkBegun' = [talkBegun EXCEPT ![w] = 0]
      /\ talkLate' = [talkLate EXCEPT ![w] = FALSE]
      /\ UNCHANGED <<talkOrphans, talkBridge, talkUpstream, talkCatalog>>
  BY DEF Talk!Attempt
<1>5. /\ talkSession' = [talkSession EXCEPT ![w] = s]
      /\ talkFile' = [talkFile EXCEPT ![w] = Talk!NoFiles]
  BY <1>1, <1>2 DEF Talk!Attempt, Talk!Slot, Talk!Mine
<1>6. s \in Sessions /\ s.open = TRUE /\ s.conversation = None /\ s.serial = talkSession[w].serial + 1
  BY <1>2 DEF Sessions
<1>7. [name |-> None, conversation |-> None, provider |-> p] \in Asked
  BY <1>1, <1>3 DEF TalkTypes, Asked
<1>8. Talk!NoProgress \in Progress /\ Talk!NoFiles \in Files
  BY DEF Talk!ProviderSessionAssumption, Talk!NoProgress, Talk!NoFiles, Progress, Files, Talk!MaxTries
<1> HIDE DEF s
<1>9. TalkTypes'
  <2>1. talkTodo' \in [Workers -> SUBSET Clients] /\ talkAsked' \in [Workers -> Asked \cup {None}]
    BY <1>1, <1>3, <1>7 DEF TalkTypes
  <2>2. /\ talkAt' \in [Workers -> Moments] /\ talkCalls' \in [Workers -> Nat]
        /\ talkProgress' \in [Workers -> Progress] /\ talkBound' \in [Workers -> BOOLEAN]
        /\ DOMAIN talkGot' = Workers /\ talkBegun' \in [Workers -> Nat] /\ talkLate' \in [Workers -> BOOLEAN]
    BY <1>1, <1>4, <1>8 DEF TalkTypes, Moments
  <2>3. talkSession' \in [Workers -> Sessions] /\ talkFile' \in [Workers -> Files]
    BY <1>1, <1>5, <1>6, <1>8 DEF TalkTypes
  <2> QED
    BY <1>1, <1>4, <2>1, <2>2, <2>3 DEF TalkTypes
<1>10. OnlyMoves(w)
  BY <1>1, <1>3, <1>4, <1>5 DEF TalkTypes, OnlyMoves
<1>11. /\ talkAt'[w] = "step" /\ talkSession'[w] = s /\ talkBegun'[w] = 0 /\ talkBound'[w] = TRUE
       /\ talkGot'[w] = None /\ talkAsked'[w] \in Asked
       /\ talkBridge'[w] = None /\ talkUpstream'[w] = None /\ talkOrphans' = talkOrphans
  <2>1. talkBridge[w] = None /\ talkUpstream[w] = None
    BY <1>1 DEF Sound, Wired
  <2> QED
    BY <1>1, <1>3, <1>4, <1>5, <1>7, <2>1 DEF TalkTypes
<1>12. Speaking(w)'
  BY <1>6, <1>11 DEF Speaking
<1>13. Bounded(w)' /\ Wired(w)'
  BY <1>11 DEF Bounded, Wired
<1>14. Heard(w)'
  <2>1. \A o \in talkOrphans : o.worker = w => o.serial \in Nat /\ o.serial <= talkSession[w].serial
    BY <1>1 DEF Sound, Heard, TalkTypes, Children
  <2>2. \A o \in talkOrphans : o.worker = w => o.serial <= s.serial /\ o.serial # s.serial
    BY <1>2, <1>6, <2>1
  <2> QED
    BY <1>11, <2>2 DEF Heard
<1> QED
  BY <1>9, <1>10, <1>12, <1>13, <1>14, OthersStay DEF Sound

LEMMA RoundsGoOn ==
  ASSUME Talk!ProviderSessionAssumption, TalkInv, NEW w \in Workers,
         Talk!Begin(w) \/ Talk!GiveUp(w) \/ Talk!Abandon(w) \/ Talk!ToolEnds(w)
  PROVE  TalkInv'
<1>1. /\ TalkTypes /\ Sound(w) /\ talkProgress[w] \in Progress /\ talkBound[w] \in BOOLEAN
  BY DEF TalkInv, TalkTypes
<1>2. CASE Talk!Begin(w)
  <2>1. /\ talkAt[w] = "idle" /\ talkAt' = [talkAt EXCEPT ![w] = "choose"]
        /\ talkTodo' = [talkTodo EXCEPT ![w] = Clients]
        /\ UNCHANGED <<talkAsked, talkCalls, talkProgress, talkBound, talkSession, talkFile, talkOrphans,
                       talkBridge, talkUpstream, talkCatalog, talkGot, talkBegun, talkLate>>
    BY <1>2 DEF Talk!Begin, Talk!ClientIo, Talk!History
  <2>2. TalkTypes' /\ OnlyMoves(w) /\ talkAt'[w] = "choose"
    BY <1>1, <2>1 DEF TalkTypes, OnlyMoves, Moments
  <2>3. ~talkBound[w]
    BY <1>1, <2>1 DEF Sound, Bounded
  <2> QED
    BY <2>1, <2>2, <2>3, BetweenCalls
<1>3. CASE Talk!GiveUp(w)
  <2>1. /\ talkAt[w] = "choose" /\ talkAt' = [talkAt EXCEPT ![w] = "idle"]
        /\ UNCHANGED <<talkTodo, talkAsked, talkCalls, talkProgress, talkBound, talkSession, talkFile,
                       talkOrphans, talkBridge, talkUpstream, talkCatalog, talkGot, talkBegun, talkLate>>
    BY <1>3 DEF Talk!GiveUp, Talk!ClientIo, Talk!History
  <2>2. TalkTypes' /\ OnlyMoves(w) /\ talkAt'[w] = "idle"
    BY <1>1, <2>1 DEF TalkTypes, OnlyMoves, Moments
  <2>3. ~talkBound[w]
    BY <1>1, <2>1 DEF Sound, Bounded
  <2> QED
    BY <2>1, <2>2, <2>3, BetweenCalls
<1>4. CASE Talk!Abandon(w)
  <2>1. /\ talkAt[w] = "unclear" /\ talkAt' = [talkAt EXCEPT ![w] = "tool"]
        /\ UNCHANGED <<talkTodo, talkAsked, talkCalls, talkProgress, talkBound, talkSession, talkFile,
                       talkOrphans, talkBridge, talkUpstream, talkCatalog, talkGot, talkBegun, talkLate>>
    BY <1>4 DEF Talk!Abandon, Talk!ClientIo, Talk!History
  <2>2. TalkTypes' /\ OnlyMoves(w) /\ talkAt'[w] = "tool"
    BY <1>1, <2>1 DEF TalkTypes, OnlyMoves, Moments
  <2>3. talkSession[w].conversation # None /\ talkProgress[w].steps < Steps
    BY <1>1, <2>1 DEF Sound, Bounded, Speaking
  <2> QED
    BY <2>1, <2>2, <2>3, BetweenCalls
<1>5. CASE Talk!ToolEnds(w)
  <2> DEFINE q == [talkProgress[w] EXCEPT !.steps = @ + 1]
  <2>1. /\ talkAt[w] = "tool" /\ talkProgress' = [talkProgress EXCEPT ![w].steps = @ + 1]
        /\ Talk!Stepped(w)
        /\ UNCHANGED <<talkTodo, talkAsked, talkCalls, talkSession, talkFile,
                       talkOrphans, talkBridge, talkUpstream, talkCatalog, talkGot, talkBegun, talkLate>>
    BY <1>5 DEF Talk!ToolEnds, Talk!ClientIo, Talk!History
  <2>2. talkSession[w].conversation # None /\ talkProgress[w].steps < Steps
    BY <1>1, <2>1 DEF Sound, Bounded, Speaking
  <2>3. q \in Progress
    BY <1>1, <2>2 DEF Progress, Talk!ProviderSessionAssumption
  <2>4. talkProgress' = [talkProgress EXCEPT ![w] = q]
    BY <2>1
  <2> HIDE DEF q
  <2>5. CASE talkAt' = [talkAt EXCEPT ![w] = "step"] /\ UNCHANGED talkBound
    <3>1. TalkTypes' /\ OnlyMoves(w) /\ talkAt'[w] = "step"
      BY <1>1, <2>1, <2>3, <2>4, <2>5 DEF TalkTypes, OnlyMoves, Moments
    <3> QED
      BY <2>1, <2>2, <3>1, BetweenCalls
  <2>6. CASE talkAt' = [talkAt EXCEPT ![w] = "final"] /\ talkBound' = [talkBound EXCEPT ![w] = FALSE]
    <3>1. TalkTypes' /\ OnlyMoves(w) /\ talkAt'[w] = "final"
      BY <1>1, <2>1, <2>3, <2>4, <2>6 DEF TalkTypes, OnlyMoves, Moments
    <3>2. talkBound'[w] = FALSE
      BY <1>1, <2>6 DEF TalkTypes
    <3> QED
      BY <2>1, <2>2, <3>1, <3>2, BetweenCalls
  <2> QED
    BY <2>1, <2>5, <2>6 DEF Talk!Stepped, Talk!LoopEnds
<1> QED
  BY <1>2, <1>3, <1>4, <1>5

(* A deleted decision ends the round where it stands.                       *)
LEMMA CancelHandled ==
  ASSUME Talk!ProviderSessionAssumption, TalkInv, NEW w \in Workers,
         talkAt[w] \in {"step", "final"}, Talk!Close(w),
         NEW a \in {"idle", "choose"}, talkAt' = [talkAt EXCEPT ![w] = a],
         UNCHANGED <<talkTodo, talkAsked, talkCalls, talkProgress, talkOrphans, talkBridge, talkUpstream,
                     talkCatalog, talkGot, talkBegun, talkLate>>
  PROVE  TalkInv'
<1>1. TalkTypes /\ Sound(w)
  BY DEF TalkInv
<1>2. /\ talkSession' \in [Workers -> Sessions] /\ talkFile' \in [Workers -> Files]
      /\ talkBound' \in [Workers -> BOOLEAN]
      /\ talkSession'[w].open = FALSE /\ talkSession'[w].conversation = None
      /\ talkSession'[w].serial = talkSession[w].serial /\ talkBound'[w] = FALSE
      /\ \A x \in Workers : x # w => /\ talkSession'[x] = talkSession[x] /\ talkFile'[x] = talkFile[x]
                                     /\ talkBound'[x] = talkBound[x]
  BY <1>1, Closed
<1>3. TalkTypes' /\ OnlyMoves(w) /\ talkAt'[w] = a
  BY <1>1, <1>2 DEF TalkTypes, OnlyMoves, Moments
<1>4. /\ talkGot[w] # None => talkGot[w] = talkCalls[w] \/ talkLate[w]
      /\ talkBridge[w] = None /\ talkUpstream[w] = None
  BY <1>1 DEF Sound, Heard, Wired
<1> QED
  BY <1>2, <1>3, <1>4, AttemptOver

LEMMA CatalogRead ==
  ASSUME Talk!ProviderSessionAssumption, TalkInv, NEW w \in Workers, Talk!ReadCatalog(w)
  PROVE  TalkInv'
<1>1. /\ talkAt[w] = "step"
      /\ UNCHANGED <<talkTodo, talkAsked, talkCalls, talkProgress, talkOrphans, talkBridge, talkUpstream,
                     talkGot, talkBegun, talkLate>>
      /\ \/ talkCatalog' = TRUE /\ UNCHANGED <<talkAt, talkSession, talkFile, talkBound>>
         \/ /\ talkAt' = [talkAt EXCEPT ![w] = "choose"] /\ Talk!Close(w) /\ UNCHANGED talkCatalog
  BY DEF Talk!ReadCatalog, Talk!History
<1>2. CASE talkCatalog' = TRUE /\ UNCHANGED <<talkAt, talkSession, talkFile, talkBound>>
  <2>1. TalkTypes'
    BY <1>1, <1>2 DEF TalkInv, TalkTypes
  <2>2. ASSUME NEW x \in Workers PROVE Sound(x)'
    BY <1>1, <1>2 DEF TalkInv, Sound, Speaking, Bounded, Wired, Heard
  <2> QED
    BY <2>1, <2>2 DEF TalkInv
<1>3. CASE talkAt' = [talkAt EXCEPT ![w] = "choose"] /\ Talk!Close(w) /\ UNCHANGED talkCatalog
  BY <1>1, <1>3, CancelHandled
<1> QED
  BY <1>1, <1>2, <1>3

LEMMA CallsBegin ==
  ASSUME Talk!ProviderSessionAssumption, TalkInv, NEW w \in Workers,
         Talk!AskStep(w) \/ Talk!AskBack(w) \/ Talk!AskFinal(w)
  PROVE  TalkInv'
<1>1. /\ TalkTypes /\ Sound(w) /\ talkProgress[w] \in Progress
      /\ talkProgress = [talkProgress EXCEPT ![w] = talkProgress[w]]
      /\ {"agent_control", "plugin_consultation", "trade_decision"} = Talk!Names
  BY DEF TalkInv, TalkTypes, Talk!Names
<1>2. CASE Talk!AskStep(w)
  <2>1. /\ talkAt[w] = "step" /\ talkProgress[w].steps < Steps /\ Talk!Call(w, "agent_control")
        /\ UNCHANGED <<talkTodo, talkProgress, talkBound, talkSession, talkOrphans, talkUpstream,
                       talkCatalog, talkLate>>
    BY <1>2 DEF Talk!AskStep
  <2> QED
    BY <1>1, <2>1, CallStarts
<1>3. CASE Talk!AskFinal(w)
  <2>1. /\ talkAt[w] = "final" /\ Talk!Call(w, "trade_decision")
        /\ UNCHANGED <<talkTodo, talkProgress, talkBound, talkSession, talkOrphans, talkUpstream,
                       talkCatalog, talkLate>>
    BY <1>3 DEF Talk!AskFinal
  <2> QED
    BY <1>1, <2>1, CallStarts
<1>4. CASE Talk!AskBack(w)
  <2>1. /\ talkAt[w] \in {"tool", "unclear"} /\ Talk!Call(w, "plugin_consultation")
        /\ UNCHANGED <<talkTodo, talkBound, talkSession, talkOrphans, talkUpstream, talkCatalog, talkLate>>
    BY <1>4 DEF Talk!AskBack
  <2>2. talkProgress[w].steps < Steps
    BY <1>1, <2>1 DEF Sound, Bounded
  <2>3. CASE /\ talkProgress[w].asks < MaxAsks
             /\ talkProgress' = [talkProgress EXCEPT ![w].asks = @ + 1, ![w].tries = 1]
    <3> DEFINE q == [talkProgress[w] EXCEPT !.asks = @ + 1, !.tries = 1]
    <3>1. q \in Progress /\ q.steps = talkProgress[w].steps
      <4>1. 1 \in 0..Talk!MaxTries /\ talkProgress[w].asks + 1 \in 0..MaxAsks
        BY <1>1, <2>3 DEF Progress, Talk!ProviderSessionAssumption, Talk!MaxTries
      <4> QED
        BY <1>1, <4>1 DEF Progress
    <3>2. talkProgress' = [talkProgress EXCEPT ![w] = q]
      BY <1>1, <2>3 DEF TalkTypes
    <3> HIDE DEF q
    <3> QED
      BY <1>1, <2>1, <2>2, <3>1, <3>2, CallStarts
  <2>4. CASE /\ talkProgress[w].tries < Talk!MaxTries
             /\ talkProgress' = [talkProgress EXCEPT ![w].tries = @ + 1]
    <3> DEFINE q == [talkProgress[w] EXCEPT !.tries = @ + 1]
    <3>1. q \in Progress /\ q.steps = talkProgress[w].steps
      BY <1>1, <2>4 DEF Progress, Talk!ProviderSessionAssumption, Talk!MaxTries
    <3>2. talkProgress' = [talkProgress EXCEPT ![w] = q]
      BY <1>1, <2>4 DEF TalkTypes
    <3> HIDE DEF q
    <3> QED
      BY <1>1, <2>1, <2>2, <3>1, <3>2, CallStarts
  <2> QED
    BY <1>4, <2>3, <2>4 DEF Talk!AskBack
<1> QED
  BY <1>2, <1>3, <1>4

(* Whatever of a request is dropped or renamed, the schema stays, and every *)
(* tool is named to the client as it was declared.                          *)
LEMMA AdaptedIsFaithful ==
  ASSUME Talk!ProviderSessionAssumption, NEW b \in Bodies, NEW p
  PROVE  /\ "schema" \in b => "schema" \in Talk!Adapted(b, p)
         /\ {Talk!Restored(f) : f \in Talk!Adapted(b, p)} \subseteq b
<1>1. /\ DOMAIN Talk!Ours = {"namespace", "web_search", "web_fetch"}
      /\ \A f, g \in DOMAIN Talk!Ours : Talk!Ours[f] = Talk!Ours[g] => f = g
  BY DEF Talk!Ours
<1>2. \A g \in DOMAIN Talk!Ours : Talk!Ours[g] \notin b
  <2>1. b \cap {Talk!Ours[g] : g \in DOMAIN Talk!Ours} = {}
    BY DEF Talk!ProviderSessionAssumption
  <2> QED
    BY <2>1
<1>3. ASSUME NEW f \in b PROVE Talk!Restored(Talk!Renamed(f)) = f
  <2>1. CASE f \in DOMAIN Talk!Ours \ Advertised
    <3>1. Talk!Renamed(f) = Talk!Ours[f]
      BY <2>1 DEF Talk!Renamed
    <3>2. (CHOOSE g \in DOMAIN Talk!Ours : Talk!Ours[g] = Talk!Ours[f]) = f
      BY <1>1, <2>1
    <3> QED
      BY <2>1, <3>1, <3>2 DEF Talk!Restored
  <2>2. CASE ~(f \in DOMAIN Talk!Ours \ Advertised)
    BY <1>2, <2>2 DEF Talk!Renamed, Talk!Restored
  <2> QED
    BY <2>1, <2>2
<1>4. "schema" \notin Talk!Dropped(p) /\ Talk!Renamed("schema") = "schema"
  <2>1. "schema" \notin Talk!Transport
    BY DEF Talk!Transport
  <2> QED
    BY <1>1, <2>1 DEF Talk!Dropped, Talk!Renamed
<1>5. \A f \in Talk!Adapted(b, p) : Talk!Restored(f) \in b
  BY <1>3 DEF Talk!Adapted
<1> QED
  BY <1>4, <1>5 DEF Talk!Adapted

LEMMA RequestsPass ==
  ASSUME Talk!ProviderSessionAssumption, TalkInv, NEW w \in Workers,
         Talk!Post(w) \/ Talk!NoEndpoints(w) \/ Talk!Replied(w)
  PROVE  TalkInv'
<1>1. TalkTypes /\ Sound(w)
  BY DEF TalkInv
<1>2. /\ talkAt[w] = "calling"
      /\ UNCHANGED <<talkAt, talkTodo, talkAsked, talkCalls, talkProgress, talkBound, talkSession, talkFile,
                     talkOrphans, talkBridge, talkCatalog, talkGot, talkBegun, talkLate>>
  BY <1>1 DEF Talk!Post, Talk!NoEndpoints, Talk!Replied, Talk!History, Sound, Wired
<1>3. \E u : talkUpstream' = [talkUpstream EXCEPT ![w] = u] /\ (u # None => Faithful(u))
  <2>1. CASE Talk!Post(w)
    <3>1. PICK b \in Bodies :
            talkUpstream' = [talkUpstream EXCEPT ![w] =
              [strict |-> TRUE, body |-> Talk!Adapted(b, talkAsked[w].provider), declared |-> b]]
      BY <2>1 DEF Talk!Post
    <3>2. Faithful([strict |-> TRUE, body |-> Talk!Adapted(b, talkAsked[w].provider), declared |-> b])
      BY AdaptedIsFaithful DEF Faithful
    <3> QED
      BY <3>1, <3>2
  <2>2. CASE Talk!NoEndpoints(w)
    <3> DEFINE u == [talkUpstream[w] EXCEPT !.strict = FALSE]
    <3>1. talkUpstream' = [talkUpstream EXCEPT ![w] = u] /\ talkUpstream[w] # None
      BY <2>2 DEF Talk!NoEndpoints
    <3>2. Faithful(talkUpstream[w])
      BY <1>1, <3>1 DEF Sound, Wired
    <3>3. Faithful(u)
      BY <3>2 DEF Faithful
    <3> HIDE DEF u
    <3> QED
      BY <3>1, <3>3
  <2>3. CASE Talk!Replied(w)
    BY <2>3 DEF Talk!Replied
  <2> QED
    BY <2>1, <2>2, <2>3
<1>4. PICK u : talkUpstream' = [talkUpstream EXCEPT ![w] = u] /\ (u # None => Faithful(u))
  BY <1>3
<1>5. TalkTypes' /\ OnlyMoves(w) /\ talkUpstream'[w] = u
  BY <1>1, <1>2, <1>4 DEF TalkTypes, OnlyMoves
<1>6. Speaking(w)' /\ Bounded(w)' /\ Heard(w)'
  BY <1>1, <1>2 DEF Sound, Speaking, Bounded, Heard
<1>7. Wired(w)'
  <2>1. talkUpstream'[w] # None => Faithful(talkUpstream'[w])
    BY <1>4, <1>5
  <2>2. Faithful(talkUpstream[w])' = Faithful(talkUpstream'[w])
    BY DEF Faithful
  <2> QED
    BY <1>1, <1>2, <2>1, <2>2 DEF Sound, Wired
<1> QED
  BY <1>5, <1>6, <1>7, OthersStay DEF Sound

(* The client leaves the answer to its own call, or nothing.                *)
LEMMA ExitHandled ==
  ASSUME Talk!ProviderSessionAssumption, TalkInv, NEW w \in Workers, Talk!ClientExits(w)
  PROVE  TalkInv'
<1>1. /\ TalkTypes /\ Sound(w) /\ talkAt[w] = "calling" /\ talkUpstream[w] = None
      /\ talkAt' = [talkAt EXCEPT ![w] = "exited"]
      /\ UNCHANGED <<talkTodo, talkAsked, talkCalls, talkProgress, talkBound, talkSession, talkOrphans,
                     talkBridge, talkUpstream, talkCatalog, talkGot, talkBegun, talkLate>>
  BY DEF TalkInv, Talk!ClientExits, Talk!History
<1>2. /\ talkAsked[w].name \in Talk!Names /\ talkFile[w] \in Files /\ talkCalls[w] \in Nat
  BY <1>1 DEF Sound, Speaking, TalkTypes
<1>3. PICK wrote \in BOOLEAN :
        talkFile' = [talkFile EXCEPT ![w][talkAsked[w].name] =
                       IF wrote /\ talkAsked[w].provider.cli = "codex" THEN talkCalls[w] ELSE @]
  BY DEF Talk!ClientExits, Talk!Slot
<1> DEFINE v == IF wrote /\ talkAsked[w].provider.cli = "codex" THEN talkCalls[w]
                ELSE talkFile[w][talkAsked[w].name]
           f == [talkFile[w] EXCEPT ![talkAsked[w].name] = v]
<1>4. v \in Nat \cup {None} /\ v \in {talkCalls[w], talkFile[w][talkAsked[w].name]}
  BY <1>2 DEF Files
<1>5. talkFile' = [talkFile EXCEPT ![w] = f]
  BY <1>1, <1>3 DEF TalkTypes
<1> HIDE DEF v
<1>6. f \in Files /\ f[talkAsked[w].name] = v
  BY <1>2, <1>4 DEF Files
<1> HIDE DEF f
<1>7. TalkTypes' /\ OnlyMoves(w) /\ talkAt'[w] = "exited" /\ talkFile'[w] = f
  BY <1>1, <1>5, <1>6 DEF TalkTypes, OnlyMoves, Moments
<1>8. Speaking(w)' /\ Bounded(w)' /\ Wired(w)'
  BY <1>1, <1>7 DEF Sound, Speaking, Bounded, Wired
<1>9. Heard(w)'
  BY <1>1, <1>4, <1>6, <1>7 DEF Sound, Heard
<1> QED
  BY <1>7, <1>8, <1>9, OthersStay DEF Sound

(* A child that lived on writes over an answer of its own attempt only.     *)
LEMMA OrphanHandled ==
  ASSUME Talk!ProviderSessionAssumption, TalkInv, Talk!OrphanWrites
  PROVE  TalkInv'
<1>1. PICK o \in talkOrphans :
        /\ talkOrphans' = talkOrphans \ {o}
        /\ talkFile' = IF talkSession[o.worker].open /\ talkSession[o.worker].serial = o.serial
                          /\ talkAsked[o.worker].provider.cli = "codex"
                       THEN [talkFile EXCEPT ![o.worker][o.name] = o.n] ELSE talkFile
  BY DEF Talk!OrphanWrites, Talk!Slot
<1>2. UNCHANGED <<talkAt, talkTodo, talkAsked, talkCalls, talkProgress, talkBound, talkSession, talkBridge,
                  talkUpstream, talkCatalog, talkGot, talkBegun, talkLate>>
  BY DEF Talk!OrphanWrites, Talk!History
<1> DEFINE w == o.worker
<1>3. /\ TalkTypes /\ w \in Workers /\ o.name \in Talk!Names /\ o.n \in Nat /\ Sound(w)
      /\ talkFile[w] \in Files
  BY DEF TalkInv, TalkTypes, Children
<1>4. /\ talkFile' \in [Workers -> Files]
      /\ \A x \in Workers : x # w => talkFile'[x] = talkFile[x]
      /\ talkFile'[w] = talkFile[w] \/ talkLate[w]
  <2>1. CASE talkFile' = talkFile
    BY <1>3, <2>1 DEF TalkTypes
  <2>2. CASE /\ talkSession[w].serial = o.serial
             /\ talkFile' = [talkFile EXCEPT ![w][o.name] = o.n]
    <3> DEFINE f == [talkFile[w] EXCEPT ![o.name] = o.n]
    <3>1. f \in Files
      BY <1>3 DEF Files
    <3>2. talkFile' = [talkFile EXCEPT ![w] = f]
      BY <2>2
    <3>3. talkLate[w]
      BY <1>3, <2>2 DEF Sound, Heard
    <3> HIDE DEF f, w
    <3> QED
      BY <1>3, <3>1, <3>2, <3>3 DEF TalkTypes
  <2> QED
    BY <1>1, <2>1, <2>2
<1> HIDE DEF w
<1>5. TalkTypes' /\ OnlyMoves(w)
  BY <1>1, <1>2, <1>3, <1>4 DEF TalkTypes, OnlyMoves
<1>6. Speaking(w)' /\ Bounded(w)' /\ Wired(w)'
  BY <1>2, <1>3 DEF Sound, Speaking, Bounded, Wired
<1>7. Heard(w)'
  BY <1>1, <1>2, <1>3, <1>4 DEF Sound, Heard
<1> QED
  BY <1>3, <1>5, <1>6, <1>7, OthersStay DEF Sound

(* What is read answers the call it is read for; the session remembers its  *)
(* first answered call's conversation, and the last answer ends it.         *)
LEMMA AnswerHandled ==
  ASSUME Talk!ProviderSessionAssumption, TalkInv, NEW w \in Workers, Talk!CallAnswers(w)
  PROVE  TalkInv'
<1> DEFINE g == Talk!Answer(w)
<1>1. /\ TalkTypes /\ Sound(w) /\ talkAt[w] = "exited" /\ talkGot' = [talkGot EXCEPT ![w] = g]
      /\ g # None /\ Talk!Hangup(w)
      /\ UNCHANGED <<talkTodo, talkAsked, talkCalls, talkOrphans, talkCatalog, talkBegun, talkLate>>
  BY DEF TalkInv, Talk!CallAnswers
<1>2. g = talkCalls[w] \/ talkLate[w]
  BY <1>1 DEF Talk!Answer, Talk!Written, Talk!Spoken, Talk!Slot, Sound, Heard
<1> HIDE DEF g
<1>3. /\ talkBridge' \in [Workers -> Nat \cup {None}] /\ DOMAIN talkUpstream' = Workers
      /\ talkBridge'[w] = None /\ talkUpstream'[w] = None
      /\ \A x \in Workers : x # w => talkBridge'[x] = talkBridge[x] /\ talkUpstream'[x] = talkUpstream[x]
  BY <1>1, HungUp
<1>4. /\ DOMAIN talkGot' = Workers /\ talkGot'[w] = g
      /\ \A x \in Workers : x # w => talkGot'[x] = talkGot[x]
  BY <1>1 DEF TalkTypes
<1>5. CASE /\ talkAsked[w].name = "trade_decision" /\ Talk!Close(w)
           /\ talkAt' = [talkAt EXCEPT ![w] = "idle"] /\ UNCHANGED talkProgress
  <2>1. /\ talkSession' \in [Workers -> Sessions] /\ talkFile' \in [Workers -> Files]
        /\ talkBound' \in [Workers -> BOOLEAN]
        /\ talkSession'[w].open = FALSE /\ talkSession'[w].conversation = None
        /\ talkSession'[w].serial = talkSession[w].serial /\ talkBound'[w] = FALSE
        /\ \A x \in Workers : x # w => /\ talkSession'[x] = talkSession[x] /\ talkFile'[x] = talkFile[x]
                                       /\ talkBound'[x] = talkBound[x]
    BY <1>1, <1>5, Closed
  <2>2. TalkTypes' /\ OnlyMoves(w) /\ talkAt'[w] = "idle"
    BY <1>1, <1>3, <1>4, <1>5, <2>1 DEF TalkTypes, OnlyMoves, Moments
  <2> QED
    BY <1>1, <1>2, <1>3, <1>4, <2>1, <2>2, AttemptOver
<1>6. ASSUME talkAsked[w].name \in {"agent_control", "plugin_consultation"}, talkSession' = Talk!Remembered(w),
             UNCHANGED talkFile, NEW a \in {"step", "tool", "unclear", "final"},
             talkAt' = [talkAt EXCEPT ![w] = a],
             NEW q \in Progress, talkProgress' = [talkProgress EXCEPT ![w] = q],
             a \in {"tool", "unclear"} => q.steps < Steps,
             \/ UNCHANGED talkBound /\ a # "final"
             \/ talkBound' = [talkBound EXCEPT ![w] = FALSE]
             \/ UNCHANGED talkBound /\ talkBound[w] = FALSE
      PROVE  TalkInv'
  <2> DEFINE c == IF talkSession[w].conversation = None THEN talkAsked[w].conversation
                  ELSE talkSession[w].conversation
             s == [talkSession[w] EXCEPT !.conversation = c]
  <2>1. /\ talkSession[w] \in Sessions /\ talkSession[w].open
        /\ c = <<w, talkSession[w].serial>> /\ c \in Talks
    <3>1. talkSession[w] \in Sessions /\ talkSession[w].serial \in Nat
      BY <1>1 DEF TalkTypes, Sessions
    <3>2. /\ talkSession[w].open /\ talkAsked[w].conversation = <<w, talkSession[w].serial>>
          /\ talkSession[w].conversation \in {None, <<w, talkSession[w].serial>>}
      BY <1>1 DEF Sound, Speaking
    <3>3. <<w, talkSession[w].serial>> \in Talks
      BY <3>1 DEF Talks
    <3> QED
      BY <3>1, <3>2, <3>3
  <2>2. talkSession' = [talkSession EXCEPT ![w] = s]
    BY <1>1, <1>6 DEF Talk!Remembered, Talk!Slot, TalkTypes
  <2> HIDE DEF c
  <2>3. s \in Sessions /\ s.open = talkSession[w].open /\ s.serial = talkSession[w].serial /\ s.conversation = c
    BY <2>1 DEF Sessions
  <2> HIDE DEF s
  <2>4. /\ talkBound' \in [Workers -> BOOLEAN] /\ (a = "final" => talkBound'[w] = FALSE)
        /\ \A x \in Workers : x # w => talkBound'[x] = talkBound[x]
    BY <1>1, <1>6 DEF TalkTypes
  <2>5. /\ talkAt' \in [Workers -> Moments] /\ talkAt'[w] = a
        /\ talkSession' \in [Workers -> Sessions] /\ talkSession'[w] = s
        /\ talkProgress' \in [Workers -> Progress] /\ talkProgress'[w] = q
    BY <1>1, <1>6, <2>2, <2>3 DEF TalkTypes, Moments
  <2>6. TalkTypes'
    BY <1>1, <1>3, <1>4, <1>6, <2>4, <2>5 DEF TalkTypes
  <2>7. OnlyMoves(w)
    BY <1>1, <1>3, <1>4, <1>6, <2>2, <2>4 DEF TalkTypes, OnlyMoves
  <2> QED
    BY <1>1, <1>2, <1>3, <1>4, <1>6, <2>1, <2>3, <2>4, <2>5, <2>6, <2>7, CallOver
<1>7. /\ talkProgress[w] \in Progress /\ talkBound[w] \in BOOLEAN
      /\ talkProgress = [talkProgress EXCEPT ![w] = talkProgress[w]]
      /\ talkAsked[w].name # "trade_decision" => talkProgress[w].steps < Steps
      /\ talkAsked[w].name \in Talk!Names
  BY <1>1 DEF TalkTypes, Sound, Bounded, Speaking
<1>8. CASE /\ talkAsked[w].name = "plugin_consultation" /\ Talk!Consulted(w)
           /\ talkSession' = Talk!Remembered(w) /\ UNCHANGED talkFile
  <2>1. PICK a \in {"tool", "unclear"} : talkAt' = [talkAt EXCEPT ![w] = a]
    BY <1>8 DEF Talk!Consulted
  <2>2. UNCHANGED <<talkBound, talkProgress>>
    BY <1>8 DEF Talk!Consulted
  <2> QED
    BY <1>6, <1>7, <1>8, <2>1, <2>2
<1>9. CASE /\ talkAsked[w].name = "agent_control" /\ Talk!Controlled(w)
           /\ talkSession' = Talk!Remembered(w) /\ UNCHANGED talkFile
  <2>1. CASE Talk!LoopEnds(w) /\ UNCHANGED talkProgress
    BY <1>6, <1>7, <1>9, <2>1 DEF Talk!LoopEnds
  <2>2. CASE /\ talkAt' = [talkAt EXCEPT ![w] = "tool"] /\ UNCHANGED talkBound
             /\ talkProgress' = [talkProgress EXCEPT ![w].asks = 0]
    <3> DEFINE q == [talkProgress[w] EXCEPT !.asks = 0]
    <3>1. q \in Progress /\ q.steps = talkProgress[w].steps
      BY <1>7 DEF Progress, Talk!ProviderSessionAssumption
    <3>2. talkProgress' = [talkProgress EXCEPT ![w] = q]
      BY <2>2
    <3> HIDE DEF q
    <3> QED
      BY <1>6, <1>7, <1>9, <2>2, <3>1, <3>2
  <2>3. CASE Talk!Stepped(w) /\ talkProgress' = [talkProgress EXCEPT ![w].steps = @ + 1]
    <3> DEFINE q == [talkProgress[w] EXCEPT !.steps = @ + 1]
    <3>1. q \in Progress
      <4>1. talkProgress[w].steps + 1 \in 0..Steps
        BY <1>7, <1>9 DEF Progress, Talk!ProviderSessionAssumption
      <4> QED
        BY <1>7, <4>1 DEF Progress
    <3>2. talkProgress' = [talkProgress EXCEPT ![w] = q]
      BY <2>3
    <3> HIDE DEF q
    <3>3. CASE talkAt' = [talkAt EXCEPT ![w] = "step"] /\ UNCHANGED talkBound
      BY <1>6, <1>9, <3>1, <3>2, <3>3
    <3>4. CASE Talk!LoopEnds(w)
      BY <1>6, <1>9, <3>1, <3>2, <3>4 DEF Talk!LoopEnds
    <3> QED
      BY <2>3, <3>3, <3>4 DEF Talk!Stepped
  <2> QED
    BY <1>9, <2>1, <2>2, <2>3 DEF Talk!Controlled
<1> QED
  BY <1>5, <1>8, <1>9 DEF Talk!CallAnswers

LEMMA TalkStep ==
  ASSUME Talk!ProviderSessionAssumption, TalkInv, [Talk!Next]_Talk!vars
  PROVE  TalkInv'
<1>1. ASSUME UNCHANGED Talk!vars PROVE TalkInv'
  <2>1. UNCHANGED <<talkAt, talkTodo, talkAsked, talkCalls, talkProgress, talkBound, talkSession, talkFile,
                    talkOrphans, talkBridge, talkUpstream, talkCatalog, talkGot, talkBegun, talkLate>>
    BY <1>1 DEF Talk!vars
  <2>2. TalkTypes'
    BY <2>1 DEF TalkInv, TalkTypes
  <2>3. ASSUME NEW x \in Workers PROVE Sound(x)'
    BY <2>1 DEF TalkInv, Sound, Speaking, Bounded, Wired, Heard
  <2> QED
    BY <2>2, <2>3 DEF TalkInv
<1>2. ASSUME NEW w \in Workers, Talk!Cancelled(w) PROVE TalkInv'
  <2>1. /\ talkAt[w] \in {"step", "final"} /\ Talk!Close(w) /\ talkAt' = [talkAt EXCEPT ![w] = "idle"]
        /\ UNCHANGED <<talkTodo, talkAsked, talkCalls, talkProgress, talkOrphans, talkBridge, talkUpstream,
                       talkCatalog, talkGot, talkBegun, talkLate>>
    BY <1>2 DEF Talk!Cancelled, Talk!History
  <2> QED
    BY <2>1, CancelHandled
<1> QED
  BY <1>1, <1>2, OrphanHandled, RoundsGoOn, AttemptStarts, CatalogRead, CallsBegin, RequestsPass,
     ExitHandled, TimeOutHandled, CallFailureHandled, AnswerHandled DEF Talk!Next

LEMMA TalkHolds ==
  ASSUME Talk!ProviderSessionAssumption, TalkInv
  PROVE  Talk!RoundsKeepToThemselves
<1>1. Talk!TypeOK
  <2>1. talkAt \in [Workers -> {"idle", "choose", "step", "calling", "exited", "tool", "unclear", "final"}]
        /\ talkCatalog \in BOOLEAN
    BY DEF TalkInv, TalkTypes, Moments
  <2>2. ASSUME NEW w \in Workers
        PROVE  /\ talkTodo[w] \subseteq Clients /\ talkCalls[w] \in Nat
               /\ talkFile[w] \in [Talk!Names -> Nat \cup {None}]
               /\ talkUpstream[w] # None => talkAt[w] = "calling"
    BY DEF TalkInv, TalkTypes, Sound, Wired, Files
  <2>3. ASSUME NEW w \in Workers
        PROVE  /\ talkProgress[w].steps \in 0..Steps /\ talkProgress[w].asks \in 0..MaxAsks
               /\ talkProgress[w].tries \in 0..Talk!MaxTries
    BY DEF TalkInv, TalkTypes, Progress
  <2> QED
    BY <2>1, <2>2, <2>3 DEF Talk!TypeOK
<1>2. ASSUME NEW w \in Workers
      PROVE  /\ talkBegun[w] <= 1
             /\ talkAt[w] \in {"calling", "exited"} => talkAsked[w].conversation = Talk!Fresh(w)
             /\ talkBound[w] => talkAt[w] \notin {"idle", "choose", "final"} /\ Talk!Mine(w).open
    BY DEF TalkInv, Sound, Speaking, Bounded, Talk!Fresh, Talk!Mine, Talk!Slot
<1>3. ASSUME NEW w \in Workers
      PROVE  /\ talkBridge[w] # None => talkAt[w] \in {"calling", "exited"} /\ talkBridge[w] = talkCalls[w]
             /\ talkUpstream[w] # None =>
                  /\ "schema" \in talkUpstream[w].declared => "schema" \in talkUpstream[w].body
                  /\ {Talk!Restored(f) : f \in talkUpstream[w].body} \subseteq talkUpstream[w].declared
             /\ talkGot[w] # None => talkGot[w] = talkCalls[w] \/ talkLate[w]
    BY DEF TalkInv, Sound, Wired, Faithful, Heard
<1> QED
  BY <1>1, <1>2, <1>3 DEF Talk!RoundsKeepToThemselves

LEMMA ConversationsAreOwn ==
  ASSUME Talk!ProviderSessionAssumption
  PROVE  Talk!Spec => []Talk!RoundsKeepToThemselves
<1>1. Talk!Init => TalkInv
  BY TalkStart
<1>2. TalkInv /\ [Talk!Next]_Talk!vars => TalkInv'
  BY TalkStep
<1>3. TalkInv => Talk!RoundsKeepToThemselves
  BY TalkHolds
<1> QED
  BY <1>1, <1>2, <1>3, PTL DEF Talk!Spec

----------------------------------------------------------------------------
(* ---- Side by side ---- *)

(* One machine moves and the others stay, so every behaviour is one of each.*)
LEMMA EachPartRuns == DecidingSpec => Spec /\ Talk!Spec /\ Pool!Spec
<1>1. DecidingInit => Init /\ Talk!Init /\ Pool!Init
  BY DEF DecidingInit
<1>2. [DecidingNext]_decidingVars => [Next]_vars
  BY DEF DecidingNext, decidingVars
<1>3. [DecidingNext]_decidingVars => [Talk!Next]_Talk!vars
  BY DEF DecidingNext, decidingVars, talkVars, Talk!vars
<1>4. [DecidingNext]_decidingVars => [Pool!Next]_Pool!vars
  BY DEF DecidingNext, decidingVars, poolVars, Pool!vars
<1> QED
  BY <1>1, <1>2, <1>3, <1>4, PTL DEF DecidingSpec, Spec, Talk!Spec, Pool!Spec

(* What the plugins were last told is what the watch believes, unless that  *)
(* very announcement was overtaken by the other thread's; the operator's    *)
(* recheck and the watch may check, store and announce at the same time     *)
(* (runtime/decision_capacity.py:110-144).                                  *)
THEOREM PluginsAreHeard == DecidingSpec => []PluginsHeard
<1>1. Pool!PluginsHeard => PluginsHeard
  BY DEF PluginsHeard
<1> QED
  BY <1>1, BelievedIsHeard, EachPartRuns, PTL

(* With one caller at a time, and no recheck beside the watch's own check,  *)
(* whoever is asked has served the backoff of its failures and was          *)
(* confirmed back (agent/decision.py:557-559).                              *)
THEOREM OnlyTheDueAreAsked ==
  ASSUME ~Overlapping, \A c, d \in Callers : c = d
  PROVE  DecidingSpec => AskedWhenDue
BY DueAreAsked, EachPartRuns, PTL DEF AskedWhenDue

(* One round is one conversation, its own; a bridge listens for the call in *)
(* progress alone and loses nothing the client declared; and the answer     *)
(* that is read answers the call it is read for, but for a child of this    *)
(* very attempt that lived on (agent/decision.py:520-592).                  *)
THEOREM RoundsAreTheirOwn == DecidingSpec => []RoundsKeepToThemselves
<1>1. Talk!ProviderSessionAssumption
  BY DecidingAssumption
<1>2. Talk!RoundsKeepToThemselves => RoundsKeepToThemselves
  BY DEF RoundsKeepToThemselves
<1> QED
  BY <1>1, <1>2, ConversationsAreOwn, EachPartRuns, PTL
==============================================================================
