------------------------------ MODULE Evaluators ------------------------------
(***************************************************************************)
(* The pool of screening evaluators (agent/decision_evaluator.py), the gate *)
(* in front of the one GPU of LAYA (plugins/evaluators/laya.py) and the     *)
(* attempts of one typed request (plugins/evaluators/jev.py).  Several      *)
(* threads ask the same pool: the screening worker, a round that checks     *)
(* facts, the health of the providers naming a failure.                     *)
(***************************************************************************)
EXTENDS Naturals, Sequences, SequencesExt, FiniteSets

CONSTANTS
  Callers,
  Kinds,        \* of questions: candidates to assess, markets to screen, facts to check
  QueueLimit,   \* 64 in the code
  Attempts,     \* attempts at one request, 3 in the code
  Batches,      \* requests that one list of candidates takes
  None

EvaluatorsAssumption ==
  /\ \A n \in {QueueLimit, Attempts, Batches} : n \in Nat \ {0}
  /\ None \notin {"nothing", "error"}

Pool == {"laya", "jev"}

VARIABLES
  cooling,  \* the evaluators left alone for a while after a failure
  queue,    \* tickets at LAYA's gate, the holder first
  active,   \* somebody holds the gate
  closed,   \* the plugin was torn down
  call      \* caller -> [at, kind, left: still to be asked, batch, tries, late, result]

vars == <<cooling, queue, active, closed, call>>
gate == <<queue, active, closed>>

Resting == [at |-> "idle", kind |-> "candidates", left |-> <<>>, batch |-> 1,
            tries |-> 0, late |-> FALSE, result |-> None]
Asking(c) == Head(call[c].left)
Sending == {c \in Callers : call[c].at = "sending" /\ Asking(c) = "laya"}

Calls == [at : {"idle", "pool", "queued", "sending"}, kind : Kinds \cup {"candidates"}, left : Seq(Pool),
          batch : 1..Batches, tries : 0..(Attempts - 1), late : BOOLEAN, result : {None, "nothing", "error"}]

TypeOK ==
  /\ cooling \subseteq Pool /\ queue \in Seq(Callers) /\ active \in BOOLEAN /\ closed \in BOOLEAN
  /\ call \in [Callers -> Calls]

Init ==
  /\ cooling = {} /\ queue = <<>> /\ active = FALSE
  /\ closed = FALSE /\ call = [c \in Callers |-> Resting]

(* By quality, which moves between two calls, or as configured; without those cooling down. *)
Orders == SetToSeqs(Pool \ cooling)

Ask(c, kind) ==
  /\ call[c].at = "idle"
  /\ \E order \in Orders :
       call' = [call EXCEPT ![c] = [Resting EXCEPT !.at = "pool", !.kind = kind, !.left = order]]
  /\ UNCHANGED <<cooling, gate>>

Deadline(c) ==                          \* the scan's own budget; only candidates carry one
  /\ call[c].at # "idle" /\ call[c].kind = "candidates" /\ ~call[c].late
  /\ call' = [call EXCEPT ![c].late = TRUE] /\ UNCHANGED <<cooling, gate>>

Ended(c, r) == [call[c] EXCEPT !.at = "idle", !.result = r, !.tries = 0, !.batch = 1]

GiveUp(c) ==                            \* nobody is left to ask
  /\ call[c].at = "pool" /\ call[c].left = <<>>
  /\ call' = [call EXCEPT ![c] = Ended(c, IF call[c].kind = "facts" THEN "error" ELSE "nothing")]
  /\ UNCHANGED <<cooling, gate>>

(* The evaluator fails: it cools down and the next one is asked from the first batch on. *)
Failed(c) ==
  /\ cooling' = cooling \cup {Asking(c)}
  /\ call' = [call EXCEPT ![c].at = "pool", ![c].left = Tail(@),
                           ![c].batch = 1, ![c].tries = 0]

(* The scan's time is up: no fault of the evaluator, and nobody else is asked. *)
BudgetGone(c) ==
  call' = [call EXCEPT ![c] = Ended(c, "nothing")] /\ UNCHANGED cooling

Enqueue(c) ==
  /\ call[c].at = "pool" /\ call[c].left # <<>> /\ Asking(c) = "laya"
  /\ IF closed \/ Len(queue) >= QueueLimit THEN Failed(c) /\ UNCHANGED queue
     ELSE /\ queue' = Append(queue, c) /\ call' = [call EXCEPT ![c].at = "queued"]
          /\ UNCHANGED cooling
  /\ UNCHANGED <<active, closed>>

MyTurn(c) == ~active /\ Head(queue) = c
RemoveHead(c) == Tail(queue)            \* a mistake: whoever is first is taken out
RemoveTicket(c) == RemoveAt(queue, CHOOSE i \in DOMAIN queue : queue[i] = c)

TimedOutForAll(c) == BudgetGone(c)      \* a mistake: a full queue is taken for the scan's end
TimedOut(c) == IF call[c].late THEN BudgetGone(c) ELSE Failed(c)

LeaveQueue(c) ==                        \* closed, or waited for too long: nothing was sent
  /\ call[c].at = "queued" /\ ~MyTurn(c)
  /\ \/ closed /\ Failed(c)
     \/ TimedOut(c)
  /\ queue' = RemoveTicket(c) /\ UNCHANGED <<active, closed>>

Enter(c) ==
  /\ call[c].at = "queued" /\ MyTurn(c)
  /\ active' = TRUE /\ call' = [call EXCEPT ![c].at = "sending"] /\ UNCHANGED <<cooling, queue, closed>>

StartDirect(c) ==
  /\ call[c].at = "pool" /\ call[c].left # <<>> /\ Asking(c) = "jev"
  /\ call' = [call EXCEPT ![c].at = "sending"] /\ UNCHANGED <<cooling, gate>>

Leave(c) ==                             \* the finally of the gate
  IF Asking(c) = "laya" THEN active' = FALSE /\ queue' = Tail(queue) /\ UNCHANGED closed
  ELSE UNCHANGED gate

OutOfTime(c) ==                         \* looked at before each attempt, and after LAYA's time-outs
  call[c].at = "sending" /\ call[c].late /\ BudgetGone(c) /\ Leave(c)

(* Candidates and screened markets go batch by batch, and LAYA's gate is given up in between. *)
Requests(kind) == IF kind = "facts" THEN 1 ELSE Batches

NextBatch(c) ==
  /\ call[c].at = "sending" /\ call[c].batch < Requests(call[c].kind)
  /\ call' = [call EXCEPT ![c].at = "pool", ![c].batch = @ + 1, ![c].tries = 0]
  /\ Leave(c) /\ UNCHANGED cooling

Answer(c) ==                            \* one valid answer for each question and candidate
  /\ call[c].at = "sending" /\ call[c].batch = Requests(call[c].kind)
  /\ cooling' = cooling \ {Asking(c)} /\ call' = [call EXCEPT ![c] = Resting] /\ Leave(c)

TryAgain(c) ==                          \* 429, 529; or, once, the same question as a forced call
  /\ call[c].at = "sending" /\ call[c].tries + 1 < Attempts
  /\ call' = [call EXCEPT ![c].tries = @ + 1]
  /\ UNCHANGED <<cooling, gate>>

Refused(c) ==                           \* refused, unusable, unreachable, benchmarking, no attempt left
  call[c].at = "sending" /\ Failed(c) /\ Leave(c)

CooledDown(e) ==
  e \in cooling /\ cooling' = cooling \ {e} /\ UNCHANGED <<gate, call>>

Close == ~closed /\ closed' = TRUE /\ UNCHANGED <<cooling, queue, active, call>>

Next ==
  \/ \E c \in Callers :
       \/ \E kind \in Kinds : Ask(c, kind)
       \/ Deadline(c) \/ GiveUp(c) \/ Enqueue(c) \/ LeaveQueue(c) \/ Enter(c) \/ StartDirect(c)
       \/ OutOfTime(c) \/ NextBatch(c) \/ Answer(c) \/ TryAgain(c) \/ Refused(c)
  \/ \E e \in Pool : CooledDown(e)
  \/ Close

Spec == Init /\ [][Next]_vars

(* One request at a time reaches LAYA, its ticket is the first one, and     *)
(* every ticket has a caller behind it, so the gate never stands shut.      *)
GateIsSound ==
  /\ TypeOK
  /\ Cardinality(Sending) = (IF active THEN 1 ELSE 0)
  /\ active => Head(queue) \in Sending
  /\ ToSet(queue) = Sending \cup {c \in Callers : call[c].at = "queued"} /\ IsInjective(queue)

(* A call ends without an answer only when the scan's time is up, or after  *)
(* each evaluator that was to be asked has failed.                          *)
EveryoneIsAsked ==
  \A c \in Callers : call[c].result \in {"nothing", "error"} =>
    call[c].late \/ call[c].left = <<>>
=============================================================================
