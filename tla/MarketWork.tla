------------------------------ MODULE MarketWork ------------------------------
(***************************************************************************)
(* The standing work of one venue: every listed contract is put to a cheap *)
(* evaluator again and again (market_screening_queue), and appointments to *)
(* look at a contract again are kept (scheduled_market_reviews).  Both     *)
(* tables belong to SessionMemory; the survey fills the first, the model's *)
(* answers the second, and the plugin's worker serves both between two     *)
(* surveys (_wait_for_scan_or_review).                                     *)
(*                                                                         *)
(* Times are kept as what is left of them, in ticks; an appointment or a   *)
(* contract whose time has come has 0 left, and sequences keep the order   *)
(* of the due times that lie in the past.                                  *)
(***************************************************************************)
EXTENDS Integers, FiniteSets, Sequences, SequencesExt

CONSTANTS
  Contracts, Topics,
  TopicOf,     \* the event a contract belongs to
  Volatile,    \* the contracts whose price moves from one listing to the next
  Fresh,       \* how long an answer of the evaluator holds (15 minutes)
  Backoff,     \* how long a failed screening is put off (5 seconds, growing to 5 minutes)
  Retry,       \* how long a failed review is put off (a minute)
  Interval,    \* between the end of a cycle and the next survey
  Delays,      \* what the model may ask for: skip this long, look again after that
  MaxAppts     \* bound: appointments at once

MarketWorkAssumption ==
  /\ IsFiniteSet(Contracts) /\ TopicOf \in [Contracts -> Topics] /\ Volatile \subseteq Contracts
  /\ {Fresh, Backoff, Retry, Interval} \subseteq Nat \ {0} /\ Delays \subseteq Nat \ {0} /\ MaxAppts \in Nat
  /\ \E d \in Delays : \A e \in Delays : e <= d

VARIABLES
  row,      \* market_screening_queue, one row per contract ever listed
  queue,    \* those contracts ordered by next_due_at, first_seen_at, rowid
  appts,    \* the pending rows of scheduled_market_reviews, by due_at, id
  stage,    \* the plugin's worker: "wait", or in a cycle "survey", "select", "decide"
  listed,   \* the topics the survey under way has read
  scan,     \* ticks to the next survey
  able,     \* a decision provider can answer (may_decide, can_decide)
  stale,    \* history: contracts whose price moved since the evaluator answered
  owed      \* history: per contract, what is left to the earliest review still owed

vars == <<row, queue, appts, stage, listed, scan, able, stale, owed>>
tables == <<row, queue, stale>>
Horizon == {0, Fresh, Backoff, Retry} \cup Delays
None == -1

Longest == CHOOSE d \in Horizon : \A e \in Horizon : e <= d

Rows == [active : BOOLEAN, wait : 0..Longest, skip : 0..Longest,
         answer : {"none", "keep", "drop"}, failed : BOOLEAN]
Appointments == [contract : Contracts, wait : 0..Longest]

TypeOK ==
  /\ row \in [Contracts -> Rows]
  /\ queue \in Seq(Contracts) /\ IsInjective(queue)
  /\ \A c \in Contracts : row[c].active => Contains(queue, c)
  /\ \A i, j \in DOMAIN queue : i < j => row[queue[i]].wait <= row[queue[j]].wait
  /\ Len(appts) <= MaxAppts
  /\ appts \in Seq(Appointments)
  /\ stage \in {"wait", "survey", "select", "decide"}
  /\ listed \subseteq Topics /\ scan \in 0..Interval
  /\ able \in BOOLEAN
  /\ stale \subseteq Contracts /\ owed \in [Contracts -> {None} \cup 0..Longest]

Unseen == [active |-> FALSE, wait |-> 0, skip |-> 0, answer |-> "none", failed |-> FALSE]

Init ==
  /\ row = [c \in Contracts |-> Unseen] /\ queue = <<>> /\ appts = <<>>
  /\ stage = "wait" /\ listed = {} /\ scan = 0
  /\ able \in BOOLEAN
  /\ stale = {} /\ owed = [c \in Contracts |-> None]

(* ---- The screening queue ---- *)
Known(c) == Contains(queue, c)
Due(c) == row[c].active /\ row[c].wait = 0 /\ row[c].skip = 0
DueNow == {c \in Contracts : Due(c)}
Ahead(c, d) == \E i, j \in DOMAIN queue : i < j /\ queue[i] = c /\ queue[j] = d
NextDue(c) == Due(c) /\ \A d \in DueNow : ~Ahead(d, c)

(* ORDER BY next_due_at, first_seen_at, rowid: whatever moved goes behind  *)
(* every contract that is due no later, the others keep their order.       *)
Queued(members, moved, rows) ==
  {q \in SetToSeqs(members) : \A i, j \in DOMAIN q : i < j =>
     /\ rows[q[i]].wait <= rows[q[j]].wait
     /\ q[i] \in moved \/ q[j] \in moved \/ Ahead(q[i], q[j])
     /\ q[i] \in moved /\ q[j] \notin moved => rows[q[i]].wait < rows[q[j]].wait}

(* queue_market_screening over the new topics of a page: `shown` are their     *)
(* contracts, of which `moved` have a new material key.                        *)
WokenByListing(shown, moved) == shown    \* a mistake: every listing makes a contract due again
Woken(shown, moved) == {c \in shown : ~Known(c) \/ c \in moved}

Listed(r, c, shown, woken) ==
  IF c \in woken THEN [Unseen EXCEPT !.active = TRUE]
  ELSE [r EXCEPT !.active = c \in shown]

(* complete_market_screening: an answer holds for Fresh; a failure is put off. *)
Answered(r, a) == [r EXCEPT !.answer = a, !.wait = Fresh, !.failed = FALSE]
PutOff(r) == [r EXCEPT !.failed = TRUE, !.wait = Backoff]

(* One chunk of _drain_screening_queue_locked, of one contract as with a    *)
(* per-candidate evaluator: the contract that has been due longest.         *)
Chunk ==
  \E c \in Contracts :
    /\ NextDue(c)
    /\ \E r \in {Answered(row[c], "keep"), Answered(row[c], "drop"), PutOff(row[c])} :
         /\ row' = [row EXCEPT ![c] = r]
         /\ stale' = IF r.failed THEN stale ELSE stale \ {c}
    /\ queue' \in Queued(ToSet(queue), {c}, row')

(* _topic_screening_assessments: the best answer of a topic's contracts, and *)
(* a rejection only when every one of them has an answer that still holds.   *)
Markets(t) == {c \in Contracts : TopicOf[c] = t /\ row[c].active}
Available(t) ==
  {c \in Markets(t) : row[c].answer # "none" /\ row[c].wait > 0 /\ ~row[c].failed}
TopicVerdictOfAny(t) ==                 \* a mistake: unanswered contracts do not count
  IF \E c \in Available(t) : row[c].answer = "keep" THEN "keep"
  ELSE IF Available(t) # {} THEN "drop" ELSE "none"

TopicVerdict(t) ==
  IF \E c \in Available(t) : row[c].answer = "keep" THEN "keep"
  ELSE IF Available(t) # {} /\ Available(t) = Markets(t) THEN "drop"
  ELSE "none"

(* ---- Appointments ---- *)
Book(s, a) ==                           \* behind every row that is due no later
  InsertAt(s, Cardinality({i \in 1..Len(s) : s[i].wait <= a.wait}) + 1, a)

Appointment(c, d) == [contract |-> c, wait |-> d]
CoveredEver(c, d) == \E i \in 1..Len(appts) : appts[i].contract = c   \* a mistake: due_at not compared
Covered(c, d) == \E i \in 1..Len(appts) : appts[i].contract = c /\ appts[i].wait <= d

Earlier(a, b) == IF a = None \/ b < a THEN b ELSE a

ReviewDue == appts # <<>> /\ Head(appts).wait = 0

(* ---- Time ---- *)
Less(w, n) == IF w > n THEN w - n ELSE 0
AgedRows(n) == [c \in Contracts |-> [row[c] EXCEPT !.wait = Less(@, n), !.skip = Less(@, n)]]
AgedAppts(s, n) == [i \in 1..Len(s) |-> [s[i] EXCEPT !.wait = Less(@, n)]]
AgedOwed(o, n) == [c \in Contracts |-> IF o[c] = None THEN None ELSE Less(o[c], n)]

----------------------------------------------------------------------------
(* ---- The worker's cycle ---- *)
StartSurvey ==                          \* _run, discover_platform_topics
  /\ stage = "wait" /\ scan = 0 /\ able /\ stage' = "survey"
  /\ UNCHANGED <<tables, appts, listed, scan, able, owed>>

ListPage(page) ==                       \* _queue_screening_page, queue_market_screening
  /\ stage = "survey" /\ page # {}
  /\ \E shown \in SUBSET {c \in Contracts : TopicOf[c] \in page} :
     \E moved \in SUBSET (shown \cap Volatile) :
       LET woken == Woken(shown, moved) IN
       /\ row' = [c \in Contracts |-> IF TopicOf[c] \in page THEN Listed(row[c], c, shown, woken)
                                      ELSE row[c]]
       /\ queue' \in Queued(ToSet(queue) \cup woken, woken, row')
       /\ stale' = stale \cup {c \in moved : row[c].answer # "none"}
  /\ listed' = listed \cup page
  /\ UNCHANGED <<appts, stage, scan, able, owed>>

(* After a page the survey works the queue while its clock lasts; a chunk  *)
(* without an answer ends that until the next page, which may show nothing *)
(* new.  It need not come to a chunk at all.                               *)
DrainChunk ==
  /\ stage = "survey" /\ listed # {}
  /\ Chunk
  /\ UNCHANGED <<appts, stage, listed, scan, able, owed>>

EndSurvey ==                            \* the clock, the page limit or the end of the listing
  /\ stage = "survey" /\ stage' = "select" /\ listed' = {}
  /\ UNCHANGED <<tables, appts, scan, able, owed>>

Skip(c, d) ==                           \* skip_market_screening
  LET w == IF d < row[c].wait THEN d ELSE row[c].wait IN
  /\ row[c].active
  /\ row' = [row EXCEPT ![c].skip = d, ![c].wait = w]
  /\ queue' \in Queued(ToSet(queue), IF w = row[c].wait THEN {} ELSE {c}, row')
  /\ UNCHANGED <<appts, stale, owed>>

AskReview(c, d) ==                      \* schedule_market_review: an earlier one pending will do
  /\ Len(appts) < MaxAppts
  /\ appts' = IF Covered(c, d) THEN appts ELSE Book(appts, Appointment(c, d))
  /\ owed' = [owed EXCEPT ![c] = Earlier(@, d)]
  /\ UNCHANGED tables

Select ==                               \* _select: the model skips one contract, or asks for a review
  /\ stage = "select"
  /\ \/ UNCHANGED <<tables, appts, owed>>
     \/ \E c \in Contracts, d \in Delays : Known(c) /\ (Skip(c, d) \/ AskReview(c, d))
  /\ stage' = "decide"
  /\ UNCHANGED <<listed, scan, able>>

(* The cycle's rounds; complete_decision books what one asked for, without *)
(* looking for an earlier appointment.                                      *)
Decide ==
  /\ stage = "decide"
  /\ \E n \in 0..1 :                   \* ticks the rounds take
       /\ row' = AgedRows(n)
       /\ \/ appts' = AgedAppts(appts, n) /\ owed' = AgedOwed(owed, n)
          \/ /\ Len(appts) < MaxAppts
             /\ \E c \in Contracts, d \in Delays :
                  /\ Known(c)
                  /\ appts' = Book(AgedAppts(appts, n), Appointment(c, d))
                  /\ owed' = [AgedOwed(owed, n) EXCEPT ![c] = Earlier(@, d)]
  /\ stage' = "wait" /\ scan' = Interval
  /\ UNCHANGED <<queue, stale, listed, able>>

(* ---- Errands between two surveys ---- *)
Errand(n) ==                            \* _wait_for_scan_or_review picks a review, which takes n ticks
  /\ stage = "wait" /\ scan > 0 /\ able /\ ReviewDue
  /\ row' = AgedRows(n) /\ scan' = Less(scan, n)
  /\ UNCHANGED <<queue, stale, stage, listed, able>>

HoldReview ==                           \* review_due_platform, to its end
  \E n \in 0..1 :
    /\ Errand(n)
    /\ LET c == Head(appts).contract
           rest == AgedAppts(Tail(appts), n)
       IN  \/ /\ appts' = rest            \* decided, or no longer tradable
              /\ owed' = [AgedOwed(owed, n) EXCEPT ![c] = None]
           \/ \E d \in Delays :          \* decided, with a further appointment
                /\ appts' = Book(rest, Appointment(c, d))
                /\ owed' = [AgedOwed(owed, n) EXCEPT ![c] = d]

MissReviewInPlace ==                    \* a mistake: due_at is left as it was
  \E n \in 0..1 : Errand(n) /\ appts' = AgedAppts(appts, n) /\ owed' = AgedOwed(owed, n)

MissReview ==                           \* finish_market_review with an error: not held, put off
  \E n \in 0..1 :
    /\ Errand(n)
    /\ LET c == Head(appts).contract IN
       /\ appts' = Book(AgedAppts(Tail(appts), n), Appointment(c, Retry))
       /\ owed' = [AgedOwed(owed, n) EXCEPT ![c] = Retry]

ScreenIdle ==                           \* screen_pending_platform: reviews go first
  /\ stage = "wait" /\ scan > 0 /\ able /\ ~ReviewDue
  /\ Chunk
  /\ UNCHANGED <<appts, stage, listed, scan, able, owed>>

(* Nothing to do now, or nobody to do it; a contract that is due waits when *)
(* screening is paused or no evaluator can answer.                          *)
Sleep ==
  /\ stage = "wait"
  /\ ~able \/ (scan > 0 /\ ~ReviewDue)
  /\ row' = AgedRows(1) /\ appts' = AgedAppts(appts, 1) /\ owed' = AgedOwed(owed, 1) /\ scan' = Less(scan, 1)
  /\ UNCHANGED <<queue, stale, stage, listed, able>>

CapacityTurns ==                        \* the provider pool's reading
  /\ able' = ~able
  /\ UNCHANGED <<tables, appts, stage, listed, scan, owed>>

Loop ==
  \/ StartSurvey \/ DrainChunk \/ EndSurvey \/ Select \/ Decide
  \/ \E page \in SUBSET (Topics \ listed) : ListPage(page)
  \/ HoldReview \/ MissReview \/ ScreenIdle \/ Sleep

Next == Loop \/ CapacityTurns
Spec == Init /\ [][Next]_vars
FairSpec == Spec /\ WF_vars(Loop)

----------------------------------------------------------------------------
(* A topic is left out for its screening only when every contract of it still *)
(* listed was answered, at the price last seen, not too long ago and not in   *)
(* spite of a later failure, and none of the answers speaks for it: neither a *)
(* price move, a new listing nor a failure may leave an old rejection behind. *)
ExclusionIsInformed ==
  /\ TypeOK
  /\ \A t \in Topics : TopicVerdict(t) = "drop" =>
       \A c \in Contracts : TopicOf[c] = t /\ row[c].active =>
         row[c].answer = "drop" /\ c \notin stale /\ row[c].wait > 0 /\ ~row[c].failed

(* A review the model asked for has, until one is held, an appointment that is *)
(* due no later than asked, or no later than the attempt that failed put it off *)
(* to: an appointment already made is only good for an ask it comes before.     *)
ReviewsAreKept ==
  \A c \in Contracts : owed[c] # None =>
    \E i \in 1..Len(appts) : appts[i].contract = c /\ appts[i].wait <= owed[c]

(* When from some time on providers can answer, a contract with an appointment *)
(* that is due gets its review, however often another one fails, however long  *)
(* the queue is and although surveys go first.                                 *)
Waits(c) == \E i \in 1..Len(appts) : appts[i].contract = c /\ appts[i].wait = 0
Attempt(c) == (HoldReview \/ MissReview) /\ Head(appts).contract = c
ReviewsHappen == <>[]able => \A c \in Contracts : []<>~Waits(c) \/ []<><<Attempt(c)>>_vars

(* As long as an evaluator is asked again and again, in surveys or between them, *)
(* every listed contract whose price holds still gets its turn: none is passed   *)
(* over for others, however often their prices move or the evaluator fails on    *)
(* them.  (That it is asked again and again is not promised: screening may be    *)
(* paused, a survey may spend its time reading, and reviews go first.)           *)
Screening == DrainChunk \/ ScreenIdle
EveryContractIsScreened ==
  []<><<Screening>>_vars => \A c \in Contracts \ Volatile : Due(c) ~> ~Due(c)
=============================================================================
