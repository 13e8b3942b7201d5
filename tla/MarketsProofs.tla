---------------------------- MODULE MarketsProofs ----------------------------
(***************************************************************************)
(* Proofs about the way of a market to the robot: the survey and its       *)
(* choices, the screening queue and the reviews, each for every value of   *)
(* its constants.                                                          *)
(***************************************************************************)
EXTENDS Markets, SequenceTheorems, FiniteSetTheorems, WellFoundedInduction, TLAPS

----------------------------------------------------------------------------
(* ---- Numbers ---- *)

(* A set of naturals that is not empty has a least element.                 *)
LEMMA LeastNatural ==
  ASSUME NEW B, B \subseteq Nat, B # {} PROVE \E n \in B : \A k \in B : n <= k
<1>1. PICK n \in B : \A k \in B : <<k, n>> \notin OpToRel(<, Nat)
  BY NatLessThanWellFounded, WFMin
<1>2. \A k \in B : ~(k < n)
  BY <1>1 DEF OpToRel
<1> QED
  BY <1>2

(* The library picks the least of some naturals.                            *)
LEMMA MinIsLeast ==
  ASSUME NEW B, B \subseteq Nat, B # {}
  PROVE  Survey!Min(B) \in B /\ \A k \in B : Survey!Min(B) <= k
<1>1. \E n \in B : \A k \in B : n <= k
  BY LeastNatural
<1> QED
  BY <1>1 DEF Survey!Min

(* The greater of two numbers, as the library picks it.                     *)
LEMMA MaxOfTwo ==
  ASSUME NEW a \in Int, NEW b \in Int
  PROVE  Survey!Max({a, b}) = IF a >= b THEN a ELSE b
<1>1. \E x \in {a, b} : \A y \in {a, b} : x >= y
  OBVIOUS
<1>2. Survey!Max({a, b}) \in {a, b} /\ \A y \in {a, b} : Survey!Max({a, b}) >= y
  BY <1>1 DEF Survey!Max
<1> QED
  BY <1>2

(* The smallest frontier is a number whose square is no less.               *)
LEMMA FrontierIsLarge ==
  ASSUME NEW n \in Nat
  PROVE  LET f == Survey!SmallestFrontier(n) IN f \in Nat /\ f * f >= n
<1> DEFINE K == {k \in 0..n : k * k >= n}
<1>1. n \in K
  BY SMT
<1>2. PICK m \in K : \A j \in K : m <= j
  <2> HIDE DEF K
  <2>1. K \subseteq Nat
    BY DEF K
  <2> QED
    BY <1>1, <2>1, LeastNatural
<1>3. \E k \in 0..n : k * k >= n /\ \A j \in 0..n : j * j >= n => k <= j
  BY <1>2
<1> DEFINE q == Survey!SquareRootUp(n)
<1>4. q \in 0..n /\ q * q >= n
  BY <1>3 DEF Survey!SquareRootUp
<1> HIDE DEF q
<1>5. Survey!SmallestFrontier(n) = IF 1 >= q THEN 1 ELSE q
  BY <1>4, MaxOfTwo DEF Survey!SmallestFrontier, q
<1>6. 1 >= q => 1 * 1 >= n
  BY <1>4
<1> QED
  BY <1>4, <1>5, <1>6

----------------------------------------------------------------------------
(* ---- MarketSurvey ---- *)

(* The types, the flags apart from the rest. *)
SurveyFlags == surSearch \in BOOLEAN /\ surProbe \in BOOLEAN

Places ==
  /\ surResume \in [saved : BOOLEAN, cursors : [Survey!SourceSet -> Nat], active : SUBSET Survey!SourceSet]
  /\ surCursor \in [Survey!SourceSet -> Nat] /\ surActive \subseteq Survey!SourceSet
  /\ \A s \in Survey!SourceSet : surResume.cursors[s] < Len(Listing[s]) /\ surCursor[s] < Len(Listing[s])
  /\ surQueued \in [Survey!SourceSet -> SUBSET Nat]

Marks ==
  /\ surStage \in {"idle", "read", "page", "filter", "round"}
  /\ surTurn \in 0..Len(Sources) /\ surPages \in 0..MaxPages
  /\ surSeen \subseteq Subjects /\ surVerdict \in [Subjects -> Survey!Verdicts]
  /\ surOffered \subseteq Subjects /\ surChosen \subseteq Subjects
  /\ surRow \in {"none", "STARTED", "OK", "NO_ACTION", "PROVIDER_ERROR", "deleted"}

(* The type invariant, in three parts.                                      *)
LEMMA SurveyTypes == Survey!TypeOK <=> SurveyFlags /\ Places /\ Marks
BY DEF Survey!TypeOK, SurveyFlags, Places, Marks

(* A page behind a cursor, stored or in use, was queued. *)
NothingSkipped ==
  /\ \A s \in Survey!SourceSet : surResume.saved => Survey!Behind(s, surResume.cursors[s])
  /\ surStage \in {"read", "page"} => \A s \in Survey!SourceSet : Survey!Behind(s, surCursor[s])

(* What the survey's steps keep, and what the round's do. *)
Reading == Places /\ NothingSkipped
Choosing == Marks /\ Survey!FrontierIsKept /\ Survey!OnlyRecordedChoices
SurveyInv == SurveyFlags /\ Reading /\ Choosing

(* The listings are sequences of pages.                                     *)
LEMMA SurveyNumbers ==
  /\ Len(Sources) \in Nat \ {0} /\ MaxPages \in Nat \ {0}
  /\ IsFiniteSet(Subjects) /\ Wanted \subseteq Subjects
  /\ \A i \in 1..Len(Sources) : Sources[i] \in Survey!SourceSet
  /\ \A s \in Survey!SourceSet :
       /\ Len(Listing[s]) \in Nat \ {0}
       /\ \A p \in 1..Len(Listing[s]) : Listing[s][p] \subseteq Subjects
<1>1. Len(Sources) \in Nat \ {0} /\ MaxPages \in Nat \ {0}
  BY MarketsAssumption DEF Survey!MarketSurveyAssumption
<1>2. IsFiniteSet(Subjects)
  BY MarketsAssumption DEF Survey!MarketSurveyAssumption, Survey!IsFiniteSet, IsFiniteSet
<1>3. \A i \in 1..Len(Sources) : Sources[i] \in Survey!SourceSet
  BY DEF Survey!SourceSet
<1>4. \A s \in Survey!SourceSet :
        /\ Len(Listing[s]) \in Nat \ {0}
        /\ \A p \in 1..Len(Listing[s]) : Listing[s][p] \subseteq Subjects
  BY MarketsAssumption DEF Survey!MarketSurveyAssumption
<1>5. Wanted \subseteq Subjects
  BY MarketsAssumption DEF Survey!MarketSurveyAssumption
<1> QED
  BY <1>1, <1>2, <1>3, <1>4, <1>5

(* A pass asks a source the survey still reads.                             *)
LEMMA AskedIsActive ==
  ASSUME Places, Marks, Survey!MayRead
  PROVE  /\ Survey!NextTurn(surActive) \in 1..Len(Sources)
         /\ Survey!Asked \in surActive /\ Survey!Asked \in Survey!SourceSet
<1> DEFINE P == Survey!Positions(surActive)
           Q == {i \in P : i > surTurn}
<1>1. P \subseteq Nat /\ Q \subseteq Nat /\ P \subseteq 1..Len(Sources)
  BY SurveyNumbers DEF Survey!Positions
<1>2. PICK s \in surActive : s \in Survey!SourceSet
  BY DEF Places, Survey!MayRead
<1>3. PICK i \in 1..Len(Sources) : Sources[i] = s
  BY <1>2 DEF Survey!SourceSet
<1>4. P # {}
  BY <1>2, <1>3 DEF Survey!Positions
<1>5. Survey!NextTurn(surActive) \in P
  <2> HIDE DEF P, Q
  <2>1. P # {} => Survey!Min(P) \in P
    BY <1>1, MinIsLeast
  <2>2. Q # {} => Survey!Min(Q) \in Q
    BY <1>1, MinIsLeast
  <2> QED
    BY <1>4, <2>1, <2>2 DEF Survey!NextTurn, P, Q
<1> QED
  BY <1>1, <1>5, SurveyNumbers DEF Survey!Asked, Survey!Positions

(* Nothing was read, nothing is chosen.                                     *)
LEMMA SurveyInit == Survey!Init => SurveyInv
<1> SUFFICES ASSUME Survey!Init PROVE SurveyInv
  OBVIOUS
<1>1. SurveyFlags
  BY DEF Survey!Init, SurveyFlags
<1>2. Places /\ NothingSkipped
  BY SurveyNumbers DEF Survey!Init, Survey!NoResume, Survey!Begin, Places, NothingSkipped
<1>3. Marks
  BY SurveyNumbers DEF Survey!Init, Survey!Verdicts, Marks
<1> QED
  BY <1>1, <1>2, <1>3 DEF Survey!Init, SurveyInv, Reading, Choosing, Survey!FrontierIsKept, Survey!OnlyRecordedChoices

(* The flags stay flags.                                                    *)
LEMMA SurveyFlagsStep == ASSUME SurveyFlags, Survey!Next PROVE SurveyFlags'
<1>1. surSearch' = surSearch \/ surSearch' \in BOOLEAN
  BY DEF Survey!Next, Survey!Step, Survey!StartSurvey, Survey!ListingFails, Survey!ReadPage, Survey!GoOn, Survey!Disagree,
         Survey!StopHere, Survey!OutOfTime, Survey!EndSurvey, Survey!NothingRead, Survey!BeginRound, Survey!Choose,
         Survey!NoAnswer, Survey!Cancelled, Survey!ForgetRound, Survey!Crash, Survey!survey, Survey!round
<1>2. surProbe' = surProbe \/ surProbe' = TRUE \/ surProbe' = FALSE
  BY DEF Survey!Next, Survey!Step, Survey!StartSurvey, Survey!ListingFails, Survey!ReadPage, Survey!GoOn, Survey!Disagree,
         Survey!StopHere, Survey!OutOfTime, Survey!EndSurvey, Survey!NothingRead, Survey!BeginRound, Survey!Choose,
         Survey!NoAnswer, Survey!Cancelled, Survey!ForgetRound, Survey!Crash, Survey!survey, Survey!round
<1> QED
  BY <1>1, <1>2 DEF SurveyFlags

(* A survey begins where the last one stopped.                              *)
LEMMA SurveyBegins == ASSUME SurveyInv, Survey!StartSurvey PROVE Reading' /\ Choosing'
<1>1. /\ surCursor' = IF surResume.saved THEN surResume.cursors ELSE Survey!Begin
      /\ surActive' = IF surResume.active = {} THEN Survey!SourceSet ELSE surResume.active
      /\ surQueued' = [s \in Survey!SourceSet |-> IF surCursor'[s] = 0 THEN {} ELSE surQueued[s]]
      /\ surResume' = surResume
  BY DEF Survey!StartSurvey
<1>2. Places'
  <2>1. surCursor' \in [Survey!SourceSet -> Nat] /\ surActive' \subseteq Survey!SourceSet
    BY <1>1 DEF SurveyInv, Reading, Places, Survey!Begin
  <2>2. \A s \in Survey!SourceSet : surResume'.cursors[s] < Len(Listing[s]) /\ surCursor'[s] < Len(Listing[s])
    BY <1>1, SurveyNumbers DEF SurveyInv, Reading, Places, Survey!Begin
  <2>3. surQueued' \in [Survey!SourceSet -> SUBSET Nat]
    BY <1>1 DEF SurveyInv, Reading, Places
  <2> QED
    BY <1>1, <2>1, <2>2, <2>3 DEF SurveyInv, Reading, Places
<1>3. NothingSkipped'
  BY <1>1, <1>2 DEF SurveyInv, Reading, Places, NothingSkipped, Survey!Behind, Survey!Begin
<1>4. Marks'
  BY SurveyNumbers DEF SurveyInv, Choosing, Marks, Survey!StartSurvey, Survey!Verdicts, Survey!round
<1> QED
  BY <1>2, <1>3, <1>4
     DEF Reading, Choosing, Survey!FrontierIsKept, Survey!OnlyRecordedChoices, Survey!StartSurvey

(* A page that was read is queued, and the cursor moves behind it.          *)
LEMMA PageIsRead == ASSUME SurveyInv, Survey!ReadPage PROVE Reading' /\ Choosing'
<1> DEFINE s == Survey!Asked
           p == surCursor[s] + 1
           last == p = Len(Listing[s])
<1>1. /\ s \in Survey!SourceSet /\ s \in surActive /\ Survey!NextTurn(surActive) \in 1..Len(Sources)
      /\ p \in 1..Len(Listing[s]) /\ Len(Listing[s]) \in Nat /\ surPages < MaxPages
      /\ Listing[s][p] \subseteq Subjects /\ surStage = "read" /\ surStage' = "page"
  <2>1. s \in Survey!SourceSet /\ s \in surActive /\ Survey!NextTurn(surActive) \in 1..Len(Sources)
    BY AskedIsActive DEF SurveyInv, Reading, Choosing, Survey!ReadPage
  <2>2. p \in 1..Len(Listing[s]) /\ Len(Listing[s]) \in Nat
    BY <2>1, SurveyNumbers DEF SurveyInv, Reading, Places
  <2> QED
    BY <2>1, <2>2, SurveyNumbers DEF Survey!ReadPage, Survey!MayRead
<1>2. /\ surCursor' = IF last THEN surCursor ELSE [surCursor EXCEPT ![s] = p]
      /\ surActive' = IF last THEN surActive \ {s} ELSE surActive
      /\ surQueued' = [surQueued EXCEPT ![s] = @ \cup {p}]
      /\ surSeen' = surSeen \cup Listing[s][p] /\ surResume' = surResume
  BY DEF Survey!ReadPage
<1>3. surVerdict' \in [Subjects -> Survey!Verdicts]
  <2>1. PICK v \in [surSeen' -> Survey!Verdicts] :
          surVerdict' = [t \in Subjects |-> IF t \in surSeen' THEN v[t] ELSE "keep"]
    BY DEF Survey!ReadPage
  <2> QED
    BY <2>1 DEF Survey!Verdicts
<1>4. Marks'
  BY <1>1, <1>2, <1>3, SurveyNumbers DEF SurveyInv, Choosing, Marks, Survey!ReadPage, Survey!round
<1> HIDE DEF s
<1>5. Places'
  <2>1. surCursor' \in [Survey!SourceSet -> Nat] /\ surActive' \subseteq Survey!SourceSet
    BY <1>1, <1>2 DEF SurveyInv, Reading, Places
  <2>2. \A q \in Survey!SourceSet : surResume'.cursors[q] < Len(Listing[q]) /\ surCursor'[q] < Len(Listing[q])
    BY <1>1, <1>2 DEF SurveyInv, Reading, Places
  <2>3. surQueued' \in [Survey!SourceSet -> SUBSET Nat]
    BY <1>1, <1>2 DEF SurveyInv, Reading, Places
  <2> QED
    BY <1>2, <2>1, <2>2, <2>3 DEF SurveyInv, Reading, Places
<1>6. \A q \in Survey!SourceSet : surQueued[q] \subseteq surQueued'[q]
  BY <1>1, <1>2 DEF SurveyInv, Reading, Places
<1>7. 1..p \subseteq surQueued'[s]
  <2>1. surQueued'[s] = surQueued[s] \cup {p} /\ surCursor[s] \in Nat
    BY <1>1, <1>2 DEF SurveyInv, Reading, Places
  <2>2. 1..surCursor[s] \subseteq surQueued[s]
    BY <1>1 DEF SurveyInv, Reading, NothingSkipped, Survey!Behind
  <2> QED
    BY <2>1, <2>2
<1>8. NothingSkipped'
  <2>1. \A q \in Survey!SourceSet : Survey!Behind(q, surCursor[q])'
    BY <1>1, <1>2, <1>6, <1>7 DEF SurveyInv, Reading, Places, NothingSkipped, Survey!Behind
  <2> QED
    BY <1>2, <1>6, <2>1 DEF SurveyInv, Reading, NothingSkipped, Survey!Behind
<1>9. Survey!FrontierIsKept' /\ Survey!OnlyRecordedChoices'
  BY <1>1 DEF Survey!FrontierIsKept, Survey!OnlyRecordedChoices
<1> QED
  BY <1>4, <1>5, <1>8, <1>9 DEF Reading, Choosing

(* A survey that stops saves a place behind which everything was queued.    *)
LEMMA SurveyStops ==
  ASSUME SurveyInv, surStage \in {"read", "page"},
         NEW act \in SUBSET Survey!SourceSet, Survey!StopSurvey(Survey!Saved(act)),
         UNCHANGED <<surCursor, surTurn, surPages, surSeen, surVerdict, Survey!round, surQueued>>
  PROVE  Reading' /\ Choosing'
<1>1. /\ surResume' = IF act = {} THEN Survey!NoResume ELSE [saved |-> TRUE, cursors |-> surCursor, active |-> act]
      /\ surStage' = "filter" /\ surActive' = {}
  BY DEF Survey!StopSurvey, Survey!Saved
<1>2. Places'
  BY <1>1, SurveyNumbers DEF SurveyInv, Reading, Places, Survey!NoResume, Survey!Begin
<1>3. NothingSkipped'
  BY <1>1 DEF SurveyInv, Reading, NothingSkipped, Survey!Behind, Survey!NoResume
<1>4. Choosing'
  BY <1>1 DEF SurveyInv, Choosing, Marks, Survey!FrontierIsKept, Survey!OnlyRecordedChoices, Survey!round
<1> QED
  BY <1>2, <1>3, <1>4 DEF Reading

(* The steps that end a survey, or go on with it.                           *)
LEMMA SurveyGoes ==
  ASSUME SurveyInv,
         \/ Survey!ListingFails \/ Survey!GoOn \/ Survey!Disagree
         \/ Survey!StopHere \/ Survey!OutOfTime \/ Survey!EndSurvey
  PROVE  Reading' /\ Choosing'
<1>1. surActive \in SUBSET Survey!SourceSet
  BY DEF SurveyInv, Reading, Places
<1>2. CASE Survey!StopHere \/ Survey!OutOfTime \/ Survey!EndSurvey
  BY <1>1, <1>2, SurveyStops DEF Survey!StopHere, Survey!OutOfTime, Survey!EndSurvey, Survey!MayRead
<1>3. CASE Survey!Disagree /\ surProbe
  BY <1>1, <1>3, SurveyStops DEF Survey!Disagree
<1>4. CASE Survey!Disagree /\ ~surProbe
  <2>1. Reading'
    BY <1>4 DEF SurveyInv, Reading, Places, NothingSkipped, Survey!Behind, Survey!Disagree
  <2> QED
    BY <1>4, <2>1 DEF SurveyInv, Choosing, Marks, Survey!FrontierIsKept, Survey!OnlyRecordedChoices, Survey!Disagree,
                      Survey!round
<1>5. CASE Survey!GoOn
  <2>1. Reading'
    BY <1>5 DEF SurveyInv, Reading, Places, NothingSkipped, Survey!Behind, Survey!GoOn, Survey!survey
  <2> QED
    BY <1>5, <2>1 DEF SurveyInv, Choosing, Marks, Survey!FrontierIsKept, Survey!OnlyRecordedChoices, Survey!GoOn,
                      Survey!survey, Survey!round
<1>6. CASE Survey!ListingFails
  <2>1. Survey!NextTurn(surActive) \in 1..Len(Sources)
    BY <1>6, AskedIsActive DEF SurveyInv, Reading, Choosing, Survey!ListingFails
  <2>2. Reading'
    BY <1>6 DEF SurveyInv, Reading, Places, NothingSkipped, Survey!Behind, Survey!ListingFails, Survey!MayRead
  <2> QED
    BY <1>6, <2>1, <2>2, SurveyNumbers
       DEF SurveyInv, Choosing, Marks, Survey!FrontierIsKept, Survey!OnlyRecordedChoices, Survey!ListingFails,
           Survey!MayRead, Survey!round
<1> QED
  BY <1>2, <1>3, <1>4, <1>5, <1>6

(* What a filter leaves is large enough, holds all that was kept, and a     *)
(* refusal the screener was sure of only with all it was less sure of.      *)
LEMMA FilterKeeps ==
  ASSUME NEW pool \in SUBSET Subjects, surVerdict \in [Subjects -> Survey!Verdicts],
         NEW trusted \in SUBSET {t \in pool : surVerdict[t] = "unsure"},
         NEW o \in Survey!Frontier(pool, trusted)
  PROVE  /\ o \subseteq pool
         /\ Cardinality(o) \in Nat /\ Cardinality(pool) \in Nat
         /\ Cardinality(o) * Cardinality(o) >= Cardinality(pool)
         /\ {t \in pool : surVerdict[t] = "keep"} \subseteq o
         /\ (\E t \in o : surVerdict[t] = "sure") => {t \in pool : surVerdict[t] = "unsure"} \subseteq o
<1> DEFINE sure == {t \in pool : surVerdict[t] = "sure"}
           out == sure \cup trusted
           rest == pool \ out
           n == Cardinality(pool)
           least == Survey!SmallestFrontier(n)
           need == Survey!Max({0, least - Cardinality(rest)})
           back == Survey!Min({need, Cardinality(out)})
<1>1. \A T : Survey!Cardinality(T) = Cardinality(T)
  BY DEF Survey!Cardinality, Cardinality
<1>2. PICK r \in SUBSET out : /\ o = rest \cup r /\ Cardinality(r) = back
                              /\ (\E t \in r : surVerdict[t] = "sure") => trusted \subseteq r
  BY <1>1 DEF Survey!Frontier, Survey!kSubset
<1>3. IsFiniteSet(pool) /\ IsFiniteSet(out) /\ IsFiniteSet(rest) /\ IsFiniteSet(r)
  BY SurveyNumbers, FS_Subset
<1>4. /\ n \in Nat /\ Cardinality(out) \in Nat /\ Cardinality(rest) \in Nat /\ Cardinality(r) \in Nat
      /\ Cardinality(rest) + Cardinality(out) = n
      /\ Cardinality(o) = Cardinality(rest) + Cardinality(r)
  <2>1. n \in Nat /\ Cardinality(out) \in Nat /\ Cardinality(rest) \in Nat /\ Cardinality(r) \in Nat
    BY <1>3, FS_CardinalityType
  <2>2. rest \cap out = {} /\ rest \cup out = pool /\ rest \cap r = {}
    OBVIOUS
  <2>3. Cardinality({}) = 0
    BY FS_EmptySet
  <2>4. Cardinality(pool) = Cardinality(rest) + Cardinality(out) - 0
    BY <1>3, <2>2, <2>3, FS_Union
  <2>5. Cardinality(rest \cup r) = Cardinality(rest) + Cardinality(r) - 0
    BY <1>3, <2>2, <2>3, FS_Union
  <2> QED
    BY <1>2, <2>1, <2>4, <2>5
<1>5. Cardinality(o) * Cardinality(o) >= n
  <2> HIDE DEF sure, out, rest, n
  <2>1. least \in Nat /\ least * least >= n
    BY <1>4, FrontierIsLarge
  <2> HIDE DEF least
  <2>2. need = IF 0 >= least - Cardinality(rest) THEN 0 ELSE least - Cardinality(rest)
    BY <1>4, <2>1, MaxOfTwo
  <2>3. need \in Nat /\ need + Cardinality(rest) >= least
    BY <1>4, <2>1, <2>2
  <2> HIDE DEF need
  <2>4. back \in {need, Cardinality(out)}
    BY <1>4, <2>3, MinIsLeast
  <2>5. Cardinality(o) = n \/ Cardinality(o) >= least
    BY <1>2, <1>4, <2>3, <2>4
  <2>6. \A a, b \in Nat : a >= b => a * a >= b * b
    <3>1. ASSUME NEW a \in Nat, NEW b \in Nat, NEW d \in Nat, a = b + d PROVE a * a >= b * b
      <4>1. (b + d) * (b + d) = b * b + (2 * (b * d) + d * d)
        BY SMT
      <4>2. 2 * (b * d) + d * d \in Nat
        OBVIOUS
      <4> QED
        BY <3>1, <4>1, <4>2
    <3> QED
      <4>1. \A a, b \in Nat : a >= b => a - b \in Nat /\ a = b + (a - b)
        OBVIOUS
      <4> QED
        BY <3>1, <4>1
  <2>7. Cardinality(o) \in Nat
    BY <1>4
  <2>8. n * n >= n
    BY <1>4
  <2>9. Cardinality(o) >= least => Cardinality(o) * Cardinality(o) >= least * least
    BY <2>1, <2>6, <2>7
  <2>10. least * least \in Nat /\ Cardinality(o) * Cardinality(o) \in Nat /\ n \in Nat
    BY <1>4, <2>1, <2>7
  <2> QED
    BY <2>1, <2>5, <2>8, <2>9, <2>10
<1>6. {t \in pool : surVerdict[t] = "keep"} \subseteq o
  BY <1>2
<1>7. ASSUME NEW t \in o, surVerdict[t] = "sure" PROVE {u \in pool : surVerdict[u] = "unsure"} \subseteq o
  <2>1. t \in r
    BY <1>2, <1>7
  <2>2. trusted \subseteq r
    BY <1>2, <1>7, <2>1
  <2> QED
    BY <1>2, <2>2
<1>8. o \subseteq pool /\ Cardinality(o) \in Nat
  BY <1>2, <1>4
<1> QED
  BY <1>4, <1>5, <1>6, <1>7, <1>8

(* A round is offered enough.                                               *)
LEMMA RoundBegins == ASSUME SurveyInv, Survey!BeginRound PROVE Choosing'
<1>1. PICK found \in SUBSET Wanted :
        /\ surSeen' = surSeen \cup found
        /\ \/ surOffered' = surSeen \cup found
           \/ \E trusted \in SUBSET {t \in surSeen \cup found : surVerdict[t] = "unsure"} :
                surOffered' \in Survey!Frontier(surSeen \cup found, trusted)
  BY DEF Survey!BeginRound, Survey!Requested
<1> DEFINE pool == surSeen \cup found
<1>2. pool \subseteq Subjects /\ surVerdict \in [Subjects -> Survey!Verdicts]
  BY SurveyNumbers DEF SurveyInv, Choosing, Marks
<1> HIDE DEF pool
<1>3. surSeen' = pool /\ surVerdict' = surVerdict
  BY <1>1 DEF pool, Survey!BeginRound, Survey!Requested
<1>4. \A T : Survey!Cardinality(T) = Cardinality(T)
  BY DEF Survey!Cardinality, Cardinality
<1>5. CASE surOffered' = pool
  <2>1. IsFiniteSet(pool)
    BY <1>2, SurveyNumbers, FS_Subset
  <2>2. Cardinality(pool) \in Nat
    BY <2>1, FS_CardinalityType
  <2>3. Cardinality(pool) * Cardinality(pool) >= Cardinality(pool)
    BY <2>2
  <2>4. Survey!FrontierIsKept'
    BY <1>3, <1>4, <1>5, <2>3 DEF Survey!FrontierIsKept
  <2> QED
    BY <1>2, <1>3, <1>5, <2>4
       DEF SurveyInv, Choosing, Marks, Survey!OnlyRecordedChoices, Survey!BeginRound, Survey!Requested, Survey!survey
<1>6. ASSUME NEW trusted \in SUBSET {t \in pool : surVerdict[t] = "unsure"},
             surOffered' \in Survey!Frontier(pool, trusted)
      PROVE  Choosing'
  <2>1. /\ surOffered' \subseteq pool
        /\ Cardinality(surOffered') * Cardinality(surOffered') >= Cardinality(pool)
        /\ {t \in pool : surVerdict[t] = "keep"} \subseteq surOffered'
        /\ (\E t \in surOffered' : surVerdict[t] = "sure") => {t \in pool : surVerdict[t] = "unsure"} \subseteq surOffered'
    BY <1>2, <1>6, FilterKeeps
  <2>2. Survey!FrontierIsKept'
    BY <1>3, <1>4, <2>1 DEF Survey!FrontierIsKept
  <2> QED
    BY <1>2, <1>3, <2>1, <2>2
       DEF SurveyInv, Choosing, Marks, Survey!OnlyRecordedChoices, Survey!BeginRound, Survey!Requested, Survey!survey
<1> QED
  BY <1>1, <1>5, <1>6 DEF pool

(* The other steps of a round: what is chosen was chosen by a round that is *)
(* recorded.                                                                *)
LEMMA RoundEnds ==
  ASSUME SurveyInv,
         \/ Survey!NothingRead \/ Survey!Choose \/ Survey!NoAnswer \/ Survey!ForgetRound \/ Survey!Cancelled
  PROVE  Choosing'
<1>1. Marks'
  BY SurveyNumbers
     DEF SurveyInv, Choosing, Marks, Survey!NothingRead, Survey!Choose, Survey!NoAnswer, Survey!ForgetRound,
         Survey!Cancelled, Survey!survey
<1>2. Survey!OnlyRecordedChoices'
  BY DEF SurveyInv, Choosing, Survey!OnlyRecordedChoices, Survey!NothingRead, Survey!Choose, Survey!NoAnswer,
         Survey!ForgetRound, Survey!Cancelled
<1>3. Survey!FrontierIsKept'
  BY DEF SurveyInv, Choosing, Survey!FrontierIsKept, Survey!NothingRead, Survey!Choose, Survey!NoAnswer,
         Survey!ForgetRound, Survey!Cancelled
<1> QED
  BY <1>1, <1>2, <1>3 DEF Choosing

(* What SQLite holds is what a crash leaves.                                *)
LEMMA SurveyCrashes == ASSUME SurveyInv, Survey!Crash PROVE Reading' /\ Choosing'
<1>1. Places'
  BY SurveyNumbers DEF SurveyInv, Reading, Places, Survey!Crash, Survey!Begin
<1>2. NothingSkipped'
  BY DEF SurveyInv, Reading, NothingSkipped, Survey!Behind, Survey!Crash
<1>3. Marks'
  BY SurveyNumbers DEF SurveyInv, Choosing, Marks, Survey!Crash, Survey!Verdicts
<1> QED
  BY <1>1, <1>2, <1>3 DEF Reading, Choosing, Survey!FrontierIsKept, Survey!OnlyRecordedChoices, Survey!Crash

LEMMA SurveyStep == SurveyInv /\ [Survey!Next]_Survey!vars => SurveyInv'
<1> SUFFICES ASSUME SurveyInv, [Survey!Next]_Survey!vars PROVE SurveyInv'
  OBVIOUS
<1>1. CASE UNCHANGED Survey!vars
  BY <1>1 DEF Survey!vars, SurveyInv, SurveyFlags, Reading, Places, NothingSkipped, Survey!Behind, Choosing, Marks,
              Survey!FrontierIsKept, Survey!OnlyRecordedChoices
<1>2. CASE Survey!Next
  <2>1. SurveyFlags'
    BY <1>2, SurveyFlagsStep DEF SurveyInv
  <2>2. ASSUME \/ Survey!NothingRead \/ Survey!BeginRound \/ Survey!Choose \/ Survey!NoAnswer
               \/ Survey!ForgetRound \/ Survey!Cancelled
        PROVE  Reading'
    BY <2>2 DEF SurveyInv, Reading, Places, NothingSkipped, Survey!Behind, Survey!NothingRead, Survey!BeginRound,
                Survey!Choose, Survey!NoAnswer, Survey!ForgetRound, Survey!Cancelled, Survey!survey
  <2>3. Reading' /\ Choosing'
    BY <1>2, <2>2, SurveyBegins, PageIsRead, SurveyGoes, RoundBegins, RoundEnds, SurveyCrashes
       DEF Survey!Next, Survey!Step
  <2> QED
    BY <2>1, <2>3 DEF SurveyInv
<1> QED
  BY <1>1, <1>2

(* For any listings and any answers: no page is passed over, the screener   *)
(* alone drops nothing, and what is handed on was chosen by a round that is *)
(* recorded as having chosen it (market_discovery.py:760-1440).             *)
THEOREM SurveyIsSound == Survey!Spec => [](Survey!NoPageIsSkipped /\ Survey!ChoicesAreHonest)
<1>1. SurveyInv => Survey!NoPageIsSkipped /\ Survey!ChoicesAreHonest
  BY SurveyTypes DEF SurveyInv, Reading, Choosing, NothingSkipped, Survey!NoPageIsSkipped, Survey!ChoicesAreHonest
<1> QED
  BY <1>1, SurveyInit, SurveyStep, PTL DEF Survey!Spec

----------------------------------------------------------------------------
(* ---- MarketWork ---- *)

Times == {Work!None} \cup 0..Work!Longest

(* The order of the queue: every listed contract has its one place, and     *)
(* nothing waits before what is due earlier. *)
InOrder(q, rows) ==
  /\ q \in Seq(Contracts) /\ Work!IsInjective(q)
  /\ \A c \in Contracts : rows[c].active => Work!Contains(q, c)
  /\ \A i, j \in DOMAIN q : i < j => rows[q[i]].wait <= rows[q[j]].wait

(* The queue and its rows: an answer given at a price that has moved since  *)
(* is gone. *)
Tables ==
  /\ workRow \in [Contracts -> Work!Rows] /\ InOrder(workQueue, workRow)
  /\ workStale \subseteq Contracts
  /\ \A c \in workStale : workRow[c].answer = "none"

(* The reviews: what is owed has an appointment in time. *)
Kept(s, o) ==
  \A c \in Contracts : o[c] # Work!None => \E i \in 1..Len(s) : s[i].contract = c /\ s[i].wait <= o[c]

Reviews ==
  /\ workAppts \in Seq(Work!Appointments) /\ Len(workAppts) <= MaxAppts
  /\ workOwed \in [Contracts -> Times] /\ Kept(workAppts, workOwed)

WorkMarks ==
  /\ workStage \in {"wait", "survey", "select", "decide"}
  /\ workListed \subseteq Topics /\ workScan \in 0..Interval

WorkInv == workAble \in BOOLEAN /\ Tables /\ Reviews /\ WorkMarks

(* Every time the queue or an appointment is given is within the longest.   *)
LEMMA WorkNumbers ==
  /\ Interval \in Nat /\ MaxAppts \in Nat /\ IsFiniteSet(Contracts)
  /\ Work!Longest \in Nat
  /\ {Fresh, Backoff, Retry} \subseteq 0..Work!Longest /\ Delays \subseteq 0..Work!Longest
  /\ \A c \in Contracts : TopicOf[c] \in Topics
<1>1. /\ Fresh \in Nat /\ Backoff \in Nat /\ Retry \in Nat /\ Interval \in Nat /\ Delays \subseteq Nat /\ MaxAppts \in Nat
      /\ \A c \in Contracts : TopicOf[c] \in Topics
  BY MarketsAssumption DEF Work!MarketWorkAssumption
<1>2. IsFiniteSet(Contracts)
  BY MarketsAssumption DEF Work!MarketWorkAssumption, Work!IsFiniteSet, IsFiniteSet
<1>3. PICK d \in Delays : \A e \in Delays : e <= d
  BY MarketsAssumption DEF Work!MarketWorkAssumption
<1>4. PICK m \in {Fresh, Backoff, Retry, d} : \A x \in {Fresh, Backoff, Retry, d} : x <= m
  <2>1. Fresh \in Nat /\ Backoff \in Nat /\ Retry \in Nat /\ d \in Nat
    BY <1>1
  <2> QED
    BY <2>1
<1>5. m \in Work!Horizon /\ \A e \in Work!Horizon : e <= m
  BY <1>1, <1>3, <1>4 DEF Work!Horizon
<1>6. Work!Longest \in Work!Horizon /\ \A e \in Work!Horizon : e <= Work!Longest
  BY <1>5 DEF Work!Longest
<1>7. Work!Horizon \subseteq Nat /\ {Fresh, Backoff, Retry} \cup Delays \subseteq Work!Horizon
  BY <1>1 DEF Work!Horizon
<1> QED
  BY <1>1, <1>2, <1>6, <1>7

(* What happens to a row leaves a row.                                      *)
LEMMA RowsMove ==
  /\ Work!Unseen \in Work!Rows /\ [Work!Unseen EXCEPT !.active = TRUE] \in Work!Rows
  /\ \A r \in Work!Rows : \A a \in {"keep", "drop"} : Work!Answered(r, a) \in Work!Rows
  /\ \A r \in Work!Rows : Work!PutOff(r) \in Work!Rows
  /\ \A r \in Work!Rows : \A b \in BOOLEAN : [r EXCEPT !.active = b] \in Work!Rows
  /\ \A r \in Work!Rows : \A w, v \in 0..Work!Longest : [r EXCEPT !.wait = w, !.skip = v] \in Work!Rows
  /\ \A r \in Work!Rows : r.wait \in 0..Work!Longest /\ r.skip \in 0..Work!Longest
<1> DEFINE L == Work!Longest
<1>1. L \in Nat /\ {Fresh, Backoff, Retry} \subseteq 0..L
  BY WorkNumbers
<1> HIDE DEF L
<1>2. Work!Rows = [active : BOOLEAN, wait : 0..L, skip : 0..L, answer : {"none", "keep", "drop"}, failed : BOOLEAN]
  BY DEF Work!Rows, L
<1>3. Work!Unseen \in Work!Rows /\ [Work!Unseen EXCEPT !.active = TRUE] \in Work!Rows
  <2>1. 0 \in 0..L
    BY <1>1
  <2>2. Work!Unseen \in Work!Rows
    BY <1>2, <2>1 DEF Work!Unseen
  <2> QED
    BY <1>2, <2>2
<1>4. \A r \in Work!Rows : \A a \in {"keep", "drop"} : Work!Answered(r, a) \in Work!Rows
  BY <1>1, <1>2 DEF Work!Answered
<1>5. \A r \in Work!Rows : Work!PutOff(r) \in Work!Rows
  BY <1>1, <1>2 DEF Work!PutOff
<1>6. \A r \in Work!Rows : \A b \in BOOLEAN : [r EXCEPT !.active = b] \in Work!Rows
  BY <1>2
<1>7. \A r \in Work!Rows : \A w, v \in 0..L : [r EXCEPT !.wait = w, !.skip = v] \in Work!Rows
  BY <1>2
<1>8. \A r \in Work!Rows : r.wait \in 0..L /\ r.skip \in 0..L
  BY <1>2
<1> QED
  BY <1>3, <1>4, <1>5, <1>6, <1>7, <1>8 DEF L

(* A queue written anew has its contracts once each, in their order.        *)
LEMMA QueueIsWritten ==
  ASSUME NEW members \in SUBSET Contracts, NEW moved, NEW rows, NEW q \in Work!Queued(members, moved, rows),
         \A c \in Contracts : rows[c].active => c \in members
  PROVE  InOrder(q, rows)
<1> DEFINE n == Cardinality(members)
<1>1. IsFiniteSet(members) /\ n \in Nat
  BY WorkNumbers, FS_Subset, FS_CardinalityType
<1>2. /\ q \in [1..n -> members] /\ \A i, j \in 1..n : i # j => q[i] # q[j]
      /\ \A i, j \in DOMAIN q : i < j => rows[q[i]].wait <= rows[q[j]].wait
  <2>1. Work!Cardinality(members) = n
    BY DEF Work!Cardinality, Cardinality
  <2> HIDE DEF n
  <2>2. Work!SetToSeqs(members) = {f \in [1..n -> members] : \A i, j \in 1..n : i # j => f[i] # f[j]}
    BY <2>1 DEF Work!SetToSeqs
  <2> QED
    BY <2>2 DEF Work!Queued
<1>3. q \in Injection(1..n, members)
  BY <1>2 DEF Injection, IsInjective
<1>4. IsFiniteSet(1..n) /\ Cardinality(1..n) = n
  <2> HIDE DEF n
  <2>1. IsFiniteSet(1..n) /\ Cardinality(1..n) = IF 1 > n THEN 0 ELSE n - 1 + 1
    BY <1>1, FS_Interval
  <2> QED
    BY <1>1, <2>1
<1>5. q \in Surjection(1..n, members)
  BY <1>1, <1>3, <1>4, FS_Injection
<1> HIDE DEF n
<1>6. \A c \in members : \E i \in 1..n : q[i] = c
  BY <1>5 DEF Surjection
<1>7. q \in Seq(Contracts) /\ Len(q) = n /\ DOMAIN q = 1..n
  <2>1. q \in [1..n -> Contracts]
    BY <1>2
  <2> QED
    BY <1>1, <2>1
<1>8. Work!IsInjective(q)
  BY <1>2, <1>7 DEF Work!IsInjective
<1>9. \A c \in members : Work!Contains(q, c)
  BY <1>6, <1>7 DEF Work!Contains
<1> QED
  BY <1>2, <1>7, <1>8, <1>9 DEF InOrder

(* A queue that is left as it is stays in order while time passes.          *)
LEMMA OrderStays ==
  ASSUME NEW q, NEW rows, NEW new, InOrder(q, rows),
         \A c \in Contracts : new[c].active => rows[c].active,
         \A c, d \in Contracts : rows[c].wait <= rows[d].wait => new[c].wait <= new[d].wait
  PROVE  InOrder(q, new)
<1>1. \A i \in DOMAIN q : q[i] \in Contracts
  BY DEF InOrder
<1> QED
  BY <1>1 DEF InOrder

(* Time takes from every wait alike.                                        *)
LEMMA TimePasses ==
  ASSUME NEW n \in 0..1
  PROVE  /\ \A most \in Nat : \A w \in 0..most : Work!Less(w, n) \in 0..most
         /\ \A w, v \in Nat : w <= v => Work!Less(w, n) <= Work!Less(v, n)
BY DEF Work!Less

(* An appointment that is booked is there, and the others stay.             *)
LEMMA Booked ==
  ASSUME NEW s \in Seq(Work!Appointments), NEW a \in Work!Appointments
  PROVE  /\ Work!Book(s, a) \in Seq(Work!Appointments) /\ Len(Work!Book(s, a)) = Len(s) + 1
         /\ \E i \in 1..(Len(s) + 1) : Work!Book(s, a)[i] = a
         /\ \A j \in 1..Len(s) : \E i \in 1..(Len(s) + 1) : Work!Book(s, a)[i] = s[j]
<1> DEFINE before == {i \in 1..Len(s) : s[i].wait <= a.wait}
           k == Cardinality(before)
           A == SubSeq(s, 1, k)
           B == SubSeq(s, k + 1, Len(s))
           m == Len(s)
<1>1. m \in Nat /\ k \in 0..m
  <2>1. m \in Nat
    OBVIOUS
  <2>2. IsFiniteSet(1..m) /\ Cardinality(1..m) = IF 1 > m THEN 0 ELSE m - 1 + 1
    BY <2>1, FS_Interval
  <2>3. IsFiniteSet(before) /\ Cardinality(before) <= Cardinality(1..m)
    BY <2>2, FS_Subset
  <2>4. k \in Nat
    BY <2>3, FS_CardinalityType
  <2> QED
    BY <2>1, <2>2, <2>3, <2>4
<1>2. Work!Book(s, a) = (A \o <<a>>) \o B
  <2>1. Work!Cardinality(before) = k
    BY DEF Work!Cardinality, Cardinality
  <2> HIDE DEF k
  <2>2. Work!Book(s, a) = Work!InsertAt(s, k + 1, a)
    BY <2>1 DEF Work!Book
  <2>3. (k + 1) - 1 = k
    BY <1>1
  <2> QED
    BY <2>2, <2>3 DEF Work!InsertAt
<1> HIDE DEF before, k
<1>3. /\ A \in Seq(Work!Appointments) /\ Len(A) = k /\ \A i \in 1..k : A[i] = s[i]
      /\ B \in Seq(Work!Appointments) /\ Len(B) = m - k /\ \A i \in 1..(m - k) : B[i] = s[k + i]
  <2>1. \A i \in 1..m : s[i] \in Work!Appointments
    OBVIOUS
  <2>2. /\ A \in Seq(Work!Appointments) /\ Len(A) = IF 1 <= k THEN k - 1 + 1 ELSE 0
        /\ \A i \in 1..(k - 1 + 1) : A[i] = s[1 + i - 1]
    BY <1>1, <2>1, SubSeqProperties
  <2>3. /\ B \in Seq(Work!Appointments) /\ Len(B) = IF k + 1 <= m THEN m - (k + 1) + 1 ELSE 0
        /\ \A i \in 1..(m - (k + 1) + 1) : B[i] = s[k + 1 + i - 1]
    BY <1>1, <2>1, SubSeqProperties
  <2> QED
    BY <1>1, <2>2, <2>3
<1> HIDE DEF A, B
<1> DEFINE C == A \o <<a>>
<1>4. /\ C \in Seq(Work!Appointments) /\ Len(C) = k + 1 /\ C[k + 1] = a
      /\ \A i \in 1..k : C[i] = s[i]
  <2>1. C = Append(A, a)
    BY <1>3, AppendIsConcat
  <2> HIDE DEF C
  <2> QED
    BY <1>1, <1>3, <2>1, AppendProperties
<1> HIDE DEF C
<1> DEFINE D == C \o B
<1>5. /\ D \in Seq(Work!Appointments) /\ Len(D) = m + 1
      /\ \A i \in 1..(m + 1) : D[i] = IF i <= k + 1 THEN C[i] ELSE B[i - (k + 1)]
  <2>1. /\ D \in Seq(Work!Appointments) /\ Len(D) = Len(C) + Len(B)
        /\ \A i \in 1..(Len(C) + Len(B)) : D[i] = IF i <= Len(C) THEN C[i] ELSE B[i - Len(C)]
    BY <1>3, <1>4, ConcatProperties
  <2>2. Len(C) + Len(B) = m + 1
    BY <1>1, <1>3, <1>4
  <2> QED
    BY <1>4, <2>1, <2>2
<1> HIDE DEF D
<1>6. k + 1 \in 1..(m + 1) /\ D[k + 1] = a
  BY <1>1, <1>4, <1>5
<1>7. ASSUME NEW j \in 1..m PROVE \E i \in 1..(m + 1) : D[i] = s[j]
  <2>1. CASE j <= k
    BY <1>1, <1>4, <1>5, <2>1
  <2>2. CASE j > k
    <3>1. j + 1 \in 1..(m + 1) /\ ~(j + 1 <= k + 1) /\ (j + 1) - (k + 1) = j - k /\ j - k \in 1..(m - k) /\ k + (j - k) = j
      BY <1>1, <2>2
    <3>2. D[j + 1] = B[j - k] /\ B[j - k] = s[j]
      BY <1>3, <1>5, <3>1
    <3> QED
      BY <3>1, <3>2
  <2> QED
    BY <1>1, <2>1, <2>2
<1>8. Work!Book(s, a) = D
  BY <1>2 DEF C, D
<1> QED
  BY <1>5, <1>6, <1>7, <1>8

(* With a new appointment, what it answers is kept, and what was kept is.   *)
LEMMA KeptBooked ==
  ASSUME NEW s \in Seq(Work!Appointments), NEW c \in Contracts, NEW d \in 0..Work!Longest, NEW o,
         \A e \in Contracts : o[e] # Work!None =>
           \/ e = c /\ d <= o[e]
           \/ \E i \in 1..Len(s) : s[i].contract = e /\ s[i].wait <= o[e]
  PROVE  /\ Work!Book(s, Work!Appointment(c, d)) \in Seq(Work!Appointments)
         /\ Len(Work!Book(s, Work!Appointment(c, d))) = Len(s) + 1
         /\ Kept(Work!Book(s, Work!Appointment(c, d)), o)
<1> DEFINE a == Work!Appointment(c, d)
           t == Work!Book(s, a)
<1>1. a \in Work!Appointments /\ a.contract = c /\ a.wait = d
  BY DEF Work!Appointment, Work!Appointments
<1> HIDE DEF a
<1>2. /\ t \in Seq(Work!Appointments) /\ Len(t) = Len(s) + 1
      /\ \E i \in 1..(Len(s) + 1) : t[i] = a
      /\ \A j \in 1..Len(s) : \E i \in 1..(Len(s) + 1) : t[i] = s[j]
  BY <1>1, Booked
<1> HIDE DEF t
<1>3. ASSUME NEW e \in Contracts, o[e] # Work!None
      PROVE  \E i \in 1..Len(t) : t[i].contract = e /\ t[i].wait <= o[e]
  <2>1. CASE e = c /\ d <= o[e]
    BY <1>1, <1>2, <2>1
  <2>2. ASSUME NEW j \in 1..Len(s), s[j].contract = e, s[j].wait <= o[e]
        PROVE  \E i \in 1..Len(t) : t[i].contract = e /\ t[i].wait <= o[e]
    <3>1. PICK i \in 1..(Len(s) + 1) : t[i] = s[j]
      BY <1>2
    <3> QED
      BY <1>2, <2>2, <3>1
  <2> QED
    BY <1>3, <2>1, <2>2
<1> QED
  BY <1>2, <1>3 DEF Kept, t, a

(* Time takes from an appointment and from what is owed alike.              *)
LEMMA KeptAged ==
  ASSUME NEW s \in Seq(Work!Appointments), NEW o \in [Contracts -> Times], NEW n \in 0..1
  PROVE  /\ Work!AgedAppts(s, n) \in Seq(Work!Appointments) /\ Len(Work!AgedAppts(s, n)) = Len(s)
         /\ \A i \in 1..Len(s) : Work!AgedAppts(s, n)[i].contract = s[i].contract
         /\ Work!AgedOwed(o, n) \in [Contracts -> Times]
         /\ \A c \in Contracts : \A i \in 1..Len(s) :
              Work!AgedOwed(o, n)[c] # Work!None /\ o[c] # Work!None /\ s[i].wait <= o[c] =>
                Work!AgedAppts(s, n)[i].wait <= Work!AgedOwed(o, n)[c]
         /\ \A c \in Contracts : Work!AgedOwed(o, n)[c] # Work!None => o[c] # Work!None
<1> DEFINE L == Work!Longest
           t == Work!AgedAppts(s, n)
           p == Work!AgedOwed(o, n)
<1>1. L \in Nat
  BY WorkNumbers
<1>2. Work!None = -1
  BY DEF Work!None
<1>3. t = [i \in 1..Len(s) |-> [s[i] EXCEPT !.wait = Work!Less(s[i].wait, n)]]
  BY DEF Work!AgedAppts
<1>4. p = [c \in Contracts |-> IF o[c] = Work!None THEN Work!None ELSE Work!Less(o[c], n)]
  BY DEF Work!AgedOwed
<1>5. Work!Appointments = [contract : Contracts, wait : 0..L] /\ Times = {Work!None} \cup 0..L
  BY DEF Work!Appointments, Times
<1> HIDE DEF L, t, p
<1>6. ASSUME NEW i \in 1..Len(s)
      PROVE  /\ t[i] \in Work!Appointments /\ t[i].contract = s[i].contract
             /\ t[i].wait = Work!Less(s[i].wait, n) /\ s[i].wait \in 0..L
  <2>1. s[i] \in Work!Appointments
    OBVIOUS
  <2>2. s[i].wait \in 0..L /\ s[i].contract \in Contracts
    BY <1>5, <2>1
  <2>3. Work!Less(s[i].wait, n) \in 0..L
    BY <1>1, <2>2, TimePasses
  <2>4. t[i] = [s[i] EXCEPT !.wait = Work!Less(s[i].wait, n)]
    BY <1>3
  <2> QED
    BY <1>5, <2>1, <2>2, <2>3, <2>4
<1>7. t \in Seq(Work!Appointments) /\ Len(t) = Len(s)
  <2>1. t \in [1..Len(s) -> Work!Appointments]
    BY <1>3, <1>6
  <2>2. Len(s) \in Nat
    OBVIOUS
  <2> QED
    BY <2>1, <2>2
<1>8. \A c \in Contracts :
        \/ o[c] = Work!None /\ p[c] = Work!None
        \/ o[c] \in 0..L /\ o[c] # Work!None /\ p[c] = Work!Less(o[c], n) /\ p[c] \in 0..L
  <2> SUFFICES ASSUME NEW c \in Contracts
               PROVE  \/ o[c] = Work!None /\ p[c] = Work!None
                      \/ o[c] \in 0..L /\ o[c] # Work!None /\ p[c] = Work!Less(o[c], n) /\ p[c] \in 0..L
    OBVIOUS
  <2>1. \/ o[c] = Work!None
        \/ o[c] \in 0..L /\ o[c] # Work!None
    <3>1. o[c] \in {Work!None} \cup 0..L
      BY <1>5
    <3>2. \A x \in 0..L : x # -1
      BY <1>1
    <3> QED
      BY <1>2, <3>1, <3>2
  <2>2. o[c] \in 0..L => Work!Less(o[c], n) \in 0..L
    BY <1>1, TimePasses
  <2> QED
    BY <1>4, <2>1, <2>2
<1>9. p \in [Contracts -> Times]
  BY <1>4, <1>5, <1>8
<1>10. ASSUME NEW c \in Contracts, NEW i \in 1..Len(s), p[c] # Work!None, o[c] # Work!None, s[i].wait <= o[c]
       PROVE  t[i].wait <= p[c]
  <2>1. o[c] \in 0..L /\ p[c] = Work!Less(o[c], n)
    BY <1>8, <1>10
  <2>2. s[i].wait \in Nat /\ o[c] \in Nat
    BY <1>1, <1>6, <2>1
  <2> QED
    BY <1>6, <1>10, <2>1, <2>2, TimePasses
<1>11. \A c \in Contracts : p[c] # Work!None => o[c] # Work!None
  BY <1>8
<1> QED
  BY <1>6, <1>7, <1>9, <1>10, <1>11 DEF t, p

(* Rows grow older and stay rows, in the order of the queue.                *)
LEMMA RowsAge ==
  ASSUME Tables, NEW n \in 0..1
  PROVE  /\ Work!AgedRows(n) \in [Contracts -> Work!Rows] /\ InOrder(workQueue, Work!AgedRows(n))
         /\ \A c \in workStale : Work!AgedRows(n)[c].answer = "none"
<1> DEFINE new == Work!AgedRows(n)
<1>1. new = [c \in Contracts |-> [workRow[c] EXCEPT !.wait = Work!Less(workRow[c].wait, n),
                                                    !.skip = Work!Less(workRow[c].skip, n)]]
  BY DEF Work!AgedRows
<1> HIDE DEF new
<1>2. \A c \in Contracts : /\ workRow[c] \in Work!Rows
                           /\ workRow[c].wait \in Nat
                           /\ Work!Less(workRow[c].wait, n) \in 0..Work!Longest
                           /\ Work!Less(workRow[c].skip, n) \in 0..Work!Longest
  <2> DEFINE L == Work!Longest
  <2>1. L \in Nat
    BY WorkNumbers
  <2>2. \A r \in Work!Rows : r.wait \in 0..L /\ r.skip \in 0..L
    BY RowsMove
  <2>3. \A w \in 0..L : w \in Nat /\ Work!Less(w, n) \in 0..L
    BY <2>1, TimePasses
  <2> HIDE DEF L
  <2>4. \A c \in Contracts : workRow[c] \in Work!Rows
    BY DEF Tables
  <2> QED
    BY <2>2, <2>3, <2>4 DEF L
<1>3. \A c \in Contracts : /\ new[c] \in Work!Rows /\ new[c].wait = Work!Less(workRow[c].wait, n)
                           /\ new[c].answer = workRow[c].answer /\ new[c].active = workRow[c].active
  <2> SUFFICES ASSUME NEW c \in Contracts
               PROVE  /\ new[c] \in Work!Rows /\ new[c].wait = Work!Less(workRow[c].wait, n)
                      /\ new[c].answer = workRow[c].answer /\ new[c].active = workRow[c].active
    OBVIOUS
  <2>1. new[c] = [workRow[c] EXCEPT !.wait = Work!Less(workRow[c].wait, n), !.skip = Work!Less(workRow[c].skip, n)]
    BY <1>1
  <2>2. new[c] \in Work!Rows
    <3>1. \A r \in Work!Rows : \A w, v \in 0..Work!Longest : [r EXCEPT !.wait = w, !.skip = v] \in Work!Rows
      BY RowsMove
    <3>2. \A w, v \in 0..Work!Longest : [workRow[c] EXCEPT !.wait = w, !.skip = v] \in Work!Rows
      BY <1>2, <3>1
    <3>3. [workRow[c] EXCEPT !.wait = Work!Less(workRow[c].wait, n), !.skip = Work!Less(workRow[c].skip, n)] \in Work!Rows
      BY <1>2, <3>2
    <3> QED
      BY <2>1, <3>3
  <2>3. new[c].wait = Work!Less(workRow[c].wait, n) /\ new[c].answer = workRow[c].answer
    BY <1>2, <2>1 DEF Work!Rows
  <2>4. new[c].active = workRow[c].active
    BY <1>2, <2>1 DEF Work!Rows
  <2> QED
    BY <2>2, <2>3, <2>4
<1>4. new \in [Contracts -> Work!Rows]
  BY <1>1, <1>3
<1>5. \A c, d \in Contracts : workRow[c].wait <= workRow[d].wait => new[c].wait <= new[d].wait
  BY <1>2, <1>3, TimePasses
<1>6. InOrder(workQueue, new)
  BY <1>3, <1>5, OrderStays DEF Tables
<1> QED
  BY <1>3, <1>4, <1>6 DEF Tables, new

(* Nothing is listed and nothing is owed at first.                          *)
LEMMA WorkInit == Work!Init => WorkInv
<1> SUFFICES ASSUME Work!Init PROVE WorkInv
  OBVIOUS
<1>1. Tables
  <2>1. workRow = [c \in Contracts |-> Work!Unseen] /\ workQueue = <<>> /\ workStale = {}
    BY DEF Work!Init
  <2>2. Work!Unseen \in Work!Rows /\ Work!Unseen.active = FALSE
    BY RowsMove DEF Work!Unseen
  <2>3. InOrder(workQueue, workRow)
    BY <2>1, <2>2 DEF InOrder, Work!IsInjective
  <2> QED
    BY <2>1, <2>2, <2>3 DEF Tables
<1>2. Reviews
  BY WorkNumbers DEF Work!Init, Reviews, Kept, Times
<1>3. WorkMarks
  BY WorkNumbers DEF Work!Init, WorkMarks
<1>4. workAble \in BOOLEAN
  BY DEF Work!Init
<1> QED
  BY <1>1, <1>2, <1>3, <1>4 DEF WorkInv

(* A listed contract is in the queue.                                       *)
LEMMA QueueHolds ==
  ASSUME Tables
  PROVE  /\ Work!ToSet(workQueue) \subseteq Contracts
         /\ \A c \in Contracts : Work!Contains(workQueue, c) <=> c \in Work!ToSet(workQueue)
         /\ \A c \in Contracts : workRow[c].active => c \in Work!ToSet(workQueue)
<1>1. workQueue \in Seq(Contracts) /\ DOMAIN workQueue = 1..Len(workQueue)
  BY DEF Tables, InOrder
<1>2. \A i \in DOMAIN workQueue : workQueue[i] \in Contracts
  BY <1>1
<1>3. \A c \in Contracts : Work!Contains(workQueue, c) <=> c \in Work!ToSet(workQueue)
  BY <1>1 DEF Work!Contains, Work!ToSet
<1> QED
  BY <1>2, <1>3 DEF Tables, InOrder, Work!ToSet

(* A chunk is answered or put off.                                          *)
LEMMA ChunkKeeps == ASSUME Tables, Work!Chunk PROVE Tables'
<1>1. PICK c \in Contracts :
        \E r \in {Work!Answered(workRow[c], "keep"), Work!Answered(workRow[c], "drop"), Work!PutOff(workRow[c])} :
          /\ workRow' = [workRow EXCEPT ![c] = r]
          /\ workStale' = IF r.failed THEN workStale ELSE workStale \ {c}
          /\ workQueue' \in Work!Queued(Work!ToSet(workQueue), {c}, workRow')
  BY DEF Work!Chunk
<1>2. PICK r \in {Work!Answered(workRow[c], "keep"), Work!Answered(workRow[c], "drop"), Work!PutOff(workRow[c])} :
        /\ workRow' = [workRow EXCEPT ![c] = r]
        /\ workStale' = IF r.failed THEN workStale ELSE workStale \ {c}
        /\ workQueue' \in Work!Queued(Work!ToSet(workQueue), {c}, workRow')
  BY <1>1
<1>3. workRow \in [Contracts -> Work!Rows] /\ workRow[c] \in Work!Rows
  BY DEF Tables
<1>4. r \in Work!Rows
  BY <1>2, <1>3, RowsMove
<1>5. r.active = workRow[c].active /\ (r.failed => r.answer = workRow[c].answer)
  <2>1. CASE r = Work!PutOff(workRow[c])
    <3>1. r.answer = workRow[c].answer
      BY <1>3, <2>1 DEF Work!PutOff, Work!Rows
    <3>2. r.active = workRow[c].active
      BY <1>3, <2>1 DEF Work!PutOff, Work!Rows
    <3> QED
      BY <3>1, <3>2
  <2>2. ASSUME NEW a \in {"keep", "drop"}, r = Work!Answered(workRow[c], a)
        PROVE  r.active = workRow[c].active /\ ~r.failed
    <3>1. r.failed = FALSE
      BY <1>3, <2>2 DEF Work!Answered, Work!Rows
    <3>2. r.active = workRow[c].active
      BY <1>3, <2>2 DEF Work!Answered, Work!Rows
    <3> QED
      BY <3>1, <3>2
  <2> QED
    BY <1>2, <2>1, <2>2
<1>6. workRow' \in [Contracts -> Work!Rows] /\ \A e \in Contracts : workRow'[e] = IF e = c THEN r ELSE workRow[e]
  BY <1>2, <1>3, <1>4
<1>7. InOrder(workQueue', workRow')
  <2>1. \A e \in Contracts : workRow'[e].active => workRow[e].active
    BY <1>5, <1>6
  <2>2. \A e \in Contracts : workRow'[e].active => e \in Work!ToSet(workQueue)
    BY <2>1, QueueHolds
  <2> QED
    BY <1>2, <2>2, QueueHolds, QueueIsWritten
<1>8. \A e \in workStale' : workRow'[e].answer = "none"
  BY <1>2, <1>5, <1>6 DEF Tables
<1> QED
  BY <1>2, <1>6, <1>7, <1>8 DEF Tables

(* A topic is listed: contracts that moved begin anew, without an answer.   *)
LEMMA ListingKeeps == ASSUME Tables, NEW page \in SUBSET Topics, Work!ListPage(page) PROVE Tables'
<1>1. PICK shown \in SUBSET {c \in Contracts : TopicOf[c] \in page} :
        \E moved \in SUBSET (shown \cap Volatile) :
          LET woken == Work!Woken(shown, moved) IN
          /\ workRow' = [c \in Contracts |-> IF TopicOf[c] \in page THEN Work!Listed(workRow[c], c, shown, woken)
                                             ELSE workRow[c]]
          /\ workQueue' \in Work!Queued(Work!ToSet(workQueue) \cup woken, woken, workRow')
          /\ workStale' = workStale \cup {c \in moved : workRow[c].answer # "none"}
  BY DEF Work!ListPage
<1>2. PICK moved \in SUBSET (shown \cap Volatile) :
        LET woken == Work!Woken(shown, moved) IN
        /\ workRow' = [c \in Contracts |-> IF TopicOf[c] \in page THEN Work!Listed(workRow[c], c, shown, woken)
                                           ELSE workRow[c]]
        /\ workQueue' \in Work!Queued(Work!ToSet(workQueue) \cup woken, woken, workRow')
        /\ workStale' = workStale \cup {c \in moved : workRow[c].answer # "none"}
  BY <1>1
<1> DEFINE woken == Work!Woken(shown, moved)
           fresh == [Work!Unseen EXCEPT !.active = TRUE]
<1>3. /\ woken \subseteq Contracts /\ moved \subseteq woken /\ shown \subseteq Contracts
      /\ \A c \in shown : ~Work!Contains(workQueue, c) => c \in woken
      /\ \A c \in woken : TopicOf[c] \in page
  BY DEF Work!Woken, Work!Known
<1> HIDE DEF woken
<1>4. workRow' = [c \in Contracts |-> IF TopicOf[c] \in page THEN Work!Listed(workRow[c], c, shown, woken) ELSE workRow[c]]
  BY <1>2 DEF woken
<1>5. \A c \in Contracts : workRow[c] \in Work!Rows
  BY DEF Tables
<1>6. \A c \in Contracts :
        \/ c \in woken /\ workRow'[c] = fresh
        \/ c \notin woken /\ workRow'[c] = workRow[c]
        \/ c \notin woken /\ workRow'[c] = [workRow[c] EXCEPT !.active = c \in shown]
  BY <1>3, <1>4 DEF Work!Listed
<1>7. fresh \in Work!Rows /\ fresh.answer = "none"
  BY RowsMove DEF Work!Unseen
<1> HIDE DEF fresh
<1>8. \A r \in Work!Rows : \A b \in BOOLEAN :
        [r EXCEPT !.active = b] \in Work!Rows /\ [r EXCEPT !.active = b].answer = r.answer
  <2>1. \A r \in Work!Rows : \A b \in BOOLEAN : [r EXCEPT !.active = b] \in Work!Rows
    BY RowsMove
  <2>2. \A r \in Work!Rows : \A b \in BOOLEAN : [r EXCEPT !.active = b].answer = r.answer
    BY DEF Work!Rows
  <2> QED
    BY <2>1, <2>2
<1>9. ASSUME NEW c \in Contracts
      PROVE  /\ workRow'[c] \in Work!Rows
             /\ c \in woken => workRow'[c].answer = "none"
             /\ c \notin woken => workRow'[c].answer = workRow[c].answer
  <2>1. (c \in shown) \in BOOLEAN
    OBVIOUS
  <2>2. /\ [workRow[c] EXCEPT !.active = c \in shown] \in Work!Rows
        /\ [workRow[c] EXCEPT !.active = c \in shown].answer = workRow[c].answer
    BY <1>5, <1>8, <2>1
  <2> QED
    BY <1>5, <1>6, <1>7, <2>2
<1>10. \A c \in Contracts : workRow'[c].active => c \in Work!ToSet(workQueue) \cup woken
  <2> SUFFICES ASSUME NEW c \in Contracts, c \notin woken, workRow'[c].active PROVE c \in Work!ToSet(workQueue)
    OBVIOUS
  <2>1. workRow'[c] = workRow[c] \/ workRow'[c] = [workRow[c] EXCEPT !.active = c \in shown]
    BY <1>6
  <2>2. CASE workRow'[c] = workRow[c]
    BY <2>2, QueueHolds
  <2>3. CASE workRow'[c] = [workRow[c] EXCEPT !.active = c \in shown]
    <3>1. workRow[c] \in Work!Rows
      BY <1>5
    <3>2. workRow'[c].active = (c \in shown)
      BY <2>3, <3>1 DEF Work!Rows
    <3> QED
      BY <1>3, <3>2, QueueHolds
  <2> QED
    BY <2>1, <2>2, <2>3
<1>11. InOrder(workQueue', workRow')
  <2>1. workQueue' \in Work!Queued(Work!ToSet(workQueue) \cup woken, woken, workRow')
    BY <1>2 DEF woken
  <2>2. Work!ToSet(workQueue) \cup woken \in SUBSET Contracts
    BY <1>3, QueueHolds
  <2> QED
    BY <1>10, <2>1, <2>2, QueueIsWritten
<1>12. workRow' \in [Contracts -> Work!Rows]
  BY <1>4, <1>9
<1>13. workStale' \subseteq Contracts /\ \A c \in workStale' : workRow'[c].answer = "none"
  <2>1. workStale' = workStale \cup {c \in moved : workRow[c].answer # "none"}
    BY <1>2
  <2>2. \A c \in workStale : c \in Contracts /\ workRow[c].answer = "none"
    BY DEF Tables
  <2> QED
    BY <1>3, <1>9, <2>1, <2>2
<1> QED
  BY <1>11, <1>12, <1>13 DEF Tables

(* A contract the model skips keeps its answer.                             *)
LEMMA SkippingKeeps ==
  ASSUME Tables, NEW c \in Contracts, NEW d \in Delays, Work!Skip(c, d)
  PROVE  Tables'
<1> DEFINE w == IF d < workRow[c].wait THEN d ELSE workRow[c].wait
           r == [workRow[c] EXCEPT !.wait = w, !.skip = d]
<1>1. /\ workRow' = [workRow EXCEPT ![c].skip = d, ![c].wait = w] /\ workStale' = workStale
      /\ workQueue' \in Work!Queued(Work!ToSet(workQueue), IF w = workRow[c].wait THEN {} ELSE {c}, workRow')
  BY DEF Work!Skip
<1>2. workRow \in [Contracts -> Work!Rows] /\ workRow[c] \in Work!Rows
  BY DEF Tables
<1>3. d \in 0..Work!Longest /\ w \in 0..Work!Longest
  BY <1>2, WorkNumbers, RowsMove
<1> HIDE DEF w
<1>4. r \in Work!Rows
  BY <1>2, <1>3, RowsMove
<1>5. r.active = workRow[c].active
  BY <1>2 DEF Work!Rows
<1>6. r.answer = workRow[c].answer
  BY <1>2 DEF Work!Rows
<1>7. \A e \in Contracts : workRow'[e] = IF e = c THEN r ELSE workRow[e]
  BY <1>1, <1>2 DEF Work!Rows
<1>8. workRow' \in [Contracts -> Work!Rows]
  <2>1. workRow' = [e \in Contracts |-> workRow'[e]]
    BY <1>1, <1>2
  <2> HIDE DEF r
  <2> QED
    BY <1>2, <1>4, <1>7, <2>1
<1> HIDE DEF r
<1>9. InOrder(workQueue', workRow')
  <2>1. \A e \in Contracts : workRow'[e].active => workRow[e].active
    BY <1>5, <1>7
  <2>2. \A e \in Contracts : workRow'[e].active => e \in Work!ToSet(workQueue)
    BY <2>1, QueueHolds
  <2> QED
    BY <1>1, <2>2, QueueHolds, QueueIsWritten
<1> QED
  BY <1>1, <1>6, <1>7, <1>8, <1>9 DEF Tables

(* Of two times owed the earlier is one of them.                            *)
LEMMA EarlierIsOne ==
  ASSUME NEW a \in Times, NEW d \in 0..Work!Longest
  PROVE  /\ Work!Earlier(a, d) \in Times
         /\ Work!Earlier(a, d) = d \/ (Work!Earlier(a, d) = a /\ a # Work!None)
<1>1. d \in Times
  BY DEF Times
<1>2. Work!Earlier(a, d) = d \/ (Work!Earlier(a, d) = a /\ a # Work!None)
  BY DEF Work!Earlier
<1> QED
  BY <1>1, <1>2

(* With a review asked for beside those that are kept, all are kept.        *)
LEMMA AskKeeps ==
  ASSUME NEW s \in Seq(Work!Appointments), NEW o \in [Contracts -> Times], Kept(s, o),
         NEW c \in Contracts, NEW d \in Delays,
         NEW p, p = [o EXCEPT ![c] = Work!Earlier(o[c], d)]
  PROVE  /\ Work!Book(s, Work!Appointment(c, d)) \in Seq(Work!Appointments)
         /\ Len(Work!Book(s, Work!Appointment(c, d))) = Len(s) + 1
         /\ Kept(Work!Book(s, Work!Appointment(c, d)), p)
         /\ p \in [Contracts -> Times]
         /\ Work!Covered(c, d) /\ s = workAppts => Kept(s, p)
<1> DEFINE t == Work!Book(s, Work!Appointment(c, d))
<1>1. d \in 0..Work!Longest
  BY WorkNumbers
<1>2. o[c] \in Times /\ d <= d
  BY <1>1
<1>3. /\ Work!Earlier(o[c], d) \in Times
      /\ Work!Earlier(o[c], d) = d \/ (Work!Earlier(o[c], d) = o[c] /\ o[c] # Work!None)
  BY <1>1, <1>2, EarlierIsOne
<1>4. p \in [Contracts -> Times] /\ \A e \in Contracts : p[e] = IF e = c THEN Work!Earlier(o[c], d) ELSE o[e]
  BY <1>3
<1>5. \A e \in Contracts : p[e] # Work!None =>
        \/ e = c /\ d <= p[e] /\ p[e] = d
        \/ \E i \in 1..Len(s) : s[i].contract = e /\ s[i].wait <= p[e]
  BY <1>2, <1>3, <1>4 DEF Kept
<1>6. t \in Seq(Work!Appointments) /\ Len(t) = Len(s) + 1 /\ Kept(t, p)
  BY <1>1, <1>5, KeptBooked
<1>7. Work!Covered(c, d) /\ s = workAppts => Kept(s, p)
  BY <1>5 DEF Kept, Work!Covered
<1> QED
  BY <1>4, <1>6, <1>7

(* The model skips a contract or asks for a review.                         *)
LEMMA SelectKeeps == ASSUME WorkInv, Work!Select PROVE Tables' /\ Reviews'
<1>1. CASE UNCHANGED <<Work!tables, workAppts, workOwed>>
  BY <1>1 DEF WorkInv, Tables, InOrder, Reviews, Kept, Work!tables
<1>2. ASSUME NEW c \in Contracts, NEW d \in Delays, Work!Skip(c, d) PROVE Tables' /\ Reviews'
  BY <1>2, SkippingKeeps DEF WorkInv, Reviews, Kept, Work!Skip
<1>3. ASSUME NEW c \in Contracts, NEW d \in Delays, Work!AskReview(c, d) PROVE Tables' /\ Reviews'
  <2>1. /\ Len(workAppts) < MaxAppts
        /\ workAppts' = IF Work!Covered(c, d) THEN workAppts ELSE Work!Book(workAppts, Work!Appointment(c, d))
        /\ workOwed' = [workOwed EXCEPT ![c] = Work!Earlier(workOwed[c], d)]
    BY <1>3 DEF Work!AskReview
  <2>2. /\ workAppts \in Seq(Work!Appointments) /\ Len(workAppts) <= MaxAppts
        /\ workOwed \in [Contracts -> Times] /\ Kept(workAppts, workOwed)
    BY DEF WorkInv, Reviews
  <2>3. /\ Work!Book(workAppts, Work!Appointment(c, d)) \in Seq(Work!Appointments)
        /\ Len(Work!Book(workAppts, Work!Appointment(c, d))) = Len(workAppts) + 1
        /\ Kept(Work!Book(workAppts, Work!Appointment(c, d)), workOwed') /\ workOwed' \in [Contracts -> Times]
        /\ Work!Covered(c, d) => Kept(workAppts, workOwed')
    BY <2>1, <2>2, AskKeeps
  <2>4. Len(workAppts) + 1 <= MaxAppts
    BY <2>1, <2>2, WorkNumbers
  <2>5. Reviews'
    BY <2>1, <2>2, <2>3, <2>4 DEF Reviews
  <2>6. Tables'
    BY <1>3 DEF WorkInv, Tables, InOrder, Work!AskReview, Work!tables
  <2> QED
    BY <2>5, <2>6
<1> QED
  BY <1>1, <1>2, <1>3 DEF Work!Select

(* Rows that grow older in their queue.                                     *)
LEMMA AgeKeepsTables ==
  ASSUME Tables, NEW n \in 0..1, workRow' = Work!AgedRows(n), UNCHANGED <<workQueue, workStale>>
  PROVE  Tables'
BY RowsAge DEF Tables

(* Reviews that come nearer stay kept.                                      *)
LEMMA AgedIsKept ==
  ASSUME NEW s \in Seq(Work!Appointments), NEW o \in [Contracts -> Times], Kept(s, o), NEW n \in 0..1
  PROVE  Kept(Work!AgedAppts(s, n), Work!AgedOwed(o, n))
<1> DEFINE t == Work!AgedAppts(s, n)
           p == Work!AgedOwed(o, n)
<1>1. /\ Len(t) = Len(s) /\ \A i \in 1..Len(s) : t[i].contract = s[i].contract
      /\ \A c \in Contracts : \A i \in 1..Len(s) :
           p[c] # Work!None /\ o[c] # Work!None /\ s[i].wait <= o[c] => t[i].wait <= p[c]
      /\ \A c \in Contracts : p[c] # Work!None => o[c] # Work!None
  BY KeptAged
<1> HIDE DEF t, p
<1>2. Kept(t, p)
  BY <1>1 DEF Kept
<1> QED
  BY <1>2 DEF t, p

(* A round may ask for a review; meanwhile time passes.                     *)
LEMMA DecideKeeps == ASSUME WorkInv, Work!Decide PROVE Tables' /\ Reviews'
<1>1. PICK n \in 0..1 :
        /\ workRow' = Work!AgedRows(n)
        /\ \/ workAppts' = Work!AgedAppts(workAppts, n) /\ workOwed' = Work!AgedOwed(workOwed, n)
           \/ /\ Len(workAppts) < MaxAppts
              /\ \E c \in Contracts, d \in Delays :
                   /\ Work!Known(c)
                   /\ workAppts' = Work!Book(Work!AgedAppts(workAppts, n), Work!Appointment(c, d))
                   /\ workOwed' = [Work!AgedOwed(workOwed, n) EXCEPT ![c] = Work!Earlier(Work!AgedOwed(workOwed, n)[c], d)]
  BY DEF Work!Decide
<1> DEFINE s == Work!AgedAppts(workAppts, n)
           o == Work!AgedOwed(workOwed, n)
<1>2. /\ workAppts \in Seq(Work!Appointments) /\ Len(workAppts) <= MaxAppts /\ Len(workAppts) \in Nat
      /\ workOwed \in [Contracts -> Times] /\ Kept(workAppts, workOwed)
  BY DEF WorkInv, Reviews
<1>3. s \in Seq(Work!Appointments) /\ Len(s) = Len(workAppts) /\ o \in [Contracts -> Times]
  BY <1>2, KeptAged
<1>4. Kept(s, o)
  BY <1>2, AgedIsKept
<1> HIDE DEF s, o
<1>5. Tables'
  BY <1>1, AgeKeepsTables DEF WorkInv, Work!Decide
<1>6. CASE workAppts' = s /\ workOwed' = o
  BY <1>2, <1>3, <1>4, <1>5, <1>6 DEF Reviews
<1>7. ASSUME Len(workAppts) < MaxAppts, NEW c \in Contracts, NEW d \in Delays,
             workAppts' = Work!Book(s, Work!Appointment(c, d)),
             workOwed' = [o EXCEPT ![c] = Work!Earlier(o[c], d)]
      PROVE  Reviews'
  <2>1. workAppts' \in Seq(Work!Appointments) /\ Len(workAppts') = Len(s) + 1 /\ Kept(workAppts', workOwed')
    BY <1>3, <1>4, <1>7, AskKeeps
  <2>2. workOwed' \in [Contracts -> Times]
    BY <1>3, <1>4, <1>7, AskKeeps
  <2>3. Len(workAppts') <= MaxAppts
    BY <1>2, <1>3, <1>7, <2>1, WorkNumbers
  <2> QED
    BY <2>1, <2>2, <2>3 DEF Reviews
<1> QED
  BY <1>1, <1>5, <1>6, <1>7 DEF s, o

(* A review that is held, or missed and put off: the others are kept.       *)
LEMMA ReviewKeeps == ASSUME WorkInv, Work!HoldReview \/ Work!MissReview PROVE Tables' /\ Reviews'
<1> DEFINE c == Head(workAppts).contract
           rest == Tail(workAppts)
<1>1. PICK n \in 0..1 :
        /\ Work!Errand(n)
        /\ \/ /\ workAppts' = Work!AgedAppts(rest, n)
              /\ workOwed' = [Work!AgedOwed(workOwed, n) EXCEPT ![c] = Work!None]
           \/ \E d \in Delays \cup {Retry} :
                /\ workAppts' = Work!Book(Work!AgedAppts(rest, n), Work!Appointment(c, d))
                /\ workOwed' = [Work!AgedOwed(workOwed, n) EXCEPT ![c] = d]
  <2>1. CASE Work!HoldReview
    BY <2>1 DEF Work!HoldReview
  <2>2. CASE Work!MissReview
    BY <2>2 DEF Work!MissReview
  <2> QED
    BY <2>1, <2>2
<1>2. /\ workAppts \in Seq(Work!Appointments) /\ Len(workAppts) <= MaxAppts /\ Len(workAppts) \in Nat
      /\ workOwed \in [Contracts -> Times] /\ Kept(workAppts, workOwed) /\ workAppts # <<>>
  BY <1>1 DEF WorkInv, Reviews, Work!Errand, Work!ReviewDue
<1> DEFINE s == Work!AgedAppts(rest, n)
           o == Work!AgedOwed(workOwed, n)
<1>3. /\ rest \in Seq(Work!Appointments) /\ Len(rest) = Len(workAppts) - 1
      /\ \A i \in 1..Len(rest) : rest[i] = workAppts[i + 1]
      /\ Head(workAppts) = workAppts[1] /\ Head(workAppts) \in Work!Appointments
  BY <1>2, HeadTailProperties
<1>4. c \in Contracts /\ c = workAppts[1].contract
  BY <1>3 DEF Work!Appointments
<1> HIDE DEF rest, c
<1>5. ASSUME NEW e \in Contracts, e # c, workOwed[e] # Work!None
      PROVE  \E i \in 1..Len(rest) : rest[i].contract = e /\ rest[i].wait <= workOwed[e]
  <2>1. PICK j \in 1..Len(workAppts) : workAppts[j].contract = e /\ workAppts[j].wait <= workOwed[e]
    BY <1>2, <1>5 DEF Kept
  <2>2. j - 1 \in 1..Len(rest) /\ (j - 1) + 1 = j
    BY <1>2, <1>3, <1>4, <1>5, <2>1
  <2>3. rest[j - 1] = workAppts[j]
    BY <1>3, <2>2
  <2> QED
    BY <2>1, <2>2, <2>3
<1>6. /\ s \in Seq(Work!Appointments) /\ Len(s) = Len(rest) /\ o \in [Contracts -> Times]
      /\ \A i \in 1..Len(rest) : s[i].contract = rest[i].contract
      /\ \A e \in Contracts : \A i \in 1..Len(rest) :
           o[e] # Work!None /\ workOwed[e] # Work!None /\ rest[i].wait <= workOwed[e] => s[i].wait <= o[e]
      /\ \A e \in Contracts : o[e] # Work!None => workOwed[e] # Work!None
  <2>1. rest \in Seq(Work!Appointments) /\ workOwed \in [Contracts -> Times]
    BY <1>2, <1>3
  <2> QED
    BY <2>1, KeptAged
<1> HIDE DEF s, o
<1>7. \A e \in Contracts : e # c /\ o[e] # Work!None =>
        \E i \in 1..Len(s) : s[i].contract = e /\ s[i].wait <= o[e]
  BY <1>5, <1>6
<1>8. Tables'
  BY <1>1, AgeKeepsTables DEF WorkInv, Work!Errand
<1>9. ASSUME workAppts' = s /\ workOwed' = [o EXCEPT ![c] = Work!None] PROVE Reviews'
  <2>1. workOwed' \in [Contracts -> Times]
    BY <1>6, <1>9 DEF Times
  <2>2. \A e \in Contracts : workOwed'[e] = IF e = c THEN Work!None ELSE o[e]
    BY <1>6, <1>9
  <2>3. Kept(workAppts', workOwed')
    BY <1>7, <1>9, <2>2 DEF Kept
  <2>4. Len(workAppts') <= MaxAppts
    BY <1>2, <1>3, <1>6, <1>9, WorkNumbers
  <2>5. workAppts' \in Seq(Work!Appointments)
    BY <1>6, <1>9
  <2> QED
    BY <2>1, <2>3, <2>4, <2>5 DEF Reviews
<1>10. ASSUME NEW d \in Delays \cup {Retry}, workAppts' = Work!Book(s, Work!Appointment(c, d)),
              workOwed' = [o EXCEPT ![c] = d]
       PROVE  Reviews'
  <2>1. d \in 0..Work!Longest /\ d <= d
    BY WorkNumbers
  <2>2. workOwed' \in [Contracts -> Times] /\ \A e \in Contracts : workOwed'[e] = IF e = c THEN d ELSE o[e]
    BY <1>6, <1>10, <2>1 DEF Times
  <2>3. \A e \in Contracts : workOwed'[e] # Work!None =>
          \/ e = c /\ d <= workOwed'[e]
          \/ \E i \in 1..Len(s) : s[i].contract = e /\ s[i].wait <= workOwed'[e]
    BY <1>7, <2>1, <2>2
  <2>4. workAppts' \in Seq(Work!Appointments) /\ Len(workAppts') = Len(s) + 1 /\ Kept(workAppts', workOwed')
    BY <1>4, <1>6, <1>10, <2>1, <2>3, KeptBooked
  <2>5. Len(workAppts') <= MaxAppts
    BY <1>2, <1>3, <1>6, <2>4, WorkNumbers
  <2> QED
    BY <2>2, <2>4, <2>5 DEF Reviews
<1> QED
  BY <1>1, <1>8, <1>9, <1>10 DEF s, o

(* Every step of the work keeps its tables and its reviews.                 *)
LEMMA WorkStep == WorkInv /\ [Work!Next]_Work!vars => WorkInv'
<1> SUFFICES ASSUME WorkInv, [Work!Next]_Work!vars PROVE WorkInv'
  OBVIOUS
<1> DEFINE Rest == Tables' /\ Reviews'
<1>1. CASE UNCHANGED Work!vars
  BY <1>1 DEF Work!vars, WorkInv, Tables, InOrder, Reviews, Kept, WorkMarks
<1>2. CASE Work!Next
  <2>1. workAble' \in BOOLEAN
    <3>1. workAble' = workAble \/ workAble' = ~workAble
      BY <1>2 DEF Work!Next, Work!Loop, Work!StartSurvey, Work!DrainChunk, Work!EndSurvey, Work!Select, Work!Decide,
                  Work!ListPage, Work!HoldReview, Work!MissReview, Work!Errand, Work!ScreenIdle, Work!Sleep,
                  Work!CapacityTurns
    <3> QED
      BY <3>1 DEF WorkInv
  <2>2. WorkMarks'
    <3>1. \A n \in 0..1 : Work!Less(workScan, n) \in 0..Interval
      BY WorkNumbers, TimePasses DEF WorkInv, WorkMarks
    <3> QED
      BY <1>2, <3>1, WorkNumbers
         DEF WorkInv, WorkMarks, Work!Next, Work!Loop, Work!StartSurvey, Work!DrainChunk, Work!EndSurvey, Work!Select,
             Work!Decide, Work!ListPage, Work!HoldReview, Work!MissReview, Work!Errand, Work!ScreenIdle, Work!Sleep,
             Work!CapacityTurns
  <2>3. ASSUME Work!StartSurvey \/ Work!EndSurvey \/ Work!CapacityTurns PROVE Rest
    BY <2>3 DEF WorkInv, Tables, InOrder, Reviews, Kept, Work!StartSurvey, Work!EndSurvey, Work!CapacityTurns, Work!tables
  <2>4. ASSUME Work!DrainChunk \/ Work!ScreenIdle PROVE Rest
    BY <2>4, ChunkKeeps DEF WorkInv, Reviews, Kept, Work!DrainChunk, Work!ScreenIdle
  <2>5. ASSUME NEW page \in SUBSET Topics, Work!ListPage(page) PROVE Rest
    BY <2>5, ListingKeeps DEF WorkInv, Reviews, Kept, Work!ListPage
  <2>6. ASSUME Work!Sleep PROVE Rest
    <3>1. /\ workRow' = Work!AgedRows(1) /\ workAppts' = Work!AgedAppts(workAppts, 1)
          /\ workOwed' = Work!AgedOwed(workOwed, 1) /\ UNCHANGED <<workQueue, workStale>>
      BY <2>6 DEF Work!Sleep
    <3>2. Tables'
      BY <3>1, AgeKeepsTables DEF WorkInv
    <3>3. /\ workAppts \in Seq(Work!Appointments) /\ Len(workAppts) <= MaxAppts
          /\ workOwed \in [Contracts -> Times] /\ Kept(workAppts, workOwed)
      BY DEF WorkInv, Reviews
    <3>4. /\ workAppts' \in Seq(Work!Appointments) /\ Len(workAppts') = Len(workAppts)
          /\ workOwed' \in [Contracts -> Times]
      BY <3>1, <3>3, KeptAged
    <3>5. Kept(workAppts', workOwed')
      BY <3>1, <3>3, AgedIsKept
    <3> QED
      BY <3>2, <3>3, <3>4, <3>5 DEF Reviews
  <2>7. Rest
    BY <1>2, <2>3, <2>4, <2>5, <2>6, SelectKeeps, DecideKeeps, ReviewKeeps
       DEF Work!Next, Work!Loop, WorkInv, Tables, Reviews
  <2> QED
    BY <2>1, <2>2, <2>7 DEF WorkInv
<1> QED
  BY <1>1, <1>2

(* The type invariant, as the machine states it.                            *)
LEMMA WorkTypes == WorkInv => Work!TypeOK
BY DEF WorkInv, Tables, InOrder, Reviews, WorkMarks, Times, Work!TypeOK

(* A topic is left out for the answers of all its contracts alone.          *)
LEMMA ExclusionsHold == WorkInv => Work!ExclusionIsInformed
<1> SUFFICES ASSUME WorkInv, NEW t \in Topics, Work!TopicVerdict(t) = "drop",
                    NEW c \in Contracts, TopicOf[c] = t, workRow[c].active
             PROVE  workRow[c].answer = "drop" /\ c \notin workStale /\ workRow[c].wait > 0 /\ ~workRow[c].failed
  BY WorkTypes DEF Work!ExclusionIsInformed
<1>1. Work!Available(t) = Work!Markets(t) /\ ~\E e \in Work!Available(t) : workRow[e].answer = "keep"
  BY DEF Work!TopicVerdict
<1>2. c \in Work!Available(t)
  BY <1>1 DEF Work!Markets
<1>3. workRow[c].answer # "none" /\ workRow[c].wait > 0 /\ ~workRow[c].failed /\ workRow[c].answer # "keep"
  BY <1>1, <1>2 DEF Work!Available
<1>4. workRow[c].answer \in {"none", "keep", "drop"}
  BY DEF WorkInv, Tables, Work!Rows
<1>5. c \notin workStale
  BY <1>3 DEF WorkInv, Tables
<1> QED
  BY <1>3, <1>4, <1>5

(* For any contracts, times and numbers of appointments: no stale answer, no *)
(* failure and no missing one excludes a topic, and a review owed has its    *)
(* appointment in time (runtime/memory.py:2010-2340,                         *)
(* market_discovery.py:640-760).                                             *)
THEOREM WorkIsKept == Work!Spec => [](Work!ExclusionIsInformed /\ Work!ReviewsAreKept)
<1>1. WorkInv => Work!ReviewsAreKept
  BY DEF WorkInv, Reviews, Kept, Work!ReviewsAreKept
<1> QED
  BY <1>1, WorkInit, WorkStep, ExclusionsHold, PTL DEF Work!Spec

----------------------------------------------------------------------------
(* ---- Side by side ---- *)

(* A behaviour of the two is, for either machine, one of its own.           *)
LEMMA EachMarketIsItself ==
  /\ MarketsInit => Work!Init /\ Survey!Init
  /\ [MarketsNext]_marketVars => [Work!Next]_Work!vars /\ [Survey!Next]_Survey!vars
<1>1. MarketsInit => Work!Init /\ Survey!Init
  BY DEF MarketsInit
<1>2. UNCHANGED workVars <=> UNCHANGED Work!vars
  BY DEF workVars, Work!vars
<1>3. UNCHANGED surVars <=> UNCHANGED Survey!vars
  BY DEF surVars, Survey!vars
<1>4. UNCHANGED marketVars => UNCHANGED workVars /\ UNCHANGED surVars
  BY DEF marketVars
<1>5. [MarketsNext]_marketVars => [Work!Next]_Work!vars /\ [Survey!Next]_Survey!vars
  BY <1>2, <1>3, <1>4 DEF MarketsNext
<1> QED
  BY <1>1, <1>5

(* A topic is left out only for answers that hold (runtime/memory.py:2010-2330, *)
(* market_discovery.py:640-760).                                            *)
THEOREM ExclusionsAreInformed == MarketsSpec => []ExclusionIsInformed
<1>1. Work!ExclusionIsInformed => ExclusionIsInformed
  BY DEF ExclusionIsInformed
<1> QED
  BY <1>1, EachMarketIsItself, WorkIsKept, PTL DEF MarketsSpec, Work!Spec

(* A review the model asked for keeps an appointment until it is held       *)
(* (runtime/memory.py:2253-2340).                                           *)
THEOREM ReviewsHold == MarketsSpec => []ReviewsAreKept
<1>1. Work!ReviewsAreKept => ReviewsAreKept
  BY DEF ReviewsAreKept
<1> QED
  BY <1>1, EachMarketIsItself, WorkIsKept, PTL DEF MarketsSpec, Work!Spec

(* No page is passed over (market_discovery.py:760-1126).                   *)
THEOREM PagesHold == MarketsSpec => []NoPageIsSkipped
<1>1. Survey!NoPageIsSkipped => NoPageIsSkipped
  BY DEF NoPageIsSkipped
<1> QED
  BY <1>1, EachMarketIsItself, SurveyIsSound, PTL DEF MarketsSpec, Survey!Spec

(* Nothing is dropped by the screener alone, nothing chosen by a round that *)
(* failed or was deleted (market_discovery.py:1126-1440).                   *)
THEOREM ChoicesHold == MarketsSpec => []ChoicesAreHonest
<1>1. Survey!ChoicesAreHonest => ChoicesAreHonest
  BY DEF ChoicesAreHonest
<1> QED
  BY <1>1, EachMarketIsItself, SurveyIsSound, PTL DEF MarketsSpec, Survey!Spec
==============================================================================
