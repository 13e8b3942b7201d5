---------------------------- MODULE ClientsProofs ----------------------------
(***************************************************************************)
(* Proofs about the programs the robot drives: LAYA's gate and the pool of *)
(* evaluators, the sign-in of a provider's client and its installs, each   *)
(* for every value of its constants.                                       *)
(***************************************************************************)
EXTENDS Clients, Integers, Sequences, FiniteSetTheorems, TLAPS

----------------------------------------------------------------------------
(* ---- Evaluators ---- *)

(* A call under way knows whom it asks, one that waits at the gate asks     *)
(* LAYA, and one that ended without an answer had nobody left or no time.   *)
CallIsFine(r) ==
  /\ r \in Gate!Calls
  /\ r.at \in {"queued", "sending"} => r.left # <<>>
  /\ r.at = "queued" => Head(r.left) = "laya"
  /\ r.at # "idle" => r.result = None
  /\ r.result \in {"nothing", "error"} => r.late \/ r.left = <<>>

Waiting == {c \in Callers : gateCall[c].at = "queued"}
Tickets(q) == {q[i] : i \in DOMAIN q}
EachOnce(q) == \A i, j \in DOMAIN q : q[i] = q[j] => i = j

(* The tickets at the gate are those of the callers that wait or are before *)
(* LAYA, each once, and the holder's is the first.                          *)
QueueIsFine(q, active, sending, waiting) ==
  /\ q \in Seq(Callers)
  /\ active \in BOOLEAN
  /\ Tickets(q) = sending \cup waiting
  /\ EachOnce(q)
  /\ active => q # <<>> /\ sending = {q[1]}
  /\ ~active => sending = {}

GateInv ==
  /\ gateCooling \subseteq Gate!Pool /\ gateClosed \in BOOLEAN
  /\ gateCall \in [Callers -> Gate!Calls]
  /\ \A c \in Callers : CallIsFine(gateCall[c])
  /\ QueueIsFine(gateQueue, gateActive, Gate!Sending, Waiting)

(* A ticket drawn comes last.                                               *)
LEMMA Drawn ==
  ASSUME NEW q \in Seq(Callers), NEW c \in Callers \ Tickets(q), EachOnce(q)
  PROVE  /\ Append(q, c) \in Seq(Callers) /\ EachOnce(Append(q, c))
         /\ Tickets(Append(q, c)) = Tickets(q) \cup {c}
         /\ q # <<>> => Append(q, c) # <<>> /\ Append(q, c)[1] = q[1]
<1> DEFINE s == Append(q, c)
<1>1. /\ s \in Seq(Callers) /\ Len(q) \in Nat /\ DOMAIN q = 1..Len(q) /\ DOMAIN s = 1..(Len(q) + 1)
      /\ s[Len(q) + 1] = c /\ \A i \in 1..Len(q) : s[i] = q[i]
  OBVIOUS
<1>2. \A i \in DOMAIN s : i \in DOMAIN q \/ i = Len(q) + 1
  BY <1>1
<1>3. \A i \in DOMAIN q : q[i] # c
  BY DEF Tickets
<1>4. EachOnce(s)
  BY <1>1, <1>2, <1>3 DEF EachOnce
<1>5. Tickets(s) = Tickets(q) \cup {c}
  <2>1. Tickets(s) \subseteq Tickets(q) \cup {c}
    BY <1>1, <1>2 DEF Tickets
  <2>2. Tickets(q) \subseteq Tickets(s) /\ c \in Tickets(s)
    BY <1>1 DEF Tickets
  <2> QED
    BY <2>1, <2>2
<1>6. q # <<>> => s # <<>> /\ s[1] = q[1]
  BY <1>1
<1> QED
  BY <1>1, <1>4, <1>5, <1>6

(* What stands behind the first of two sequences is the second one.         *)
LEMMA Appended ==
  ASSUME NEW a \in Seq(Callers), NEW b \in Seq(Callers), NEW j \in (Len(a) + 1)..(Len(a) + Len(b))
  PROVE  (a \o b)[j] = b[j - Len(a)]
OBVIOUS

(* A ticket taken out at its place leaves the others in their order.        *)
LEMMA TakenOut ==
  ASSUME NEW q \in Seq(Callers), NEW k \in DOMAIN q, EachOnce(q)
  PROVE  /\ Gate!RemoveAt(q, k) \in Seq(Callers) /\ EachOnce(Gate!RemoveAt(q, k))
         /\ Tickets(Gate!RemoveAt(q, k)) = Tickets(q) \ {q[k]}
         /\ k # 1 => Gate!RemoveAt(q, k) # <<>> /\ Gate!RemoveAt(q, k)[1] = q[1]
<1> DEFINE s == Gate!RemoveAt(q, k)
<1>1. Len(q) \in Nat /\ DOMAIN q = 1..Len(q) /\ k \in 1..Len(q)
  OBVIOUS
<1>2. /\ SubSeq(q, 1, k - 1) \in Seq(Callers) /\ Len(SubSeq(q, 1, k - 1)) = k - 1
      /\ \A i \in 1..(k - 1) : SubSeq(q, 1, k - 1)[i] = q[i]
  BY <1>1
<1>3. /\ SubSeq(q, k + 1, Len(q)) \in Seq(Callers) /\ Len(SubSeq(q, k + 1, Len(q))) = Len(q) - k
      /\ \A i \in 1..(Len(q) - k) : SubSeq(q, k + 1, Len(q))[i] = q[k + i]
  BY <1>1
<1>4. s = SubSeq(q, 1, k - 1) \o SubSeq(q, k + 1, Len(q))
  BY DEF Gate!RemoveAt
<1>5. s \in Seq(Callers) /\ Len(s) = Len(q) - 1 /\ DOMAIN s = 1..(Len(q) - 1)
  BY <1>1, <1>2, <1>3, <1>4
<1>6. \A i \in 1..(k - 1) : s[i] = q[i]
  BY <1>1, <1>2, <1>3, <1>4
<1>7. \A i \in k..(Len(q) - 1) : s[i] = q[i + 1]
  <2> SUFFICES ASSUME NEW i \in k..(Len(q) - 1) PROVE s[i] = q[i + 1]
    OBVIOUS
  <2>1. i - (k - 1) \in 1..(Len(q) - k) /\ k + (i - (k - 1)) = i + 1
    BY <1>1
  <2>2. s[i] = SubSeq(q, k + 1, Len(q))[i - (k - 1)]
    <3> DEFINE a == SubSeq(q, 1, k - 1)
               b == SubSeq(q, k + 1, Len(q))
    <3>1. a \in Seq(Callers) /\ b \in Seq(Callers) /\ Len(a) = k - 1 /\ Len(b) = Len(q) - k
      BY <1>2, <1>3
    <3>2. i \in (Len(a) + 1)..(Len(a) + Len(b))
      BY <1>1, <3>1
    <3>3. s = a \o b
      BY <1>4
    <3> HIDE DEF a, b, s
    <3>4. s[i] = b[i - Len(a)]
      BY <3>1, <3>2, <3>3, Appended
    <3> QED
      BY <3>1, <3>4 DEF b
  <2> QED
    BY <1>3, <2>1, <2>2
<1> HIDE DEF s
<1>8. EachOnce(s)
  <2> SUFFICES ASSUME NEW i \in DOMAIN s, NEW j \in DOMAIN s, s[i] = s[j] PROVE i = j
    BY DEF EachOnce
  <2>1. i \in 1..(k - 1) \/ i \in k..(Len(q) - 1)
    BY <1>1, <1>5
  <2>2. j \in 1..(k - 1) \/ j \in k..(Len(q) - 1)
    BY <1>1, <1>5
  <2>3. CASE i \in 1..(k - 1)
    <3>1. s[i] = q[i] /\ i \in DOMAIN q /\ i < k
      BY <1>1, <1>6, <2>3
    <3>2. CASE j \in 1..(k - 1)
      <4>1. s[j] = q[j] /\ j \in DOMAIN q
        BY <1>1, <1>6, <3>2
      <4> QED
        BY <3>1, <4>1 DEF EachOnce
    <3>3. CASE j \in k..(Len(q) - 1)
      <4>1. s[j] = q[j + 1] /\ j + 1 \in DOMAIN q /\ j + 1 # i
        BY <1>1, <1>7, <2>3, <3>3
      <4> QED
        BY <3>1, <4>1 DEF EachOnce
    <3> QED
      BY <2>2, <3>2, <3>3
  <2>4. CASE i \in k..(Len(q) - 1)
    <3>1. s[i] = q[i + 1] /\ i + 1 \in DOMAIN q
      BY <1>1, <1>7, <2>4
    <3>2. CASE j \in 1..(k - 1)
      <4>1. s[j] = q[j] /\ j \in DOMAIN q /\ j # i + 1
        BY <1>1, <1>6, <2>4, <3>2
      <4> QED
        BY <3>1, <4>1 DEF EachOnce
    <3>3. CASE j \in k..(Len(q) - 1)
      <4>1. s[j] = q[j + 1] /\ j + 1 \in DOMAIN q
        BY <1>1, <1>7, <3>3
      <4>2. i + 1 = j + 1
        BY <3>1, <4>1 DEF EachOnce
      <4> QED
        BY <1>1, <2>4, <3>3, <4>2
    <3> QED
      BY <2>2, <3>2, <3>3
  <2> QED
    BY <2>1, <2>3, <2>4
<1>9. Tickets(s) = Tickets(q) \ {q[k]}
  <2>1. ASSUME NEW i \in DOMAIN s PROVE s[i] \in Tickets(q) \ {q[k]}
    <3>1. CASE i \in 1..(k - 1)
      BY <1>1, <1>6, <3>1 DEF EachOnce, Tickets
    <3>2. CASE i \in k..(Len(q) - 1)
      BY <1>1, <1>7, <3>2 DEF EachOnce, Tickets
    <3> QED
      BY <1>1, <1>5, <3>1, <3>2
  <2>2. ASSUME NEW i \in DOMAIN q, i # k PROVE \E j \in DOMAIN s : s[j] = q[i]
    <3>1. CASE i < k
      BY <1>1, <1>5, <1>6, <2>2, <3>1
    <3>2. CASE i > k
      <4>1. i - 1 \in k..(Len(q) - 1) /\ i - 1 \in DOMAIN s /\ (i - 1) + 1 = i
        BY <1>1, <1>5, <2>2, <3>2
      <4> QED
        BY <1>7, <4>1
    <3> QED
      BY <1>1, <2>2, <3>1, <3>2
  <2> QED
    BY <2>1, <2>2 DEF Tickets
<1>10. k # 1 => s # <<>> /\ s[1] = q[1]
  BY <1>1, <1>5, <1>6
<1> QED
  BY <1>5, <1>8, <1>9, <1>10 DEF s

(* The first ticket handed back leaves the others in their order.           *)
LEMMA HandedBack ==
  ASSUME NEW q \in Seq(Callers), q # <<>>, EachOnce(q)
  PROVE  /\ Tail(q) \in Seq(Callers) /\ EachOnce(Tail(q))
         /\ Tickets(Tail(q)) = Tickets(q) \ {q[1]}
<1> DEFINE s == Tail(q)
<1>1. /\ s \in Seq(Callers) /\ Len(q) \in Nat /\ Len(q) > 0 /\ DOMAIN q = 1..Len(q)
      /\ DOMAIN s = 1..(Len(q) - 1) /\ \A i \in 1..(Len(q) - 1) : s[i] = q[i + 1]
  OBVIOUS
<1> HIDE DEF s
<1>2. EachOnce(s)
  <2> SUFFICES ASSUME NEW i \in DOMAIN s, NEW j \in DOMAIN s, s[i] = s[j] PROVE i = j
    BY DEF EachOnce
  <2>1. i + 1 \in DOMAIN q /\ j + 1 \in DOMAIN q /\ q[i + 1] = q[j + 1]
    BY <1>1
  <2>2. i + 1 = j + 1
    BY <2>1 DEF EachOnce
  <2> QED
    BY <1>1, <2>2
<1>3. ASSUME NEW i \in DOMAIN s PROVE s[i] \in Tickets(q) \ {q[1]}
  <2>1. i + 1 \in DOMAIN q /\ i + 1 # 1 /\ 1 \in DOMAIN q
    BY <1>1
  <2> QED
    BY <1>1, <2>1 DEF EachOnce, Tickets
<1>4. ASSUME NEW i \in DOMAIN q, i # 1 PROVE \E j \in DOMAIN s : s[j] = q[i]
  <2>1. i - 1 \in DOMAIN s /\ (i - 1) + 1 = i
    BY <1>1, <1>4
  <2> QED
    BY <1>1, <2>1
<1> QED
  BY <1>1, <1>2, <1>3, <1>4 DEF Tickets, s

(* The bounds are numbers.                                                  *)
LEMMA GateNumbers ==
  /\ Attempts \in Nat \ {0} /\ Batches \in Nat \ {0} /\ QueueLimit \in Nat \ {0}
  /\ None \notin {"nothing", "error"}
BY ClientsAssumption DEF Gate!EvaluatorsAssumption

(* What becomes of a call: its time is up, it waits, it is sent, it is sent *)
(* again or goes on to the next batch, its evaluator failed, it ends.       *)
LEMMA CallGoesOn ==
  ASSUME NEW r, CallIsFine(r)
  PROVE  /\ CallIsFine([r EXCEPT !.late = TRUE])
         /\ r.at # "idle" /\ r.left # <<>> /\ Head(r.left) = "laya" => CallIsFine([r EXCEPT !.at = "queued"])
         /\ r.at # "idle" /\ r.left # <<>> => CallIsFine([r EXCEPT !.at = "sending"])
         /\ r.tries + 1 < Attempts => CallIsFine([r EXCEPT !.tries = @ + 1])
<1>1. /\ r \in Gate!Calls
      /\ r.at \in {"queued", "sending"} => r.left # <<>>
      /\ r.at = "queued" => Head(r.left) = "laya"
      /\ r.at # "idle" => r.result = None
      /\ r.result \in {"nothing", "error"} => r.late \/ r.left = <<>>
  BY DEF CallIsFine
<1>2. CallIsFine([r EXCEPT !.late = TRUE])
  <2> DEFINE q == [r EXCEPT !.late = TRUE]
  <2>1. q \in Gate!Calls /\ q.at = r.at /\ q.left = r.left /\ q.result = r.result
    BY <1>1 DEF Gate!Calls
  <2>2. q.late
    BY <1>1 DEF Gate!Calls
  <2> QED
    BY <1>1, <2>1, <2>2 DEF CallIsFine
<1>3. r.at # "idle" /\ r.left # <<>> /\ Head(r.left) = "laya" => CallIsFine([r EXCEPT !.at = "queued"])
  BY <1>1, GateNumbers DEF CallIsFine, Gate!Calls
<1>4. r.at # "idle" /\ r.left # <<>> => CallIsFine([r EXCEPT !.at = "sending"])
  BY <1>1, GateNumbers DEF CallIsFine, Gate!Calls
<1>5. r.tries + 1 < Attempts => CallIsFine([r EXCEPT !.tries = @ + 1])
  <2> DEFINE q == [r EXCEPT !.tries = r.tries + 1]
  <2>1. r.tries + 1 < Attempts => q \in Gate!Calls
    BY <1>1, GateNumbers DEF Gate!Calls
  <2>2. q.at = r.at /\ q.left = r.left /\ q.result = r.result
    BY <1>1 DEF Gate!Calls
  <2>3. q.late = r.late
    BY <1>1 DEF Gate!Calls
  <2> QED
    BY <1>1, <2>1, <2>2, <2>3 DEF CallIsFine
<1> QED
  BY <1>2, <1>3, <1>4, <1>5

(* A call whose evaluator failed, that goes on, or that ends.               *)
LEMMA CallTurns ==
  ASSUME NEW r, CallIsFine(r), r.at # "idle"
  PROVE  /\ r.left # <<>> => CallIsFine([r EXCEPT !.at = "pool", !.left = Tail(@), !.batch = 1, !.tries = 0])
         /\ r.batch < Batches => CallIsFine([r EXCEPT !.at = "pool", !.batch = @ + 1, !.tries = 0])
         /\ \A w \in {"nothing", "error"} : r.late \/ r.left = <<>> =>
              CallIsFine([r EXCEPT !.at = "idle", !.result = w, !.tries = 0, !.batch = 1])
<1>0. 1 \in 1..Batches /\ 0 \in 0..(Attempts - 1)
  BY GateNumbers
<1>1. /\ r \in Gate!Calls /\ r.result = None
  BY DEF CallIsFine
<1>2. /\ \A q \in Gate!Calls : q.left # <<>> =>
           [q EXCEPT !.at = "pool", !.left = Tail(q.left), !.batch = 1, !.tries = 0] \in Gate!Calls
  <2>1. \A s \in Seq(Gate!Pool) : s # <<>> => Tail(s) \in Seq(Gate!Pool)
    OBVIOUS
  <2> QED
    BY <1>0, <2>1 DEF Gate!Calls
<1>3. r.left # <<>> => CallIsFine([r EXCEPT !.at = "pool", !.left = Tail(@), !.batch = 1, !.tries = 0])
  <2> DEFINE q == [r EXCEPT !.at = "pool", !.left = Tail(r.left), !.batch = 1, !.tries = 0]
  <2>1. q.at = "pool" /\ q.result = None
    BY <1>1 DEF Gate!Calls
  <2>2. r.left # <<>> => q \in Gate!Calls
    BY <1>1, <1>2
  <2> QED
    BY <2>1, <2>2, GateNumbers DEF CallIsFine
<1>4. r.batch < Batches => CallIsFine([r EXCEPT !.at = "pool", !.batch = @ + 1, !.tries = 0])
  <2> DEFINE q == [r EXCEPT !.at = "pool", !.batch = r.batch + 1, !.tries = 0]
  <2>1. q.at = "pool" /\ q.result = None
    BY <1>1 DEF Gate!Calls
  <2>2. \A x \in Gate!Calls : \A b \in 1..Batches :
          [x EXCEPT !.at = "pool", !.batch = b, !.tries = 0] \in Gate!Calls
    BY <1>0 DEF Gate!Calls
  <2>3. r.batch < Batches => r.batch + 1 \in 1..Batches
    BY <1>1, GateNumbers DEF Gate!Calls
  <2>4. r.batch < Batches => q \in Gate!Calls
    BY <1>1, <2>2, <2>3
  <2> QED
    BY <2>1, <2>4, GateNumbers DEF CallIsFine
<1>5. ASSUME NEW w \in {"nothing", "error"}, r.late \/ r.left = <<>>
      PROVE  CallIsFine([r EXCEPT !.at = "idle", !.result = w, !.tries = 0, !.batch = 1])
  <2> DEFINE q == [r EXCEPT !.at = "idle", !.result = w, !.tries = 0, !.batch = 1]
  <2>0. \A x \in Gate!Calls :
          [x EXCEPT !.at = "idle", !.result = w, !.tries = 0, !.batch = 1] \in Gate!Calls
    BY <1>0 DEF Gate!Calls
  <2>1. q.at = "idle" /\ q.left = r.left /\ q \in Gate!Calls
    BY <1>1, <2>0 DEF Gate!Calls
  <2>2. q.late = r.late
    BY <1>1 DEF Gate!Calls
  <2>3. q.late \/ q.left = <<>>
    BY <1>5, <2>1, <2>2
  <2> QED
    BY <2>1, <2>3, GateNumbers DEF CallIsFine
<1> QED
  BY <1>3, <1>4, <1>5

(* Whoever did not ask has nothing left to do.                              *)
LEMMA CallRests == CallIsFine(Gate!Resting) /\ Gate!Resting.at = "idle"
<1>1. 0 \in 0..(Attempts - 1) /\ 1 \in 1..Batches /\ <<>> \in Seq(Gate!Pool)
  BY GateNumbers
<1>2. Gate!Resting \in Gate!Calls
  BY <1>1 DEF Gate!Calls, Gate!Resting
<1>3. Gate!Resting.at = "idle" /\ Gate!Resting.result = None
  BY DEF Gate!Resting
<1> QED
  BY <1>2, <1>3, GateNumbers DEF CallIsFine

(* Whoever starts is asked in some order of those that are left.            *)
LEMMA CallStarts ==
  ASSUME NEW kind \in Kinds, NEW order \in Gate!Orders, gateCooling \subseteq Gate!Pool
  PROVE  CallIsFine([Gate!Resting EXCEPT !.at = "pool", !.kind = kind, !.left = order])
<1>1. order \in Seq(Gate!Pool)
  <2> DEFINE S == Gate!Pool \ gateCooling
             n == Gate!Cardinality(S)
  <2>1. IsFiniteSet(Gate!Pool)
    <3>1. IsFiniteSet({"laya"})
      BY FS_Singleton
    <3>2. IsFiniteSet({"laya"} \cup {"jev"})
      BY <3>1, FS_AddElement
    <3>3. Gate!Pool = {"laya"} \cup {"jev"}
      BY DEF Gate!Pool
    <3> QED
      BY <3>2, <3>3
  <2>2. Cardinality(S) \in Nat
    BY <2>1, FS_Subset, FS_CardinalityType
  <2>3. n = Cardinality(S)
    BY DEF Gate!Cardinality, Cardinality
  <2>4. n \in Nat
    BY <2>2, <2>3
  <2>5. order \in [1..n -> S]
    BY DEF Gate!Orders, Gate!SetToSeqs
  <2> HIDE DEF n, S
  <2>6. order \in Seq(S)
    BY <2>4, <2>5
  <2> QED
    BY <2>6 DEF S
<1> DEFINE q == [Gate!Resting EXCEPT !.at = "pool", !.kind = kind, !.left = order]
<1>2. \A x \in Gate!Calls : \A s \in Seq(Gate!Pool) :
        [x EXCEPT !.at = "pool", !.kind = kind, !.left = s] \in Gate!Calls
  BY DEF Gate!Calls
<1>3. q \in Gate!Calls
  BY <1>1, <1>2, CallRests DEF CallIsFine
<1>4. q.at = "pool" /\ q.result = None
  BY DEF Gate!Resting
<1> QED
  BY <1>3, <1>4, GateNumbers DEF CallIsFine

(* Where the caller that moves is found afterwards; the others stay.        *)
LEMMA CallMoves ==
  ASSUME GateInv, NEW c \in Callers, NEW r, CallIsFine(r), gateCall' = [gateCall EXCEPT ![c] = r]
  PROVE  /\ gateCall' \in [Callers -> Gate!Calls]
         /\ \A d \in Callers : CallIsFine(gateCall'[d])
         /\ Gate!Sending' = IF r.at = "sending" /\ Head(r.left) = "laya" THEN Gate!Sending \cup {c}
                            ELSE Gate!Sending \ {c}
         /\ Waiting' = IF r.at = "queued" THEN Waiting \cup {c} ELSE Waiting \ {c}
<1>1. gateCall \in [Callers -> Gate!Calls] /\ r \in Gate!Calls
  BY DEF GateInv, CallIsFine
<1>2. gateCall' \in [Callers -> Gate!Calls] /\ gateCall'[c] = r /\ \A d \in Callers \ {c} : gateCall'[d] = gateCall[d]
  BY <1>1
<1>3. \A d \in Callers : CallIsFine(gateCall'[d])
  BY <1>2 DEF GateInv
<1>4. Gate!Sending' = {d \in Callers : gateCall'[d].at = "sending" /\ Head(gateCall'[d].left) = "laya"}
  BY DEF Gate!Sending, Gate!Asking
<1>5. Gate!Sending = {d \in Callers : gateCall[d].at = "sending" /\ Head(gateCall[d].left) = "laya"}
  BY DEF Gate!Sending, Gate!Asking
<1>6. Gate!Sending' = IF r.at = "sending" /\ Head(r.left) = "laya" THEN Gate!Sending \cup {c} ELSE Gate!Sending \ {c}
  BY <1>2, <1>4, <1>5
<1>7. Waiting' = IF r.at = "queued" THEN Waiting \cup {c} ELSE Waiting \ {c}
  BY <1>2 DEF Waiting
<1> QED
  BY <1>2, <1>3, <1>6, <1>7

(* A call moves and the queue with it.                                      *)
LEMMA GateKeeps ==
  ASSUME GateInv, NEW c \in Callers, NEW r, CallIsFine(r), gateCall' = [gateCall EXCEPT ![c] = r],
         gateCooling' \subseteq Gate!Pool, gateClosed' \in BOOLEAN,
         QueueIsFine(gateQueue', gateActive',
                     IF r.at = "sending" /\ Head(r.left) = "laya" THEN Gate!Sending \cup {c} ELSE Gate!Sending \ {c},
                     IF r.at = "queued" THEN Waiting \cup {c} ELSE Waiting \ {c})
  PROVE  GateInv'
BY CallMoves DEF GateInv

(* A call that neither waits at the gate nor holds it, before and after.    *)
LEMMA Outside ==
  ASSUME GateInv, NEW c \in Callers, NEW r, CallIsFine(r), gateCall' = [gateCall EXCEPT ![c] = r],
         gateCooling' \subseteq Gate!Pool, UNCHANGED <<gateQueue, gateActive, gateClosed>>,
         c \notin Gate!Sending, c \notin Waiting,
         r.at # "queued", r.at = "sending" => Head(r.left) # "laya"
  PROVE  GateInv'
<1>1. Gate!Sending \ {c} = Gate!Sending /\ Waiting \ {c} = Waiting
  OBVIOUS
<1>2. QueueIsFine(gateQueue, gateActive, Gate!Sending \ {c}, Waiting \ {c}) /\ gateClosed \in BOOLEAN
  BY <1>1 DEF GateInv
<1> QED
  BY <1>2, GateKeeps

(* A call whose place at the gate does not change.                          *)
LEMMA InPlace ==
  ASSUME GateInv, NEW c \in Callers, NEW r, CallIsFine(r), gateCall' = [gateCall EXCEPT ![c] = r],
         UNCHANGED <<gateCooling, gateQueue, gateActive, gateClosed>>,
         r.at = gateCall[c].at, r.left = gateCall[c].left
  PROVE  GateInv'
<1>1. c \in Gate!Sending <=> r.at = "sending" /\ Head(r.left) = "laya"
  BY DEF Gate!Sending, Gate!Asking
<1>2. c \in Waiting <=> r.at = "queued"
  BY DEF Waiting
<1>3. Gate!Sending = IF r.at = "sending" /\ Head(r.left) = "laya" THEN Gate!Sending \cup {c} ELSE Gate!Sending \ {c}
  BY <1>1
<1>4. Waiting = IF r.at = "queued" THEN Waiting \cup {c} ELSE Waiting \ {c}
  BY <1>2
<1>5. QueueIsFine(gateQueue, gateActive, Gate!Sending, Waiting) /\ gateClosed \in BOOLEAN /\ gateCooling \subseteq Gate!Pool
  BY DEF GateInv
<1> HIDE DEF QueueIsFine
<1> QED
  BY <1>3, <1>4, <1>5, GateKeeps

(* Whoever was sent leaves the gate, if it was LAYA's: the first ticket is  *)
(* its own.                                                                 *)
LEMMA LeavesGate ==
  ASSUME GateInv, NEW c \in Callers, gateCall[c].at = "sending", Gate!Leave(c),
         NEW r, CallIsFine(r), r.at \notin {"queued", "sending"}, gateCall' = [gateCall EXCEPT ![c] = r],
         gateCooling' \subseteq Gate!Pool
  PROVE  GateInv'
<1>1. c \notin Waiting
  BY DEF Waiting
<1>2. CASE Gate!Asking(c) # "laya"
  <2>1. UNCHANGED <<gateQueue, gateActive, gateClosed>> /\ c \notin Gate!Sending
    BY <1>2 DEF Gate!Leave, Gate!gate, Gate!Sending
  <2> QED
    BY <1>1, <2>1, Outside
<1>3. CASE Gate!Asking(c) = "laya"
  <2>1. gateActive' = FALSE /\ gateQueue' = Tail(gateQueue) /\ gateClosed' = gateClosed /\ c \in Gate!Sending
    BY <1>3 DEF Gate!Leave, Gate!Sending
  <2>2. gateQueue \in Seq(Callers) /\ gateQueue # <<>> /\ Gate!Sending = {gateQueue[1]} /\ EachOnce(gateQueue)
        /\ Tickets(gateQueue) = Gate!Sending \cup Waiting
    BY <2>1 DEF GateInv, QueueIsFine
  <2>3. gateQueue[1] = c /\ Gate!Sending = {c}
    BY <2>1, <2>2
  <2>4. gateQueue' \in Seq(Callers) /\ EachOnce(gateQueue') /\ Tickets(gateQueue') = Tickets(gateQueue) \ {c}
    BY <2>1, <2>2, <2>3, HandedBack
  <2>5. QueueIsFine(gateQueue', gateActive', Gate!Sending \ {c}, Waiting \ {c})
    BY <1>1, <2>1, <2>2, <2>3, <2>4 DEF QueueIsFine
  <2>6. gateClosed' \in BOOLEAN
    BY <2>1 DEF GateInv
  <2> QED
    BY <2>5, <2>6, GateKeeps
<1> QED
  BY <1>2, <1>3

(* In the beginning nobody asks.                                            *)
LEMMA GateInit == Gate!Init => GateInv
<1> SUFFICES ASSUME Gate!Init PROVE GateInv
  OBVIOUS
<1>1. /\ gateCooling = {} /\ gateQueue = <<>> /\ gateActive = FALSE
      /\ gateClosed = FALSE /\ gateCall = [c \in Callers |-> Gate!Resting]
  BY DEF Gate!Init
<1>2. Gate!Resting \in Gate!Calls
  BY CallRests DEF CallIsFine
<1>3. Gate!Sending = {} /\ Waiting = {}
  BY <1>1, CallRests DEF Gate!Sending, Waiting
<1>4. QueueIsFine(<<>>, FALSE, {}, {})
  BY DEF QueueIsFine, Tickets, EachOnce
<1> QED
  BY <1>1, <1>2, <1>3, <1>4, CallRests DEF GateInv

(* A question begins, or ends because nobody is left.                       *)
LEMMA GateAsks ==
  ASSUME GateInv, NEW c \in Callers, (\E kind \in Kinds : Gate!Ask(c, kind)) \/ Gate!GiveUp(c)
  PROVE  GateInv'
<1>0. CallIsFine(gateCall[c]) /\ gateCooling \subseteq Gate!Pool
  BY DEF GateInv
<1>1. ASSUME NEW kind \in Kinds, Gate!Ask(c, kind) PROVE GateInv'
  <2>1. PICK order \in Gate!Orders :
          gateCall' = [gateCall EXCEPT ![c] = [Gate!Resting EXCEPT !.at = "pool", !.kind = kind, !.left = order]]
    BY <1>1 DEF Gate!Ask
  <2> DEFINE r == [Gate!Resting EXCEPT !.at = "pool", !.kind = kind, !.left = order]
  <2>2. CallIsFine(r)
    BY <1>0, CallStarts
  <2>3. r.at = "pool"
    BY DEF Gate!Resting
  <2>4. c \notin Gate!Sending /\ c \notin Waiting
    BY <1>1 DEF Gate!Ask, Gate!Sending, Waiting
  <2>5. UNCHANGED <<gateCooling, gateQueue, gateActive, gateClosed>>
    BY <1>1 DEF Gate!Ask, Gate!gate
  <2> HIDE DEF r
  <2> QED
    BY <1>0, <2>1, <2>2, <2>3, <2>4, <2>5, Outside DEF r
<1>2. CASE Gate!GiveUp(c)
  <2> DEFINE w == IF gateCall[c].kind = "facts" THEN "error" ELSE "nothing"
             r == [gateCall[c] EXCEPT !.at = "idle", !.result = w, !.tries = 0, !.batch = 1]
  <2>1. gateCall' = [gateCall EXCEPT ![c] = r]
    BY <1>2 DEF Gate!GiveUp, Gate!Ended
  <2>2. w \in {"nothing", "error"} /\ gateCall[c].left = <<>> /\ gateCall[c].at = "pool"
    BY <1>2 DEF Gate!GiveUp
  <2> HIDE DEF w
  <2>3. CallIsFine(r)
    BY <1>0, <2>2, CallTurns
  <2>4. r.at = "idle"
    BY <1>0 DEF CallIsFine, Gate!Calls
  <2>5. c \notin Gate!Sending /\ c \notin Waiting
    BY <2>2 DEF Gate!Sending, Waiting
  <2>6. UNCHANGED <<gateCooling, gateQueue, gateActive, gateClosed>>
    BY <1>2 DEF Gate!GiveUp, Gate!gate
  <2> HIDE DEF r
  <2> QED
    BY <1>0, <2>1, <2>3, <2>4, <2>5, <2>6, Outside
<1> QED
  BY <1>1, <1>2

(* What a failure leaves of a call.                                         *)
LEMMA CallFails ==
  ASSUME GateInv, NEW c \in Callers, gateCall[c].left # <<>>, gateCall[c].at # "idle", Gate!Failed(c)
  PROVE  /\ gateCooling' \subseteq Gate!Pool
         /\ \E r : CallIsFine(r) /\ r.at = "pool" /\ gateCall' = [gateCall EXCEPT ![c] = r]
<1> DEFINE r == [gateCall[c] EXCEPT !.at = "pool", !.left = Tail(@), !.batch = 1, !.tries = 0]
<1>1. CallIsFine(gateCall[c]) /\ gateCall[c] \in Gate!Calls /\ gateCall \in [Callers -> Gate!Calls]
  BY DEF GateInv
<1>2. CallIsFine(r)
  BY <1>1, CallTurns
<1>3. r.at = "pool"
  BY <1>1 DEF Gate!Calls
<1>4. gateCall' = [gateCall EXCEPT ![c] = r]
  BY <1>1 DEF Gate!Failed
<1>5. gateCall[c].left \in Seq(Gate!Pool)
  BY <1>1 DEF Gate!Calls
<1>6. Gate!Asking(c) \in Gate!Pool
  BY <1>5 DEF Gate!Asking
<1>7. gateCooling' \subseteq Gate!Pool
  BY <1>6 DEF Gate!Failed, GateInv
<1> HIDE DEF r
<1> QED
  BY <1>2, <1>3, <1>4, <1>7

(* What the end of the scan's time leaves of a call.                        *)
LEMMA CallIsLate ==
  ASSUME GateInv, NEW c \in Callers, gateCall[c].late, gateCall[c].at # "idle", Gate!BudgetGone(c)
  PROVE  /\ gateCooling' \subseteq Gate!Pool
         /\ \E r : CallIsFine(r) /\ r.at = "idle" /\ gateCall' = [gateCall EXCEPT ![c] = r]
<1> DEFINE r == [gateCall[c] EXCEPT !.at = "idle", !.result = "nothing", !.tries = 0, !.batch = 1]
<1>1. CallIsFine(gateCall[c]) /\ gateCall[c] \in Gate!Calls
  BY DEF GateInv
<1>2. CallIsFine(r)
  BY <1>1, CallTurns
<1>3. r.at = "idle"
  BY <1>1 DEF Gate!Calls
<1>4. gateCall' = [gateCall EXCEPT ![c] = r]
  BY DEF Gate!BudgetGone, Gate!Ended
<1>5. gateCooling' \subseteq Gate!Pool
  BY DEF Gate!BudgetGone, GateInv
<1> HIDE DEF r
<1> QED
  BY <1>2, <1>3, <1>4, <1>5

(* A request is answered, or refused, or its time is up, or its next batch  *)
(* waits for its turn.                                                      *)
LEMMA GateAnswers ==
  ASSUME GateInv, NEW c \in Callers,
         Gate!OutOfTime(c) \/ Gate!NextBatch(c) \/ Gate!Answer(c) \/ Gate!Refused(c)
  PROVE  GateInv'
<1>0. /\ CallIsFine(gateCall[c]) /\ gateCall[c] \in Gate!Calls /\ gateCooling \subseteq Gate!Pool
      /\ gateCall \in [Callers -> Gate!Calls]
  BY DEF GateInv
<1>1. gateCall[c].at = "sending" /\ Gate!Leave(c)
  BY DEF Gate!OutOfTime, Gate!NextBatch, Gate!Answer, Gate!Refused
<1>2. gateCall[c].left # <<>>
  BY <1>0, <1>1 DEF CallIsFine
<1>3. CASE Gate!OutOfTime(c)
  <2>1. gateCall[c].late /\ Gate!BudgetGone(c)
    BY <1>3 DEF Gate!OutOfTime
  <2>2. PICK r : CallIsFine(r) /\ r.at = "idle" /\ gateCall' = [gateCall EXCEPT ![c] = r]
    BY <1>1, <2>1, CallIsLate
  <2>3. gateCooling' \subseteq Gate!Pool
    BY <1>1, <2>1, CallIsLate
  <2> QED
    BY <1>1, <2>2, <2>3, LeavesGate
<1>4. CASE Gate!NextBatch(c)
  <2> DEFINE r == [gateCall[c] EXCEPT !.at = "pool", !.batch = @ + 1, !.tries = 0]
  <2>1. gateCall[c].batch < Batches
    BY <1>0, <1>4, GateNumbers DEF Gate!NextBatch, Gate!Requests, Gate!Calls
  <2>2. CallIsFine(r)
    BY <1>0, <1>1, <2>1, CallTurns
  <2>3. r.at = "pool"
    BY <1>0 DEF Gate!Calls
  <2>4. gateCall' = [gateCall EXCEPT ![c] = r] /\ gateCooling' = gateCooling
    BY <1>0, <1>4 DEF Gate!NextBatch
  <2> HIDE DEF r
  <2> QED
    BY <1>0, <1>1, <2>2, <2>3, <2>4, LeavesGate
<1>5. CASE Gate!Answer(c)
  <2>1. gateCall' = [gateCall EXCEPT ![c] = Gate!Resting] /\ gateCooling' \subseteq Gate!Pool
    BY <1>0, <1>5 DEF Gate!Answer
  <2> QED
    BY <1>1, <2>1, CallRests, LeavesGate
<1>6. CASE Gate!Refused(c)
  <2>1. Gate!Failed(c)
    BY <1>6 DEF Gate!Refused
  <2>2. PICK r : CallIsFine(r) /\ r.at = "pool" /\ gateCall' = [gateCall EXCEPT ![c] = r]
    BY <1>1, <1>2, <2>1, CallFails
  <2>3. gateCooling' \subseteq Gate!Pool
    BY <1>1, <1>2, <2>1, CallFails
  <2> QED
    BY <1>1, <2>2, <2>3, LeavesGate
<1> QED
  BY <1>3, <1>4, <1>5, <1>6

(* Time passes for a call, its request is tried again, or JEV is asked.     *)
LEMMA GateGoesOn ==
  ASSUME GateInv, NEW c \in Callers, Gate!Deadline(c) \/ Gate!TryAgain(c) \/ Gate!StartDirect(c)
  PROVE  GateInv'
<1>0. /\ CallIsFine(gateCall[c]) /\ gateCall[c] \in Gate!Calls /\ gateCooling \subseteq Gate!Pool
      /\ gateCall \in [Callers -> Gate!Calls]
  BY DEF GateInv
<1>1. UNCHANGED <<gateCooling, gateQueue, gateActive, gateClosed>>
  BY DEF Gate!Deadline, Gate!TryAgain, Gate!StartDirect, Gate!gate
<1>2. CASE Gate!Deadline(c)
  <2> DEFINE r == [gateCall[c] EXCEPT !.late = TRUE]
  <2>1. CallIsFine(r)
    BY <1>0, CallGoesOn
  <2>2. gateCall' = [gateCall EXCEPT ![c] = r]
    BY <1>2 DEF Gate!Deadline
  <2>3. r.at = gateCall[c].at /\ r.left = gateCall[c].left
    BY <1>0 DEF Gate!Calls
  <2> HIDE DEF r
  <2> QED
    BY <1>1, <2>1, <2>2, <2>3, InPlace
<1>3. CASE Gate!TryAgain(c)
  <2> DEFINE r == [gateCall[c] EXCEPT !.tries = @ + 1]
  <2>1. CallIsFine(r)
    BY <1>0, <1>3, CallGoesOn DEF Gate!TryAgain
  <2>2. gateCall' = [gateCall EXCEPT ![c] = r]
    BY <1>3 DEF Gate!TryAgain
  <2>3. r.at = gateCall[c].at /\ r.left = gateCall[c].left
    BY <1>0 DEF Gate!Calls
  <2> HIDE DEF r
  <2> QED
    BY <1>1, <2>1, <2>2, <2>3, InPlace
<1>4. CASE Gate!StartDirect(c)
  <2> DEFINE r == [gateCall[c] EXCEPT !.at = "sending"]
  <2>1. gateCall[c].at = "pool" /\ gateCall[c].left # <<>> /\ Gate!Asking(c) = "jev"
    BY <1>4 DEF Gate!StartDirect
  <2>2. CallIsFine(r)
    BY <1>0, <2>1, CallGoesOn
  <2>3. gateCall' = [gateCall EXCEPT ![c] = r]
    BY <1>4 DEF Gate!StartDirect
  <2>4. r.at = "sending" /\ Head(r.left) = "jev"
    BY <1>0, <2>1 DEF Gate!Calls, Gate!Asking
  <2>5. c \notin Gate!Sending /\ c \notin Waiting
    BY <2>1 DEF Gate!Sending, Waiting
  <2> HIDE DEF r
  <2> QED
    BY <1>0, <1>1, <2>2, <2>3, <2>4, <2>5, Outside
<1> QED
  BY <1>2, <1>3, <1>4

(* A ticket is drawn, unless the gate is shut or its queue is full.         *)
LEMMA GateQueues ==
  ASSUME GateInv, NEW c \in Callers, Gate!Enqueue(c)
  PROVE  GateInv'
<1>0. /\ CallIsFine(gateCall[c]) /\ gateCall[c] \in Gate!Calls /\ gateCooling \subseteq Gate!Pool
      /\ gateCall \in [Callers -> Gate!Calls] /\ gateClosed \in BOOLEAN
      /\ QueueIsFine(gateQueue, gateActive, Gate!Sending, Waiting)
  BY DEF GateInv
<1>1. gateCall[c].at = "pool" /\ gateCall[c].left # <<>> /\ Gate!Asking(c) = "laya"
  BY DEF Gate!Enqueue
<1>2. UNCHANGED <<gateActive, gateClosed>>
  BY DEF Gate!Enqueue
<1>3. c \notin Gate!Sending /\ c \notin Waiting
  BY <1>1 DEF Gate!Sending, Waiting
<1>4. CASE gateClosed \/ Len(gateQueue) >= QueueLimit
  <2>1. Gate!Failed(c) /\ gateQueue' = gateQueue
    BY <1>4 DEF Gate!Enqueue
  <2>2. PICK r : CallIsFine(r) /\ r.at = "pool" /\ gateCall' = [gateCall EXCEPT ![c] = r]
    BY <1>1, <2>1, CallFails
  <2>3. gateCooling' \subseteq Gate!Pool
    BY <1>1, <2>1, CallFails
  <2> QED
    BY <1>2, <1>3, <2>1, <2>2, <2>3, Outside
<1>5. CASE ~(gateClosed \/ Len(gateQueue) >= QueueLimit)
  <2> DEFINE r == [gateCall[c] EXCEPT !.at = "queued"]
  <2>1. gateQueue' = Append(gateQueue, c) /\ gateCall' = [gateCall EXCEPT ![c] = r] /\ gateCooling' = gateCooling
    BY <1>5 DEF Gate!Enqueue
  <2>2. CallIsFine(r)
    BY <1>0, <1>1, CallGoesOn DEF Gate!Asking
  <2>3. r.at = "queued"
    BY <1>0 DEF Gate!Calls
  <2>4. c \notin Tickets(gateQueue) /\ gateQueue \in Seq(Callers) /\ EachOnce(gateQueue)
    BY <1>0, <1>3 DEF QueueIsFine
  <2>5. /\ gateQueue' \in Seq(Callers) /\ EachOnce(gateQueue')
        /\ Tickets(gateQueue') = Tickets(gateQueue) \cup {c}
        /\ gateQueue # <<>> => gateQueue' # <<>> /\ gateQueue'[1] = gateQueue[1]
    BY <2>1, <2>4, Drawn
  <2>6. Gate!Sending \ {c} = Gate!Sending
    BY <1>3
  <2>7. QueueIsFine(gateQueue', gateActive', Gate!Sending \ {c}, Waiting \cup {c})
    BY <1>0, <1>2, <2>5, <2>6 DEF QueueIsFine
  <2>8. gateCooling' \subseteq Gate!Pool /\ gateClosed' \in BOOLEAN
    BY <1>0, <1>2, <2>1
  <2> HIDE DEF r
  <2> QED
    BY <2>1, <2>2, <2>3, <2>7, <2>8, GateKeeps
<1> QED
  BY <1>4, <1>5

(* The first ticket takes the gate.                                         *)
LEMMA GateEnters ==
  ASSUME GateInv, NEW c \in Callers, Gate!Enter(c)
  PROVE  GateInv'
<1>0. /\ CallIsFine(gateCall[c]) /\ gateCall[c] \in Gate!Calls /\ gateCooling \subseteq Gate!Pool
      /\ gateCall \in [Callers -> Gate!Calls] /\ gateClosed \in BOOLEAN
      /\ QueueIsFine(gateQueue, gateActive, Gate!Sending, Waiting)
  BY DEF GateInv
<1> DEFINE r == [gateCall[c] EXCEPT !.at = "sending"]
<1>1. gateCall[c].at = "queued" /\ ~gateActive /\ Head(gateQueue) = c
  BY DEF Gate!Enter, Gate!MyTurn
<1>2. gateActive' /\ gateActive' \in BOOLEAN
  BY DEF Gate!Enter
<1>3. gateCall' = [gateCall EXCEPT ![c] = r] /\ gateCooling' = gateCooling
      /\ gateQueue' = gateQueue /\ gateClosed' = gateClosed
  BY DEF Gate!Enter
<1>4. gateCall[c].left # <<>> /\ Head(gateCall[c].left) = "laya"
  BY <1>0, <1>1 DEF CallIsFine
<1>5. CallIsFine(r)
  BY <1>0, <1>1, <1>4, CallGoesOn
<1>6. r.at = "sending" /\ Head(r.left) = "laya"
  BY <1>0, <1>4 DEF Gate!Calls
<1>7. c \in Waiting
  BY <1>1 DEF Waiting
<1>8. Tickets(gateQueue) = Gate!Sending \cup Waiting /\ EachOnce(gateQueue) /\ gateQueue \in Seq(Callers)
  BY <1>0 DEF QueueIsFine
<1>9. Gate!Sending = {}
  BY <1>0, <1>1 DEF QueueIsFine
<1>10. gateQueue # <<>>
  BY <1>7, <1>8 DEF Tickets
<1>11. gateQueue[1] = c
  BY <1>1, <1>8, <1>10
<1>12. Gate!Sending \cup {c} = {gateQueue[1]}
  BY <1>9, <1>11
<1>13. (Gate!Sending \cup {c}) \cup (Waiting \ {c}) = Tickets(gateQueue)
  BY <1>7, <1>8
<1>14. QueueIsFine(gateQueue', gateActive', Gate!Sending \cup {c}, Waiting \ {c})
  BY <1>2, <1>3, <1>8, <1>10, <1>12, <1>13 DEF QueueIsFine
<1> HIDE DEF r
<1> QED
  BY <1>0, <1>3, <1>5, <1>6, <1>14, GateKeeps

(* Whoever does not wait any longer takes out its own ticket.               *)
LEMMA GateLeaves ==
  ASSUME GateInv, NEW c \in Callers, Gate!LeaveQueue(c)
  PROVE  GateInv'
<1>0. /\ CallIsFine(gateCall[c]) /\ gateCall[c] \in Gate!Calls /\ gateClosed \in BOOLEAN
      /\ QueueIsFine(gateQueue, gateActive, Gate!Sending, Waiting)
  BY DEF GateInv
<1>1. gateCall[c].at = "queued" /\ ~Gate!MyTurn(c) /\ UNCHANGED <<gateActive, gateClosed>>
      /\ gateQueue' = Gate!RemoveTicket(c)
  BY DEF Gate!LeaveQueue
<1>2. gateCall[c].left # <<>>
  BY <1>0, <1>1 DEF CallIsFine
<1>3. /\ gateCooling' \subseteq Gate!Pool
      /\ \E r : CallIsFine(r) /\ r.at \in {"pool", "idle"} /\ gateCall' = [gateCall EXCEPT ![c] = r]
  <2>1. CASE Gate!Failed(c)
    BY <1>1, <1>2, <2>1, CallFails
  <2>2. CASE gateCall[c].late /\ Gate!BudgetGone(c)
    BY <1>1, <2>2, CallIsLate
  <2> QED
    BY <2>1, <2>2 DEF Gate!LeaveQueue, Gate!TimedOut
<1>4. PICK r : CallIsFine(r) /\ r.at \in {"pool", "idle"} /\ gateCall' = [gateCall EXCEPT ![c] = r]
  BY <1>3
<1>5. c \in Waiting /\ c \notin Gate!Sending
  BY <1>1 DEF Waiting, Gate!Sending
<1>6. Tickets(gateQueue) = Gate!Sending \cup Waiting /\ EachOnce(gateQueue) /\ gateQueue \in Seq(Callers)
  BY <1>0 DEF QueueIsFine
<1> DEFINE k == CHOOSE i \in DOMAIN gateQueue : gateQueue[i] = c
<1>7. \E i \in DOMAIN gateQueue : gateQueue[i] = c
  BY <1>5, <1>6 DEF Tickets
<1>8. k \in DOMAIN gateQueue /\ gateQueue[k] = c
  BY <1>7
<1>9. gateQueue' = Gate!RemoveAt(gateQueue, k)
  BY <1>1 DEF Gate!RemoveTicket
<1> HIDE DEF k
<1>10. /\ gateQueue' \in Seq(Callers) /\ EachOnce(gateQueue')
       /\ Tickets(gateQueue') = Tickets(gateQueue) \ {c}
       /\ k # 1 => gateQueue' # <<>> /\ gateQueue'[1] = gateQueue[1]
  BY <1>6, <1>8, <1>9, TakenOut
<1>11. Gate!Sending \ {c} = Gate!Sending /\ Tickets(gateQueue') = Gate!Sending \cup (Waiting \ {c})
  BY <1>5, <1>6, <1>10
<1>12. gateActive \in BOOLEAN /\ (gateActive => Gate!Sending = {gateQueue[1]}) /\ (~gateActive => Gate!Sending = {})
  BY <1>0 DEF QueueIsFine
<1>13. gateActive => k # 1
  BY <1>5, <1>8, <1>12
<1>14. QueueIsFine(gateQueue', gateActive', Gate!Sending \ {c}, Waiting \ {c})
  BY <1>1, <1>10, <1>11, <1>12, <1>13 DEF QueueIsFine
<1>15. r.at # "queued" /\ r.at # "sending"
  BY <1>4
<1> QED
  BY <1>0, <1>1, <1>3, <1>4, <1>14, <1>15, GateKeeps

(* Every step keeps it.                                                     *)
LEMMA GateStep == GateInv /\ [Gate!Next]_Gate!vars => GateInv'
<1> SUFFICES ASSUME GateInv, [Gate!Next]_Gate!vars PROVE GateInv'
  OBVIOUS
<1>1. ASSUME UNCHANGED <<gateQueue, gateActive, gateCall>>, gateCooling' \subseteq Gate!Pool, gateClosed' \in BOOLEAN
      PROVE  GateInv'
  <2>1. Gate!Sending' = Gate!Sending /\ Waiting' = Waiting
    BY <1>1 DEF Gate!Sending, Gate!Asking, Waiting
  <2> QED
    BY <1>1, <2>1 DEF GateInv
<1>2. CASE UNCHANGED Gate!vars
  BY <1>1, <1>2 DEF Gate!vars, GateInv
<1>3. ASSUME NEW e \in Gate!Pool, Gate!CooledDown(e) PROVE GateInv'
  BY <1>1, <1>3 DEF Gate!CooledDown, Gate!gate, GateInv
<1>4. CASE Gate!Close
  BY <1>1, <1>4 DEF Gate!Close, GateInv
<1>5. ASSUME NEW c \in Callers,
             (\E kind \in Kinds : Gate!Ask(c, kind)) \/ Gate!Deadline(c) \/ Gate!GiveUp(c) \/ Gate!Enqueue(c)
             \/ Gate!LeaveQueue(c) \/ Gate!Enter(c) \/ Gate!StartDirect(c) \/ Gate!OutOfTime(c)
             \/ Gate!NextBatch(c) \/ Gate!Answer(c) \/ Gate!TryAgain(c) \/ Gate!Refused(c)
      PROVE  GateInv'
  BY <1>5, GateAsks, GateAnswers, GateGoesOn, GateQueues, GateEnters, GateLeaves
<1> QED
  BY <1>2, <1>3, <1>4, <1>5 DEF Gate!Next

(* For any callers, limits and numbers of attempts: one request at a time   *)
(* reaches LAYA and its ticket is the first, every ticket has a caller, and *)
(* a call ends unanswered only out of time or with nobody left to ask       *)
(* (agent/decision_evaluator.py:60-150, plugins/evaluators/laya.py:60-190). *)
THEOREM OpinionsStand == Gate!Spec => [](Gate!GateIsSound /\ Gate!EveryoneIsAsked)
<1>1. ASSUME GateInv PROVE Gate!GateIsSound
  <2>1. gateQueue \in Seq(Callers) /\ gateActive \in BOOLEAN /\ EachOnce(gateQueue)
        /\ Tickets(gateQueue) = Gate!Sending \cup Waiting
        /\ (gateActive => gateQueue # <<>> /\ Gate!Sending = {gateQueue[1]}) /\ (~gateActive => Gate!Sending = {})
    BY <1>1 DEF GateInv, QueueIsFine
  <2>2. Gate!TypeOK
    BY <1>1, <2>1 DEF GateInv, Gate!TypeOK
  <2>3. Gate!Cardinality(Gate!Sending) = IF gateActive THEN 1 ELSE 0
    <3>1. Gate!Cardinality(Gate!Sending) = Cardinality(Gate!Sending)
      BY DEF Gate!Cardinality, Cardinality
    <3>2. CASE gateActive
      <4>1. Gate!Sending = {gateQueue[1]}
        BY <2>1, <3>2
      <4>2. Cardinality(Gate!Sending) = 1
        BY <4>1, FS_Singleton
      <4> QED
        BY <3>1, <3>2, <4>2
    <3>3. CASE ~gateActive
      <4>1. Gate!Sending = {}
        BY <2>1, <3>3
      <4>2. Cardinality(Gate!Sending) = 0
        BY <4>1, FS_EmptySet
      <4> QED
        BY <3>1, <3>3, <4>2
    <3> QED
      BY <3>2, <3>3
  <2>4. gateActive => Head(gateQueue) \in Gate!Sending
    BY <2>1
  <2>5. Gate!ToSet(gateQueue) = Tickets(gateQueue)
    BY DEF Gate!ToSet, Tickets
  <2>6. Gate!IsInjective(gateQueue)
    BY <2>1 DEF Gate!IsInjective, EachOnce
  <2> QED
    BY <2>1, <2>2, <2>3, <2>4, <2>5, <2>6 DEF Gate!GateIsSound, Waiting
<1>2. ASSUME GateInv PROVE Gate!EveryoneIsAsked
  BY <1>2 DEF GateInv, CallIsFine, Gate!EveryoneIsAsked
<1> QED
  BY <1>1, <1>2, GateInit, GateStep, PTL DEF Gate!Spec

----------------------------------------------------------------------------
(* ---- ClientLogin ---- *)

(* A login that was not started yet has nothing; a client that runs is      *)
(* waited for, about to be killed or was given up by its reader, and one    *)
(* that is waited for is still read from.  As long as no login began before *)
(* the one before it was wound up, only the last one has anything left to   *)
(* do, and a relay that is open and knows a link is about to be closed.     *)
LogInv ==
  /\ Login!TypeOK
  /\ \A f \in Login!Flows : f > logLast => logFlow[f] = Login!NoLogin /\ logLink[f] = Login!NoLink
  /\ \A f \in Login!Running : f = logProc \/ logFlow[f].kill \/ logFlow[f].failed
  /\ \A f \in Login!Flows : logLink[f].accepted = IF logLink[f].consumed THEN 1 ELSE 0
  /\ \A f \in Login!Flows : logLink[f].ready # "no" => logLink[f].open
  /\ logProc # 0 => logFlow[logProc].reader = "reading" /\ ~logFlow[logProc].kill
  /\ logPage.flow \in {0, logProc}
  /\ ~logOvertaken =>
       /\ logProc \in {0, logLast} /\ Login!Ending \subseteq {logLast}
       /\ logPage.from \in {0, logProc}
       /\ logProc # 0 /\ logFlow[logProc].mode = "local" => logRelay = logProc /\ logLink[logProc].open
       /\ \A f \in Login!Flows : logLink[f].open => /\ logRelay = f /\ f = logLast
                                                    /\ logLink[f].known \in {0, f}
                                                    /\ (logLink[f].known = f => f \in Login!Ending)

(* The logins are numbered from one.                                        *)
LEMMA LogNumbers == MaxFlows \in Nat /\ Login!Flows = 1..MaxFlows /\ Login!NoFlow = 0
BY ClientsAssumption DEF Login!ClientLoginAssumption, Login!Flows, Login!NoFlow

(* A relay that is shut keeps what it carried, and the others stay.         *)
LEMMA Shutting ==
  ASSUME Login!TypeOK, NEW f \in 0..logLast
  PROVE  /\ Login!Shut(logLink, f) \in [Login!Flows -> Login!Links]
         /\ \A g \in Login!Flows \ {f} : Login!Shut(logLink, f)[g] = logLink[g]
         /\ \A g \in Login!Flows :
              /\ Login!Shut(logLink, f)[g].known = logLink[g].known
              /\ Login!Shut(logLink, f)[g].consumed = logLink[g].consumed
              /\ Login!Shut(logLink, f)[g].accepted = logLink[g].accepted
         /\ f # 0 => ~Login!Shut(logLink, f)[f].open /\ Login!Shut(logLink, f)[f].ready = "no"
<1>1. CASE f = 0
  BY <1>1, LogNumbers DEF Login!Shut, Login!TypeOK
<1>2. CASE f # 0
  <2> DEFINE q == [logLink[f] EXCEPT !.open = FALSE, !.ready = "no"]
  <2>1. f \in Login!Flows /\ logLink \in [Login!Flows -> Login!Links]
    BY <1>2, LogNumbers DEF Login!TypeOK
  <2>2. q \in Login!Links /\ q.known = logLink[f].known /\ q.consumed = logLink[f].consumed
        /\ q.accepted = logLink[f].accepted
    BY <2>1 DEF Login!Links
  <2>3. ~q.open /\ q.ready = "no"
    BY <2>1 DEF Login!Links
  <2>4. Login!Shut(logLink, f) = [logLink EXCEPT ![f] = q]
    BY <1>2, <2>1, LogNumbers DEF Login!Shut
  <2> HIDE DEF q
  <2>5. /\ Login!Shut(logLink, f) \in [Login!Flows -> Login!Links]
        /\ Login!Shut(logLink, f)[f] = q
        /\ \A g \in Login!Flows \ {f} : Login!Shut(logLink, f)[g] = logLink[g]
    BY <2>1, <2>2, <2>4
  <2>6. ~Login!Shut(logLink, f)[f].open /\ Login!Shut(logLink, f)[f].ready = "no"
    BY <2>3, <2>5
  <2> QED
    BY <2>2, <2>5, <2>6
<1> QED
  BY <1>1, <1>2

(* After the relay that the controller holds was shut, no relay is open, as *)
(* long as the logins followed each other.                                  *)
LEMMA NothingOpen ==
  ASSUME LogInv, ~logOvertaken
  PROVE  \A g \in Login!Flows : ~Login!Shut(logLink, logRelay)[g].open
<1>1. logRelay \in 0..logLast
  BY DEF LogInv, Login!TypeOK
<1>2. \A g \in Login!Flows : logLink[g].open => logRelay = g
  BY DEF LogInv
<1>3. \A g \in Login!Flows : g = logRelay => ~Login!Shut(logLink, logRelay)[g].open
  BY <1>1, Shutting, LogNumbers DEF LogInv
<1>4. \A g \in Login!Flows \ {logRelay} : Login!Shut(logLink, logRelay)[g] = logLink[g]
  BY <1>1, Shutting DEF LogInv
<1>5. \A g \in Login!Flows \ {logRelay} : ~Login!Shut(logLink, logRelay)[g].open
  BY <1>2, <1>4
<1> QED
  BY <1>3, <1>5

(* A relay that can take the browser back is open, also after one was shut. *)
LEMMA ReadyIsOpen ==
  ASSUME LogInv
  PROVE  \A g \in Login!Flows : LET l == Login!Shut(logLink, logRelay)[g] IN l.ready # "no" => l.open
<1>1. logRelay \in 0..logLast
  BY DEF LogInv, Login!TypeOK
<1>2. \A g \in Login!Flows : g = logRelay => Login!Shut(logLink, logRelay)[g].ready = "no"
  BY <1>1, Shutting, LogNumbers DEF LogInv
<1>3. \A g \in Login!Flows \ {logRelay} : Login!Shut(logLink, logRelay)[g] = logLink[g]
  BY <1>1, Shutting DEF LogInv
<1> QED
  BY <1>2, <1>3 DEF LogInv

(* In the beginning nobody signed in.                                       *)
LEMMA LogInit == Login!Init => LogInv
<1> SUFFICES ASSUME Login!Init PROVE LogInv
  OBVIOUS
<1>1. Login!NoLogin \in Login!Logins /\ Login!NoLogin.process = "none" /\ Login!NoLogin.reader = "none"
  BY DEF Login!NoLogin, Login!Logins
<1>2. ~Login!NoLogin.kill
  BY DEF Login!NoLogin
<1>3. logLast = 0
  BY DEF Login!Init
<1>4. Login!NoLink \in Login!Links /\ Login!NoLink.accepted = 0 /\ Login!NoLink.ready = "no"
  BY <1>3, LogNumbers DEF Login!NoLink, Login!Links
<1>5. ~Login!NoLink.open /\ ~Login!NoLink.consumed
  BY DEF Login!NoLink
<1>6. \A f \in Login!Flows : logFlow[f] = Login!NoLogin /\ logLink[f] = Login!NoLink
  BY DEF Login!Init
<1>7. {logOvertaken, logLooking, logNotice} \subseteq BOOLEAN
  BY DEF Login!Init
<1>8. Login!TypeOK
  BY <1>1, <1>4, <1>7, LogNumbers DEF Login!Init, Login!TypeOK, Login!Pages
<1>9. Login!Running = {} /\ Login!Ending = {}
  BY <1>1, <1>2, <1>6 DEF Login!Running, Login!Ending
<1>10. \A f \in Login!Flows : logLink[f].accepted = IF logLink[f].consumed THEN 1 ELSE 0
  BY <1>4, <1>5, <1>6
<1>11. \A f \in Login!Flows : ~logLink[f].open /\ logLink[f].ready = "no"
  BY <1>4, <1>5, <1>6
<1> QED
  BY <1>3, <1>6, <1>8, <1>9, <1>10, <1>11, LogNumbers DEF Login!Init, LogInv

(* What a login does to its own record, and to its relay.                   *)
LEMMA OneFlow ==
  ASSUME Login!TypeOK, NEW f \in Login!Flows, NEW q \in Login!Logins, logFlow' = [logFlow EXCEPT ![f] = q]
  PROVE  /\ logFlow' \in [Login!Flows -> Login!Logins]
         /\ logFlow'[f] = q /\ \A g \in Login!Flows \ {f} : logFlow'[g] = logFlow[g]
BY DEF Login!TypeOK

(* What becomes of one relay.                                               *)
LEMMA OneLink ==
  ASSUME Login!TypeOK, NEW f \in Login!Flows, NEW q \in Login!Links, logLink' = [logLink EXCEPT ![f] = q]
  PROVE  /\ logLink' \in [Login!Flows -> Login!Links]
         /\ logLink'[f] = q /\ \A g \in Login!Flows \ {f} : logLink'[g] = logLink[g]
BY DEF Login!TypeOK

(* A login that is anything was started.                                    *)
LEMMA LogStarted ==
  ASSUME LogInv, NEW f \in Login!Flows
  PROVE  /\ logFlow[f].process # "none" \/ logFlow[f].reader # "none" \/ logFlow[f].kill => f \in 1..logLast
         /\ logLink[f].open => f \in 1..logLast
<1>1. Login!NoLogin.process = "none" /\ Login!NoLogin.reader = "none"
  BY DEF Login!NoLogin
<1>2. ~Login!NoLogin.kill /\ ~Login!NoLink.open
  BY DEF Login!NoLogin, Login!NoLink
<1>3. f > logLast => logFlow[f] = Login!NoLogin /\ logLink[f] = Login!NoLink
  BY DEF LogInv
<1>4. logLast \in Nat /\ f \in Nat /\ f > 0
  BY LogNumbers DEF LogInv, Login!TypeOK
<1> QED
  BY <1>1, <1>2, <1>3, <1>4

(* What only says who is signed in, on the page or in the client's files.   *)
LEMMA LogSays ==
  ASSUME LogInv, Login!Logout \/ Login!InspectBegins \/ Login!InspectEnds \/ Login!RobotIsRefused
  PROVE  LogInv'
<1>1. UNCHANGED <<logLast, logProc, logRelay, logFlow, logLink, logOvertaken>>
  BY DEF Login!Logout, Login!InspectBegins, Login!InspectEnds, Login!RobotIsRefused
<1>2. logPage' \in Login!Pages' /\ logPage'.flow = logPage.flow /\ logPage'.from = logPage.from
  <2>1. logPage \in Login!Pages /\ Login!Pages' = Login!Pages
    BY <1>1 DEF LogInv, Login!TypeOK, Login!Pages
  <2>2. \A x \in {"login_required", "authorizing", "authenticated", "error"} :
          LET p == [logPage EXCEPT !.state = x] IN
            p \in Login!Pages /\ p.flow = logPage.flow /\ p.from = logPage.from
    BY <2>1 DEF Login!Pages
  <2>3. logPage' = logPage \/ \E x \in {"login_required", "authorizing", "authenticated", "error"} :
                                 logPage' = [logPage EXCEPT !.state = x]
    BY DEF Login!Logout, Login!InspectBegins, Login!InspectEnds, Login!Inspected, Login!RobotIsRefused
  <2> QED
    BY <2>1, <2>2, <2>3
<1>4. {logLooking', logNotice', logOvertaken'} \subseteq BOOLEAN
  BY <1>1 DEF LogInv, Login!TypeOK, Login!Logout, Login!InspectBegins, Login!InspectEnds, Login!RobotIsRefused
<1>5. Login!TypeOK'
  BY <1>1, <1>2, <1>4 DEF LogInv, Login!TypeOK, Login!Links
<1> QED
  BY <1>1, <1>2, <1>5 DEF LogInv, Login!Running, Login!Ending

(* What a relay does about the browser that comes back.                     *)
LEMMA LogRelays ==
  ASSUME LogInv, NEW f \in Login!Flows,
         Login!DirectReady(f) \/ Login!HelperReady(f) \/ Login!HelperFails(f) \/ Login!ForwardCallback(f)
  PROVE  LogInv'
<1> DEFINE p == logLink[f]
<1>1. UNCHANGED <<logLast, logProc, logRelay, logFlow, logPage, logNotice, logLooking, logOvertaken>>
  BY DEF Login!DirectReady, Login!HelperReady, Login!HelperFails, Login!ForwardCallback, Login!account
<1>2. p \in Login!Links /\ p.open /\ p.accepted = IF p.consumed THEN 1 ELSE 0
  <2>1. p.open
    BY DEF Login!DirectReady, Login!HelperReady, Login!HelperFails, Login!ForwardCallback, Login!MayForward,
           Login!Active
  <2> QED
    BY <2>1 DEF LogInv, Login!TypeOK
<1>3. \E q \in Login!Links : /\ logLink' = [logLink EXCEPT ![f] = q] /\ q.open = p.open /\ q.known = p.known
                             /\ q.accepted = IF q.consumed THEN 1 ELSE 0
  <2>1. ASSUME NEW x \in {"no", "direct", "helper"}, logLink' = [logLink EXCEPT ![f].ready = x] PROVE <1>3
    <3> DEFINE q == [p EXCEPT !.ready = x]
    <3>1. q \in Login!Links /\ q.known = p.known /\ q.accepted = p.accepted /\ q.consumed = p.consumed
          /\ q.open = p.open
      BY <1>2 DEF Login!Links
    <3>2. logLink' = [logLink EXCEPT ![f] = q]
      BY <2>1
    <3> HIDE DEF q
    <3>3. q.accepted = IF q.consumed THEN 1 ELSE 0
      BY <1>2, <3>1
    <3> QED
      BY <3>1, <3>2, <3>3
  <2>2. CASE Login!ForwardCallback(f)
    <3> DEFINE q == [p EXCEPT !.consumed = TRUE, !.accepted = @ + 1]
    <3>1. ~p.consumed
      BY <2>2 DEF Login!ForwardCallback, Login!MayForward, Login!Active
    <3>2. p.accepted = 0
      BY <1>2, <3>1
    <3>3. q.consumed /\ q.known = p.known
      BY <1>2 DEF Login!Links
    <3>o. q.open = p.open
      BY <1>2 DEF Login!Links
    <3>4. q \in Login!Links /\ q.accepted = 1
      <4>1. \A r \in Login!Links : \A n \in Nat : /\ [r EXCEPT !.consumed = TRUE, !.accepted = n] \in Login!Links
                                               /\ [r EXCEPT !.consumed = TRUE, !.accepted = n].accepted = n
        BY DEF Login!Links
      <4>2. p.accepted + 1 = 1 /\ 1 \in Nat
        BY <3>2
      <4>3. p \in Login!Links
        BY <1>2
      <4> HIDE DEF p
      <4>4. \A n : n = 1 => LET r == [p EXCEPT !.consumed = TRUE, !.accepted = n] IN
                              r \in Login!Links /\ r.accepted = 1
        BY <4>1, <4>2, <4>3
      <4> QED
        BY <4>2, <4>4
    <3>5. logLink' = [logLink EXCEPT ![f] = q]
      BY <2>2 DEF Login!ForwardCallback
    <3> HIDE DEF q
    <3>6. q.accepted = IF q.consumed THEN 1 ELSE 0
      BY <3>3, <3>4
    <3> QED
      BY <3>o, <3>3, <3>4, <3>5, <3>6
  <2> QED
    BY <2>1, <2>2 DEF Login!DirectReady, Login!HelperReady, Login!HelperFails
<1>4. PICK q \in Login!Links : /\ logLink' = [logLink EXCEPT ![f] = q] /\ q.open = p.open /\ q.known = p.known
                              /\ q.accepted = IF q.consumed THEN 1 ELSE 0
  BY <1>3
<1>5. /\ logLink' \in [Login!Flows -> Login!Links]
      /\ logLink'[f] = q /\ \A g \in Login!Flows \ {f} : logLink'[g] = logLink[g]
  BY <1>4, OneLink DEF LogInv
<1>6. Login!TypeOK'
  BY <1>1, <1>5 DEF LogInv, Login!TypeOK, Login!Links, Login!Pages
<1>7. f \in 1..logLast
  BY <1>2, LogStarted
<1>8. \A g \in Login!Flows : logLink'[g].accepted = IF logLink'[g].consumed THEN 1 ELSE 0
  BY <1>4, <1>5 DEF LogInv
<1>9. \A g \in Login!Flows : logLink'[g].open = logLink[g].open /\ logLink'[g].known = logLink[g].known
  BY <1>4, <1>5
<1>r. \A g \in Login!Flows : logLink'[g].ready # "no" => logLink'[g].open
  BY <1>2, <1>4, <1>5 DEF LogInv
<1>10. \A g \in Login!Flows : g > logLast => logLink'[g] = logLink[g]
  BY <1>5, <1>7, LogNumbers DEF LogInv, Login!TypeOK
<1>11. Login!Running' = Login!Running /\ Login!Ending' = Login!Ending
  BY <1>1 DEF Login!Running, Login!Ending
<1>12. logProc # 0 => logProc \in Login!Flows
  BY LogNumbers DEF LogInv, Login!TypeOK
<1>13. ASSUME ~logOvertaken
       PROVE  /\ logProc # 0 /\ logFlow[logProc].mode = "local" => logRelay = logProc /\ logLink'[logProc].open
              /\ \A g \in Login!Flows : logLink'[g].open => /\ logRelay = g /\ g = logLast
                                                            /\ logLink'[g].known \in {0, g}
                                                            /\ (logLink'[g].known = g => g \in Login!Ending)
  BY <1>9, <1>12, <1>13 DEF LogInv
<1> QED
  BY <1>1, <1>6, <1>8, <1>r, <1>10, <1>11, <1>13 DEF LogInv

(* A client ends, by itself or because its login was cancelled.             *)
LEMMA LogEnds ==
  ASSUME LogInv, NEW f \in Login!Flows,
         Login!Kill(f) \/ \E how \in {"success", "failure"} : Login!ClientEnds(f, how)
  PROVE  LogInv'
<1> DEFINE p == logFlow[f]
<1>1. UNCHANGED <<logLast, logProc, logRelay, logLink, logPage, logNotice, logLooking, logOvertaken>>
      /\ p.process = "running"
  BY DEF Login!Kill, Login!ClientEnds, Login!Running, Login!account, LogInv, Login!TypeOK
<1>2. p \in Login!Logins
  BY DEF LogInv, Login!TypeOK
<1>3. PICK how \in {"success", "failure"} : logFlow' = [logFlow EXCEPT ![f].process = how]
  BY DEF Login!Kill, Login!ClientEnds
<1> DEFINE q == [p EXCEPT !.process = how]
<1>4. q \in Login!Logins /\ q.process = how /\ q.reader = p.reader /\ q.kill = p.kill /\ q.mode = p.mode
      /\ q.failed = p.failed
  BY <1>2 DEF Login!Logins
<1>5. logFlow' = [logFlow EXCEPT ![f] = q]
  BY <1>3
<1> HIDE DEF q
<1>6. /\ logFlow' \in [Login!Flows -> Login!Logins]
      /\ logFlow'[f] = q /\ \A g \in Login!Flows \ {f} : logFlow'[g] = logFlow[g]
  BY <1>4, <1>5, OneFlow DEF LogInv
<1>7. Login!TypeOK'
  BY <1>1, <1>6 DEF LogInv, Login!TypeOK, Login!Links, Login!Pages
<1>8. f \in 1..logLast
  BY <1>1, LogStarted
<1>9. \A g \in Login!Flows : /\ logFlow'[g].reader = logFlow[g].reader /\ logFlow'[g].kill = logFlow[g].kill
                             /\ logFlow'[g].mode = logFlow[g].mode /\ logFlow'[g].failed = logFlow[g].failed
  BY <1>4, <1>6
<1>10. \A g \in Login!Flows : g > logLast => logFlow'[g] = logFlow[g]
  BY <1>6, <1>8, LogNumbers DEF LogInv, Login!TypeOK
<1>11. Login!Running' \subseteq Login!Running /\ Login!Ending' = Login!Ending
  BY <1>1, <1>4, <1>6, <1>9 DEF Login!Running, Login!Ending
<1>12. logProc # 0 => logProc \in Login!Flows
  BY LogNumbers DEF LogInv, Login!TypeOK
<1>13. \A g \in Login!Running' : g = logProc \/ logFlow'[g].kill \/ logFlow'[g].failed
  BY <1>9, <1>11 DEF LogInv, Login!Running
<1>14. logProc # 0 => logFlow'[logProc].reader = "reading" /\ ~logFlow'[logProc].kill
  BY <1>9, <1>12 DEF LogInv
<1>15. logProc # 0 => logFlow'[logProc].mode = logFlow[logProc].mode
  BY <1>9, <1>12
<1> QED
  BY <1>1, <1>7, <1>10, <1>11, <1>13, <1>14, <1>15 DEF LogInv

(* A page that forgets the link shows that of no login.                     *)
LEMMA Forgetting ==
  ASSUME NEW r \in Login!Pages, logLast \in Nat
  PROVE  /\ Login!ForgetLink(r) \in Login!Pages
         /\ Login!ForgetLink(r).flow = 0 /\ Login!ForgetLink(r).from = 0
         /\ \A x \in {"login_required", "error"} :
              LET p == [Login!ForgetLink(r) EXCEPT !.state = x] IN p \in Login!Pages /\ p.flow = 0 /\ p.from = 0
<1>1. Login!ForgetLink(r) = [r EXCEPT !.flow = 0, !.from = 0]
  BY LogNumbers DEF Login!ForgetLink
<1>2. 0 \in 0..logLast
  OBVIOUS
<1>3. LET p == [r EXCEPT !.flow = 0, !.from = 0] IN p \in Login!Pages /\ p.flow = 0 /\ p.from = 0
  BY <1>2 DEF Login!Pages
<1>4. \A q \in Login!Pages : \A x \in {"login_required", "error"} :
        LET p == [q EXCEPT !.state = x] IN p \in Login!Pages /\ p.flow = q.flow /\ p.from = q.from
  BY DEF Login!Pages
<1> QED
  BY <1>1, <1>3, <1>4

(* The login that has something left to do is the last one, and nobody is   *)
(* waited for when it is not read from any more.                            *)
LEMMA LastOne ==
  ASSUME LogInv, ~logOvertaken, NEW f \in Login!Flows, logFlow[f].reader \notin {"none", "done"} \/ logFlow[f].kill
  PROVE  f = logLast /\ (logFlow[f].reader # "reading" \/ logFlow[f].kill => logProc = 0)
<1>1. f \in Login!Ending
  BY DEF Login!Ending
<1>2. f = logLast /\ logProc \in {0, logLast}
  BY <1>1 DEF LogInv
<1>3. logProc # 0 => logFlow[logProc].reader = "reading" /\ ~logFlow[logProc].kill
  BY DEF LogInv
<1> QED
  BY <1>2, <1>3

(* The reader of an ended process: the controller is told, the page loses   *)
(* its link, the client is looked at, and the relay is closed.              *)
LEMMA LogReads ==
  ASSUME LogInv, NEW f \in Login!Flows,
         \/ Login!ReadEnds(f) \/ Login!NoticeRemoved(f) \/ Login!ReadFails(f)
         \/ Login!ReaderInspected(f) \/ Login!ReaderCloses(f)
  PROVE  LogInv'
<1> DEFINE p == logFlow[f]
<1>a. p \in Login!Logins /\ p.reader \in {"reading", "leaving", "inspecting", "closing"} /\ logPage \in Login!Pages
      /\ logRelay \in 0..logLast /\ logProc \in 0..logLast
      /\ logLink \in [Login!Flows -> Login!Links] /\ logLast \in Nat
  BY LogNumbers DEF LogInv, Login!TypeOK, Login!ReadEnds, Login!NoticeRemoved, Login!ReadFails,
                    Login!ReaderInspected, Login!ReaderCloses
<1>0. /\ p \in Login!Logins /\ p.reader \in {"reading", "leaving", "inspecting", "closing"} /\ logPage \in Login!Pages
      /\ logRelay \in 0..logLast /\ logProc \in 0..logLast
      /\ logLink \in [Login!Flows -> Login!Links] /\ logLast \in Nat
  BY <1>a
<1>1. UNCHANGED <<logLast, logRelay, logLooking, logOvertaken>> /\ logNotice' \in BOOLEAN
  BY DEF Login!ReadEnds, Login!NoticeRemoved, Login!ReadFails, Login!ReaderInspected, Login!ReaderCloses,
         Login!account, LogInv, Login!TypeOK
<1>2. \E x \in {"leaving", "inspecting", "closing", "done"} : \E b \in BOOLEAN :
        /\ logFlow' = [logFlow EXCEPT ![f] = [p EXCEPT !.reader = x, !.failed = b]]
        /\ x = "done" => Login!ReaderCloses(f)
        /\ p.failed => b \/ f \notin Login!Running
        /\ p.reader = "reading" => b \/ f \notin Login!Running
  <2>1. ASSUME NEW x \in {"leaving", "inspecting", "closing", "done"}, logFlow' = [logFlow EXCEPT ![f].reader = x]
        PROVE  logFlow' = [logFlow EXCEPT ![f] = [p EXCEPT !.reader = x, !.failed = p.failed]]
    <3>1. [p EXCEPT !.reader = x] = [p EXCEPT !.reader = x, !.failed = p.failed]
      BY <1>0 DEF Login!Logins
    <3>2. logFlow' = [logFlow EXCEPT ![f] = [p EXCEPT !.reader = x]]
      BY <2>1
    <3> QED
      BY <3>1, <3>2
  <2>2. p.failed \in BOOLEAN
    BY <1>0 DEF Login!Logins
  <2>3. CASE Login!ReadEnds(f)
    <3>1. f \notin Login!Running
      BY <2>3 DEF Login!ReadEnds, Login!Running
    <3>2. \E x \in {"leaving", "closing"} : logFlow' = [logFlow EXCEPT ![f].reader = x]
      BY <2>3 DEF Login!ReadEnds
    <3> QED
      BY <2>1, <2>2, <3>1, <3>2
  <2>4. CASE Login!NoticeRemoved(f)
    BY <2>1, <2>2, <2>4 DEF Login!NoticeRemoved
  <2>5. CASE Login!ReadFails(f)
    <3> DEFINE b == f \in Login!Running
    <3>1. logFlow' = [logFlow EXCEPT ![f] = [p EXCEPT !.reader = "closing", !.failed = b]]
      BY <2>5 DEF Login!ReadFails
    <3>2. b \in BOOLEAN
      OBVIOUS
    <3> QED
      BY <3>1, <3>2
  <2>6. CASE Login!ReaderInspected(f)
    BY <2>1, <2>2, <2>6 DEF Login!ReaderInspected
  <2>7. CASE Login!ReaderCloses(f)
    BY <2>1, <2>2, <2>7 DEF Login!ReaderCloses
  <2> QED
    BY <2>3, <2>4, <2>5, <2>6, <2>7
<1> PICK x \in {"leaving", "inspecting", "closing", "done"}, b \in BOOLEAN :
        /\ logFlow' = [logFlow EXCEPT ![f] = [p EXCEPT !.reader = x, !.failed = b]]
        /\ x = "done" => Login!ReaderCloses(f)
        /\ p.failed => b \/ f \notin Login!Running
        /\ p.reader = "reading" => b \/ f \notin Login!Running
  BY <1>2
<1> DEFINE q == [p EXCEPT !.reader = x, !.failed = b]
<1>3. q \in Login!Logins /\ q.reader = x /\ q.process = p.process /\ q.kill = p.kill /\ q.mode = p.mode
  BY <1>0 DEF Login!Logins
<1>f. q.failed = b
  BY <1>0 DEF Login!Logins
<1>4. logFlow' = [logFlow EXCEPT ![f] = q]
  OBVIOUS
<1> HIDE DEF q
<1>5. /\ logFlow' \in [Login!Flows -> Login!Logins]
      /\ logFlow'[f] = q /\ \A g \in Login!Flows \ {f} : logFlow'[g] = logFlow[g]
  BY <1>3, <1>4, OneFlow DEF LogInv
<1>6. logProc' \in {0, logProc} /\ (logProc' # 0 => logProc # f) /\ (p.reader # "reading" => logProc' = logProc)
  <2>1. p.reader # "reading" => logProc # f
    BY LogNumbers DEF LogInv
  <2> QED
    BY <2>1, LogNumbers DEF Login!ReadEnds, Login!NoticeRemoved, Login!ReadFails, Login!ReaderInspected,
                            Login!ReaderCloses, Login!NoFlow
<1>7. /\ logPage' \in Login!Pages
      /\ \/ logPage'.flow = logPage.flow /\ logPage'.from = logPage.from /\ logProc' = logProc
         \/ logPage'.flow = 0 /\ logPage'.from = 0
  <2>1. \A y \in {"login_required", "authenticated", "error"} :
          LET r == [logPage EXCEPT !.state = y] IN
            r \in Login!Pages /\ r.flow = logPage.flow /\ r.from = logPage.from
    BY <1>0 DEF Login!Pages
  <2>2. Login!ForgetLink(logPage) \in Login!Pages /\ Login!ForgetLink(logPage).flow = 0
        /\ Login!ForgetLink(logPage).from = 0
    BY <1>0, Forgetting
  <2>3. \A y \in {"login_required", "error"} :
          LET r == [Login!ForgetLink(logPage) EXCEPT !.state = y] IN r \in Login!Pages /\ r.flow = 0 /\ r.from = 0
    BY <1>0, Forgetting
  <2>4. CASE Login!ReadEnds(f)
    BY <1>0, <2>2, <2>3, <2>4 DEF Login!ReadEnds
  <2>5. CASE Login!ReaderInspected(f)
    BY <1>0, <2>1, <2>5 DEF Login!ReaderInspected, Login!Inspected
  <2>6. CASE Login!ReaderCloses(f) \/ Login!NoticeRemoved(f)
    BY <1>0, <2>6 DEF Login!ReaderCloses, Login!NoticeRemoved
  <2>7. CASE Login!ReadFails(f)
    BY <1>0, <2>3, <2>7 DEF Login!ReadFails
  <2> QED
    BY <2>4, <2>5, <2>6, <2>7
<1>8. \/ logLink' = logLink /\ x # "done"
      \/ logLink' = Login!Shut(logLink, logRelay) /\ p.reader = "closing"
  BY DEF Login!ReadEnds, Login!NoticeRemoved, Login!ReadFails, Login!ReaderInspected, Login!ReaderCloses
<1>9. /\ logLink' \in [Login!Flows -> Login!Links]
      /\ \A g \in Login!Flows : /\ logLink'[g].known = logLink[g].known
                                /\ logLink'[g].consumed = logLink[g].consumed
                                /\ logLink'[g].accepted = logLink[g].accepted
                                /\ g > logLast => logLink'[g] = logLink[g]
  BY <1>0, <1>8, Shutting, LogNumbers DEF LogInv
<1>10. Login!TypeOK'
  <2>1. logProc' \in 0..logLast
    BY <1>0, <1>6
  <2>2. {logLooking', logNotice', logOvertaken'} \subseteq BOOLEAN
    BY <1>1 DEF LogInv, Login!TypeOK
  <2> QED
    BY <1>1, <1>5, <1>7, <1>9, <2>1, <2>2 DEF LogInv, Login!TypeOK, Login!Links, Login!Pages
<1>11. f \in 1..logLast
  BY <1>0, LogStarted
<1>12. \A g \in Login!Flows : g > logLast => logFlow'[g] = logFlow[g]
  BY <1>5, <1>11, LogNumbers DEF LogInv, Login!TypeOK
<1>13. \A g \in Login!Flows : /\ logFlow'[g].process = logFlow[g].process /\ logFlow'[g].mode = logFlow[g].mode
                              /\ logFlow'[g].kill = logFlow[g].kill
  BY <1>3, <1>5
<1>14. \A g \in Login!Running' : g = logProc' \/ logFlow'[g].kill \/ logFlow'[g].failed
  <2>1. TAKE g \in Login!Running'
  <2>2. g \in Login!Running
    BY <1>13 DEF Login!Running
  <2>3. CASE logFlow[g].kill
    BY <1>13, <2>2, <2>3 DEF Login!Running
  <2>4. CASE g = logProc
    <3>1. CASE logProc' = logProc
      BY <2>4, <3>1
    <3>2. CASE logProc' # logProc
      <4>1. g = f /\ p.reader = "reading"
        BY <1>6, <2>4, <3>2, LogNumbers DEF Login!ReadEnds, Login!ReadFails, Login!NoticeRemoved,
                                            Login!ReaderInspected, Login!ReaderCloses
      <4> QED
        BY <1>5, <1>f, <2>2, <4>1
    <3> QED
      BY <3>1, <3>2
  <2>5. CASE logFlow[g].failed
    <3>1. CASE g = f
      BY <1>5, <1>f, <2>2, <2>5, <3>1
    <3>2. CASE g # f
      BY <1>5, <2>2, <2>5, <3>2 DEF Login!Running
    <3> QED
      BY <3>1, <3>2
  <2> QED
    BY <2>2, <2>3, <2>4, <2>5 DEF LogInv
<1>15. logProc' # 0 => logProc' = logProc /\ logFlow'[logProc'] = logFlow[logProc]
  <2>1. logProc # 0 => logProc \in Login!Flows
    BY <1>0, LogNumbers DEF LogInv, Login!TypeOK
  <2> QED
    BY <1>5, <1>6, <2>1
<1>16. logProc' # 0 => logFlow'[logProc'].reader = "reading" /\ ~logFlow'[logProc'].kill
  BY <1>15 DEF LogInv
<1>17. logPage'.flow \in {0, logProc'}
  BY <1>6, <1>7, <1>15 DEF LogInv
<1>18. \A g \in Login!Flows : logLink'[g].accepted = IF logLink'[g].consumed THEN 1 ELSE 0
  BY <1>9 DEF LogInv
<1>r. \A g \in Login!Flows : logLink'[g].ready # "no" => logLink'[g].open
  BY <1>8, ReadyIsOpen DEF LogInv
<1>19. ASSUME ~logOvertaken
       PROVE  /\ logProc' \in {0, logLast} /\ Login!Ending' \subseteq {logLast}
              /\ logPage'.from \in {0, logProc'}
              /\ logProc' # 0 /\ logFlow'[logProc'].mode = "local" => logRelay = logProc' /\ logLink'[logProc'].open
              /\ \A g \in Login!Flows : logLink'[g].open => /\ logRelay = g /\ g = logLast
                                                            /\ logLink'[g].known \in {0, g}
                                                            /\ (logLink'[g].known = g => g \in Login!Ending')
  <2>1. f = logLast /\ (p.reader # "reading" => logProc = 0)
    BY <1>0, <1>19, LastOne
  <2>2. Login!Ending' \subseteq Login!Ending \cup {f}
    BY <1>5, <1>13 DEF Login!Ending
  <2>3. logProc' \in {0, logLast} /\ Login!Ending' \subseteq {logLast} /\ logPage'.from \in {0, logProc'}
    BY <1>6, <1>7, <1>15, <1>19, <2>1, <2>2 DEF LogInv
  <2>4. logProc' = 0
    BY <1>6, <1>15, <2>1, <2>3
  <2>5. CASE logLink' = logLink /\ x # "done"
    <3>1. f \in Login!Ending'
      BY <1>3, <1>5, <2>5 DEF Login!Ending
    <3> QED
      BY <1>19, <2>1, <2>3, <2>4, <2>5, <3>1 DEF LogInv
  <2>6. CASE logLink' = Login!Shut(logLink, logRelay)
    BY <1>19, <2>3, <2>4, <2>6, NothingOpen
  <2> QED
    BY <1>8, <2>5, <2>6
<1>20. \A g \in Login!Flows : g > logLast => logFlow'[g] = Login!NoLogin /\ logLink'[g] = Login!NoLink
  BY <1>9, <1>12 DEF LogInv
<1> QED
  BY <1>1, <1>10, <1>14, <1>16, <1>17, <1>18, <1>r, <1>19, <1>20 DEF LogInv

(* What a client prints reaches the page, or its own relay.                 *)
LEMMA LogTells == ASSUME LogInv, NEW f \in Login!Flows, Login!Instructions(f) PROVE LogInv'
<1>0. logFlow[f].reader = "reading" /\ logPage \in Login!Pages /\ logRelay \in 0..logLast
  BY LogNumbers DEF Login!Instructions, LogInv, Login!TypeOK
<1>1. UNCHANGED <<logLast, logProc, logRelay, logFlow, logNotice, logLooking, logOvertaken>>
  BY DEF Login!Instructions, Login!account
<1>2. f \in 1..logLast
  BY <1>0, LogStarted
<1>3. ~logOvertaken => f = logLast /\ (logProc # 0 => logProc = logLast)
  <2>1. ~logOvertaken => f = logLast
    BY <1>0, LastOne
  <2> QED
    BY <1>0, <2>1 DEF LogInv
<1>e. f \in Login!Ending
  BY <1>0 DEF Login!Ending
<1>4. CASE logFlow[logLast].mode = "remote" /\ logProc # 0
  <2> DEFINE r == [logPage EXCEPT !.from = f]
  <2>1. logPage' = r /\ logLink' = logLink
    BY <1>4, LogNumbers DEF Login!Instructions
  <2>2. r \in Login!Pages /\ r.flow = logPage.flow /\ r.from = f
    BY <1>0, <1>2 DEF Login!Pages
  <2> HIDE DEF r
  <2>3. Login!TypeOK'
    BY <1>1, <2>1, <2>2 DEF LogInv, Login!TypeOK, Login!Links, Login!Pages
  <2>4. Login!Running' = Login!Running /\ Login!Ending' = Login!Ending
    BY <1>1 DEF Login!Running, Login!Ending
  <2>5. ~logOvertaken => logPage'.from = logProc
    BY <1>3, <1>4, <2>1, <2>2
  <2> QED
    BY <1>1, <2>1, <2>2, <2>3, <2>4, <2>5 DEF LogInv
<1>5. CASE ~(logFlow[logLast].mode = "remote" /\ logProc # 0)
  <2> DEFINE p == logLink[logRelay]
             q == [p EXCEPT !.known = f]
  <2>1. logRelay \in Login!Flows /\ logLink' = [logLink EXCEPT ![logRelay].known = f] /\ logPage' = logPage
    BY <1>0, <1>5, LogNumbers DEF Login!Instructions, LogInv, Login!TypeOK
  <2>2. p \in Login!Links
    BY <2>1 DEF LogInv, Login!TypeOK
  <2>3. q \in Login!Links /\ q.known = f /\ q.open = p.open /\ q.consumed = p.consumed /\ q.accepted = p.accepted
        /\ q.ready = p.ready
    BY <1>2, <2>2 DEF Login!Links
  <2>4. logLink' = [logLink EXCEPT ![logRelay] = q]
    BY <2>1
  <2>a. q \in Login!Links
    BY <2>3
  <2>b. logRelay \in Login!Flows /\ Login!TypeOK
    BY <2>1 DEF LogInv
  <2> HIDE DEF p, q
  <2>5. /\ logLink' \in [Login!Flows -> Login!Links]
        /\ logLink'[logRelay] = q /\ \A g \in Login!Flows \ {logRelay} : logLink'[g] = logLink[g]
    BY <2>4, <2>a, <2>b, OneLink
  <2>6. Login!TypeOK'
    BY <1>1, <2>1, <2>5 DEF LogInv, Login!TypeOK, Login!Links, Login!Pages
  <2>7. Login!Running' = Login!Running /\ Login!Ending' = Login!Ending
    BY <1>1 DEF Login!Running, Login!Ending
  <2>8. \A g \in Login!Flows : /\ logLink'[g].open = logLink[g].open /\ logLink'[g].consumed = logLink[g].consumed
                               /\ logLink'[g].accepted = logLink[g].accepted
                               /\ logLink'[g].ready = logLink[g].ready
    BY <2>3, <2>5 DEF p
  <2>9. \A g \in Login!Flows : g > logLast => logLink'[g] = logLink[g]
    BY <1>0, <2>5, LogNumbers DEF LogInv, Login!TypeOK
  <2>10. \A g \in Login!Flows : logLink'[g].accepted = IF logLink'[g].consumed THEN 1 ELSE 0
    BY <2>8 DEF LogInv
  <2>11. \A g \in Login!Flows : logLink'[g].ready # "no" => logLink'[g].open
    BY <2>8 DEF LogInv
  <2>p. logProc # 0 => logProc \in Login!Flows
    BY LogNumbers DEF LogInv, Login!TypeOK
  <2>12. ASSUME ~logOvertaken
         PROVE  /\ logProc # 0 /\ logFlow[logProc].mode = "local" => logRelay = logProc /\ logLink'[logProc].open
                /\ \A g \in Login!Flows : logLink'[g].open => /\ logRelay = g /\ g = logLast
                                                              /\ logLink'[g].known \in {0, g}
                                                              /\ (logLink'[g].known = g => g \in Login!Ending)
    <3>1. logProc # 0 /\ logFlow[logProc].mode = "local" => logRelay = logProc /\ logLink'[logProc].open
      BY <2>8, <2>12, <2>p DEF LogInv
    <3>2. \A g \in Login!Flows : logLink'[g].open => logRelay = g /\ g = logLast
      BY <2>8, <2>12 DEF LogInv
    <3>3. logLink'[logRelay].known = f /\ f = logLast
      BY <1>3, <2>3, <2>5, <2>12
    <3> QED
      BY <1>e, <3>1, <3>2, <3>3
  <2> QED
    BY <1>1, <2>1, <2>6, <2>7, <2>9, <2>10, <2>11, <2>12 DEF LogInv
<1> QED
  BY <1>4, <1>5

(* A login begins, when none is waited for.                                 *)
LEMMA LogBegins ==
  ASSUME LogInv, NEW mode \in {"local", "remote"}, Login!Login(mode) \/ Login!LoginFails(mode)
  PROVE  LogInv'
<1> DEFINE f == logLast + 1
           shut == Login!Shut(logLink, logRelay)
<1>0. /\ f \in Login!Flows /\ logProc = 0 /\ logLast \in Nat /\ logRelay \in 0..logLast
      /\ logFlow \in [Login!Flows -> Login!Logins] /\ logPage \in Login!Pages /\ logLast' = f
      /\ logRelay' = (IF mode = "remote" THEN 0 ELSE f)
      /\ logLink' = [shut EXCEPT ![f].open = (mode = "local")]
      /\ UNCHANGED <<logNotice, logLooking>>
  BY LogNumbers DEF Login!Login, Login!LoginFails, Login!NewRelay, LogInv, Login!TypeOK, Login!account
<1>1. logOvertaken' = (logOvertaken \/ Login!Ending # {})
  BY DEF Login!Login, Login!LoginFails, Login!NewRelay
<1>n. logFlow[f] = Login!NoLogin
  BY <1>0 DEF LogInv
<1>m. \E new \in Login!Logins :
        /\ logFlow' = [logFlow EXCEPT ![f] = new] /\ new.mode = mode /\ ~new.kill
        /\ \/ new.reader = "reading" /\ logProc' = f /\ logPage' = [state |-> "authorizing", flow |-> f, from |-> 0]
           \/ new.process = "none" /\ new.reader = "none" /\ UNCHANGED <<logProc, logPage>>
  <2>1. CASE Login!Login(mode)
    <3> DEFINE new == Login!Begun(mode)
    <3>1. new \in Login!Logins /\ new.reader = "reading" /\ new.mode = mode
      BY DEF Login!Begun, Login!NoLogin, Login!Logins
    <3>2. ~new.kill
      BY DEF Login!Begun, Login!NoLogin
    <3>3. /\ logFlow' = [logFlow EXCEPT ![f] = new] /\ logProc' = f
          /\ logPage' = [state |-> "authorizing", flow |-> f, from |-> 0]
      BY <2>1, LogNumbers DEF Login!Login
    <3> QED
      BY <3>1, <3>2, <3>3
  <2>2. CASE Login!LoginFails(mode)
    <3> DEFINE new == [Login!NoLogin EXCEPT !.mode = mode]
    <3>1. new \in Login!Logins /\ new.reader = "none" /\ new.process = "none" /\ new.mode = mode
      BY DEF Login!NoLogin, Login!Logins
    <3>2. ~new.kill
      BY DEF Login!NoLogin
    <3>3. logFlow' = [logFlow EXCEPT ![f] = new] /\ UNCHANGED <<logProc, logPage>>
      BY <1>0, <1>n, <2>2 DEF Login!LoginFails
    <3> QED
      BY <3>1, <3>2, <3>3
  <2> QED
    BY <2>1, <2>2
<1> PICK new \in Login!Logins :
        /\ logFlow' = [logFlow EXCEPT ![f] = new] /\ new.mode = mode /\ ~new.kill
        /\ \/ new.reader = "reading" /\ logProc' = f /\ logPage' = [state |-> "authorizing", flow |-> f, from |-> 0]
           \/ new.process = "none" /\ new.reader = "none" /\ UNCHANGED <<logProc, logPage>>
  BY <1>m
<1>2. logRelay # f /\ logLink[f] = Login!NoLink /\ shut[f] = logLink[f]
  <2>1. logRelay # f /\ f > logLast
    BY <1>0
  <2> QED
    BY <1>0, <2>1, Shutting DEF LogInv
<1>5. /\ logFlow' \in [Login!Flows -> Login!Logins]
      /\ logFlow'[f] = new /\ \A g \in Login!Flows \ {f} : logFlow'[g] = logFlow[g]
  BY <1>0, OneFlow DEF LogInv
<1>6. /\ shut \in [Login!Flows -> Login!Links]
      /\ \A g \in Login!Flows : shut[g].consumed = logLink[g].consumed /\ shut[g].accepted = logLink[g].accepted
      /\ \A g \in Login!Flows : shut[g].ready # "no" => shut[g].open
  BY <1>0, Shutting, ReadyIsOpen DEF LogInv
<1> DEFINE b == (mode = "local")
           q == [shut[f] EXCEPT !.open = b]
<1>7. logLink' = [shut EXCEPT ![f] = q]
  BY <1>0
<1>8. b \in BOOLEAN
  OBVIOUS
<1> HIDE DEF b
<1>9. q \in Login!Links /\ q.consumed = shut[f].consumed /\ q.accepted = shut[f].accepted /\ q.known = shut[f].known
      /\ q.ready = shut[f].ready
  BY <1>0, <1>6, <1>8 DEF Login!Links
<1>10. q.open = b
  BY <1>0, <1>6 DEF Login!Links
<1> HIDE DEF q, shut
<1>11. logLink' \in [Login!Flows -> Login!Links] /\ logLink'[f] = q
       /\ \A g \in Login!Flows \ {f} : logLink'[g] = shut[g]
  BY <1>0, <1>6, <1>7, <1>9
<1>12. Login!TypeOK'
  <2>1. logLast' \in 0..MaxFlows /\ {logProc', logRelay'} \subseteq 0..logLast' /\ 0..logLast \subseteq 0..logLast'
        /\ f \in 0..logLast'
    BY <1>0, LogNumbers
  <2>2. Login!Links \subseteq Login!Links'
    BY <2>1 DEF Login!Links
  <2>3. logLink' \in [Login!Flows -> Login!Links']
    BY <1>11, <2>2
  <2>4. logPage' \in Login!Pages'
    <3>1. Login!Pages \subseteq Login!Pages'
      BY <2>1 DEF Login!Pages
    <3>2. CASE logPage' = logPage
      BY <1>0, <3>1, <3>2
    <3>3. CASE logPage' = [state |-> "authorizing", flow |-> f, from |-> 0]
      BY <1>0, <2>1, <3>3 DEF Login!Pages
    <3> QED
      BY <3>2, <3>3
  <2>5. {logLooking', logNotice', logOvertaken'} \subseteq BOOLEAN
    BY <1>0, <1>1 DEF LogInv, Login!TypeOK
  <2> QED
    BY <1>0, <1>5, <2>1, <2>3, <2>4, <2>5 DEF LogInv, Login!TypeOK
<1>13. \A g \in Login!Flows : g > logLast' => logFlow'[g] = Login!NoLogin /\ logLink'[g] = Login!NoLink
  <2>1. TAKE g \in Login!Flows
  <2>2. g > logLast' => g \in Login!Flows \ {f} /\ g > logLast /\ g # logRelay
    BY <1>0, LogNumbers
  <2>3. g # logRelay => shut[g] = logLink[g]
    BY <1>0, Shutting DEF LogInv, shut
  <2> QED
    BY <1>5, <1>11, <2>2, <2>3 DEF LogInv
<1>14. \A g \in Login!Running' : g = logProc' \/ logFlow'[g].kill \/ logFlow'[g].failed
  <2>1. TAKE g \in Login!Running'
  <2>2. g = f \/ (g \in Login!Running /\ logFlow'[g] = logFlow[g])
    BY <1>5 DEF Login!Running
  <2>3. g # 0
    BY LogNumbers DEF Login!Running
  <2>4. g \in Login!Running => logFlow[g].kill \/ logFlow[g].failed
    BY <1>0, <2>3 DEF LogInv
  <2>5. g = f => logProc' = f
    <3>1. g = f => logFlow'[f].process # "none"
      BY <2>1 DEF Login!Running
    <3> QED
      BY <1>5, <3>1
  <2> QED
    BY <1>0, <2>2, <2>4, <2>5
<1>15. \A g \in Login!Flows : logLink'[g].accepted = IF logLink'[g].consumed THEN 1 ELSE 0
  BY <1>6, <1>9, <1>11 DEF LogInv
<1>16. logProc' # 0 => logProc' = f /\ logFlow'[f].reader = "reading" /\ ~logFlow'[f].kill
  BY <1>0, <1>5
<1>17. logPage'.flow \in {0, logProc'} /\ (~logOvertaken => logPage'.from \in {0, logProc'})
  BY <1>0 DEF LogInv
<1>r. \A g \in Login!Flows : logLink'[g].ready # "no" => logLink'[g].open
  <2>1. shut[f].ready = "no"
    BY <1>2 DEF Login!NoLink
  <2>2. logLink'[f].ready = "no"
    BY <1>9, <1>11, <2>1
  <2>3. \A g \in Login!Flows \ {f} : logLink'[g].ready # "no" => logLink'[g].open
    BY <1>6, <1>11
  <2> QED
    BY <2>2, <2>3
<1>18. ASSUME ~logOvertaken'
       PROVE  /\ Login!Ending' \subseteq {logLast'}
              /\ logProc' # 0 /\ logFlow'[logProc'].mode = "local" => logRelay' = logProc' /\ logLink'[logProc'].open
              /\ \A g \in Login!Flows : logLink'[g].open => logRelay' = g /\ g = logLast' /\ logLink'[g].known = 0
  <2>1. ~logOvertaken /\ Login!Ending = {}
    BY <1>1, <1>18
  <2>2. Login!Ending' \subseteq {f}
    BY <1>5, <2>1 DEF Login!Ending
  <2>3. \A g \in Login!Flows \ {f} : ~logLink'[g].open
    BY <1>11, <2>1, NothingOpen DEF shut
  <2>4. logLink'[f].open = b
    BY <1>10, <1>11
  <2>5. logLink'[f].known = 0
    BY <1>2, <1>9, <1>11, LogNumbers DEF Login!NoLink
  <2>6. b => logRelay' = f
    BY <1>0 DEF b
  <2>7. mode = "local" => logLink'[f].open
    BY <2>4 DEF b
  <2>8. logFlow'[f].mode = "local" => logRelay' = f /\ logLink'[f].open
    BY <1>5, <2>6, <2>7 DEF b
  <2>9. \A g \in Login!Flows : logLink'[g].open => g = f /\ logRelay' = f
    BY <2>3, <2>4, <2>6
  <2> QED
    BY <1>0, <1>16, <2>2, <2>5, <2>8, <2>9
<1>o. ~logOvertaken' => ~logOvertaken /\ logProc' \in {0, logLast'}
  BY <1>0, <1>1, <1>16
<1>z. \A g \in Login!Flows : g # 0
  BY LogNumbers
<1> QED
  BY <1>0, <1>12, <1>13, <1>14, <1>15, <1>16, <1>17, <1>r, <1>18, <1>o, <1>z DEF LogInv

(* Cancelling takes the login that is waited for, to be killed; without one *)
(* it closes the relay.                                                     *)
LEMMA LogCancels == ASSUME LogInv, Login!Cancel PROVE LogInv'
<1>0. /\ logLast \in Nat /\ logProc \in 0..logLast /\ logRelay \in 0..logLast /\ logProc' = 0
      /\ logPage \in Login!Pages /\ (logProc # 0 => logProc \in Login!Flows)
      /\ UNCHANGED <<logLast, logNotice, logLooking, logOvertaken>>
      /\ logFlow \in [Login!Flows -> Login!Logins]
  BY LogNumbers DEF LogInv, Login!TypeOK, Login!Cancel, Login!account
<1>1. logPage' \in Login!Pages /\ logPage'.flow = 0 /\ logPage'.from = 0
  BY <1>0, Forgetting DEF Login!Cancel
<1>2. /\ \A g \in Login!Flows \ {logProc} : logFlow'[g] = logFlow[g]
      /\ logFlow' \in [Login!Flows -> Login!Logins]
      /\ logProc # 0 => /\ logFlow'[logProc].reader = logFlow[logProc].reader
                        /\ logFlow'[logProc].process = logFlow[logProc].process
                        /\ logFlow'[logProc].failed = logFlow[logProc].failed
      /\ logProc # 0 => logFlow'[logProc].kill
  <2>1. CASE logProc = 0
    BY <1>0, <2>1, LogNumbers DEF Login!Cancel
  <2>2. CASE logProc # 0
    <3> DEFINE q == [logFlow[logProc] EXCEPT !.kill = TRUE]
    <3>1. q \in Login!Logins /\ q.reader = logFlow[logProc].reader /\ q.process = logFlow[logProc].process
          /\ q.failed = logFlow[logProc].failed
      BY <1>0, <2>2 DEF Login!Logins
    <3>2. q.kill
      BY <1>0, <2>2 DEF Login!Logins
    <3>3. logFlow' = [logFlow EXCEPT ![logProc] = q]
      BY <2>2, LogNumbers DEF Login!Cancel
    <3> HIDE DEF q
    <3>4. logFlow' \in [Login!Flows -> Login!Logins] /\ logFlow'[logProc] = q
          /\ \A g \in Login!Flows \ {logProc} : logFlow'[g] = logFlow[g]
      BY <1>0, <2>2, <3>1, <3>3, OneFlow DEF LogInv
    <3>5. logFlow'[logProc].kill
      BY <3>2, <3>4
    <3> QED
      BY <3>1, <3>4, <3>5
  <2> QED
    BY <2>1, <2>2
<1>3. \/ logProc # 0 /\ UNCHANGED <<logRelay, logLink>>
      \/ logProc = 0 /\ logRelay' = 0 /\ logLink' = Login!Shut(logLink, logRelay)
  BY LogNumbers DEF Login!Cancel
<1>4. /\ logLink' \in [Login!Flows -> Login!Links]
      /\ \A g \in Login!Flows : /\ logLink'[g].known = logLink[g].known
                                /\ logLink'[g].consumed = logLink[g].consumed
                                /\ logLink'[g].accepted = logLink[g].accepted
                                /\ g > logLast => logLink'[g] = logLink[g]
  BY <1>0, <1>3, Shutting, LogNumbers DEF LogInv, Login!TypeOK
<1>5. Login!TypeOK'
  <2>1. logRelay' \in 0..logLast
    BY <1>0, <1>3
  <2> QED
    BY <1>0, <1>1, <1>2, <1>4, <2>1 DEF LogInv, Login!TypeOK, Login!Links, Login!Pages
<1>6. \A g \in Login!Flows : g > logLast => logFlow'[g] = Login!NoLogin /\ logLink'[g] = Login!NoLink
  BY <1>0, <1>2, <1>4, LogNumbers DEF LogInv
<1>7. \A g \in Login!Running' : logFlow'[g].kill \/ logFlow'[g].failed
  <2>1. TAKE g \in Login!Running'
  <2>2. g # 0 /\ g \in Login!Flows
    BY LogNumbers DEF Login!Running
  <2>3. CASE g = logProc
    BY <1>2, <2>2, <2>3
  <2>4. CASE g # logProc
    BY <1>2, <2>2, <2>4 DEF LogInv, Login!Running
  <2> QED
    BY <2>3, <2>4
<1>8. \A g \in Login!Flows : logLink'[g].accepted = IF logLink'[g].consumed THEN 1 ELSE 0
  BY <1>4 DEF LogInv
<1>9. ASSUME ~logOvertaken
      PROVE  /\ Login!Ending' \subseteq {logLast}
             /\ \A g \in Login!Flows : logLink'[g].open => /\ logRelay' = g /\ g = logLast
                                                          /\ logLink'[g].known \in {0, g}
                                                          /\ (logLink'[g].known = g => g \in Login!Ending')
  <2>1. logProc # 0 => logProc = logLast
    BY <1>9 DEF LogInv
  <2>2. \A g \in Login!Flows \ {logProc} : g \in Login!Ending' => g \in Login!Ending
    BY <1>2 DEF Login!Ending
  <2>3. Login!Ending' \subseteq {logLast}
    <3>1. 0 \notin Login!Flows /\ Login!Ending' \subseteq Login!Flows
      BY LogNumbers DEF Login!Ending
    <3> QED
      BY <1>9, <2>1, <2>2, <3>1 DEF LogInv
  <2>5. Login!Ending \subseteq Login!Ending'
    <3>1. \A g \in Login!Ending : g \in Login!Flows /\ g # 0
      BY LogNumbers DEF Login!Ending
    <3>2. \A g \in Login!Ending : g # logProc => g \in Login!Ending'
      BY <1>2 DEF Login!Ending
    <3>3. \A g \in Login!Ending : g = logProc => g \in Login!Ending'
      BY <1>2, <3>1 DEF Login!Ending
    <3> QED
      BY <3>2, <3>3
  <2>4. \A g \in Login!Flows : logLink'[g].open => /\ logRelay' = g /\ g = logLast
                                                 /\ logLink'[g].known \in {0, g}
                                                 /\ (logLink'[g].known = g => g \in Login!Ending')
    <3>1. CASE UNCHANGED <<logRelay, logLink>>
      BY <1>9, <2>5, <3>1 DEF LogInv
    <3>2. CASE logLink' = Login!Shut(logLink, logRelay)
      BY <1>9, <3>2, NothingOpen
    <3> QED
      BY <1>3, <3>1, <3>2
  <2> QED
    BY <2>3, <2>4
<1>r. \A g \in Login!Flows : logLink'[g].ready # "no" => logLink'[g].open
  BY <1>3, ReadyIsOpen DEF LogInv
<1> QED
  BY <1>0, <1>1, <1>5, <1>6, <1>7, <1>8, <1>9, <1>r DEF LogInv

(* Once the process of a cancelled login is gone, its relay is closed.      *)
LEMMA LogWindsUp == ASSUME LogInv, NEW f \in Login!Flows, Login!CancelCloses(f) PROVE LogInv'
<1> DEFINE p == logFlow[f]
           q == [p EXCEPT !.kill = FALSE]
<1>0. /\ logLast \in Nat /\ logProc \in 0..logLast /\ logRelay \in 0..logLast /\ logRelay' = 0
      /\ p \in Login!Logins /\ f \notin Login!Running
      /\ logLink' = Login!Shut(logLink, logRelay) /\ logFlow' = [logFlow EXCEPT ![f] = q]
      /\ UNCHANGED <<logLast, logProc, logPage, logNotice, logLooking, logOvertaken>>
  BY LogNumbers DEF LogInv, Login!TypeOK, Login!CancelCloses, Login!account
<1>1. p.kill
  BY DEF Login!CancelCloses
<1>2. q \in Login!Logins /\ q.reader = p.reader /\ q.process = p.process /\ q.mode = p.mode
  BY <1>0 DEF Login!Logins
<1> HIDE DEF q
<1>3. /\ logFlow' \in [Login!Flows -> Login!Logins]
      /\ logFlow'[f] = q /\ \A g \in Login!Flows \ {f} : logFlow'[g] = logFlow[g]
  BY <1>0, <1>2, OneFlow DEF LogInv
<1>4. /\ logLink' \in [Login!Flows -> Login!Links]
      /\ \A g \in Login!Flows : /\ logLink'[g].known = logLink[g].known
                                /\ logLink'[g].consumed = logLink[g].consumed
                                /\ logLink'[g].accepted = logLink[g].accepted
                                /\ g > logLast => logLink'[g] = logLink[g]
  BY <1>0, Shutting, LogNumbers DEF LogInv
<1>5. Login!TypeOK'
  BY <1>0, <1>3, <1>4 DEF LogInv, Login!TypeOK, Login!Links, Login!Pages
<1>6. f \in 1..logLast /\ (logProc # 0 => logProc # f)
  BY <1>1, LogStarted DEF LogInv
<1>7. \A g \in Login!Flows : g > logLast => logFlow'[g] = Login!NoLogin /\ logLink'[g] = Login!NoLink
  <2>1. \A g \in Login!Flows : g > logLast => g # f
    BY <1>0, <1>6, LogNumbers
  <2> QED
    BY <1>3, <1>4, <2>1 DEF LogInv
<1>8. \A g \in Login!Running' : g = logProc \/ logFlow'[g].kill \/ logFlow'[g].failed
  <2>1. \A g \in Login!Running' : g \in Login!Running /\ g # f
    BY <1>0, <1>2, <1>3 DEF Login!Running
  <2> QED
    BY <1>3, <2>1 DEF LogInv, Login!Running
<1>9. \A g \in Login!Flows : logLink'[g].accepted = IF logLink'[g].consumed THEN 1 ELSE 0
  BY <1>4 DEF LogInv
<1>10. logProc # 0 => logFlow'[logProc] = logFlow[logProc]
  BY <1>0, <1>3, <1>6, LogNumbers DEF LogInv, Login!TypeOK
<1>11. logProc # 0 => logFlow'[logProc].reader = "reading" /\ ~logFlow'[logProc].kill
  BY <1>10 DEF LogInv
<1>12. ASSUME ~logOvertaken
       PROVE  logProc = 0 /\ Login!Ending' \subseteq {logLast} /\ \A g \in Login!Flows : ~logLink'[g].open
  <2>1. f = logLast /\ logProc = 0
    BY <1>1, <1>12, LastOne
  <2>2. Login!Ending' \subseteq Login!Ending \cup {f}
    BY <1>3 DEF Login!Ending
  <2>3. \A g \in Login!Flows : ~logLink'[g].open
    BY <1>0, <1>12, NothingOpen
  <2> QED
    BY <1>12, <2>1, <2>2, <2>3 DEF LogInv
<1>r. \A g \in Login!Flows : logLink'[g].ready # "no" => logLink'[g].open
  BY <1>0, ReadyIsOpen DEF LogInv
<1> QED
  BY <1>0, <1>5, <1>7, <1>8, <1>9, <1>r, <1>11, <1>12 DEF LogInv

(* Every step keeps it.                                                     *)
LEMMA LogStep == LogInv /\ [Login!Next]_Login!vars => LogInv'
<1>1. ASSUME LogInv, UNCHANGED Login!vars PROVE LogInv'
  BY <1>1 DEF Login!vars, Login!account, LogInv, Login!TypeOK, Login!Links, Login!Pages, Login!Running, Login!Ending
<1> QED
  BY <1>1, LogSays, LogRelays, LogEnds, LogReads, LogTells, LogBegins, LogCancels, LogWindsUp DEF Login!Next

(* For any number of logins one after the other: one is waited for, another *)
(* client runs only to be killed or because its reader failed, the          *)
(* browser's answer reaches a client at most once, and, as long as no login *)
(* begins before the one before it is wound up, the page shows its link, or *)
(* the one of a relay about to be closed, and its relay is open             *)
(* (plugins/providers/_client_control.py:240-276, 595-736).                 *)
THEOREM LoginsFollow == Login!Spec => []Login!OneLoginAtATime
<1>1. ASSUME LogInv PROVE Login!OneLoginAtATime
  <2>1. \A f \in Login!Flows : logLink[f].accepted <= 1
    BY <1>1 DEF LogInv
  <2>2. \A f \in Login!Running : f = logProc \/ logFlow[f].kill \/ logFlow[f].failed
    BY <1>1 DEF LogInv
  <2>3. ASSUME ~logOvertaken PROVE Login!Shown \in {0, logProc} \cup Login!Ending
    <3>1. CASE logRelay = 0
      BY <1>1, <2>3, <3>1, LogNumbers DEF LogInv, Login!Shown
    <3>2. CASE logRelay # 0
      <4>1. logRelay \in Login!Flows
        BY <1>1, <3>2, LogNumbers DEF LogInv, Login!TypeOK
      <4>2. CASE logLink[logRelay].ready = "no"
        BY <3>2, <4>2, LogNumbers DEF Login!Shown
      <4>3. CASE logLink[logRelay].ready # "no"
        <5>1. Login!Shown = logLink[logRelay].known
          BY <3>2, <4>3, LogNumbers DEF Login!Shown
        <5> QED
          BY <1>1, <2>3, <4>1, <4>3, <5>1 DEF LogInv
      <4> QED
        BY <4>2, <4>3
    <3> QED
      BY <3>1, <3>2
  <2> QED
    BY <1>1, <2>1, <2>2, <2>3, LogNumbers DEF LogInv, Login!OneLoginAtATime
<1> QED
  BY <1>1, LogInit, LogStep, PTL DEF Login!Spec

----------------------------------------------------------------------------
(* ---- ClientInstalls ---- *)

(* A download under way holds the lock, and the version it is of is a new    *)
(* one.  As long as no upgrade met the download of another controller, at    *)
(* most one upgrade is under way, and none while something is downloaded;    *)
(* what is downloaded is not in use, nor offered before it is published, and *)
(* what is published, switched to or in use was verified and is there.       *)
PointersAreGood ==
  /\ insActive \in Client!Whole \cup {None}
  /\ insStaged \in Client!Present => insStaged \in Client!Whole

InsInv ==
  /\ Client!TypeOK
  /\ \A c \in Client!Staging : insFlock = c /\ insCtl[c].target \in Dirs
  /\ \A c \in Controllers : insCtl[c].at \in {"staging", "installing"} => insCtl[c].latest > 1
  /\ ~insCrossed =>
       /\ PointersAreGood
       /\ Client!Staging = {} \/ Client!Upgrading = {}
       /\ \A c, d \in Client!Upgrading : c = d
       /\ \A c \in Controllers :
            /\ insCtl[c].at \in {"installing", "publishing", "pruning"} => insCtl[c].target # insActive
            /\ insCtl[c].at \in {"installing", "publishing"} => insCtl[c].target # insStaged
            /\ insCtl[c].at \in {"publishing", "pruning"} => insCtl[c].target \in Client!Whole
            /\ insCtl[c].at = "pruning" => insStaged = insCtl[c].target
            /\ insCtl[c].at = "switching" => insStaged = insCtl[c].target /\ insStaged \in Client!Whole
            /\ insCtl[c].at \in {"unlinking", "clearing"} => insActive = insCtl[c].target
            /\ insCtl[c].at = "clearing" => insStaged = None

(* The constants, as the machine assumes them.                              *)
LEMMA InsConstants ==
  /\ MaxVersion \in Nat \ {0} /\ None \notin Controllers /\ None \notin Dirs
  /\ None \notin Client!Copies
BY ClientsAssumption DEF Client!ClientInstallsAssumption, Client!Copies

(* What a directory that is there holds.                                    *)
LEMMA WhatIsThere ==
  ASSUME Client!TypeOK
  PROVE  /\ \A d \in Client!Present : insDisk[d] \in Client!Copies /\ insDisk[d].version \in 2..MaxVersion
         /\ \A d \in Dirs : insDisk[d] = None \/ d \in Client!Present
         /\ \A p \in Dirs \cup {None} : Client!Entry(p) # None => Client!Entry(p) = p /\ p \in Client!Present
         /\ \A p \in Client!Present \cup {None} : Client!VersionOf(p) \in 1..MaxVersion
<1>1. \A d \in Client!Present : insDisk[d] \in Client!Copies /\ insDisk[d].version \in 2..MaxVersion
  BY DEF Client!TypeOK, Client!Present, Client!Copies
<1> QED
  BY <1>1, InsConstants DEF Client!Present, Client!Entry, Client!VersionOf

(* Removing directories leaves the others as they are.                      *)
LEMMA WhatIsLeft ==
  ASSUME Client!TypeOK, NEW gone
  PROVE  /\ Client!Without(gone) \in [Dirs -> Client!Copies \cup {None}]
         /\ \A d \in Dirs \ gone : Client!Without(gone)[d] = insDisk[d]
BY DEF Client!Without, Client!TypeOK

(* In the beginning nothing is installed.                                   *)
LEMMA InsInit == Client!Init => InsInv
<1> SUFFICES ASSUME Client!Init PROVE InsInv
  OBVIOUS
<1>1. Client!Fresh \in Client!Duties /\ Client!Fresh.at = "idle"
  BY InsConstants DEF Client!Fresh, Client!Duties
<1>2. Client!TypeOK
  <2>1. insCrossed \in BOOLEAN
    BY DEF Client!Init
  <2> QED
    BY <1>1, <2>1, InsConstants DEF Client!Init, Client!TypeOK
<1>3. \A c \in Controllers : insCtl[c].at = "idle"
  BY <1>1 DEF Client!Init
<1> QED
  BY <1>2, <1>3, InsConstants DEF Client!Init, InsInv, PointersAreGood, Client!Staging, Client!Upgrading,
                                  Client!Present

(* Inspecting and looking for a new version touch nothing but the memory of *)
(* the one who looks.                                                       *)
LEMMA InsLooks ==
  ASSUME InsInv, NEW c \in Controllers,
         Client!Inspect(c) \/ Client!CheckUpdate(c) \/ Client!CheckFails(c) \/ Client!StageBusy(c)
  PROVE  InsInv'
<1>1. /\ UNCHANGED <<insRegistry, insDisk, insActive, insStaged, insFlock, insCrossed>>
      /\ \E q \in Client!Duties :
           /\ insCtl' = [insCtl EXCEPT ![c] = q]
           /\ q.at = insCtl[c].at \/ {q.at, insCtl[c].at} \subseteq {"idle", "staging"}
           /\ q.at = insCtl[c].at => q.target = insCtl[c].target
           /\ q.at = "staging" => q.latest > 1
           /\ q.at = "installing" => q.latest = insCtl[c].latest
  <2> DEFINE p == insCtl[c]
  <2>0. p \in Client!Duties /\ insRegistry \in 1..MaxVersion /\ insActive \in Dirs \cup {None}
        /\ insStaged \in Dirs \cup {None}
    BY DEF InsInv, Client!TypeOK
  <2>1. CASE Client!Inspect(c)
    <3> DEFINE q == [p EXCEPT !.installed = Client!VersionOf(insActive)]
    <3>1. q \in Client!Duties /\ q.at = p.at /\ q.target = p.target /\ q.latest = p.latest
      BY <2>0, <2>1, WhatIsThere DEF Client!Inspect, Client!Duties, InsInv
    <3>2. insCtl' = [insCtl EXCEPT ![c] = q]
      BY <2>1 DEF Client!Inspect
    <3>3. q.at = "staging" => q.latest > 1
      BY <3>1 DEF InsInv
    <3> HIDE DEF q
    <3> QED
      BY <2>1, <3>1, <3>2, <3>3 DEF Client!Inspect
  <2>2. CASE Client!CheckUpdate(c)
    <3> DEFINE newer == insRegistry > p.installed
               found == Client!Entry(insStaged) # None /\ Client!VersionOf(insStaged) = insRegistry
               q == [p EXCEPT !.latest = insRegistry, !.ready = newer /\ found,
                              !.at = IF newer /\ ~found THEN "staging" ELSE "idle"]
    <3>1. newer \in BOOLEAN /\ found \in BOOLEAN
      BY <2>0 DEF Client!Duties
    <3>2. q.at = "staging" => q.latest > 1
      BY <2>0 DEF Client!Duties
    <3>3. q.at \in {"idle", "staging"} /\ q.target = p.target /\ p.at = "idle"
      BY <2>0, <2>2 DEF Client!Duties, Client!CheckUpdate
    <3>4. insCtl' = [insCtl EXCEPT ![c] = q]
      BY <2>2 DEF Client!CheckUpdate
    <3>5. q \in Client!Duties
      <4> HIDE DEF newer, found
      <4> QED
        BY <2>0, <3>1 DEF Client!Duties
    <3> HIDE DEF q
    <3> QED
      BY <2>2, <3>2, <3>3, <3>4, <3>5 DEF Client!CheckUpdate
  <2>3. CASE Client!CheckFails(c)
    <3> DEFINE q == [p EXCEPT !.latest = Client!VersionOf(insStaged), !.ready = TRUE]
    <3>1. q \in Client!Duties /\ q.at = "idle" /\ p.at = "idle" /\ q.target = p.target
      BY <2>0, <2>3, WhatIsThere DEF Client!CheckFails, Client!Duties, InsInv
    <3>2. insCtl' = [insCtl EXCEPT ![c] = q]
      BY <2>3 DEF Client!CheckFails
    <3> QED
      BY <2>3, <3>1, <3>2 DEF Client!CheckFails
  <2>4. CASE Client!StageBusy(c)
    <3> DEFINE q == [p EXCEPT !.at = "idle"]
    <3>1. q \in Client!Duties /\ q.at = "idle" /\ p.at = "staging"
      BY <2>0, <2>4 DEF Client!StageBusy, Client!Duties
    <3>2. insCtl' = [insCtl EXCEPT ![c] = q]
      BY <2>4 DEF Client!StageBusy
    <3> QED
      BY <2>4, <3>1, <3>2 DEF Client!StageBusy
  <2> QED
    BY <2>1, <2>2, <2>3, <2>4
<1>2. PICK q \in Client!Duties :
           /\ insCtl' = [insCtl EXCEPT ![c] = q]
           /\ q.at = insCtl[c].at \/ {q.at, insCtl[c].at} \subseteq {"idle", "staging"}
           /\ q.at = insCtl[c].at => q.target = insCtl[c].target
           /\ q.at = "staging" => q.latest > 1
           /\ q.at = "installing" => q.latest = insCtl[c].latest
  BY <1>1
<1>3. Client!TypeOK'
  BY <1>1, <1>2 DEF InsInv, Client!TypeOK
<1>4. /\ insCtl'[c] = q /\ \A d \in Controllers \ {c} : insCtl'[d] = insCtl[d]
  BY <1>2 DEF InsInv, Client!TypeOK
<1>5. /\ Client!Staging' = Client!Staging /\ Client!Upgrading' = Client!Upgrading /\ Client!Whole' = Client!Whole
      /\ Client!Present' = Client!Present
  BY <1>1, <1>2, <1>4 DEF Client!Staging, Client!Upgrading, Client!Whole, Client!Present
<1> QED
  BY <1>1, <1>2, <1>3, <1>4, <1>5 DEF InsInv, PointersAreGood, Client!Staging

(* What a controller does next to its own record.                           *)
LEMMA InsCtl ==
  ASSUME Client!TypeOK, NEW c \in Controllers, NEW q \in Client!Duties, insCtl' = [insCtl EXCEPT ![c] = q]
  PROVE  /\ insCtl' \in [Controllers -> Client!Duties]
         /\ insCtl'[c] = q /\ \A d \in Controllers \ {c} : insCtl'[d] = insCtl[d]
BY DEF Client!TypeOK

(* A download begins, in a directory that is not there yet.                 *)
LEMMA InsStages == ASSUME InsInv, NEW c \in Controllers, Client!StageBegins(c) PROVE InsInv'
<1> DEFINE p == insCtl[c]
           left == Client!Without((Client!Present \ Client!Whole) \ {insActive, insStaged})
<1>0. p \in Client!Duties /\ p.at = "staging" /\ p.latest \in 2..MaxVersion /\ insFlock = None
  BY DEF InsInv, Client!TypeOK, Client!Duties, Client!StageBegins, Client!MayStage
<1>1. left \in [Dirs -> Client!Copies \cup {None}]
      /\ \A d \in Dirs : d \in Client!Whole \/ d \in {insActive, insStaged} => left[d] = insDisk[d]
  BY WhatIsLeft DEF InsInv
<1>2. Client!Staging = {}
  BY <1>0, InsConstants DEF InsInv, Client!Staging
<1>3. UNCHANGED <<insRegistry, insActive, insStaged>>
  BY DEF Client!StageBegins
<1>4. CASE Client!Entry(insStaged) # None /\ Client!VersionOf(insStaged) = p.latest
  <2> DEFINE q == [p EXCEPT !.at = "idle", !.ready = TRUE]
  <2>1. q \in Client!Duties /\ q.at = "idle"
    BY <1>0 DEF Client!Duties
  <2>2. insDisk' = left /\ insCtl' = [insCtl EXCEPT ![c] = q] /\ UNCHANGED <<insFlock, insCrossed>>
    BY <1>4 DEF Client!StageBegins
  <2> HIDE DEF q, left
  <2>3. /\ insCtl' \in [Controllers -> Client!Duties]
        /\ insCtl'[c] = q /\ \A d \in Controllers \ {c} : insCtl'[d] = insCtl[d]
    BY <2>1, <2>2, InsCtl DEF InsInv
  <2>4. Client!TypeOK'
    BY <1>1, <1>3, <2>2, <2>3 DEF InsInv, Client!TypeOK
  <2>5. Client!Staging' = Client!Staging /\ Client!Upgrading' = Client!Upgrading
    BY <1>0, <2>1, <2>3 DEF Client!Staging, Client!Upgrading
  <2>6. Client!Whole \subseteq Client!Whole'
    BY <1>1, <2>2 DEF Client!Whole, Client!Present
  <2>7. insStaged \in Client!Present' => insStaged \in Client!Present
    BY <1>1, <2>2 DEF Client!Present
  <2>8. ~insCrossed => PointersAreGood'
    BY <1>3, <2>6, <2>7 DEF InsInv, PointersAreGood
  <2> QED
    BY <1>2, <1>3, <2>1, <2>2, <2>3, <2>4, <2>5, <2>6, <2>8 DEF InsInv, Client!Staging
<1>5. CASE ~(Client!Entry(insStaged) # None /\ Client!VersionOf(insStaged) = p.latest)
  <2>0. PICK d \in Dirs :
          /\ left[d] = None /\ d \notin {insActive, insStaged}
          /\ insDisk' = [left EXCEPT ![d] = [version |-> p.latest, whole |-> FALSE]]
          /\ insCtl' = [insCtl EXCEPT ![c].at = "installing", ![c].target = d]
          /\ insFlock' = c /\ insCrossed' = (insCrossed \/ Client!Upgrading # {})
    BY <1>5 DEF Client!StageBegins
  <2> DEFINE q == [p EXCEPT !.at = "installing", !.target = d]
  <2>1. q \in Client!Duties /\ q.at = "installing" /\ q.target = d /\ q.latest = p.latest
    BY <1>0 DEF Client!Duties
  <2>2. insCtl' = [insCtl EXCEPT ![c] = q]
    BY <2>0 DEF InsInv, Client!TypeOK
  <2>3. [version |-> p.latest, whole |-> FALSE] \in Client!Copies
    BY <1>0 DEF Client!Copies
  <2> HIDE DEF q, left
  <2>4. /\ insCtl' \in [Controllers -> Client!Duties]
        /\ insCtl'[c] = q /\ \A e \in Controllers \ {c} : insCtl'[e] = insCtl[e]
    BY <2>1, <2>2, InsCtl DEF InsInv
  <2>5. insCrossed' \in BOOLEAN
    BY <2>0 DEF InsInv, Client!TypeOK
  <2>6. Client!TypeOK'
    BY <1>1, <1>3, <2>0, <2>3, <2>4, <2>5 DEF InsInv, Client!TypeOK
  <2>7. Client!Staging' = {c} /\ Client!Upgrading' = Client!Upgrading
    BY <1>0, <1>2, <2>1, <2>4 DEF Client!Staging, Client!Upgrading
  <2>8. ~insCrossed' => ~insCrossed /\ Client!Upgrading = {}
    BY <2>0
  <2>9. ASSUME ~insCrossed
        PROVE  PointersAreGood'
    <3>1. PointersAreGood
      BY <2>9 DEF InsInv
    <3>2. \A e \in {insActive, insStaged} : e \in Dirs => insDisk'[e] = insDisk[e]
      BY <1>1, <2>0
    <3> QED
      BY <1>3, <3>1, <3>2 DEF PointersAreGood, Client!Whole, Client!Present
  <2>10. ~insCrossed' => \A e \in Controllers \ {c} : insCtl'[e].at \notin {"installing", "publishing", "pruning",
                                                                            "switching", "unlinking", "clearing"}
    BY <2>4, <2>7, <2>8 DEF Client!Staging, Client!Upgrading
  <2>11. \A e \in Controllers : insCtl'[e].at \in {"staging", "installing"} => insCtl'[e].latest > 1
    BY <1>0, <2>1, <2>4 DEF InsInv
  <2> QED
    BY <1>3, <2>0, <2>1, <2>4, <2>6, <2>7, <2>8, <2>9, <2>10, <2>11 DEF InsInv
<1> QED
  BY <1>4, <1>5

(* The rest of a download: nobody else downloads, and, as long as no upgrade *)
(* met it, nobody upgrades.                                                 *)
LEMMA InsDownloads ==
  ASSUME InsInv, NEW c \in Controllers,
         Client!Verified(c) \/ Client!StageFails(c) \/ Client!Publish(c) \/ Client!Prune(c)
  PROVE  InsInv'
<1> DEFINE p == insCtl[c]
<1>0. p \in Client!Duties /\ p.at \in {"installing", "publishing", "pruning"} /\ insFlock = c
      /\ Client!Staging = {c} /\ p.target \in Dirs /\ insDisk \in [Dirs -> Client!Copies \cup {None}]
  <2>1. p \in Client!Duties /\ p.at \in {"installing", "publishing", "pruning"}
    BY DEF InsInv, Client!TypeOK, Client!Verified, Client!StageFails, Client!Publish, Client!Prune
  <2>2. c \in Client!Staging
    BY <2>1 DEF Client!Staging
  <2> QED
    BY <2>1, <2>2 DEF InsInv, Client!Staging, Client!TypeOK
<1>1. UNCHANGED <<insRegistry, insActive, insCrossed>>
  BY DEF Client!Verified, Client!StageFails, Client!Publish, Client!Prune
<1>2. CASE Client!Verified(c)
  <2> DEFINE q == [p EXCEPT !.at = "publishing"]
             copy == [insDisk[p.target] EXCEPT !.whole = TRUE]
  <2>1. q \in Client!Duties /\ q.at = "publishing" /\ q.target = p.target /\ p.at = "installing"
    BY <1>0, <1>2 DEF Client!Duties, Client!Verified
  <2>2. insCtl' = [insCtl EXCEPT ![c] = q] /\ UNCHANGED <<insStaged, insFlock>>
    BY <1>2 DEF Client!Verified
  <2>3. insDisk[p.target] \in Client!Copies /\ insDisk' = [insDisk EXCEPT ![p.target] = copy]
    BY <1>2, WhatIsThere DEF Client!Verified, InsInv
  <2>4. copy \in Client!Copies /\ copy.whole = TRUE
    BY <2>3 DEF Client!Copies
  <2> HIDE DEF q, copy
  <2>5. /\ insCtl' \in [Controllers -> Client!Duties]
        /\ insCtl'[c] = q /\ \A d \in Controllers \ {c} : insCtl'[d] = insCtl[d]
    BY <2>1, <2>2, InsCtl DEF InsInv
  <2>6. insDisk' \in [Dirs -> Client!Copies \cup {None}]
    BY <1>0, <2>3, <2>4
  <2>7. Client!TypeOK'
    BY <1>1, <2>2, <2>5, <2>6 DEF InsInv, Client!TypeOK
  <2>8. Client!Staging' = {c} /\ Client!Upgrading' = Client!Upgrading
    BY <1>0, <2>1, <2>5 DEF Client!Staging, Client!Upgrading
  <2>9. Client!Whole \cup {p.target} \subseteq Client!Whole'
    <3>1. insDisk'[p.target] = copy /\ \A d \in Dirs \ {p.target} : insDisk'[d] = insDisk[d]
      BY <1>0, <2>3
    <3>2. p.target \in Client!Whole'
      BY <1>0, <2>4, <3>1, InsConstants DEF Client!Whole, Client!Present
    <3>3. \A d \in Client!Whole \ {p.target} : d \in Client!Whole'
      BY <3>1 DEF Client!Whole, Client!Present
    <3> QED
      BY <3>2, <3>3
  <2>10. Client!Present' \subseteq Client!Present \cup {p.target}
    BY <1>0, <2>3 DEF Client!Present
  <2>11. ~insCrossed => PointersAreGood'
    BY <1>1, <2>2, <2>9, <2>10 DEF InsInv, PointersAreGood
  <2>12. \A d \in Controllers \ {c} : insCtl[d].at \notin {"installing", "publishing", "pruning"}
    BY <1>0 DEF Client!Staging
  <2> QED
    BY <1>0, <1>1, <2>1, <2>2, <2>5, <2>7, <2>8, <2>9, <2>11, <2>12 DEF InsInv, Client!Staging, Client!Upgrading
<1>3. CASE Client!StageFails(c)
  <2> DEFINE q == [p EXCEPT !.at = "idle", !.ready = FALSE]
  <2>1. q \in Client!Duties /\ q.at = "idle"
    BY <1>0, <1>3 DEF Client!Duties, Client!StageFails
  <2>2. insCtl' = [insCtl EXCEPT ![c] = q] /\ insStaged' = insStaged /\ insFlock' = None
        /\ insDisk' = Client!Without({p.target})
    BY <1>3 DEF Client!StageFails
  <2> HIDE DEF q
  <2>3. /\ insCtl' \in [Controllers -> Client!Duties]
        /\ insCtl'[c] = q /\ \A d \in Controllers \ {c} : insCtl'[d] = insCtl[d]
    BY <2>1, <2>2, InsCtl DEF InsInv
  <2>4. insDisk' \in [Dirs -> Client!Copies \cup {None}] /\ \A d \in Dirs \ {p.target} : insDisk'[d] = insDisk[d]
    BY <2>2, WhatIsLeft DEF InsInv
  <2>5. Client!TypeOK'
    BY <1>1, <2>2, <2>3, <2>4 DEF InsInv, Client!TypeOK
  <2>6. Client!Staging' = {} /\ Client!Upgrading' = Client!Upgrading
    BY <1>0, <2>1, <2>3 DEF Client!Staging, Client!Upgrading
  <2>7. Client!Whole \ {p.target} \subseteq Client!Whole'
    BY <2>4 DEF Client!Whole, Client!Present
  <2>8. \A d \in Controllers : insCtl'[d].at \notin {"installing", "publishing", "pruning"}
    BY <2>6 DEF Client!Staging
  <2>9. Client!Present' \subseteq Client!Present /\ p.target \notin Client!Present'
    BY <1>0, <2>2, <2>4 DEF Client!Present, Client!Without
  <2>10. ~insCrossed => p.target # insActive
    BY <1>0 DEF InsInv
  <2>11. ~insCrossed => PointersAreGood'
    BY <1>0, <1>1, <2>2, <2>7, <2>9, <2>10, InsConstants DEF InsInv, PointersAreGood
  <2>12. ~insCrossed => \A d \in Controllers : insCtl'[d].at \notin {"switching", "unlinking", "clearing"}
    BY <1>0, <2>6 DEF InsInv, Client!Upgrading
  <2> QED
    BY <1>0, <1>1, <2>1, <2>2, <2>3, <2>5, <2>6, <2>8, <2>11, <2>12 DEF InsInv, Client!Upgrading
<1>4. CASE Client!Publish(c)
  <2> DEFINE q == [p EXCEPT !.at = "pruning", !.ready = TRUE]
  <2>1. q \in Client!Duties /\ q.at = "pruning" /\ p.at = "publishing" /\ q.target = p.target
    BY <1>0, <1>4 DEF Client!Duties, Client!Publish
  <2>2. insCtl' = [insCtl EXCEPT ![c] = q] /\ insStaged' = p.target /\ UNCHANGED <<insDisk, insFlock>>
    BY <1>4 DEF Client!Publish
  <2> HIDE DEF q
  <2>3. /\ insCtl' \in [Controllers -> Client!Duties]
        /\ insCtl'[c] = q /\ \A d \in Controllers \ {c} : insCtl'[d] = insCtl[d]
    BY <2>1, <2>2, InsCtl DEF InsInv
  <2>4. Client!TypeOK'
    BY <1>0, <1>1, <2>2, <2>3 DEF InsInv, Client!TypeOK
  <2>5. Client!Staging' = {c} /\ Client!Upgrading' = Client!Upgrading /\ Client!Whole' = Client!Whole
        /\ Client!Present' = Client!Present
    BY <1>0, <2>1, <2>2, <2>3 DEF Client!Staging, Client!Upgrading, Client!Whole, Client!Present
  <2>6. \A d \in Controllers \ {c} : insCtl[d].at \notin {"installing", "publishing", "pruning"}
    BY <1>0 DEF Client!Staging
  <2>7. ~insCrossed => \A d \in Controllers \ {c} : insCtl[d].at \notin {"switching", "unlinking", "clearing"}
    BY <1>0 DEF InsInv, Client!Upgrading
  <2>8. ~insCrossed => PointersAreGood' /\ p.target # insActive
    BY <1>0, <1>1, <2>1, <2>2, <2>5 DEF InsInv, PointersAreGood
  <2> QED
    BY <1>0, <1>1, <2>1, <2>2, <2>3, <2>4, <2>5, <2>6, <2>7, <2>8 DEF InsInv
<1>5. CASE Client!Prune(c)
  <2> DEFINE q == [p EXCEPT !.at = "idle"]
             gone == Client!Present \ Client!Kept(c)
  <2>1. q \in Client!Duties /\ q.at = "idle" /\ p.at = "pruning"
    BY <1>0, <1>5 DEF Client!Duties, Client!Prune
  <2>2. insCtl' = [insCtl EXCEPT ![c] = q] /\ insStaged' = insStaged /\ insFlock' = None
        /\ insDisk' = Client!Without(gone)
    BY <1>5 DEF Client!Prune
  <2> HIDE DEF q
  <2>3. /\ insCtl' \in [Controllers -> Client!Duties]
        /\ insCtl'[c] = q /\ \A d \in Controllers \ {c} : insCtl'[d] = insCtl[d]
    BY <2>1, <2>2, InsCtl DEF InsInv
  <2>4. insDisk' \in [Dirs -> Client!Copies \cup {None}] /\ \A d \in Dirs \ gone : insDisk'[d] = insDisk[d]
    BY <2>2, WhatIsLeft DEF InsInv
  <2>5. Client!TypeOK'
    BY <1>1, <2>2, <2>3, <2>4 DEF InsInv, Client!TypeOK
  <2>6. Client!Staging' = {} /\ Client!Upgrading' = Client!Upgrading
    BY <1>0, <2>1, <2>3 DEF Client!Staging, Client!Upgrading
  <2>7. Client!Whole \cap {p.target, insActive} \subseteq Client!Whole'
    BY <2>4 DEF Client!Whole, Client!Present, Client!Kept, Client!Entry
  <2>8. \A d \in Controllers : insCtl'[d].at \notin {"installing", "publishing", "pruning"}
    BY <2>6 DEF Client!Staging
  <2>9. ~insCrossed => insStaged = p.target /\ p.target \in Client!Whole
    BY <2>1 DEF InsInv
  <2> HIDE DEF gone
  <2>10. ~insCrossed => PointersAreGood'
    BY <1>1, <2>2, <2>7, <2>9 DEF InsInv, PointersAreGood
  <2>11. ~insCrossed => \A d \in Controllers : insCtl'[d].at \notin {"switching", "unlinking", "clearing"}
    BY <1>0, <2>6 DEF InsInv, Client!Upgrading
  <2> QED
    BY <1>0, <1>1, <2>1, <2>2, <2>3, <2>5, <2>6, <2>8, <2>10, <2>11 DEF InsInv, Client!Upgrading
<1> QED
  BY <1>2, <1>3, <1>4, <1>5

(* The steps of an upgrade: the version that was offered comes into use, and *)
(* is offered no more.                                                      *)
LEMMA InsUpgrades ==
  ASSUME InsInv, NEW c \in Controllers,
         Client!Upgrade(c) \/ Client!Switch(c) \/ Client!Unlink(c) \/ Client!Clear(c)
  PROVE  InsInv'
<1> DEFINE p == insCtl[c]
<1>0. p \in Client!Duties /\ insActive \in Dirs \cup {None} /\ insStaged \in Dirs \cup {None}
  BY DEF InsInv, Client!TypeOK
<1>1. UNCHANGED <<insRegistry, insFlock>>
  BY DEF Client!Upgrade, Client!Switch, Client!Unlink, Client!Clear
<1>2. CASE Client!Upgrade(c)
  <2> DEFINE q == [p EXCEPT !.at = "switching", !.target = insStaged, !.previous = Client!Entry(insActive)]
  <2>1. q \in Client!Duties /\ q.at = "switching" /\ q.target = insStaged /\ p.at = "idle" /\ insStaged \in Client!Present
    BY <1>0, <1>2, WhatIsThere DEF Client!Duties, Client!Upgrade, Client!Entry, InsInv
  <2>2. insCtl' = [insCtl EXCEPT ![c] = q] /\ UNCHANGED <<insDisk, insActive, insStaged>>
        /\ insCrossed' = (insCrossed \/ Client!Staging # {} \/ Client!Upgrading # {})
    BY <1>2 DEF Client!Upgrade
  <2> HIDE DEF q
  <2>3. /\ insCtl' \in [Controllers -> Client!Duties]
        /\ insCtl'[c] = q /\ \A d \in Controllers \ {c} : insCtl'[d] = insCtl[d]
    BY <2>1, <2>2, InsCtl DEF InsInv
  <2>4. insCrossed' \in BOOLEAN
    BY <2>2 DEF InsInv, Client!TypeOK
  <2>5. Client!TypeOK'
    BY <1>1, <2>2, <2>3, <2>4 DEF InsInv, Client!TypeOK
  <2>6. Client!Staging' = Client!Staging /\ Client!Upgrading' = Client!Upgrading \cup {c}
        /\ Client!Whole' = Client!Whole /\ Client!Present' = Client!Present
    BY <2>1, <2>2, <2>3 DEF Client!Staging, Client!Upgrading, Client!Whole, Client!Present
  <2>7. ~insCrossed' => ~insCrossed /\ Client!Staging = {} /\ Client!Upgrading = {}
    BY <2>2
  <2>8. ~insCrossed' => \A d \in Controllers \ {c} : insCtl'[d].at \notin {"installing", "publishing", "pruning",
                                                                           "switching", "unlinking", "clearing"}
    BY <2>3, <2>7 DEF Client!Staging, Client!Upgrading
  <2>9. \A d \in Client!Staging' : insFlock' = d /\ insCtl'[d].target \in Dirs
    BY <1>1, <2>1, <2>3, <2>6 DEF InsInv, Client!Staging
  <2>10. \A d \in Controllers : insCtl'[d].at \in {"staging", "installing"} => insCtl'[d].latest > 1
    BY <2>1, <2>3 DEF InsInv
  <2>11. ~insCrossed' => PointersAreGood' /\ insStaged \in Client!Whole
    BY <2>1, <2>2, <2>6, <2>7 DEF InsInv, PointersAreGood
  <2> QED
    BY <2>1, <2>2, <2>3, <2>5, <2>6, <2>7, <2>8, <2>9, <2>10, <2>11 DEF InsInv
<1>3. ASSUME NEW q \in Client!Duties, p.at \in {"switching", "unlinking", "clearing"},
             insCtl' = [insCtl EXCEPT ![c] = q], q.at \in {"unlinking", "clearing", "idle"}, q.target = p.target,
             UNCHANGED insCrossed, insDisk' \in [Dirs -> Client!Copies \cup {None}],
             {insActive', insStaged'} \subseteq Dirs \cup {None},
             ~insCrossed => /\ PointersAreGood'
                            /\ q.at \in {"unlinking", "clearing"} => insActive' = q.target
                            /\ q.at = "clearing" => insStaged' = None
      PROVE  InsInv'
  <2>1. /\ insCtl' \in [Controllers -> Client!Duties]
        /\ insCtl'[c] = q /\ \A d \in Controllers \ {c} : insCtl'[d] = insCtl[d]
    BY <1>3, InsCtl DEF InsInv
  <2>2. Client!TypeOK'
    BY <1>1, <1>3, <2>1 DEF InsInv, Client!TypeOK
  <2>3. Client!Staging' = Client!Staging /\ Client!Upgrading' \subseteq Client!Upgrading /\ c \in Client!Upgrading
    BY <1>3, <2>1 DEF Client!Staging, Client!Upgrading
  <2>4. ~insCrossed => Client!Staging = {} /\ Client!Upgrading = {c}
    BY <2>3 DEF InsInv
  <2>5. ~insCrossed => \A d \in Controllers \ {c} : insCtl'[d].at \notin {"installing", "publishing", "pruning",
                                                                          "switching", "unlinking", "clearing"}
    BY <2>1, <2>4 DEF Client!Staging, Client!Upgrading
  <2>6. \A d \in Client!Staging' : insFlock' = d /\ insCtl'[d].target \in Dirs
    BY <1>1, <1>3, <2>1, <2>3 DEF InsInv, Client!Staging
  <2>7. \A d \in Controllers : insCtl'[d].at \in {"staging", "installing"} => insCtl'[d].latest > 1
    BY <1>3, <2>1 DEF InsInv
  <2> QED
    BY <1>3, <2>1, <2>2, <2>3, <2>4, <2>5, <2>6, <2>7 DEF InsInv
<1>4. CASE Client!Switch(c)
  <2> DEFINE q == [p EXCEPT !.at = "unlinking", !.installed = p.latest, !.ready = FALSE]
  <2>1. q \in Client!Duties /\ q.at = "unlinking" /\ q.target = p.target /\ p.at = "switching"
        /\ p.target \in Dirs \cup {None}
    BY <1>0, <1>4 DEF Client!Duties, Client!Switch
  <2>2. insCtl' = [insCtl EXCEPT ![c] = q] /\ insActive' = p.target /\ UNCHANGED <<insDisk, insStaged, insCrossed>>
    BY <1>4 DEF Client!Switch
  <2> HIDE DEF q
  <2>3. Client!Whole' = Client!Whole /\ Client!Present' = Client!Present
        /\ insDisk' \in [Dirs -> Client!Copies \cup {None}]
    BY <2>2 DEF Client!Whole, Client!Present, InsInv, Client!TypeOK
  <2>4. ~insCrossed => PointersAreGood'
    BY <2>1, <2>2, <2>3 DEF InsInv, PointersAreGood
  <2> QED
    BY <1>0, <1>3, <2>1, <2>2, <2>3, <2>4
<1>5. CASE Client!Unlink(c)
  <2> DEFINE q == [p EXCEPT !.at = "clearing"]
  <2>1. q \in Client!Duties /\ q.at = "clearing" /\ q.target = p.target /\ p.at = "unlinking"
    BY <1>0, <1>5 DEF Client!Duties, Client!Unlink
  <2>2. insCtl' = [insCtl EXCEPT ![c] = q] /\ insStaged' = None /\ UNCHANGED <<insDisk, insActive, insCrossed>>
    BY <1>5 DEF Client!Unlink
  <2> HIDE DEF q
  <2>3. Client!Whole' = Client!Whole /\ Client!Present' = Client!Present
        /\ insDisk' \in [Dirs -> Client!Copies \cup {None}]
    BY <2>2 DEF Client!Whole, Client!Present, InsInv, Client!TypeOK
  <2>4. ~insCrossed => insActive' = q.target /\ PointersAreGood'
    BY <2>1, <2>2, <2>3, InsConstants DEF InsInv, PointersAreGood, Client!Present
  <2> QED
    BY <1>0, <1>3, <2>1, <2>2, <2>3, <2>4
<1>6. CASE Client!Clear(c)
  <2> DEFINE q == [p EXCEPT !.at = "idle"]
             gone == Client!Present \ {p.target, p.previous}
  <2>1. q \in Client!Duties /\ q.at = "idle" /\ q.target = p.target /\ p.at = "clearing"
    BY <1>0, <1>6 DEF Client!Duties, Client!Clear
  <2>2. insCtl' = [insCtl EXCEPT ![c] = q] /\ insDisk' = Client!Without(gone)
        /\ UNCHANGED <<insActive, insStaged, insCrossed>>
    BY <1>6 DEF Client!Clear
  <2> HIDE DEF q
  <2>3. insDisk' \in [Dirs -> Client!Copies \cup {None}] /\ \A d \in Dirs \ gone : insDisk'[d] = insDisk[d]
    BY <2>2, WhatIsLeft DEF InsInv
  <2>4. p.target \in Client!Whole => p.target \in Client!Whole'
    BY <2>3 DEF Client!Whole, Client!Present
  <2> HIDE DEF gone
  <2>5. ~insCrossed => PointersAreGood'
    BY <2>1, <2>2, <2>4, InsConstants DEF InsInv, PointersAreGood, Client!Present
  <2> QED
    BY <1>0, <1>3, <2>1, <2>2, <2>3, <2>5
<1> QED
  BY <1>2, <1>4, <1>5, <1>6

(* A crash ends what was under way; a new version of the package changes    *)
(* nothing here.                                                            *)
LEMMA InsOutside == ASSUME InsInv, Client!Released \/ Client!Crash PROVE InsInv'
<1>1. CASE Client!Released
  <2>1. insRegistry' \in 1..MaxVersion
    BY <1>1, InsConstants DEF Client!Released, InsInv, Client!TypeOK
  <2>2. Client!TypeOK'
    BY <1>1, <2>1 DEF Client!Released, InsInv, Client!TypeOK
  <2> QED
    BY <1>1, <2>2 DEF Client!Released, InsInv, PointersAreGood, Client!Staging, Client!Upgrading, Client!Whole,
                         Client!Present
<1>2. CASE Client!Crash
  <2> DEFINE v == IF insActive \in Client!Present THEN Client!VersionOf(insActive) ELSE 1
             q == [Client!Fresh EXCEPT !.installed = v]
  <2>1. v \in 1..MaxVersion
    BY WhatIsThere, InsConstants DEF InsInv
  <2> HIDE DEF v
  <2>2. q \in Client!Duties /\ q.at = "idle"
    <3>1. Client!Fresh \in Client!Duties /\ Client!Fresh.at = "idle"
      BY InsConstants DEF Client!Fresh, Client!Duties
    <3>2. \A r \in Client!Duties : \A n \in 1..MaxVersion :
            [r EXCEPT !.installed = n] \in Client!Duties /\ [r EXCEPT !.installed = n].at = r.at
      BY DEF Client!Duties
    <3> QED
      BY <2>1, <3>1, <3>2
  <2>3. insCtl' = [c \in Controllers |-> q] /\ insFlock' = None
        /\ UNCHANGED <<insRegistry, insDisk, insActive, insStaged, insCrossed>>
    BY <1>2 DEF Client!Crash, v
  <2> HIDE DEF q
  <2>4. \A c \in Controllers : insCtl'[c].at = "idle"
    BY <2>2, <2>3
  <2>5. Client!TypeOK'
    BY <2>2, <2>3 DEF InsInv, Client!TypeOK
  <2>6. Client!Staging' = {} /\ Client!Upgrading' = {} /\ Client!Whole' = Client!Whole
        /\ Client!Present' = Client!Present
    BY <2>3, <2>4 DEF Client!Staging, Client!Upgrading, Client!Whole, Client!Present
  <2> QED
    BY <2>3, <2>4, <2>5, <2>6 DEF InsInv, PointersAreGood
<1> QED
  BY <1>1, <1>2

(* Every step keeps it.                                                     *)
LEMMA InsStep == InsInv /\ [Client!Next]_Client!vars => InsInv'
<1>1. ASSUME InsInv, UNCHANGED Client!vars PROVE InsInv'
  BY <1>1 DEF Client!vars, InsInv, PointersAreGood, Client!TypeOK, Client!Staging, Client!Upgrading, Client!Whole,
              Client!Present
<1> QED
  BY <1>1, InsLooks, InsStages, InsDownloads, InsUpgrades, InsOutside DEF Client!Next

(* One download at a time over all controllers; and as long as no upgrade   *)
(* met the download of another controller, the client in use was verified   *)
(* and is there, and so is the one offered if it is there, whatever crashes *)
(* or fails between (plugins/providers/_client_control.py:738-979).         *)
THEOREM ClientsStayWhole == Client!Spec => []Client!TheClientInUseIsWhole
<1>1. ASSUME InsInv PROVE Client!TheClientInUseIsWhole
  <2>1. Client!Cardinality(Client!Staging) = Cardinality(Client!Staging)
    BY DEF Client!Cardinality, Cardinality
  <2>2. Client!Staging = {} \/ Client!Staging = {insFlock}
    BY <1>1 DEF InsInv
  <2>3. Cardinality(Client!Staging) \in {0, 1}
    BY <2>2, FS_EmptySet, FS_Singleton
  <2>4. Client!Cardinality(Client!Staging) <= 1
    BY <2>1, <2>3
  <2> QED
    BY <1>1, <2>4 DEF InsInv, PointersAreGood, Client!Entry, Client!TheClientInUseIsWhole
<1> QED
  BY <1>1, InsInit, InsStep, PTL DEF Client!Spec

----------------------------------------------------------------------------
(* ---- the three machines beside each other ---- *)

(* What all of them do, each does.                                          *)
LEMMA EachClientIsItself ==
  /\ EveryInit => Gate!Init /\ Login!Init /\ Client!Init
  /\ [EveryNext]_<<part, gateVars, logVars, insVars>> =>
       [Gate!Next]_Gate!vars /\ [Login!Next]_Login!vars /\ [Client!Next]_Client!vars
<1>1. EveryInit => Gate!Init /\ Login!Init /\ Client!Init
  BY DEF EveryInit
<1>2. gateVars = Gate!vars /\ logVars = Login!vars /\ insVars = Client!vars
  BY DEF gateVars, logVars, insVars, Gate!vars, Login!vars, Client!vars
<1>3. gateVars' = Gate!vars' /\ logVars' = Login!vars' /\ insVars' = Client!vars'
  BY DEF gateVars, logVars, insVars, Gate!vars, Login!vars, Client!vars
<1> SUFFICES ASSUME [EveryNext]_<<part, gateVars, logVars, insVars>>
             PROVE  /\ Gate!Next \/ Gate!vars' = Gate!vars
                    /\ Login!Next \/ Login!vars' = Login!vars
                    /\ Client!Next \/ Client!vars' = Client!vars
  BY <1>1
<1>4. /\ Gate!Next \/ gateVars' = gateVars
      /\ Login!Next \/ logVars' = logVars
      /\ Client!Next \/ insVars' = insVars
  BY DEF EveryNext
<1> QED
  BY <1>2, <1>3, <1>4

(* LAYA answers one caller at a time, in the order they came, and a         *)
(* question ends unanswered only out of time or with nobody left to ask     *)
(* (agent/decision_evaluator.py:60-150, plugins/evaluators/laya.py:60-190). *)
THEOREM OpinionsHold == EverySpec => []OpinionsAreHonest
<1>1. Gate!GateIsSound /\ Gate!EveryoneIsAsked => OpinionsAreHonest
  BY DEF OpinionsAreHonest
<1> QED
  BY <1>1, EachClientIsItself, OpinionsStand, PTL DEF EverySpec, Gate!Spec

(* One login is waited for, and the page shows its link                     *)
(* (plugins/providers/_client_control.py:395-735).                          *)
THEOREM LoginsHold == EverySpec => []OneLoginAtATime
<1>1. Login!OneLoginAtATime => OneLoginAtATime
  BY DEF OneLoginAtATime
<1> QED
  BY <1>1, EachClientIsItself, LoginsFollow, PTL DEF EverySpec, Login!Spec

(* The client in use, and the one offered if it is there, are whole at every step *)
(* (plugins/providers/_client_control.py:738-979).                          *)
THEOREM InstallsHold == EverySpec => []TheClientInUseIsWhole
<1>1. Client!TheClientInUseIsWhole => TheClientInUseIsWhole
  BY DEF TheClientInUseIsWhole
<1> QED
  BY <1>1, EachClientIsItself, ClientsStayWhole, PTL DEF EverySpec, Client!Spec
==============================================================================
