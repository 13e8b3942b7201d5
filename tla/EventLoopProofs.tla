--------------------------- MODULE EventLoopProofs ---------------------------
(***************************************************************************)
(* Proofs about the business-event loop, for any number of events and      *)
(* worker threads.                                                         *)
(***************************************************************************)
EXTENDS EventLoop, TLAPS

(* Only the current thread can be alive, and only once it has been started. *)
OneLiveWorker ==
  /\ \A w \in Workers : Alive(w) => thread = w
  /\ thread # NoWorker => pc[thread] # "unborn"

(* An open gate has a living worker behind it and no stop in progress; a   *)
(* worker that is dead is one a stop is still about to clear.              *)
GateHasWorker ==
  /\ accepting => thread # NoWorker /\ Alive(thread) /\ ctl = "idle"
  /\ ctl # "idle" => thread # NoWorker /\ ~accepting
  /\ ctl = "clearing" => ~Alive(thread)
  /\ thread # NoWorker /\ ~Alive(thread) => ctl # "idle"

(* The pill is in the queue exactly while a stop waits for a living worker, *)
(* it is the last thing in it, and without a living worker there is nothing *)
(* left in the queue.                                                       *)
PillIsLast ==
  /\ \A i \in 1..Len(queue) : queue[i] = Poison => i = Len(queue)
  /\ Queued(Poison) => ctl = "joining"
  /\ (thread = NoWorker \/ ~Alive(thread)) => queue = <<>>
  /\ ctl = "joining" /\ Alive(thread) => Queued(Poison)

(* An event is in one place: queued once, or held by one worker. *)
OnePlace ==
  /\ \A i, j \in 1..Len(queue) : queue[i] = queue[j] => i = j
  /\ \A w \in Workers : pc[w] \in {"check", "handle", "finish"} =>
       /\ held[w] \in Events
       /\ ~Queued(held[w])
       /\ call[held[w]] = "waiting"
       /\ held[w] \notin completed
       /\ pc[w] # "finish" => outcome[held[w]] = "none"
       /\ pc[w] = "finish" => outcome[held[w]] # "none"
  /\ \A e \in Events : Queued(e) => call[e] = "waiting" /\ outcome[e] = "none"

(* What an event's caller and its answer say about each other. *)
AnswersMatch ==
  \A e \in Events :
    /\ call[e] \in {"new", "refused"} => outcome[e] = "none"
    /\ e \in completed => outcome[e] # "none"
    /\ call[e] = "returned" => e \in completed
    /\ call[e] = "waiting" /\ e \notin completed =>
         Queued(e) \/ HeldAt(e, {"check", "handle", "finish"})
    /\ outcome[e] # "none" /\ e \notin completed => HeldAt(e, {"finish"})

(* The history is exact: what is accepted and not begun is cut if and only *)
(* if the gate is down, and what was cut never got further than an error.  *)
CutIsExact ==
  /\ \A e \in Events : Unbegun(e) => (e \in cut <=> ~accepting)
  /\ \A e \in cut : call[e] \in {"waiting", "returned"} /\ outcome[e] # "result" /\ ~HeldAt(e, {"handle"})

Inductive ==
  /\ TypeOK /\ OneLiveWorker /\ GateHasWorker /\ PillIsLast
  /\ OnePlace /\ AnswersMatch /\ CutIsExact

----------------------------------------------------------------------------
(* The sets of places the invariant asks HeldAt about. *)
Places == {{"check"}, {"handle"}, {"finish"}, {"check", "handle", "finish"}}

LEMMA InitInductive == Init => Inductive
<1> SUFFICES ASSUME Init PROVE Inductive
  OBVIOUS
<1> USE EventLoopAssumption DEF Init
<1>1. TypeOK
  <2>1. queue \in Seq(Events \cup {Poison})
    OBVIOUS
  <2> QED
    BY <2>1 DEF TypeOK, AlivePC
<1>2. OneLiveWorker /\ GateHasWorker
  BY DEF OneLiveWorker, GateHasWorker, Alive, AlivePC
<1>3. PillIsLast /\ OnePlace
  BY DEF PillIsLast, OnePlace, Queued, Alive, AlivePC
<1>4. AnswersMatch /\ CutIsExact
  BY DEF AnswersMatch, CutIsExact, Unbegun, Queued, HeldAt
<1> QED
  BY <1>1, <1>2, <1>3, <1>4 DEF Inductive

(* What is in a queue once an element is appended. *)
LEMMA AppendMembers ==
  ASSUME NEW S, NEW q \in Seq(S), NEW y \in S
  PROVE  /\ Append(q, y) \in Seq(S)
         /\ Len(q) \in Nat /\ Len(Append(q, y)) = Len(q) + 1
         /\ \A i \in 1..Len(q) : Append(q, y)[i] = q[i]
         /\ Append(q, y)[Len(q) + 1] = y
         /\ \A x : (\E i \in 1..Len(Append(q, y)) : Append(q, y)[i] = x)
                    <=> (x = y \/ \E i \in 1..Len(q) : q[i] = x)
OBVIOUS

LEMMA SubmitInductive ==
  ASSUME Inductive, NEW e \in Events, Submit(e)
  PROVE  Inductive'
<1> USE EventLoopAssumption DEF Inductive
<1>1. CASE CanSubmit
  <2> DEFINE S == Events \cup {Poison}
  <2>1. /\ queue \in Seq(S) /\ e \in S /\ call[e] = "new"
        /\ queue' = Append(queue, e)
        /\ call' = [call EXCEPT ![e] = "waiting"]
        /\ UNCHANGED <<accepting, thread, pc, held, outcome, completed, ctl, cut>>
    BY <1>1 DEF Submit, TypeOK
  <2> HIDE DEF S
  <2>2. /\ queue' \in Seq(S) /\ Len(queue) \in Nat /\ Len(queue') = Len(queue) + 1
        /\ \A i \in 1..Len(queue) : queue'[i] = queue[i]
        /\ queue'[Len(queue) + 1] = e
        /\ \A x : Queued(x)' <=> (x = e \/ Queued(x))
    BY <2>1, AppendMembers DEF Queued
  <2>3. TypeOK'
    BY <2>1, <2>2 DEF TypeOK, S
  <2>4. OneLiveWorker' /\ GateHasWorker'
    BY <2>1 DEF OneLiveWorker, GateHasWorker, Alive
  <2>5. PillIsLast'
    BY <1>1, <2>1, <2>2 DEF PillIsLast, Alive, CanSubmit, GateHasWorker, Queued
  <2>6. ~Queued(e) /\ outcome[e] = "none" /\ e \notin cut /\ e \notin completed
        /\ \A P \in Places : ~HeldAt(e, P)
    BY <2>1 DEF OnePlace, AnswersMatch, CutIsExact, HeldAt, Places
  <2>7. OnePlace'
    <3>1. \A i, j \in 1..Len(queue') : queue'[i] = queue'[j] => i = j
      BY <2>2, <2>6 DEF OnePlace, Queued
    <3>2. \A w \in Workers : pc[w] \in {"check", "handle", "finish"} => held[w] # e
      BY <2>6 DEF HeldAt, Places
    <3> QED
      BY <2>1, <2>2, <2>6, <3>1, <3>2 DEF OnePlace, TypeOK
  <2>8. \A x, P : HeldAt(x, P)' <=> HeldAt(x, P)
    BY <2>1 DEF HeldAt
  <2>9. AnswersMatch'
    BY <2>1, <2>2, <2>6, <2>8 DEF AnswersMatch, TypeOK
  <2>10. CutIsExact'
    BY <1>1, <2>1, <2>2, <2>6, <2>8 DEF CutIsExact, Unbegun, TypeOK, Places, CanSubmit
  <2> QED
    BY <2>3, <2>4, <2>5, <2>7, <2>9, <2>10
<1>2. CASE ~CanSubmit
  <2> USE <1>2 DEF Submit
  <2>1. TypeOK'
    BY DEF TypeOK
  <2>2. OneLiveWorker' /\ GateHasWorker' /\ PillIsLast'
    BY DEF OneLiveWorker, GateHasWorker, PillIsLast, Alive, Queued
  <2>3. OnePlace'
    BY DEF OnePlace, Queued, TypeOK
  <2>4. AnswersMatch'
    BY DEF AnswersMatch, Queued, HeldAt, TypeOK
  <2>5. CutIsExact'
    BY DEF CutIsExact, Unbegun, Queued, HeldAt, TypeOK
  <2> QED
    BY <2>1, <2>2, <2>3, <2>4, <2>5
<1> QED
  BY <1>1, <1>2

LEMMA ReturnInductive ==
  ASSUME Inductive, NEW e \in Events, Return(e)
  PROVE  Inductive'
<1> USE EventLoopAssumption DEF Inductive, Return
<1>1. TypeOK'
  BY DEF TypeOK
<1>2. OneLiveWorker' /\ GateHasWorker' /\ PillIsLast'
  BY DEF OneLiveWorker, GateHasWorker, PillIsLast, Alive, Queued
<1>4. OnePlace'
  BY DEF OnePlace, Queued, TypeOK, AnswersMatch
<1>5. AnswersMatch'
  BY DEF AnswersMatch, Queued, HeldAt, TypeOK
<1>6. CutIsExact'
  BY DEF CutIsExact, Unbegun, Queued, HeldAt, TypeOK
<1> QED
  BY <1>1, <1>2, <1>4, <1>5, <1>6

(* What is in a queue before its head is taken, and after. *)
LEMMA TailMembers ==
  ASSUME NEW S, NEW q \in Seq(S), q # <<>>, NEW x
  PROVE  (\E i \in 1..Len(q) : q[i] = x)
           <=> (Head(q) = x \/ \E i \in 1..Len(Tail(q)) : Tail(q)[i] = x)
<1>1. /\ Len(q) \in Nat \ {0} /\ Head(q) = q[1]
      /\ Len(Tail(q)) = Len(q) - 1
      /\ \A i \in 1..Len(q) - 1 : Tail(q)[i] = q[i + 1]
  OBVIOUS
<1>2. ASSUME NEW i \in 1..Len(q), q[i] = x, i # 1
      PROVE  \E j \in 1..Len(Tail(q)) : Tail(q)[j] = x
  <2>1. i - 1 \in 1..Len(q) - 1 /\ (i - 1) + 1 = i
    BY <1>1, <1>2
  <2> QED
    BY <1>1, <1>2, <2>1
<1>3. ASSUME NEW j \in 1..Len(Tail(q)), Tail(q)[j] = x
      PROVE  \E i \in 1..Len(q) : q[i] = x
  BY <1>1, <1>3
<1> QED
  BY <1>1, <1>2, <1>3

LEMMA GetInductive ==
  ASSUME Inductive, NEW w \in Workers, Get(w)
  PROVE  Inductive'
<1> USE EventLoopAssumption DEF Inductive
<1>1. TypeOK'
  BY DEF Get, TypeOK, AlivePC
<1>2. /\ queue \in Seq(Events \cup {Poison}) /\ queue # <<>>
      /\ Len(queue) \in Nat /\ Len(queue) > 0
      /\ Head(queue) = queue[1]
      /\ Len(queue') = Len(queue) - 1
      /\ \A i \in 1..Len(queue') : queue'[i] = queue[i + 1]
      /\ Head(queue) \in Events \cup {Poison}
      /\ pc[w] = "get"
      /\ UNCHANGED <<accepting, thread, call, outcome, completed, ctl, cut>>
  BY DEF Get, TypeOK
<1>3. \A x : Queued(x) <=> (Head(queue) = x \/ Queued(x)')
  BY <1>2, TailMembers DEF Queued, Get
<1>4. \A x : Queued(x)' => Head(queue) # x
  <2> SUFFICES ASSUME NEW i \in 1..Len(queue')
               PROVE  queue'[i] # Head(queue)
    BY DEF Queued
  <2>1. i + 1 \in 1..Len(queue) /\ 1 \in 1..Len(queue) /\ i + 1 # 1
    BY <1>2
  <2> QED
    BY <1>2, <2>1 DEF OnePlace
<1>5. Alive(w) /\ thread = w
  BY <1>2 DEF OneLiveWorker, Alive, AlivePC
<1>6. PillIsLast'
  <2>1. \A i \in 1..Len(queue') : queue'[i] = Poison => i = Len(queue')
    <3> SUFFICES ASSUME NEW i \in 1..Len(queue'), queue'[i] = Poison
                 PROVE  i = Len(queue')
      OBVIOUS
    <3>1. i + 1 \in 1..Len(queue) /\ queue[i + 1] = Poison
      BY <1>2
    <3>2. i + 1 = Len(queue)
      BY <3>1 DEF PillIsLast
    <3> QED
      BY <1>2, <3>1, <3>2
  <2>2. CASE Head(queue) = Poison
    <3>0. 1 \in 1..Len(queue) /\ queue[1] = Poison
      BY <1>2, <2>2
    <3>1. Len(queue) = 1
      BY <3>0 DEF PillIsLast
    <3>2. queue' = <<>>
      BY <1>1, <1>2, <3>1 DEF TypeOK
    <3>3. pc'[w] = "dead"
      BY <2>2 DEF Get, TypeOK
    <3> QED
      BY <1>2, <1>5, <2>1, <3>2, <3>3 DEF PillIsLast, Queued, Alive, AlivePC
  <2>3. CASE Head(queue) # Poison
    <3>1. Queued(Poison)' <=> Queued(Poison)
      BY <1>3, <2>3
    <3>2. pc'[w] = "check"
      BY <2>3 DEF Get, TypeOK
    <3> QED
      BY <1>2, <1>5, <2>1, <3>1, <3>2 DEF PillIsLast, Alive, AlivePC, TypeOK
  <2> QED
    BY <2>2, <2>3
<1>7. CASE Head(queue) = Poison
  <2>1. ctl = "joining" /\ ~accepting
    BY <1>3, <1>7 DEF PillIsLast, GateHasWorker
  <2>2. /\ pc' = [pc EXCEPT ![w] = "dead"] /\ held' = held
        /\ \A x \in Events : Queued(x)' <=> Queued(x)
    BY <1>3, <1>7 DEF Get
  <2>3. OneLiveWorker' /\ GateHasWorker'
    BY <1>2, <1>5, <2>1, <2>2 DEF OneLiveWorker, GateHasWorker, Alive, AlivePC, TypeOK
  <2>4. OnePlace'
    <3>1. \A i, j \in 1..Len(queue') : queue'[i] = queue'[j] => i = j
      <4> SUFFICES ASSUME NEW i \in 1..Len(queue'), NEW j \in 1..Len(queue'), queue'[i] = queue'[j]
                   PROVE  i = j
        OBVIOUS
      <4>1. i + 1 \in 1..Len(queue) /\ j + 1 \in 1..Len(queue) /\ queue[i + 1] = queue[j + 1]
        BY <1>2
      <4> QED
        BY <4>1 DEF OnePlace
    <3> QED
      BY <1>2, <2>2, <3>1 DEF OnePlace, TypeOK
  <2>5. \A e \in Events, P \in Places : HeldAt(e, P)' <=> HeldAt(e, P)
    BY <1>2, <2>2 DEF HeldAt, TypeOK, Places
  <2>6. AnswersMatch' /\ CutIsExact'
    BY <1>2, <2>2, <2>5 DEF AnswersMatch, CutIsExact, Unbegun, Places, TypeOK
  <2> QED
    BY <1>1, <1>6, <2>3, <2>4, <2>6
<1>8. CASE Head(queue) # Poison
  <2>0. PICK h \in Events : h = Head(queue)
    BY <1>2, <1>8
  <2>1. Queued(h) /\ ~Queued(h)'
    <3>1. 1 \in 1..Len(queue) /\ queue[1] = h
      BY <1>2, <2>0
    <3>2. ~Queued(h)'
      BY <1>4, <2>0
    <3> QED
      BY <3>1, <3>2 DEF Queued
  <2>2. /\ pc' = [pc EXCEPT ![w] = "check"]
        /\ held' = [held EXCEPT ![w] = h]
        /\ pc[w] = "get"
    BY <1>8, <2>0 DEF Get
  <2>3. OneLiveWorker' /\ GateHasWorker'
    BY <1>2, <1>5, <2>2 DEF OneLiveWorker, GateHasWorker, Alive, AlivePC, TypeOK
  <2>4. OnePlace'
    <3>1. \A i, j \in 1..Len(queue') : queue'[i] = queue'[j] => i = j
      <4> SUFFICES ASSUME NEW i \in 1..Len(queue'), NEW j \in 1..Len(queue'), queue'[i] = queue'[j]
                   PROVE  i = j
        OBVIOUS
      <4>1. i + 1 \in 1..Len(queue) /\ j + 1 \in 1..Len(queue) /\ queue[i + 1] = queue[j + 1]
        BY <1>2
      <4> QED
        BY <4>1 DEF OnePlace
    <3>2. call[h] = "waiting" /\ outcome[h] = "none"
      BY <2>1 DEF OnePlace
    <3>3. h \notin completed
      BY <2>1, <3>2 DEF AnswersMatch
    <3>4. \A x \in Events : Queued(x)' => Queued(x) /\ x # h
      BY <1>3, <1>4, <2>0
    <3>5. ASSUME NEW v \in Workers, pc'[v] \in {"check", "handle", "finish"}
          PROVE  (/\ held[v] \in Events
                  /\ ~Queued(held[v])
                  /\ call[held[v]] = "waiting"
                  /\ held[v] \notin completed
                  /\ pc[v] # "finish" => outcome[held[v]] = "none"
                  /\ pc[v] = "finish" => outcome[held[v]] # "none")'
      <4>1. CASE v = w
        <5>1. pc'[w] = "check" /\ held'[w] = h
          BY <2>2 DEF TypeOK
        <5> QED
          BY <1>2, <2>1, <3>2, <3>3, <4>1, <5>1
      <4>2. CASE v # w
        <5>1. pc'[v] = pc[v] /\ held'[v] = held[v]
          BY <2>2, <4>2 DEF TypeOK
        <5> QED
          BY <1>2, <3>4, <3>5, <5>1 DEF OnePlace
      <4> QED
        BY <4>1, <4>2
    <3>6. (\A e \in Events : Queued(e) => call[e] = "waiting" /\ outcome[e] = "none")'
      BY <1>2, <3>4 DEF OnePlace
    <3> QED
      BY <3>1, <3>5, <3>6 DEF OnePlace
  <2>5. \A e \in Events : HeldAt(e, {"check"})' <=> (HeldAt(e, {"check"}) \/ e = h)
    BY <2>1, <2>2 DEF HeldAt, TypeOK
  <2>6. \A e \in Events, P \in {{"handle"}, {"finish"}} : HeldAt(e, P)' <=> HeldAt(e, P)
    BY <2>1, <2>2 DEF HeldAt, TypeOK
  <2>7. \A e \in Events : HeldAt(e, {"check", "handle", "finish"})'
                            <=> (HeldAt(e, {"check", "handle", "finish"}) \/ e = h)
    BY <2>1, <2>2 DEF HeldAt, TypeOK
  <2>8. AnswersMatch'
    BY <1>2, <1>3, <2>0, <2>1, <2>6, <2>7 DEF AnswersMatch
  <2>9. CutIsExact'
    BY <1>2, <1>3, <2>0, <2>1, <2>5, <2>6 DEF CutIsExact, Unbegun, TypeOK
  <2> QED
    BY <1>1, <1>6, <2>3, <2>4, <2>8, <2>9
<1> QED
  BY <1>7, <1>8

LEMMA CheckInductive ==
  ASSUME Inductive, NEW w \in Workers, Check(w)
  PROVE  Inductive'
<1> USE EventLoopAssumption DEF Inductive, Check
<1>1. TypeOK'
  BY DEF TypeOK, AlivePC, OnePlace
<1>2. OneLiveWorker' /\ GateHasWorker' /\ PillIsLast'
  BY DEF OneLiveWorker, GateHasWorker, PillIsLast, Alive, AlivePC, Queued, TypeOK
<1>3. OnePlace'
  BY DEF OnePlace, OneLiveWorker, Alive, AlivePC, Queued, TypeOK
<1>4. AnswersMatch'
  BY DEF AnswersMatch, OnePlace, OneLiveWorker, Alive, AlivePC, Queued, HeldAt, TypeOK
<1>5. CutIsExact'
  BY DEF CutIsExact, OnePlace, OneLiveWorker, Alive, AlivePC, Unbegun, Queued, HeldAt, TypeOK
<1> QED
  BY <1>1, <1>2, <1>3, <1>4, <1>5

LEMMA HandleInductive ==
  ASSUME Inductive, NEW w \in Workers, Handle(w)
  PROVE  Inductive'
<1> USE EventLoopAssumption DEF Inductive, Handle
<1>1. TypeOK'
  BY DEF TypeOK, AlivePC, OnePlace
<1>2. OneLiveWorker' /\ GateHasWorker' /\ PillIsLast'
  BY DEF OneLiveWorker, GateHasWorker, PillIsLast, Alive, AlivePC, Queued, TypeOK
<1>3. OnePlace'
  BY DEF OnePlace, OneLiveWorker, Alive, AlivePC, Queued, TypeOK
<1>4. AnswersMatch'
  BY DEF AnswersMatch, OnePlace, OneLiveWorker, Alive, AlivePC, Queued, HeldAt, TypeOK
<1>5. CutIsExact'
  BY DEF CutIsExact, OnePlace, OneLiveWorker, Alive, AlivePC, Unbegun, Queued, HeldAt, TypeOK
<1> QED
  BY <1>1, <1>2, <1>3, <1>4, <1>5

LEMMA FinishInductive ==
  ASSUME Inductive, NEW w \in Workers, Finish(w)
  PROVE  Inductive'
<1> USE EventLoopAssumption DEF Inductive, Finish
<1>1. TypeOK'
  BY DEF TypeOK, AlivePC, OnePlace
<1>2. OneLiveWorker' /\ GateHasWorker' /\ PillIsLast'
  BY DEF OneLiveWorker, GateHasWorker, PillIsLast, Alive, AlivePC, Queued, TypeOK
<1>3. OnePlace'
  BY DEF OnePlace, OneLiveWorker, Alive, AlivePC, Queued, TypeOK
<1>4. AnswersMatch'
  BY DEF AnswersMatch, OnePlace, OneLiveWorker, Alive, AlivePC, Queued, HeldAt, TypeOK
<1>5. CutIsExact'
  BY DEF CutIsExact, OnePlace, OneLiveWorker, Alive, AlivePC, Unbegun, Queued, HeldAt, TypeOK
<1> QED
  BY <1>1, <1>2, <1>3, <1>4, <1>5

(* Closing the gate adds to the history exactly what is not begun. *)
LEMMA CloseGateCut ==
  ASSUME Inductive, CloseGate, UNCHANGED <<pc, held, call, outcome>>,
         \A e \in Events : Queued(e)' <=> Queued(e)
  PROVE  CutIsExact'
<1>1. \A e, P : HeldAt(e, P)' <=> HeldAt(e, P)
  BY DEF HeldAt
<1>2. \A e \in Events : Unbegun(e)' <=> Unbegun(e)
  BY <1>1 DEF Unbegun
<1>3. \A e \in Events : Unbegun(e) =>
        call[e] = "waiting" /\ outcome[e] = "none" /\ ~HeldAt(e, {"handle"})
  BY DEF Inductive, OnePlace, OneLiveWorker, Unbegun, HeldAt, Alive, AlivePC
<1> QED
  BY <1>1, <1>2, <1>3 DEF Inductive, CutIsExact, CloseGate

LEMMA RequestPauseInductive ==
  ASSUME Inductive, RequestPause
  PROVE  Inductive'
<1> USE EventLoopAssumption DEF Inductive, RequestPause
<1>1. TypeOK'
  BY DEF TypeOK, CloseGate
<1>2. OneLiveWorker' /\ GateHasWorker' /\ PillIsLast'
  BY DEF OneLiveWorker, GateHasWorker, PillIsLast, Alive, Queued, CloseGate
<1>3. OnePlace' /\ AnswersMatch'
  BY DEF OnePlace, AnswersMatch, Queued, HeldAt
<1>4. CutIsExact'
  BY CloseGateCut DEF Queued
<1> QED
  BY <1>1, <1>2, <1>3, <1>4

LEMMA StartNewInductive ==
  ASSUME Inductive, NEW w \in Workers, StartNew(w)
  PROVE  Inductive'
<1> USE EventLoopAssumption DEF Inductive, StartNew
<1>1. TypeOK'
  BY DEF TypeOK, AlivePC
<1>2. \A v \in Workers : ~Alive(v)
  BY DEF OneLiveWorker, TypeOK
<1>3. queue = <<>> /\ \A x : ~Queued(x) /\ ~Queued(x)'
  BY DEF PillIsLast, Queued
<1>4. OneLiveWorker' /\ GateHasWorker' /\ PillIsLast'
  BY <1>2, <1>3 DEF OneLiveWorker, GateHasWorker, PillIsLast, Alive, AlivePC, TypeOK
<1>5. \A e \in Events, P \in Places : HeldAt(e, P)' <=> HeldAt(e, P)
  BY <1>2 DEF HeldAt, Alive, AlivePC, TypeOK, Places
<1>6. OnePlace'
  BY <1>3 DEF OnePlace, TypeOK
<1>7. AnswersMatch'
  BY <1>3, <1>5 DEF AnswersMatch, Places
<1>8. CutIsExact'
  <2>1. \A e \in Events : ~HeldAt(e, {"check"})
    BY <1>2 DEF HeldAt, Alive, AlivePC
  <2> QED
    BY <1>3, <1>5, <2>1 DEF CutIsExact, Unbegun, Places, TypeOK
<1> QED
  BY <1>1, <1>4, <1>6, <1>7, <1>8

LEMMA StopInductive ==
  ASSUME Inductive, Stop
  PROVE  Inductive'
<1> USE EventLoopAssumption DEF Inductive
<1>1. CASE thread = NoWorker
  BY <1>1, RequestPauseInductive DEF Stop, RequestPause
<1>2. CASE thread # NoWorker
  <2> DEFINE S == Events \cup {Poison}
  <2>1. /\ queue \in Seq(S) /\ Poison \in S /\ ctl = "idle"
        /\ queue' = Append(queue, Poison)
        /\ ctl' = "joining" /\ accepting' = FALSE /\ CloseGate
        /\ UNCHANGED <<thread, pc, held, call, outcome, completed>>
    BY <1>2 DEF Stop, TypeOK, CloseGate
  <2> HIDE DEF S
  <2>2. /\ queue' \in Seq(S) /\ Len(queue) \in Nat /\ Len(queue') = Len(queue) + 1
        /\ \A i \in 1..Len(queue) : queue'[i] = queue[i]
        /\ queue'[Len(queue) + 1] = Poison
        /\ \A x : Queued(x)' <=> (x = Poison \/ Queued(x))
    BY <2>1, AppendMembers DEF Queued
  <2>3. TypeOK'
    BY <2>1, <2>2 DEF TypeOK, S, CloseGate
  <2>4. Alive(thread) /\ ~Queued(Poison)
    BY <1>2, <2>1 DEF GateHasWorker, PillIsLast
  <2>5. OneLiveWorker' /\ GateHasWorker'
    BY <1>2, <2>1, <2>4 DEF OneLiveWorker, GateHasWorker, Alive
  <2>6. PillIsLast'
    BY <1>2, <2>1, <2>2, <2>4 DEF PillIsLast, Alive, Queued
  <2>7. \A e \in Events : Queued(e)' <=> Queued(e)
    BY <2>2
  <2>8. OnePlace'
    <3>1. \A i, j \in 1..Len(queue') : queue'[i] = queue'[j] => i = j
      BY <2>2, <2>4 DEF OnePlace, Queued
    <3> QED
      BY <2>1, <2>7, <3>1 DEF OnePlace
  <2>9. AnswersMatch'
    BY <2>1, <2>7 DEF AnswersMatch, HeldAt
  <2>10. CutIsExact'
    BY <2>1, <2>7, CloseGateCut
  <2> QED
    BY <2>3, <2>5, <2>6, <2>8, <2>9, <2>10
<1> QED
  BY <1>1, <1>2

LEMMA JoinClearInductive ==
  ASSUME Inductive, Join \/ Clear
  PROVE  Inductive'
<1> USE EventLoopAssumption DEF Inductive, Join, Clear
<1>1. TypeOK'
  BY DEF TypeOK
<1>2. OneLiveWorker' /\ GateHasWorker' /\ PillIsLast'
  BY DEF OneLiveWorker, GateHasWorker, PillIsLast, Alive, Queued
<1>3. OnePlace' /\ AnswersMatch' /\ CutIsExact'
  BY DEF OnePlace, AnswersMatch, CutIsExact, Unbegun, Queued, HeldAt
<1> QED
  BY <1>1, <1>2, <1>3

LEMMA StutterInductive ==
  ASSUME Inductive, UNCHANGED vars
  PROVE  Inductive'
BY DEF vars, Inductive, TypeOK, OneLiveWorker, GateHasWorker, PillIsLast, OnePlace,
       AnswersMatch, CutIsExact, Unbegun, Queued, HeldAt, Alive

(* The inductive invariant holds of every behaviour. *)
THEOREM InductiveInvariant == Spec => []Inductive
<1>1. Init => Inductive
  BY InitInductive
<1>2. Inductive /\ [Next]_vars => Inductive'
  <2> SUFFICES ASSUME Inductive, [Next]_vars
               PROVE  Inductive'
    OBVIOUS
  <2>1. CASE \E e \in Events : Submit(e) \/ Return(e)
    BY <2>1, SubmitInductive, ReturnInductive
  <2>2. CASE \E w \in Workers : WorkerStep(w) \/ StartNew(w)
    BY <2>2, GetInductive, CheckInductive, HandleInductive, FinishInductive,
       StartNewInductive DEF WorkerStep
  <2>3. CASE RequestPause \/ Stop \/ Join \/ Clear
    BY <2>3, RequestPauseInductive, StopInductive, JoinClearInductive
  <2>4. CASE StartAlive \/ UNCHANGED vars
    BY <2>4, StutterInductive DEF StartAlive
  <2> QED
    BY <2>1, <2>2, <2>3, <2>4 DEF Next
<1> QED
  BY <1>1, <1>2, PTL DEF Spec

(* Type correctness of the event loop. *)
THEOREM TypeCorrect == Spec => []TypeOK
<1>1. Inductive => TypeOK
  BY DEF Inductive
<1> QED
  BY <1>1, InductiveInvariant, PTL

(* Two handlers never run at once, for any number of worker threads that   *)
(* starts and stops create (events.py:67-117).                             *)
THEOREM HandlersAreSerial == Spec => []OneHandler
<1>1. Inductive => OneHandler
  BY DEF Inductive, OneLiveWorker, OneHandler, Alive, AlivePC
<1> QED
  BY <1>1, InductiveInvariant, PTL

(* No caller of submit is stranded behind a poison pill or a dead worker   *)
(* (events.py:104-124).                                                    *)
THEOREM NoCallerStranded == Spec => []NoStrandedCaller
<1>1. Inductive => NoStrandedCaller
  <2> SUFFICES ASSUME Inductive, NEW e \in Events, call[e] = "waiting", e \notin completed
               PROVE  \E w \in Workers :
                        /\ Alive(w)
                        /\ \/ held[w] = e
                           \/ \E i \in 1..Len(queue) :
                                queue[i] = e /\ \A j \in 1..i : queue[j] # Poison
    BY DEF NoStrandedCaller
  <2> USE EventLoopAssumption DEF Inductive
  <2>1. CASE HeldAt(e, {"check", "handle", "finish"})
    BY <2>1 DEF HeldAt, Alive, AlivePC
  <2>2. CASE Queued(e)
    <3>1. PICK i \in 1..Len(queue) : queue[i] = e
      BY <2>2 DEF Queued
    <3>2. queue # <<>> /\ thread \in Workers /\ Alive(thread)
      BY <3>1 DEF PillIsLast, TypeOK
    <3>3. ASSUME NEW j \in 1..i, queue[j] = Poison
          PROVE  FALSE
      <4>1. Len(queue) \in Nat /\ j \in 1..Len(queue)
        BY <3>1 DEF TypeOK
      <4>2. j = Len(queue)
        BY <3>3, <4>1 DEF PillIsLast
      <4> QED
        BY <3>1, <3>3, <4>1, <4>2
    <3> QED
      BY <3>1, <3>2, <3>3
  <2> QED
    BY <2>1, <2>2 DEF AnswersMatch
<1> QED
  BY <1>1, InductiveInvariant, PTL

(* Work that was waiting when the gate closed is never run, not even by a   *)
(* worker that a later start creates (events.py:86-90, 119-122).            *)
THEOREM CutWorkStaysUnrun == Spec => []CutWorkNeverRuns
<1>1. Inductive => CutWorkNeverRuns
  BY DEF Inductive, CutIsExact, CutWorkNeverRuns
<1> QED
  BY <1>1, InductiveInvariant, PTL

(* All of it at once, for any number of events and worker threads.          *)
THEOREM LoopSound == Spec => []LoopIsSound
  BY TypeCorrect, HandlersAreSerial, NoCallerStranded, CutWorkStaysUnrun, PTL DEF LoopIsSound

(* An answer whose caller was woken is never rewritten (events.py:90-100). *)
THEOREM AnswersAreFinal == Spec => AnswerIsFinal
<1>1. Inductive /\ [Next]_vars =>
        [\A e \in completed : e \in completed' /\ outcome'[e] = outcome[e] /\ outcome[e] # "none"]_vars
  <2> SUFFICES ASSUME Inductive, [Next]_vars, NEW e \in completed
               PROVE  e \in completed' /\ outcome'[e] = outcome[e] /\ outcome[e] # "none"
    OBVIOUS
  <2> USE DEF Inductive
  <2>1. e \in Events /\ outcome[e] # "none"
    BY DEF TypeOK, AnswersMatch
  <2>2. \A w \in Workers : pc[w] \in {"check", "handle", "finish"} => held[w] # e
    BY DEF OnePlace
  <2>3. CASE \E w \in Workers : WorkerStep(w)
    BY <2>1, <2>2, <2>3 DEF WorkerStep, Get, Check, Handle, Finish, TypeOK
  <2>4. CASE UNCHANGED <<completed, outcome>>
    BY <2>1, <2>4
  <2> QED
    BY <2>3, <2>4 DEF Next, vars, Submit, Return, StartNew, RequestPause, StartAlive, Stop, Join, Clear
<1> QED
  BY <1>1, InductiveInvariant, PTL DEF AnswerIsFinal, Spec

----------------------------------------------------------------------------
(* One event changes its phase and the gate does not move. *)
LEMMA OneMove ==
  ASSUME NEW e \in Events, NEW from, NEW to, Phase(e) = from, Phase(e)' = to,
         \A x \in Events : x # e => Phase(x)' = Phase(x), accepting' = accepting
  PROVE  Gate!Move(e, from, to)
BY DEF Gate!Move

LEMMA NoMove ==
  ASSUME \A x \in Events : Phase(x)' = Phase(x), accepting' = accepting
  PROVE  UNCHANGED Gate!vars
BY DEF Gate!vars

(* What is pending is exactly what has not begun and was not cut. *)
LEMMA PendingIsUnbegun ==
  ASSUME Inductive, NEW e \in Events
  PROVE  /\ Unbegun(e) => Phase(e) = IF e \in cut THEN "doomed" ELSE "pending"
         /\ Phase(e) = "pending" => Unbegun(e)
<1> USE DEF Inductive
<1>1. Unbegun(e) => call[e] = "waiting" /\ outcome[e] = "none" /\ ~HeldAt(e, {"handle"})
  BY DEF OnePlace, OneLiveWorker, Unbegun, HeldAt, Alive, AlivePC
<1>2. Phase(e) = "pending" => call[e] = "waiting" /\ outcome[e] = "none" /\ ~HeldAt(e, {"handle"})
  <2>1. call[e] = "returned" => outcome[e] # "none"
    BY DEF AnswersMatch
  <2> QED
    BY <2>1 DEF Phase, TypeOK
<1>3. call[e] = "waiting" /\ outcome[e] = "none" /\ ~HeldAt(e, {"handle"}) => Unbegun(e)
  BY DEF AnswersMatch, OnePlace, Unbegun, HeldAt
<1> QED
  BY <1>1, <1>2, <1>3 DEF Phase

(* Lowering the gate dooms what is pending. *)
LEMMA CloseRefines ==
  ASSUME Inductive, CloseGate, UNCHANGED <<pc, held, call, outcome>>
  PROVE  Gate!Close
<1>1. \A e \in Events : HeldAt(e, {"handle"})' <=> HeldAt(e, {"handle"})
  BY DEF HeldAt
<1>2. ASSUME NEW e \in Events
      PROVE  Phase(e)' = IF Phase(e) = "pending" THEN "doomed" ELSE Phase(e)
  <2>1. CASE Unbegun(e)
    <3>1. e \in cut' /\ call[e] = "waiting" /\ outcome[e] = "none" /\ ~HeldAt(e, {"handle"})
      BY <2>1 DEF CloseGate, Inductive, OnePlace, OneLiveWorker, Unbegun, HeldAt, Alive, AlivePC
    <3> QED
      BY <1>1, <2>1, <3>1, PendingIsUnbegun DEF Phase
  <2>2. CASE ~Unbegun(e)
    <3>1. e \in cut' <=> e \in cut
      BY <2>2 DEF CloseGate
    <3>2. Phase(e)' = Phase(e)
      BY <1>1, <3>1 DEF Phase
    <3> QED
      BY <2>2, <3>2, PendingIsUnbegun
  <2> QED
    BY <2>1, <2>2
<1> QED
  BY <1>2 DEF Gate!Close, CloseGate

LEMMA SubmitRefines ==
  ASSUME Inductive, NEW e \in Events, Submit(e)
  PROVE  Gate!Accept(e) \/ Gate!Refuse(e)
<1>1. /\ call[e] = "new" /\ outcome[e] = "none" /\ e \notin cut /\ ~HeldAt(e, {"handle"})
      /\ call \in [Events -> {"new", "waiting", "returned", "refused"}]
  BY DEF Inductive, AnswersMatch, CutIsExact, OnePlace, HeldAt, TypeOK, Submit
<1>2. \A x : HeldAt(x, {"handle"})' <=> HeldAt(x, {"handle"})
  BY DEF HeldAt, Submit
<1>3. \A x \in Events : x # e => Phase(x)' = Phase(x)
  BY <1>1, <1>2 DEF Phase, Submit
<1>4. Phase(e) = "new"
  BY <1>1 DEF Phase
<1>5. CASE CanSubmit
  <2>1. Phase(e)' = "pending"
    BY <1>1, <1>2, <1>5 DEF Phase, Submit
  <2>2. Gate!Move(e, "new", "pending")
    BY <1>3, <1>4, <2>1, OneMove DEF Submit
  <2> QED
    BY <1>5, <2>2 DEF Gate!Accept, CanSubmit
<1>6. CASE ~CanSubmit
  <2>1. Phase(e)' = "refused"
    BY <1>1, <1>6 DEF Phase, Submit
  <2>2. Gate!Move(e, "new", "refused")
    BY <1>3, <1>4, <2>1, OneMove DEF Submit
  <2> QED
    BY <1>6, <2>2 DEF Gate!Refuse, CanSubmit, Inductive, GateHasWorker
<1> QED
  BY <1>5, <1>6

LEMMA CheckRefines ==
  ASSUME Inductive, NEW w \in Workers, Check(w)
  PROVE  \E e \in Events : Gate!Begin(e) \/ Gate!Reject(e)
<1>1. PICK e \in Events : e = held[w]
  BY DEF Inductive, OnePlace, Check
<1>2. Unbegun(e) /\ call[e] = "waiting" /\ outcome[e] = "none" /\ (e \in cut <=> ~accepting)
  BY <1>1 DEF Inductive, OnePlace, CutIsExact, Unbegun, HeldAt, Check
<1>3. Phase(e) = IF accepting THEN "pending" ELSE "doomed"
  BY <1>2, PendingIsUnbegun
<1>4. \A v \in Workers : pc[v] # "handle"
  BY DEF Inductive, OneLiveWorker, Alive, AlivePC, Check
<1>5. \A x \in Events : ~HeldAt(x, {"handle"})
  BY <1>4 DEF HeldAt
<1>6. CASE accepting
  <2>1. pc' = [pc EXCEPT ![w] = "handle"] /\ UNCHANGED <<held, call, outcome, accepting, cut>>
    BY <1>6 DEF Check
  <2>2. \A x \in Events : HeldAt(x, {"handle"})' <=> x = e
    BY <1>1, <1>4, <2>1 DEF HeldAt, Inductive, TypeOK
  <2>3. Phase(e)' = "running"
    BY <1>2, <2>1, <2>2 DEF Phase
  <2>4. \A x \in Events : x # e => Phase(x)' = Phase(x)
    BY <1>5, <2>1, <2>2 DEF Phase
  <2>5. Gate!Move(e, "pending", "running")
    BY <1>3, <1>6, <2>1, <2>3, <2>4, OneMove
  <2>6. \A x \in Events : Phase(x) # "running"
    BY <1>5 DEF Phase
  <2> QED
    BY <1>6, <2>5, <2>6 DEF Gate!Begin, Gate!Running
<1>7. CASE ~accepting
  <2>1. /\ pc' = [pc EXCEPT ![w] = "finish"]
        /\ outcome' = [outcome EXCEPT ![e] = "error"]
        /\ UNCHANGED <<held, call, accepting, cut>>
    BY <1>1, <1>7 DEF Check
  <2>2. \A x \in Events : ~HeldAt(x, {"handle"})'
    BY <1>4, <2>1 DEF HeldAt, Inductive, TypeOK
  <2>3. Phase(e)' = "failed"
    BY <1>2, <2>1 DEF Phase, Inductive, TypeOK
  <2>4. \A x \in Events : x # e => Phase(x)' = Phase(x)
    BY <1>5, <2>1, <2>2 DEF Phase, Inductive, TypeOK
  <2>5. Gate!Move(e, "doomed", "failed")
    BY <1>3, <1>7, <2>1, <2>3, <2>4, OneMove
  <2> QED
    BY <2>5 DEF Gate!Reject
<1> QED
  BY <1>6, <1>7

LEMMA HandleRefines ==
  ASSUME Inductive, NEW w \in Workers, Handle(w)
  PROVE  \E e \in Events : Gate!End(e)
<1>1. PICK e \in Events : e = held[w]
  BY DEF Inductive, OnePlace, Handle
<1>2. call[e] = "waiting" /\ outcome[e] = "none" /\ HeldAt(e, {"handle"})
  BY <1>1 DEF Inductive, OnePlace, HeldAt, Handle
<1>3. PICK r \in {"result", "error"} : outcome' = [outcome EXCEPT ![e] = r]
  BY <1>1 DEF Handle
<1>4. \A v \in Workers : pc[v] = "handle" => v = w
  BY DEF Inductive, OneLiveWorker, Alive, AlivePC, Handle
<1>5. pc' = [pc EXCEPT ![w] = "finish"] /\ UNCHANGED <<held, call, accepting, cut>>
  BY DEF Handle
<1>6. \A x \in Events : x # e => (HeldAt(x, {"handle"})' <=> HeldAt(x, {"handle"}))
  BY <1>1, <1>4, <1>5 DEF HeldAt, Inductive, TypeOK
<1>7. \A x \in Events : x # e => Phase(x)' = Phase(x)
  BY <1>3, <1>5, <1>6 DEF Phase, Inductive, TypeOK
<1>8. Phase(e) = "running"
  BY <1>2 DEF Phase
<1>9. CASE r = "result"
  <2>1. Phase(e)' = "done"
    BY <1>2, <1>3, <1>5, <1>9 DEF Phase, Inductive, TypeOK
  <2> QED
    BY <1>5, <1>7, <1>8, <2>1, OneMove DEF Gate!End
<1>10. CASE r = "error"
  <2>1. Phase(e)' = "failed"
    BY <1>2, <1>3, <1>5, <1>10 DEF Phase, Inductive, TypeOK
  <2> QED
    BY <1>5, <1>7, <1>8, <2>1, OneMove DEF Gate!End
<1> QED
  BY <1>9, <1>10

(* Steps of the queue's own machinery that the gate does not see. *)
LEMMA HiddenSteps ==
  ASSUME Inductive,
         \/ \E w \in Workers : Get(w) \/ Finish(w)
         \/ \E e \in Events : Return(e)
         \/ Join \/ Clear \/ StartAlive \/ UNCHANGED vars
  PROVE  UNCHANGED Gate!vars
<1>1. CASE \E w \in Workers : Get(w) \/ Finish(w)
  <2>1. \A x : HeldAt(x, {"handle"})' <=> HeldAt(x, {"handle"})
    BY <1>1 DEF HeldAt, Get, Finish, Inductive, TypeOK, OneLiveWorker, Alive, AlivePC
  <2> QED
    BY <1>1, <2>1, NoMove DEF Phase, Get, Finish
<1>2. CASE \E e \in Events : Return(e)
  <2>1. \A x : HeldAt(x, {"handle"})' <=> HeldAt(x, {"handle"})
    BY <1>2 DEF HeldAt, Return
  <2>2. PICK e \in Events : Return(e)
    BY <1>2
  <2>3. outcome[e] \in {"result", "error"}
    BY <2>2 DEF Return, Inductive, AnswersMatch, TypeOK
  <2> QED
    BY <2>1, <2>2, <2>3, NoMove DEF Phase, Return, Inductive, TypeOK
<1>3. CASE Join \/ Clear \/ StartAlive \/ UNCHANGED vars
  <2>1. \A x : HeldAt(x, {"handle"})' <=> HeldAt(x, {"handle"})
    BY <1>3 DEF HeldAt, Join, Clear, StartAlive, vars
  <2> QED
    BY <1>3, <2>1, NoMove DEF Phase, Join, Clear, StartAlive, vars
<1> QED
  BY <1>1, <1>2, <1>3

(* The loop implements the gate: serial execution, and a pause that dooms  *)
(* every event it finds queued (events.py:67-122).                         *)
THEOREM LoopImplementsGate == Spec => ImplementsGate
<1>1. Init => Gate!Init
  BY DEF Init, Gate!Init, Phase
<1>2. Inductive /\ [Next]_vars => [Gate!Next]_(Gate!vars)
  <2> SUFFICES ASSUME Inductive, [Next]_vars
               PROVE  Gate!Next \/ UNCHANGED Gate!vars
    OBVIOUS
  <2>1. CASE \E e \in Events : Submit(e)
    BY <2>1, SubmitRefines DEF Gate!Next
  <2>2. CASE \E w \in Workers : Check(w)
    BY <2>2, CheckRefines DEF Gate!Next
  <2>3. CASE \E w \in Workers : Handle(w)
    BY <2>3, HandleRefines DEF Gate!Next
  <2>4. CASE RequestPause \/ Stop
    <3>1. CloseGate /\ UNCHANGED <<pc, held, call, outcome>>
      BY <2>4 DEF RequestPause, Stop
    <3> QED
      BY <3>1, CloseRefines DEF Gate!Next
  <2>5. CASE \E w \in Workers : StartNew(w)
    <3>1. PICK w \in Workers : StartNew(w)
      BY <2>5
    <3>2. \A x : HeldAt(x, {"handle"})' <=> HeldAt(x, {"handle"})
      BY <3>1 DEF HeldAt, StartNew, Inductive, TypeOK
    <3>3. \A x \in Events : Phase(x)' = Phase(x)
      BY <3>1, <3>2 DEF Phase, StartNew
    <3>4. Gate!Open
      BY <3>1, <3>3 DEF Gate!Open, StartNew
    <3> QED
      BY <3>4 DEF Gate!Next
  <2>6. CASE \/ \E w \in Workers : Get(w) \/ Finish(w)
             \/ \E e \in Events : Return(e)
             \/ Join \/ Clear \/ StartAlive \/ UNCHANGED vars
    BY <2>6, HiddenSteps
  <2> QED
    BY <2>1, <2>2, <2>3, <2>4, <2>5, <2>6 DEF Next, WorkerStep
<1> QED
  BY <1>1, <1>2, InductiveInvariant, PTL DEF Spec, ImplementsGate, Gate!Spec
=============================================================================
