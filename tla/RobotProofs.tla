----------------------------- MODULE RobotProofs -----------------------------
(***************************************************************************)
(* Proofs about the robot's life under the console, for any number of      *)
(* console requests and generations, with or without faults, and whether   *)
(* or not a plugin's stop() waits for its worker.                          *)
(***************************************************************************)
EXTENDS Robot, FiniteSetTheorems, TLAPS

(* A request is counted when it asked for a reconcile, once. *)
Asked == {s \in Savers : saver[s].pc = "done"}
RequestsCounted == requests = Cardinality(Asked) /\ thread.seen <= requests

(* The robot in self._events is the newest one; while the manager takes a  *)
(* robot down there is none, and it is the newest one that goes.           *)
Stopping == {"stop", "join", "drain"}
NewestIsCurrent ==
  /\ events # 0 => events = last
  /\ op.pc \in {"free", "close"} => op.old = 0
  /\ op.pc \in Stopping \cup {"shut", "read", "build"} => events = 0
  /\ op.pc \in Stopping \cup {"shut"} /\ op.old # 0 => op.old = last

(* A robot that is neither the manager's own nor on its way down has shut   *)
(* its gate, has answered all its events and was told to stop; only such a *)
(* robot has its engine closed.                                            *)
Leaving(g) == g = op.old /\ op.pc \in Stopping
FormerIsAtRest ==
  \A g \in Gens :
    /\ g > last => rob[g] = Unborn
    /\ rob[g].req # "none" => rob[g].pc \in Stages
    /\ rob[g].accepting => g = events
    /\ rob[g].req \in {"queued", "taken", "handling"} => g = events \/ Leaving(g)
    /\ rob[g].closed => g # events /\ ~Leaving(g)
    /\ g <= last /\ ~rob[g].stop => g = events \/ (g = op.old /\ op.pc = "stop")

Inductive == TypeOK /\ RequestsCounted /\ NewestIsCurrent /\ FormerIsAtRest /\ NoRequestIsLost

(* With one save at a time, the recorded pause is what the last request to *)
(* save wants, once it has recorded it - or nobody ever saved, the robot   *)
(* was paused before the start, and none was ever built.                   *)
Saving(s) == saver[s].pc \in {"wrote", "recorded"}
NeverSaved ==
  /\ choice = "robot" /\ \A s \in Savers : saver[s].pc = "idle"
  /\ last = 0 /\ op.pc # "build"
PauseIsRecorded ==
  /\ \A s, t \in Savers : Saving(s) /\ Saving(t) => s = t
  /\ \A s \in Savers : Saving(s) => choice = saver[s].wants
  /\ \A s \in Savers : saver[s].pc = "recorded" => (pauseReq <=> choice = "robot")
  /\ Quiet => (pauseReq <=> choice = "robot") \/ (~pauseReq /\ NeverSaved)

----------------------------------------------------------------------------
LEMMA Numbers == MaxGen \in Nat /\ MaxSync \in Nat /\ Cardinality(Savers) \in Nat /\ IsFiniteSet(Savers)
BY RobotAssumption, FS_CardinalityType

LEMMA InitInductive == Init => Inductive
<1> SUFFICES ASSUME Init PROVE Inductive
  OBVIOUS
<1> USE Numbers
<1>1. TypeOK
  <2>1. Unborn \in Robots
    BY DEF Unborn, Robots
  <2>2. saver \in [Savers -> Requests] /\ rob \in [Gens -> Robots]
    BY <2>1 DEF Init, Requests, Choices
  <2>3. thread \in Threads /\ op \in Ops
    BY DEF Init, Threads, Ops
  <2> QED
    <3>1. choice \in Choices /\ ready \in BOOLEAN /\ pauseReq \in BOOLEAN
      BY DEF Init
    <3>2. stale \in BOOLEAN /\ down \in BOOLEAN /\ aborted \in BOOLEAN
      BY DEF Init
    <3>3. requests \in 0..Cardinality(Savers) /\ syncs \in 0..MaxSync /\ between \in Nat
      BY DEF Init
    <3>4. events \in 0..MaxGen /\ last \in 0..MaxGen
      BY DEF Init
    <3>5. retry \in {"none", "armed", "firing"}
      BY DEF Init
    <3> QED
    BY <2>2, <2>3, <3>1, <3>2, <3>3, <3>4, <3>5 DEF TypeOK
<1>2. RequestsCounted
  <2>1. Asked = {}
    BY DEF Init, Asked
  <2> QED
    BY <2>1, FS_EmptySet DEF Init, RequestsCounted
<1>3. NewestIsCurrent /\ FormerIsAtRest /\ NoRequestIsLost
  BY DEF Init, NewestIsCurrent, FormerIsAtRest, NoRequestIsLost, Unborn, Stopping, Gens, Leaving
<1> QED
  BY <1>1, <1>2, <1>3 DEF Inductive

(* Steps that leave the requests and what the thread read of them alone. *)
LEMMA CountKept ==
  ASSUME RequestsCounted, UNCHANGED <<saver, requests>>, thread'.seen = thread.seen
  PROVE  RequestsCounted'
BY DEF RequestsCounted, Asked

----------------------------------------------------------------------------
(* ---- One group of steps at a time ---- *)
LEMMA ConsoleSteps == ASSUME Inductive, Console PROVE Inductive'
<1> USE Numbers DEF Inductive
<1>1. PICK s \in Savers : (\E c \in Choices : SaveControl(s, c)) \/ RecordSavedPause(s) \/ ReconcileAsync(s)
  BY DEF Console
<1>2. CASE \E c \in Choices : SaveControl(s, c)
  <2>1. PICK c \in Choices : SaveControl(s, c)
    BY <1>2
  <2>2. TypeOK'
    BY <2>1 DEF TypeOK, SaveControl, managerVars, Requests
  <2>3. Asked' = Asked
    BY <2>1 DEF SaveControl, Asked, TypeOK
  <2> QED
    BY <2>1, <2>2, <2>3 DEF SaveControl, managerVars, RequestsCounted, NewestIsCurrent, FormerIsAtRest,
                            NoRequestIsLost, Leaving
<1>3. CASE RecordSavedPause(s)
  <2>1. rob \in [Gens -> Robots] /\ events \in 0..MaxGen
    BY DEF TypeOK
  <2>2. /\ rob' \in [Gens -> Robots]
        /\ \A g \in Gens : \/ rob'[g] = rob[g]
                           \/ g = events /\ rob'[g] = [rob[g] EXCEPT !.accepting = FALSE]
    BY <1>3, <2>1 DEF TypeOK, RecordSavedPause, Gens, Robots
  <2>3. saver' \in [Savers -> Requests] /\ Asked' = Asked
    BY <1>3 DEF TypeOK, RecordSavedPause, Asked, Requests
  <2>4. TypeOK'
    BY <1>3, <2>2, <2>3 DEF TypeOK, RecordSavedPause, managerVars, Robots, Requests
  <2>5. FormerIsAtRest'
    <3>1. events = 0 \/ events = last
      BY DEF NewestIsCurrent
    <3>2. UNCHANGED <<events, last, op>> /\ last \in 0..MaxGen
      BY <1>3 DEF RecordSavedPause, managerVars, TypeOK
    <3>3. ASSUME NEW g \in Gens, g = events, rob'[g] = [rob[g] EXCEPT !.accepting = FALSE]
          PROVE  ~(g > last) /\ rob'[g].req = rob[g].req /\ rob'[g].pc = rob[g].pc /\ ~rob'[g].accepting
                 /\ rob'[g].closed = rob[g].closed
      BY <2>1, <3>1, <3>2, <3>3 DEF Robots, Gens
    <3> QED
      BY <2>2, <3>2, <3>3 DEF FormerIsAtRest, Leaving
  <2> QED
    BY <1>3, <2>3, <2>4, <2>5 DEF RecordSavedPause, managerVars, RequestsCounted, NewestIsCurrent, NoRequestIsLost
<1>4. CASE ReconcileAsync(s)
  <2>1. saver' \in [Savers -> Requests] /\ thread' \in Threads /\ s \notin Asked /\ Asked' = Asked \cup {s}
    BY <1>4 DEF TypeOK, ReconcileAsync, Asked, Requests, Threads, Choices
  <2>2. IsFiniteSet(Asked) /\ IsFiniteSet(Asked') /\ Cardinality(Asked') <= Cardinality(Savers)
    BY <2>1, FS_Subset DEF Asked
  <2>3. Cardinality(Asked') = Cardinality(Asked) + 1
    BY <2>1, <2>2, FS_AddElement
  <2>4. RequestsCounted' /\ requests' \in 0..Cardinality(Savers)
    BY <1>4, <2>2, <2>3 DEF TypeOK, ReconcileAsync, RequestsCounted, Threads
  <2>5. TypeOK'
    BY <1>4, <2>1, <2>4 DEF TypeOK, ReconcileAsync, Threads, Requests
  <2>6. NoRequestIsLost'
    BY <1>4 DEF TypeOK, ReconcileAsync, NoRequestIsLost, Threads
  <2> QED
    BY <1>4, <2>4, <2>5, <2>6 DEF ReconcileAsync, NewestIsCurrent, FormerIsAtRest, Leaving
<1> QED
  BY <1>1, <1>2, <1>3, <1>4

(* The background thread, the timer and the environment, outside the lock. *)
LEMMA OutsideSteps ==
  ASSUME Inductive, Look \/ Judge \/ RetryFire \/ RetryStale \/ SyncRaises \/ Readiness
  PROVE  Inductive'
<1> USE Numbers DEF Inductive
<1>1. UNCHANGED <<saver, requests, rob, op, events, last, choice, pauseReq, syncs>>
  BY DEF Look, Judge, RetryFire, RetryStale, SyncRaises, Readiness, consoleVars, managerVars
<1>2. NewestIsCurrent' /\ FormerIsAtRest'
  BY <1>1 DEF NewestIsCurrent, FormerIsAtRest, Leaving
<1>3. thread' \in Threads /\ RequestsCounted' /\ NoRequestIsLost'
  <2>1. CASE Look \/ Judge
    BY <1>1, <2>1 DEF TypeOK, Look, Judge, RequestsCounted, Asked, NoRequestIsLost, Threads
  <2>2. CASE RetryFire \/ RetryStale \/ SyncRaises \/ Readiness
    <3>1. thread' = thread
      BY <2>2 DEF RetryFire, RetryStale, SyncRaises, Readiness, managerVars
    <3> QED
      BY <1>1, <3>1, CountKept DEF TypeOK, NoRequestIsLost
  <2> QED
    BY <2>1, <2>2
<1>5. between' \in Nat /\ aborted' \in BOOLEAN
  <2>1. CASE SyncRaises
    BY <2>1 DEF SyncRaises, TypeOK
  <2>2. CASE Look \/ Judge \/ RetryFire \/ RetryStale \/ Readiness
    BY <2>2 DEF TypeOK, Look, Judge, RetryFire, RetryStale, Readiness, consoleVars, managerVars
  <2> QED
    BY <2>1, <2>2
<1>6. /\ ready' \in BOOLEAN /\ retry' \in {"none", "armed", "firing"}
      /\ stale' \in BOOLEAN /\ down' \in BOOLEAN
  BY DEF TypeOK, Look, Judge, RetryFire, RetryStale, SyncRaises, Readiness, managerVars
<1>4. TypeOK'
  BY <1>1, <1>3, <1>5, <1>6 DEF TypeOK
<1> QED
  BY <1>2, <1>3, <1>4

LEMMA AcquireSteps ==
  ASSUME Inductive, AcquireAsync \/ AcquireStop \/ SyncStop \/ SyncReconcile \/ RetryStart
  PROVE  Inductive'
<1> USE Numbers DEF Inductive
<1>1. /\ UNCHANGED <<choice, ready, saver, pauseReq, requests, aborted, events, last, rob>>
      /\ op.pc = "free" /\ op'.pc = "close" /\ op'.old = op.old /\ retry' = "none"
      /\ op' \in Ops
  BY DEF TypeOK, AcquireAsync, AcquireStop, SyncStop, SyncReconcile, RetryStart, Acquire, Ops
<1>2. /\ thread' \in Threads /\ thread'.seen = thread.seen
      /\ thread'.pc = "none" => thread.pc = "none"
  BY DEF TypeOK, AcquireAsync, AcquireStop, SyncStop, SyncReconcile, RetryStart, Threads
<1>3. syncs' \in 0..MaxSync /\ between' \in Nat /\ down' \in BOOLEAN /\ stale' \in BOOLEAN
  <2>1. syncs' \in 0..MaxSync /\ between' \in Nat
    BY DEF TypeOK, AcquireAsync, AcquireStop, SyncStop, SyncReconcile, RetryStart
  <2>3. down' \in BOOLEAN
    BY DEF TypeOK, AcquireAsync, AcquireStop, SyncStop, SyncReconcile, RetryStart
  <2>2. stale' \in BOOLEAN
    <3>1. Cancelled => stale' \in BOOLEAN
      BY DEF Cancelled
    <3> QED
      BY <3>1 DEF TypeOK, AcquireAsync, AcquireStop, SyncStop, SyncReconcile, RetryStart
  <2> QED
    BY <2>1, <2>2, <2>3
<1>4. TypeOK'
  BY <1>1, <1>2, <1>3 DEF TypeOK, Ops, Threads
<1> QED
  BY <1>1, <1>2, <1>4, CountKept DEF NewestIsCurrent, FormerIsAtRest, Leaving, NoRequestIsLost, Stopping

(* Taking the robot down, one step each. *)
LEMMA CloseGateStep == ASSUME Inductive, CloseGate PROVE Inductive'
<1> USE Numbers DEF Inductive
<1>1. /\ UNCHANGED <<choice, ready, pauseReq, saver, requests, syncs, between, thread, retry, stale, down,
                     aborted, last>>
      /\ op.pc = "close" /\ op'.pc = "stop" /\ op'.old = events /\ op' \in Ops /\ events' = 0
  BY DEF CloseGate, consoleVars, TypeOK, Ops
<1>2. /\ rob' \in [Gens -> Robots]
      /\ \A g \in Gens :
           /\ rob'[g].pc = rob[g].pc /\ rob'[g].req = rob[g].req /\ rob'[g].stop = rob[g].stop
           /\ rob'[g].closed = rob[g].closed
           /\ g = events => ~rob'[g].accepting
           /\ g # events => rob'[g] = rob[g]
  <2>1. rob \in [Gens -> Robots]
    BY DEF TypeOK
  <2>2. CASE events = 0
    BY <2>1, <2>2 DEF CloseGate, Gens
  <2>3. CASE events # 0
    BY <2>1, <2>3 DEF CloseGate, Robots
  <2> QED
    BY <2>2, <2>3
<1>3. events = 0 \/ events = last
  BY DEF NewestIsCurrent
<1>4. TypeOK'
  BY <1>1, <1>2 DEF TypeOK
<1>5. NewestIsCurrent'
  BY <1>1, <1>3 DEF NewestIsCurrent, Stopping
<1>6. FormerIsAtRest'
  BY <1>1, <1>2, <1>3 DEF FormerIsAtRest, NewestIsCurrent, Leaving, Stopping, Gens, TypeOK
<1> QED
  BY <1>1, <1>4, <1>5, <1>6, CountKept DEF NoRequestIsLost

LEMMA StopRuntimeStep == ASSUME Inductive, StopRuntime PROVE Inductive'
<1> USE Numbers DEF Inductive
<1>1. /\ UNCHANGED <<choice, ready, pauseReq, saver, requests, syncs, between, thread, retry, stale, down, aborted,
                     events, last>>
      /\ op.pc = "stop" /\ op'.pc = "join" /\ op'.old = op.old /\ op' \in Ops
  BY DEF StopRuntime, Step, consoleVars, TypeOK, Ops
<1>2. /\ rob' \in [Gens -> Robots]
      /\ \A g \in Gens :
           /\ rob'[g].pc = rob[g].pc /\ rob'[g].req = rob[g].req /\ rob'[g].accepting = rob[g].accepting
           /\ rob'[g].closed = rob[g].closed
           /\ g = op.old => rob'[g].stop
           /\ g # op.old => rob'[g] = rob[g]
  <2>1. rob \in [Gens -> Robots]
    BY DEF TypeOK
  <2>2. CASE op.old = 0
    BY <2>1, <2>2 DEF StopRuntime, Gens
  <2>3. CASE op.old # 0
    <3>1. rob' = [rob EXCEPT ![op.old] = [@ EXCEPT !.stop = TRUE, !.may = TRUE]]
      BY <2>1, <2>3 DEF StopRuntime
    <3>2. \A g \in Gens : rob[g] \in Robots
      BY <2>1
    <3>3. \A g \in Gens : [rob[g] EXCEPT !.stop = TRUE, !.may = TRUE] \in Robots
      BY <3>2 DEF Robots
    <3>4. /\ rob' \in [Gens -> Robots] /\ \A g \in Gens : g # op.old => rob'[g] = rob[g]
          /\ \A g \in Gens : g = op.old => rob'[g] = [rob[g] EXCEPT !.stop = TRUE, !.may = TRUE]
      BY <2>1, <3>1, <3>3
    <3>5. ASSUME NEW r \in Robots
          PROVE  LET q == [r EXCEPT !.stop = TRUE, !.may = TRUE]
                 IN  q.stop /\ q.pc = r.pc /\ q.req = r.req /\ q.accepting = r.accepting /\ q.closed = r.closed
      BY DEF Robots
    <3> QED
      BY <3>2, <3>4, <3>5
  <2> QED
    BY <2>2, <2>3
<1>3. TypeOK'
  BY <1>1, <1>2 DEF TypeOK
<1>4. NewestIsCurrent'
  BY <1>1 DEF NewestIsCurrent, Stopping
<1>5. FormerIsAtRest'
  BY <1>1, <1>2 DEF FormerIsAtRest, NewestIsCurrent, Leaving, Stopping, Gens, TypeOK
<1> QED
  BY <1>1, <1>3, <1>4, <1>5, CountKept DEF NoRequestIsLost

LEMMA JoinAndDrainSteps == ASSUME Inductive, JoinRuntime \/ Drain PROVE Inductive'
<1> USE Numbers DEF Inductive
<1>1. /\ UNCHANGED <<choice, ready, pauseReq, saver, requests, syncs, between, thread, retry, stale, down, aborted,
                     events, last, rob>>
      /\ op'.old = op.old /\ op' \in Ops
      /\ \/ op.pc = "join" /\ op'.pc = "drain"
         \/ /\ op.pc = "drain" /\ op'.pc = "shut"
            /\ op.old # 0 => rob[op.old].req \notin {"queued", "taken", "handling"}
  BY DEF JoinRuntime, Drain, Step, consoleVars, TypeOK, Ops
<1>2. TypeOK'
  BY <1>1 DEF TypeOK
<1>3. NewestIsCurrent'
  BY <1>1 DEF NewestIsCurrent, Stopping
<1>4. FormerIsAtRest'
  BY <1>1 DEF FormerIsAtRest, Leaving, Stopping, Gens
<1> QED
  BY <1>1, <1>2, <1>3, <1>4, CountKept DEF NoRequestIsLost

LEMMA ShutDownStep == ASSUME Inductive, ShutDown PROVE Inductive'
<1> USE Numbers DEF Inductive
<1>1. /\ UNCHANGED <<choice, ready, pauseReq, saver, requests, syncs, retry, stale, down, events, last>>
      /\ op.pc = "shut" /\ op' \in Ops
      /\ \/ op'.pc = "free" /\ op'.old = 0
         \/ op'.pc = "read" /\ op'.old = op.old
  BY DEF ShutDown, Release, consoleVars, TypeOK, Ops
<1>2. /\ rob' \in [Gens -> Robots]
      /\ \A g \in Gens :
           /\ rob'[g].pc = rob[g].pc /\ rob'[g].req = rob[g].req /\ rob'[g].accepting = rob[g].accepting
           /\ rob'[g].stop = rob[g].stop
           /\ g # op.old => rob'[g] = rob[g]
  <2>1. rob' = IF op.old # 0 THEN [rob EXCEPT ![op.old].closed = TRUE] ELSE rob
    BY DEF ShutDown
  <2>2. rob \in [Gens -> Robots]
    BY DEF TypeOK
  <2>3. CASE op.old = 0
    BY <2>1, <2>2, <2>3
  <2>4. CASE op.old # 0
    BY <2>1, <2>2, <2>4 DEF Robots
  <2> QED
    BY <2>3, <2>4
<1>3. /\ thread' \in Threads /\ thread'.seen = thread.seen
      /\ thread'.pc = "none" => thread.pc = "none"
  BY DEF ShutDown, AsyncDone, TypeOK, Threads
<1>7. between' \in Nat /\ aborted' \in BOOLEAN
  <2>1. between' \in Nat
    BY DEF ShutDown, TypeOK
  <2>2. aborted' \in BOOLEAN
    BY Zenon DEF ShutDown, TypeOK
  <2> QED
    BY <2>1, <2>2
<1>4. TypeOK'
  BY <1>1, <1>2, <1>3, <1>7 DEF TypeOK
<1>5. NewestIsCurrent'
  BY <1>1 DEF NewestIsCurrent, Stopping
<1>6. FormerIsAtRest'
  BY <1>1, <1>2 DEF FormerIsAtRest, NewestIsCurrent, Leaving, Stopping, Gens, TypeOK
<1> QED
  BY <1>1, <1>3, <1>4, <1>5, <1>6, CountKept DEF NoRequestIsLost

(* Bringing one up. *)
LEMMA UpSteps ==
  ASSUME Inductive, ReadChoice \/ LoadFails \/ BuildFails \/ Finish
  PROVE  Inductive'
<1> USE Numbers DEF Inductive
<1>1. /\ UNCHANGED <<choice, ready, pauseReq, saver, requests, syncs, between, stale, down, events, last, rob>>
      /\ op.pc \in {"read", "build", "finish"} /\ op' \in Ops
      /\ \/ op'.pc = "free" /\ op'.old = 0
         \/ op.pc = "read" /\ op'.pc \in {"build", "finish"} /\ op'.old = op.old
         \/ op.pc = "build" /\ op'.pc = "finish" /\ op'.old = op.old
  BY DEF ReadChoice, LoadFails, BuildFails, Finish, Step, Release, consoleVars, TypeOK, Ops
<1>2. /\ thread' \in Threads /\ thread'.seen = thread.seen
      /\ thread'.pc = "none" => thread.pc = "none"
  BY DEF ReadChoice, LoadFails, BuildFails, Finish, AsyncDone, TypeOK, Threads
<1>3. retry' \in {"none", "armed", "firing"} /\ aborted' \in BOOLEAN
  BY DEF ReadChoice, LoadFails, BuildFails, Finish, TypeOK
<1>4. TypeOK'
  BY <1>1, <1>2, <1>3 DEF TypeOK
<1>5. NewestIsCurrent'
  BY <1>1 DEF NewestIsCurrent, Stopping
<1>6. FormerIsAtRest'
  BY <1>1 DEF FormerIsAtRest, Leaving, Stopping
<1> QED
  BY <1>1, <1>2, <1>4, <1>5, <1>6, CountKept DEF NoRequestIsLost

LEMMA BuildStep == ASSUME Inductive, Build PROVE Inductive'
<1> USE Numbers DEF Inductive
<1>1. /\ UNCHANGED <<choice, ready, pauseReq, saver, requests, syncs, between, thread, retry, stale, down, aborted>>
      /\ op.pc = "build" /\ op'.pc = "finish" /\ op'.old = op.old /\ op' \in Ops
      /\ last' = last + 1 /\ events' = last' /\ last' \in Gens /\ events = 0
  <2>1. /\ op.pc = "build" /\ op'.pc = "finish" /\ op'.old = op.old /\ op' \in Ops
        /\ UNCHANGED <<choice, ready, pauseReq, saver, requests, syncs, between, thread, retry, stale, down, aborted>>
    BY DEF Build, Step, consoleVars, TypeOK, Ops
  <2>2. last \in 0..MaxGen /\ last < MaxGen /\ last' = last + 1 /\ events' = last'
    BY DEF Build, TypeOK
  <2> QED
    BY <2>1, <2>2 DEF Gens, NewestIsCurrent
<1>2. rob[last'] = Unborn
  BY <1>1 DEF FormerIsAtRest, TypeOK
<1>3. /\ rob' \in [Gens -> Robots]
      /\ rob'[last'] = [Unborn EXCEPT !.pc = "top", !.accepting = TRUE]
      /\ \A g \in Gens : g # last' => rob'[g] = rob[g]
  BY <1>1, <1>2 DEF Build, TypeOK, Robots, Unborn
<1>4. TypeOK'
  BY <1>1, <1>3 DEF TypeOK, Gens
<1>5. NewestIsCurrent'
  BY <1>1 DEF NewestIsCurrent, Stopping
<1>6. FormerIsAtRest'
  <2>1. ASSUME NEW g \in Gens, g # last'
        PROVE  rob'[g] = rob[g] /\ (g > last' => g > last) /\ (g <= last' => g <= last) /\ g # events'
    BY <1>1, <1>3, <2>1 DEF TypeOK, Gens
  <2>2. /\ rob'[last'].req = "none" /\ ~rob'[last'].closed
    BY <1>3 DEF Unborn
  <2> QED
    BY <1>1, <2>1, <2>2 DEF FormerIsAtRest, Leaving, Stopping, Gens
<1> QED
  BY <1>1, <1>4, <1>5, <1>6, CountKept DEF NoRequestIsLost

----------------------------------------------------------------------------
(* A worker or an event thread writes over its own generation: it touches   *)
(* neither gate nor stop nor engine, and lets an event in through an open   *)
(* gate only.                                                               *)
Lawful(g, r) ==
  /\ r \in Robots /\ rob[g] # Unborn
  /\ r.accepting = rob[g].accepting /\ r.stop = rob[g].stop /\ r.closed = rob[g].closed
  /\ r.req # "none" => r.pc \in Stages
  /\ r.req \in {"queued", "taken", "handling"} =>
       rob[g].accepting \/ rob[g].req \in {"queued", "taken", "handling"}

LEMMA WorkerKeeps ==
  ASSUME Inductive, NEW g \in Gens, NEW r, Worker(g, r), Lawful(g, r)
  PROVE  Inductive'
<1> USE Numbers DEF Inductive, Lawful
<1>1. UNCHANGED <<choice, ready, pauseReq, saver, requests, syncs, between, thread, op, retry, stale, down, aborted,
                     events, last>>
  BY DEF Worker, consoleVars, managerVars
<1>2. /\ rob' \in [Gens -> Robots] /\ rob'[g] = r
      /\ \A h \in Gens : h # g => rob'[h] = rob[h]
  BY DEF Worker, TypeOK
<1>3. TypeOK'
  BY <1>1, <1>2 DEF TypeOK
<1>4. NewestIsCurrent'
  BY <1>1 DEF NewestIsCurrent
<1>5. FormerIsAtRest'
  BY <1>1, <1>2 DEF FormerIsAtRest, Leaving
<1> QED
  BY <1>1, <1>3, <1>4, <1>5, CountKept DEF NoRequestIsLost

(* Each of their steps does that. *)
LEMMA Steps ==
  ASSUME Inductive, NEW g \in Gens, WorkerStep(g) \/ EventStep(g) \/ \E a \in BOOLEAN : Notify(g, a)
  PROVE  \E r : Worker(g, r) /\ Lawful(g, r)
<1>1. rob[g] \in Robots /\ (rob[g].req # "none" => rob[g].pc \in Stages)
  BY DEF Inductive, TypeOK, FormerIsAtRest
<1> USE <1>1 DEF Lawful, Robots, Stages, Unborn
<1>2. CASE Top(g)
  BY <1>2 DEF Top
<1>3. CASE Submit(g)
  BY <1>3 DEF Submit
<1>4. CASE Answer(g)
  <2>1. PICK to \in {"wait", "decide", "dead"} : Worker(g, [rob[g] EXCEPT !.req = "none", !.pc = to])
    BY <1>4 DEF Answer
  <2>2. Lawful(g, [rob[g] EXCEPT !.req = "none", !.pc = to])
    <3> DEFINE r == [rob[g] EXCEPT !.req = "none", !.pc = to]
    <3>1. rob[g].req # "none"
      BY <1>4 DEF Answer
    <3>2. r \in Robots
      OBVIOUS
    <3>3. r.req = "none" /\ r.accepting = rob[g].accepting /\ r.stop = rob[g].stop /\ r.closed = rob[g].closed
      OBVIOUS
    <3> QED
      BY <3>1, <3>2, <3>3
  <2> QED
    BY <2>1, <2>2
<1>5. CASE Wait(g)
  BY <1>5 DEF Wait
<1>6. CASE Hold(g)
  BY <1>6 DEF Hold
<1>7. CASE Take(g)
  BY <1>7 DEF Take
<1>8. CASE Begin(g)
  BY <1>8 DEF Begin
<1>9. CASE End(g)
  BY <1>9 DEF End
<1>10. CASE \E a \in BOOLEAN : Notify(g, a)
  BY <1>10 DEF Notify, Running
<1> QED
  BY <1>2, <1>3, <1>4, <1>5, <1>6, <1>7, <1>8, <1>9, <1>10 DEF WorkerStep, EventStep

LEMMA GenerationSteps == ASSUME Inductive, Generation PROVE Inductive'
<1>1. PICK g \in Gens : WorkerStep(g) \/ EventStep(g) \/ \E a \in BOOLEAN : Notify(g, a)
  BY DEF Generation
<1>2. PICK r : Worker(g, r) /\ Lawful(g, r)
  BY <1>1, Steps
<1> QED
  BY <1>2, WorkerKeeps

LEMMA NextInductive == Inductive /\ [Next]_vars => Inductive'
<1> SUFFICES ASSUME Inductive, [Next]_vars PROVE Inductive'
  OBVIOUS
<1>1. CASE Console
  BY <1>1, ConsoleSteps
<1>2. CASE Manager
  BY <1>2, OutsideSteps, AcquireSteps, CloseGateStep, StopRuntimeStep, JoinAndDrainSteps, ShutDownStep, UpSteps,
     BuildStep DEF Manager
<1>3. CASE Generation
  BY <1>3, GenerationSteps
<1>4. CASE Readiness
  BY <1>4, OutsideSteps
<1>5. CASE UNCHANGED vars
  BY <1>5 DEF vars, Inductive, TypeOK, RequestsCounted, Asked, NewestIsCurrent, FormerIsAtRest, Leaving,
              NoRequestIsLost
<1> QED
  BY <1>1, <1>2, <1>3, <1>4, <1>5 DEF Next

(* However requests, reconciles, timers, workers and faults interleave, the *)
(* invariant holds (controller.py:61-310).                                  *)
THEOREM InductiveInvariant == Spec => []Inductive
BY InitInductive, NextInductive, PTL DEF Spec

(* Every part of the manager's state keeps its type, and there are never    *)
(* more requests than console requests that asked.                          *)
THEOREM TypeCorrect == Spec => []TypeOK
<1>1. Inductive => TypeOK
  BY DEF Inductive
<1> QED
  BY <1>1, InductiveInvariant, PTL

(* No business handler runs beside a newer robot or on a closed engine,     *)
(* even when stop() gives up waiting for a worker (controller.py:78-102).   *)
THEOREM OneRobotTrades == Spec => []OneRobot
<1>1. Inductive => OneRobot
  BY DEF Inductive, OneRobot, FormerIsAtRest, NewestIsCurrent, Leaving, Stopping, Gens
<1> QED
  BY <1>1, InductiveInvariant, PTL

(* A worker nobody told to stop is the manager's own (controller.py:78-102). *)
THEOREM NoRobotLeaks == Spec => []NoLeakedRobot
<1>1. Inductive => NoLeakedRobot
  BY DEF Inductive, NoLeakedRobot, FormerIsAtRest, Running, TypeOK, Unborn, Gens
<1> QED
  BY <1>1, InductiveInvariant, PTL

(* A request made while the background thread works is seen by its last    *)
(* turn (controller.py:160-186).                                           *)
THEOREM RequestsAreFollowed == Spec => []NoRequestIsLost
<1>1. Inductive => NoRequestIsLost
  BY DEF Inductive
<1> QED
  BY <1>1, InductiveInvariant, PTL

----------------------------------------------------------------------------
(* ---- The recorded pause, with one save at a time ---- *)
LEMMA InitRecorded == Init => PauseIsRecorded
BY DEF Init, PauseIsRecorded, NeverSaved, Saving, Quiet

LEMMA PauseConsole ==
  ASSUME Inductive, PauseIsRecorded, ~Overlapping, Console
  PROVE  PauseIsRecorded'
<1> USE DEF Inductive, Saving
<1>1. PICK s \in Savers : (\E c \in Choices : SaveControl(s, c)) \/ RecordSavedPause(s) \/ ReconcileAsync(s)
  BY DEF Console
<1>2. saver \in [Savers -> Requests]
  BY DEF TypeOK
<1>3. CASE \E c \in Choices : SaveControl(s, c)
  <2>1. PICK c \in Choices : SaveControl(s, c)
    BY <1>3
  <2>2. /\ \A t \in Savers : t # s => saver'[t] = saver[t] /\ saver[t].pc \in {"idle", "done"}
        /\ saver'[s].pc = "wrote" /\ saver'[s].wants = c /\ choice' = c
    BY <1>2, <2>1 DEF SaveControl, Quiet
  <2> QED
    BY <2>2 DEF PauseIsRecorded, Quiet
<1>4. CASE RecordSavedPause(s)
  <2>1. /\ \A t \in Savers : t # s => saver'[t] = saver[t] /\ saver[t].pc \notin {"wrote", "recorded"}
        /\ saver[s].pc = "wrote" /\ saver'[s].pc = "recorded" /\ saver'[s].wants = saver[s].wants
        /\ choice' = choice /\ choice = saver[s].wants
        /\ pauseReq' <=> saver[s].wants = "robot"
    BY <1>2, <1>4 DEF RecordSavedPause, PauseIsRecorded, Requests
  <2> QED
    BY <2>1 DEF PauseIsRecorded, Quiet
<1>5. CASE ReconcileAsync(s)
  <2>1. /\ \A t \in Savers : t # s => saver'[t] = saver[t] /\ saver[t].pc \notin {"wrote", "recorded"}
        /\ saver[s].pc = "recorded" /\ saver'[s].pc = "done"
        /\ choice' = choice /\ pauseReq' = pauseReq /\ (pauseReq <=> choice = "robot")
    BY <1>2, <1>5 DEF ReconcileAsync, PauseIsRecorded, Requests
  <2> QED
    BY <2>1 DEF PauseIsRecorded, Quiet
<1> QED
  BY <1>1, <1>3, <1>4, <1>5

LEMMA PauseStep ==
  ASSUME Inductive, PauseIsRecorded, ~Overlapping, [Next]_vars
  PROVE  PauseIsRecorded'
<1>1. CASE Console
  BY <1>1, PauseConsole
<1>2. CASE ~Console
  <2>1. UNCHANGED <<saver, choice, pauseReq>>
    BY <1>2 DEF Next, Manager, Generation, WorkerStep, EventStep, Readiness, Look, Judge, AcquireAsync, AcquireStop,
                SyncStop, SyncRaises, SyncReconcile, RetryFire, RetryStart, RetryStale, Acquire, CloseGate,
                StopRuntime, JoinRuntime, Drain, ShutDown, ReadChoice, LoadFails, Build, BuildFails, Finish, Top,
                Submit, Answer, Wait, Hold, Take, Begin, End, Notify, Worker, consoleVars, vars
  <2>2. NeverSaved => NeverSaved'
    <3>1. CASE ReadChoice
      BY <2>1, <3>1 DEF ReadChoice, NeverSaved, Inductive, TypeOK, Ops
    <3>2. CASE Build
      BY <3>2 DEF Build, Step, NeverSaved
    <3>3. CASE ~ReadChoice /\ ~Build
      <4>1. CASE Generation \/ Readiness \/ UNCHANGED vars
        <5>1. UNCHANGED <<last, op, choice, saver>>
          BY <4>1 DEF Generation, WorkerStep, EventStep, Readiness, Top, Submit, Answer, Wait, Hold, Take, Begin,
                      End, Notify, Worker, consoleVars, managerVars, vars
        <5> QED
          BY <5>1 DEF NeverSaved
      <4>2. CASE Look \/ Judge \/ RetryFire \/ RetryStale \/ SyncRaises
        BY <4>2 DEF Look, Judge, RetryFire, RetryStale, SyncRaises, NeverSaved, consoleVars
      <4>3. CASE AcquireAsync \/ AcquireStop \/ SyncStop \/ SyncReconcile \/ RetryStart
        <5>1. last' = last /\ op'.pc = "close" /\ UNCHANGED <<choice, saver>>
          BY <4>3 DEF AcquireAsync, AcquireStop, SyncStop, SyncReconcile, RetryStart, Acquire, Inductive, TypeOK, Ops
        <5> QED
          BY <5>1 DEF NeverSaved
      <4>4. CASE CloseGate \/ StopRuntime \/ JoinRuntime \/ Drain
        <5>1. last' = last /\ op'.pc # "build" /\ UNCHANGED <<choice, saver>>
          BY <4>4 DEF CloseGate, StopRuntime, JoinRuntime, Drain, Step, consoleVars, Inductive, TypeOK, Ops
        <5> QED
          BY <5>1 DEF NeverSaved
      <4>5. CASE ShutDown \/ LoadFails \/ BuildFails \/ Finish
        <5>1. last' = last /\ op'.pc # "build" /\ UNCHANGED <<choice, saver>>
          BY <4>5 DEF ShutDown, LoadFails, BuildFails, Finish, Step, Release, consoleVars, Inductive, TypeOK, Ops
        <5> QED
          BY <5>1 DEF NeverSaved
      <4> QED
        BY <1>2, <3>3, <4>1, <4>2, <4>3, <4>4, <4>5 DEF Next, Manager
    <3> QED
      BY <3>1, <3>2, <3>3
  <2> QED
    BY <2>1, <2>2 DEF PauseIsRecorded, Saving, Quiet
<1> QED
  BY <1>1, <1>2

(* With saves that do not overlap, the recorded pause is what the last save *)
(* wants, from the moment that save has recorded it (controller.py:61-69).  *)
THEOREM PauseRecorded ==
  ASSUME ~Overlapping
  PROVE  Spec => [](Inductive /\ PauseIsRecorded)
<1>1. Inductive /\ PauseIsRecorded /\ [Next]_vars => (Inductive /\ PauseIsRecorded)'
  BY NextInductive, PauseStep
<1> QED
  BY <1>1, InitInductive, InitRecorded, PTL DEF Spec

(* All of it at once, for a console whose saves do not overlap: one robot   *)
(* trades, none is leaked, no request is lost, and none that is to run      *)
(* refuses its work on account of a pause (controller.py:61-310).           *)
THEOREM RobotSound ==
  ASSUME ~Overlapping
  PROVE  Spec => []RobotIsSound
<1>1. Inductive /\ PauseIsRecorded => RobotIsSound
  <2>1. Inductive => OneRobot
    BY DEF Inductive, OneRobot, FormerIsAtRest, NewestIsCurrent, Leaving, Stopping, Gens
  <2>2. Inductive => NoLeakedRobot
    BY DEF Inductive, NoLeakedRobot, FormerIsAtRest, Running, TypeOK, Unborn, Gens
  <2>3. PauseIsRecorded => NoStuckPause
    BY DEF PauseIsRecorded, NoStuckPause, NeverSaved
  <2> QED
    BY <2>1, <2>2, <2>3 DEF RobotIsSound, Inductive
<1> QED
  BY <1>1, PauseRecorded, PTL

(* A handler begins in one way only. *)
LEMMA HandlersBegin ==
  ASSUME Inductive, [Next]_vars, NEW g \in Gens, rob'[g].req = "handling", rob[g].req # "handling"
  PROVE  ~pauseReq /\ rob[g].req = "taken"
<1> USE DEF Inductive
<1>1. rob \in [Gens -> Robots]
  BY DEF TypeOK
<1>2. CASE Generation
  <2>1. PICK h \in Gens : WorkerStep(h) \/ EventStep(h) \/ \E a \in BOOLEAN : Notify(h, a)
    BY <1>2 DEF Generation
  <2>2. h = g
    BY <1>1, <2>1 DEF WorkerStep, EventStep, Top, Submit, Answer, Wait, Hold, Take, Begin, End, Notify, Worker
  <2>3. Begin(g)
    <3>1. rob[g] \in Robots
      BY <1>1
    <3>2. ~Top(g) /\ ~Wait(g) /\ ~Hold(g)
      BY <1>1, <3>1 DEF Top, Wait, Hold, Worker, Robots
    <3>3. ~Submit(g) /\ ~Answer(g)
      BY <1>1, <3>1 DEF Submit, Answer, Worker, Robots
    <3>4. ~Take(g) /\ ~End(g) /\ ~\E a \in BOOLEAN : Notify(g, a)
      BY <1>1, <3>1 DEF Take, End, Notify, Worker, Robots
    <3> QED
      BY <2>1, <2>2, <3>2, <3>3, <3>4 DEF WorkerStep, EventStep
  <2> QED
    BY <1>1, <2>3 DEF Begin, Worker, Robots
<1>3. CASE Console
  BY <1>1, <1>3 DEF Console, SaveControl, RecordSavedPause, ReconcileAsync, Robots
<1>4. CASE Manager
  BY <1>1, <1>4 DEF Manager, Look, Judge, AcquireAsync, AcquireStop, SyncStop, SyncRaises, SyncReconcile, RetryFire,
                    RetryStart, RetryStale,
                    Acquire, CloseGate, StopRuntime, JoinRuntime, Drain, ShutDown, ReadChoice, LoadFails, Build,
                    BuildFails, Finish, Robots
<1>5. CASE Readiness \/ UNCHANGED vars
  BY <1>5 DEF Readiness, vars
<1> QED
  BY <1>2, <1>3, <1>4, <1>5 DEF Next

(* Once a pause of the robot is saved and recorded, no handler begins,      *)
(* neither in the old robot nor in one that a reconcile under way had       *)
(* already decided to start (controller.py:61-69, 299-301).                 *)
THEOREM PausesHold ==
  ASSUME ~Overlapping
  PROVE  Spec => PauseHolds
<1> DEFINE Held == Quiet /\ choice = "robot" =>
                     \A g \in Gens : rob'[g].req = "handling" => rob[g].req = "handling"
<1>1. Inductive /\ PauseIsRecorded /\ [Next]_vars => Held
  <2> SUFFICES ASSUME Inductive, PauseIsRecorded, [Next]_vars, Quiet, choice = "robot", NEW g \in Gens,
                      rob'[g].req = "handling", rob[g].req # "handling"
               PROVE  FALSE
    OBVIOUS
  <2>1. ~pauseReq /\ rob[g].req = "taken"
    BY HandlersBegin
  <2>2. last = 0
    BY <2>1 DEF PauseIsRecorded, NeverSaved
  <2> QED
    BY <2>1, <2>2 DEF Inductive, FormerIsAtRest, Gens, Unborn
<1> QED
  BY <1>1, PauseRecorded, PTL DEF PauseHolds, Spec
==============================================================================
