-------------------------------- MODULE Robot --------------------------------
(***************************************************************************)
(* The robot's life under the console: RobotRuntimeManager                 *)
(* (runtime/controller.py) brings a robot up and down to match the pause   *)
(* choice the operator saved.  Each start makes a new generation: an       *)
(* engine, a RobotEventLoop and one API plugin's worker                    *)
(* (plugins/api/_polymarket/runtime.py, _binance/runtime.py), all owned by *)
(* a catalog that is thrown away when the generation is stopped.           *)
(*                                                                         *)
(* The manager's lock is held from Acquire to Release; console requests,   *)
(* the background reconcile thread, the start-retry timer, the worker, the *)
(* event thread and the capacity watch interleave with it.  The event loop *)
(* appears here as EventGate promises it: work is refused once the gate is *)
(* closed, and stop() waits for the handler that is running.               *)
(***************************************************************************)
EXTENDS Integers, FiniteSets

CONSTANTS
  Savers,      \* console requests that save the pause choice, one each
  Overlapping, \* whether two of those requests may be in flight together
  MaxSync,     \* bound: console requests that stop the robot, change the plugins and reconcile
  MaxGen,      \* bound: generations started
  BoundedJoin, \* whether the plugin's stop() waits a bounded time (Polymarket) or not (Binance)
  Faults       \* which of "load", "teardown" and "refresh" (what such a request does) may fail

ASSUME RobotAssumption ==
  /\ IsFiniteSet(Savers) /\ Overlapping \in BOOLEAN /\ BoundedJoin \in BOOLEAN
  /\ MaxSync \in Nat /\ MaxGen \in Nat /\ MaxGen >= Cardinality(Savers) + MaxSync + 1
  /\ Faults \subseteq {"load", "teardown", "refresh"}

VARIABLES
  choice,    \* the operator's saved choice: run, pause this platform, pause the robot
  ready,     \* whether the providers and the platform can start (environment)
  saver,     \* each console request: where it stands and what it saves
  pauseReq,  \* _pause_requested
  requests,  \* _reconcile_generation
  thread,    \* _reconcile_thread: where it stands and the generation it read
  op,        \* the holder of the manager's lock and its next step
  retry,     \* _retry: "none", "armed", or "firing" (its callback waits for the lock)
  stale,     \* a cancelled timer's callback still waits for the lock
  syncs,     \* console requests so far that stop the robot first
  between,   \* those that have stopped it and have not called reconcile() yet
  down,      \* manager.stop() was called: the application is shutting down
  aborted,   \* history: an operation failed while no robot was up; no reconcile has got through since
  events,    \* the generation in self._events, 0 for none
  last,      \* the newest generation
  rob        \* the generations

vars == <<choice, ready, saver, pauseReq, requests, thread, op, retry, stale, syncs, between, down, aborted,
          events, last, rob>>

Gens == 1..MaxGen
Choices == {"run", "platform", "robot"}
Stages == {"discover", "decide", "errand"}   \* errand: a scheduled review or a screening

(* A console request; the background thread; the lock; a generation. *)
Requests == [pc : {"idle", "wrote", "recorded", "done"}, wants : Choices]
Threads == [pc : {"none", "look", "want", "held", "judge"}, seen : 0..Cardinality(Savers)]
Ops == [by : {"none", "async", "retry", "sync", "halt", "stop"}, old : 0..MaxGen,
        pc : {"free", "close", "stop", "join", "drain", "shut", "read", "build", "finish"}]
Robots == [pc : {"off", "top", "wait", "hold", "dead"} \cup Stages,
           req : {"none", "queued", "taken", "handling", "answered", "refused"},
           accepting : BOOLEAN, stop : BOOLEAN, may : BOOLEAN, closed : BOOLEAN]

TypeOK ==
  /\ choice \in Choices /\ ready \in BOOLEAN /\ pauseReq \in BOOLEAN
  /\ stale \in BOOLEAN /\ down \in BOOLEAN
  /\ saver \in [Savers -> Requests] /\ requests \in 0..Cardinality(Savers)
  /\ thread \in Threads /\ op \in Ops /\ retry \in {"none", "armed", "firing"}
  /\ syncs \in 0..MaxSync /\ between \in Nat /\ aborted \in BOOLEAN
  /\ events \in 0..MaxGen /\ last \in 0..MaxGen
  /\ rob \in [Gens -> Robots]

Unborn == [pc |-> "off", req |-> "none", accepting |-> FALSE,
           stop |-> FALSE, may |-> TRUE, closed |-> FALSE]

Init ==
  /\ choice \in Choices /\ ready \in BOOLEAN
  /\ pauseReq = FALSE /\ requests = 0 /\ stale = FALSE /\ down = FALSE
  /\ syncs = 0 /\ between = 0 /\ aborted = FALSE
  /\ saver = [s \in Savers |-> [pc |-> "idle", wants |-> "run"]]
  /\ thread = [pc |-> "none", seen |-> 0]
  /\ op = [by |-> "sync", pc |-> "close", old |-> 0]       \* the reconcile of the boot
  /\ retry = "none" /\ events = 0 /\ last = 0
  /\ rob = [g \in Gens |-> Unborn]

consoleVars == <<choice, saver, pauseReq, requests, syncs, between>>
managerVars == <<thread, op, retry, stale, down, aborted, events, last>>

Running(g) == rob[g].pc \notin {"off", "dead"}       \* the worker thread is alive
Quiet == \A s \in Savers : saver[s].pc \in {"idle", "done"}

----------------------------------------------------------------------------
(* Plausible mistakes; no specification uses them. *)
DrainUnwaited ==                \* events.stop() without joining its thread
  /\ op.pc = "drain" /\ op' = [op EXCEPT !.pc = "shut"]
  /\ UNCHANGED <<consoleVars, ready, thread, retry, stale, down, aborted, events, last, rob>>

BeginUnchecked(g) ==            \* handle_business_event without the pause check
  /\ rob[g].req = "taken" /\ rob' = [rob EXCEPT ![g].req = "handling"]
  /\ UNCHANGED <<consoleVars, ready, managerVars>>

HoldForCapacity(g) ==           \* standing down until told, without looking at _stop
  /\ rob[g].pc = "hold" /\ rob[g].may /\ rob' = [rob EXCEPT ![g].pc = "top"]
  /\ UNCHANGED <<consoleVars, ready, managerVars>>

FinishWithoutRetry ==           \* a start that failed is not tried again
  /\ op.pc = "finish" /\ op' = [by |-> "none", pc |-> "free", old |-> 0]
  /\ thread' = IF op.by = "async" THEN [thread EXCEPT !.pc = "judge"] ELSE thread
  /\ aborted' = FALSE /\ UNCHANGED <<consoleVars, ready, retry, stale, down, events, last, rob>>

TakeSilently(g) ==              \* queued work is dropped, not refused, behind a closed gate
  /\ rob[g].req = "queued" /\ rob[g].accepting /\ rob' = [rob EXCEPT ![g].req = "taken"]
  /\ UNCHANGED <<consoleVars, ready, managerVars>>

----------------------------------------------------------------------------
(* ---- The console: save the choice, record it, ask for a reconcile ---- *)
SaveControl(s, wants) ==
  /\ saver[s].pc = "idle" /\ ~down /\ (Overlapping \/ Quiet)
  /\ saver' = [saver EXCEPT ![s] = [pc |-> "wrote", wants |-> wants]]
  /\ choice' = wants
  /\ UNCHANGED <<ready, pauseReq, requests, syncs, between, managerVars, rob>>

RecordSavedPause(s) ==
  /\ saver[s].pc = "wrote"
  /\ saver' = [saver EXCEPT ![s].pc = "recorded"]
  /\ pauseReq' = (saver[s].wants = "robot")
  /\ rob' = IF saver[s].wants = "robot" /\ events # 0 THEN [rob EXCEPT ![events].accepting = FALSE] ELSE rob
  /\ UNCHANGED <<choice, ready, requests, syncs, between, managerVars>>

ReconcileAsync(s) ==
  /\ saver[s].pc = "recorded"
  /\ saver' = [saver EXCEPT ![s] = [pc |-> "done", wants |-> "run"]]
  /\ requests' = requests + 1
  /\ thread' = IF thread.pc = "none" THEN [thread EXCEPT !.pc = "look"] ELSE thread
  /\ UNCHANGED <<choice, ready, pauseReq, syncs, between, op, retry, stale, down, aborted, events, last, rob>>

(* ---- The background reconcile thread ---- *)
Look ==
  /\ thread.pc = "look" /\ thread' = [pc |-> "want", seen |-> requests]
  /\ UNCHANGED <<consoleVars, ready, op, retry, stale, down, aborted, events, last, rob>>

Judge ==
  /\ thread.pc = "judge"
  /\ thread' = [thread EXCEPT !.pc = IF thread.seen = requests THEN "none" ELSE "look"]
  /\ UNCHANGED <<consoleVars, ready, op, retry, stale, down, aborted, events, last, rob>>

(* ---- Taking the lock; every taker first cancels the retry timer ---- *)
Acquire(by) ==
  /\ op.pc = "free" /\ op' = [op EXCEPT !.by = by, !.pc = "close"]
  /\ retry' = "none"
  /\ UNCHANGED <<choice, ready, saver, pauseReq, requests, aborted, events, last, rob>>

Cancelled == stale' = (stale \/ retry = "firing")

AcquireAsync ==
  /\ thread.pc = "want" /\ Acquire("async") /\ Cancelled
  /\ thread' = [thread EXCEPT !.pc = "held"] /\ UNCHANGED <<syncs, between, down>>

AcquireStop ==
  /\ ~down /\ down' = TRUE
  /\ Acquire("stop") /\ Cancelled /\ UNCHANGED <<thread, syncs, between>>

(* A console request that changes the installed plugins: stop(), the       *)
(* change, reconcile(), the lock being free in between.  A change that     *)
(* raises leaves the robot stopped, its retry timer cancelled.             *)
SyncStop ==
  /\ syncs < MaxSync /\ syncs' = syncs + 1 /\ ~down
  /\ Acquire("halt") /\ Cancelled /\ UNCHANGED <<thread, between, down>>

SyncRaises ==
  /\ between > 0 /\ "refresh" \in Faults /\ between' = between - 1
  /\ aborted' = (aborted \/ events = 0)
  /\ UNCHANGED <<choice, saver, pauseReq, requests, syncs, ready, thread, op, retry, stale, down, events, last, rob>>

SyncReconcile ==
  /\ between > 0 /\ between' = between - 1
  /\ Acquire("sync") /\ Cancelled /\ UNCHANGED <<thread, syncs, down>>

RetryFire ==
  /\ retry = "armed" /\ retry' = "firing"
  /\ UNCHANGED <<consoleVars, ready, thread, op, stale, down, aborted, events, last, rob>>

(* _retry_start, with the timer still the manager's own; the robot is not   *)
(* running, for a reconcile that starts one cancels the timer.              *)
RetryStart == retry = "firing" /\ Acquire("retry") /\ UNCHANGED <<stale, thread, syncs, between, down>>

RetryStale ==
  /\ stale /\ op.pc = "free" /\ stale' = FALSE
  /\ UNCHANGED <<consoleVars, ready, thread, op, retry, down, aborted, events, last, rob>>

(* ---- _stop_locked ---- *)
Step(from, to) == op.pc = from /\ op' = [op EXCEPT !.pc = to]

CloseGate ==
  /\ op.pc = "close" /\ op' = [op EXCEPT !.pc = "stop", !.old = events]
  /\ events' = 0
  /\ rob' = IF events # 0 THEN [rob EXCEPT ![events].accepting = FALSE] ELSE rob
  /\ UNCHANGED <<consoleVars, ready, thread, retry, stale, down, aborted, last>>

StopRuntime ==
  /\ Step("stop", "join")
  /\ rob' = IF op.old # 0 THEN [rob EXCEPT ![op.old].stop = TRUE, ![op.old].may = TRUE] ELSE rob
  /\ UNCHANGED <<consoleVars, ready, thread, retry, stale, down, aborted, events, last>>

JoinRuntime ==
  /\ op.old # 0 /\ ~BoundedJoin => ~Running(op.old)
  /\ Step("join", "drain")
  /\ UNCHANGED <<consoleVars, ready, thread, retry, stale, down, aborted, events, last, rob>>

Drain ==                        \* events.stop() waits for the handler in progress
  /\ op.old # 0 => rob[op.old].req \notin {"queued", "taken", "handling"}
  /\ Step("drain", "shut")
  /\ UNCHANGED <<consoleVars, ready, thread, retry, stale, down, aborted, events, last, rob>>

Release == op' = [by |-> "none", pc |-> "free", old |-> 0]
AsyncDone == thread' = IF op.by = "async" THEN [thread EXCEPT !.pc = "judge"] ELSE thread

ShutDown ==                     \* engine.close() and catalog.shutdown()
  /\ op.pc = "shut"
  /\ rob' = IF op.old # 0 THEN [rob EXCEPT ![op.old].closed = TRUE] ELSE rob
  /\ \/ /\ op.by \in {"stop", "halt"} /\ Release
        /\ between' = IF op.by = "halt" THEN between + 1 ELSE between
        /\ UNCHANGED <<thread, aborted>>
     \/ /\ op.by \notin {"stop", "halt"} /\ op' = [op EXCEPT !.pc = "read"]
        /\ UNCHANGED <<thread, between, aborted>>
     \/ /\ "teardown" \in Faults /\ op.old # 0 /\ Release /\ AsyncDone
        /\ aborted' = TRUE /\ UNCHANGED between
  /\ UNCHANGED <<choice, saver, pauseReq, requests, syncs, ready, retry, stale, down, events, last>>

(* ---- _reconcile_locked, once the old robot is gone ---- *)
ReadChoice ==
  /\ op.pc = "read"
  /\ op' = [op EXCEPT !.pc = IF choice = "run" /\ ready THEN "build" ELSE "finish"]
  /\ UNCHANGED <<consoleVars, ready, thread, retry, stale, down, aborted, events, last, rob>>

LoadFails ==                    \* nothing is listed as wanted, so no retry follows
  /\ op.pc = "read" /\ "load" \in Faults /\ Release /\ AsyncDone
  /\ aborted' = TRUE /\ UNCHANGED <<consoleVars, ready, retry, stale, down, events, last, rob>>

Build ==
  /\ Step("build", "finish") /\ last < MaxGen
  /\ last' = last + 1 /\ events' = last + 1
  /\ rob' = [rob EXCEPT ![last + 1].pc = "top", ![last + 1].accepting = TRUE]
  /\ UNCHANGED <<consoleVars, ready, thread, retry, stale, down, aborted>>

BuildFails ==                   \* the engine or the plugin could not start
  /\ ~ready /\ Step("build", "finish")
  /\ UNCHANGED <<consoleVars, ready, thread, retry, stale, down, aborted, events, last, rob>>

Finish ==
  /\ op.pc = "finish" /\ Release /\ AsyncDone
  /\ retry' = IF choice = "run" /\ events = 0 THEN "armed" ELSE "none"
  /\ aborted' = FALSE /\ UNCHANGED <<consoleVars, ready, stale, down, events, last, rob>>

----------------------------------------------------------------------------
(* ---- The plugin's worker ---- *)
Worker(g, r) == rob' = [rob EXCEPT ![g] = r] /\ UNCHANGED <<consoleVars, ready, managerVars>>

Top(g) ==
  /\ rob[g].pc = "top"
  /\ Worker(g, [rob[g] EXCEPT !.pc = IF rob[g].stop THEN "dead" ELSE "discover"])

(* RobotEventLoop.submit; its refusal is one more failed cycle or review. *)
Submit(g) ==
  /\ rob[g].pc \in Stages /\ rob[g].req = "none"
  /\ Worker(g, IF rob[g].accepting THEN [rob[g] EXCEPT !.req = "queued"]
                                   ELSE [rob[g] EXCEPT !.pc = "wait"])

Answer(g) ==
  /\ rob[g].req \in {"answered", "refused"}
  /\ Worker(g, [rob[g] EXCEPT !.req = "none",
                              !.pc = IF @ = "discover" /\ rob[g].req = "answered"
                                     THEN IF rob[g].stop THEN "dead" ELSE "decide"
                                     ELSE "wait"])

Wait(g) ==
  /\ rob[g].pc = "wait"
  /\ \E next \in IF rob[g].stop THEN {"dead"}
                 ELSE {"hold"} \cup (IF rob[g].may THEN {"errand"} ELSE {}) :
       Worker(g, [rob[g] EXCEPT !.pc = next])

Hold(g) ==
  /\ rob[g].pc = "hold" /\ (rob[g].stop \/ rob[g].may)
  /\ Worker(g, [rob[g] EXCEPT !.pc = "top"])

(* The capacity watch may be late: its own stop() does not wait for ever. *)
Notify(g, available) ==
  /\ Running(g) /\ rob[g].may # available
  /\ Worker(g, [rob[g] EXCEPT !.may = available])

(* ---- The event thread ---- *)
Take(g) ==
  /\ rob[g].req = "queued"
  /\ Worker(g, [rob[g] EXCEPT !.req = IF rob[g].accepting THEN "taken" ELSE "refused"])

Begin(g) ==                     \* handle_business_event
  /\ rob[g].req = "taken"
  /\ Worker(g, [rob[g] EXCEPT !.req = IF pauseReq THEN "refused" ELSE "handling"])

End(g) ==
  /\ rob[g].req = "handling"
  /\ \E outcome \in {"answered", "refused"} : Worker(g, [rob[g] EXCEPT !.req = outcome])

Readiness == ready' = ~ready /\ UNCHANGED <<consoleVars, managerVars, rob>>

----------------------------------------------------------------------------
Console == \E s \in Savers : (\E c \in Choices : SaveControl(s, c)) \/ RecordSavedPause(s) \/ ReconcileAsync(s)
Manager ==
  \/ Look \/ Judge \/ AcquireAsync \/ AcquireStop
  \/ SyncStop \/ SyncRaises \/ SyncReconcile
  \/ RetryFire \/ RetryStart \/ RetryStale
  \/ CloseGate \/ StopRuntime \/ JoinRuntime \/ Drain \/ ShutDown
  \/ ReadChoice \/ LoadFails \/ Build \/ BuildFails \/ Finish
WorkerStep(g) == Top(g) \/ Submit(g) \/ Answer(g) \/ Wait(g) \/ Hold(g)
EventStep(g) == Take(g) \/ Begin(g) \/ End(g)
Generation == \E g \in Gens : WorkerStep(g) \/ EventStep(g) \/ \E a \in BOOLEAN : Notify(g, a)

Next == Console \/ Manager \/ Generation \/ Readiness

Spec == Init /\ [][Next]_vars

(* A request that saved goes on to record and to ask; the thread and the   *)
(* lock holder take their steps; a free lock is taken sooner or later; a   *)
(* running handler ends, its model calls being time-limited.  Nothing      *)
(* obliges the operator, the providers or the capacity watch to act.       *)
Fairness ==
  /\ \A s \in Savers : WF_vars(RecordSavedPause(s)) /\ WF_vars(ReconcileAsync(s))
  /\ WF_vars(Look) /\ WF_vars(Judge) /\ WF_vars(RetryFire)
  /\ SF_vars(AcquireAsync) /\ SF_vars(RetryStart) /\ SF_vars(SyncReconcile)
  /\ WF_vars(CloseGate \/ StopRuntime \/ JoinRuntime \/ Drain \/ ShutDown)
  /\ WF_vars(ReadChoice) /\ WF_vars(Build) /\ WF_vars(BuildFails) /\ WF_vars(Finish)
  /\ \A g \in Gens : WF_vars(WorkerStep(g)) /\ WF_vars(EventStep(g))

FairSpec == Spec /\ Fairness

----------------------------------------------------------------------------
(* "Starting now would put two cycles on one account, both trading"        *)
(* (_polymarket/runtime.py:63): although stop() may give up waiting for a  *)
(* worker, no business handler ever runs beside a newer robot or on an     *)
(* engine that was closed (controller.py:78-102, 188-310).                 *)
OneRobot == \A g \in Gens : rob[g].req = "handling" => g = last /\ ~rob[g].closed

(* A worker that was not told to stop belongs to the manager's current     *)
(* robot, or to the one it is stopping right now: none is leaked           *)
(* (controller.py:78-102).                                                 *)
NoLeakedRobot ==
  \A g \in Gens : Running(g) /\ ~rob[g].stop =>
    g = events \/ (g = op.old /\ op.pc = "stop")

(* Once a pause of the robot is saved and recorded, no handler begins: not *)
(* in the old robot, not in one a reconcile under way had already decided  *)
(* to start (controller.py:61-69, 299-301).                                *)
PauseHolds ==
  [][Quiet /\ choice = "robot" =>
       \A g \in Gens : rob'[g].req = "handling" => rob[g].req = "handling"]_vars

(* A robot the operator last told to run refuses no work on account of a   *)
(* pause: "whatever the operator chose last is what the robot returns to   *)
(* once the condition clears" (controller.py:136-137; 61-69, 299-301).     *)
NoStuckPause == Quiet /\ choice = "run" => ~pauseReq

(* "Multiple saves collapse to the newest generation" (controller.py:160): *)
(* a request that found the background thread at work is not lost; when    *)
(* the thread has ended, its last turn began after the newest request      *)
(* (controller.py:163-186).                                                *)
NoRequestIsLost == thread.pc = "none" => thread.seen = requests

(* However many saves, starts and stops overlap: one robot trades, none is  *)
(* left running unseen, none refuses all work although it is to run, and no *)
(* request to follow a newer choice is dropped                              *)
(* (controller.py:61-310).                                                  *)
RobotIsSound == TypeOK /\ OneRobot /\ NoLeakedRobot /\ NoStuckPause /\ NoRequestIsLost

(* The same promise over time: a robot that is to run and may start comes  *)
(* to accept work and goes on doing so, unless an operation failed while   *)
(* it was down and no reconcile has got through since; one that is paused  *)
(* comes to rest (controller.py:131-186, dashboard.py:1762-1806).          *)
Working == events # 0 /\ rob[events].accepting /\ ~rob[events].stop /\ ~pauseReq

ChoiceIsFollowed ==
  /\ <>[](Quiet /\ choice = "run" /\ ready /\ ~down /\ ~aborted) => <>[]Working
  /\ <>[](Quiet /\ choice # "run") => <>[](\A g \in Gens : ~Running(g))

(* A worker that was told to stop ends, even one that stands down and is   *)
(* told, late, that nothing can answer (_polymarket/runtime.py:222-224).   *)
StoppedWorkersEnd == \A g \in Gens : rob[g].stop ~> rob[g].pc = "dead"

(* Nobody keeps the manager's lock: a reconcile that waits for a worker,   *)
(* which waits for a handler, always gets to its end (controller.py:78).   *)
LockIsReleased == op.pc # "free" ~> op.pc = "free"
=============================================================================
