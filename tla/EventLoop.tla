------------------------------ MODULE EventLoop ------------------------------
(***************************************************************************)
(* RobotEventLoop (runtime/events.py): one queue that every platform       *)
(* thread submits to, one worker thread that consumes it, a pause flag any *)
(* thread may lower, and start/stop, which RobotRuntimeManager serialises  *)
(* under its own lock (runtime/controller.py, `ctl` here).                 *)
(*                                                                         *)
(* An event of Events stands for one envelope: one call of submit by one   *)
(* waiting thread.  A worker of Workers stands for one thread object made  *)
(* by start.  The counters behind status() are left out: nothing reads     *)
(* them back.                                                              *)
(***************************************************************************)
EXTENDS Sequences, Naturals

CONSTANTS Events, Workers, NoEvent, NoWorker, Poison

ASSUME EventLoopAssumption ==
  /\ NoEvent \notin Events
  /\ NoWorker \notin Workers
  /\ Poison \notin Events

VARIABLES
  queue,      \* _queue: events and the poison pill (None)
  accepting,  \* _accepting
  thread,     \* _thread, NoWorker for None
  pc,         \* where each worker stands in _run
  held,       \* the envelope each worker took from the queue
  call,       \* where the caller of submit stands, per event
  outcome,    \* envelope.result or envelope.error, per event
  completed,  \* the envelopes whose `completed` event is set
  ctl,        \* where the one start/stop in progress stands
  cut         \* history: what was accepted and not begun when the gate closed

vars == <<queue, accepting, thread, pc, held, call, outcome, completed, ctl, cut>>

AlivePC == {"get", "check", "handle", "finish"}
Alive(w) == pc[w] \in AlivePC                       \* Thread.is_alive
Queued(x) == \E i \in 1..Len(queue) : queue[i] = x
HeldAt(e, places) == \E w \in Workers : pc[w] \in places /\ held[w] = e
Unbegun(e) == Queued(e) \/ HeldAt(e, {"check"})

TypeOK ==
  /\ queue \in Seq(Events \cup {Poison})
  /\ accepting \in BOOLEAN
  /\ thread \in Workers \cup {NoWorker}
  /\ pc \in [Workers -> AlivePC \cup {"unborn", "dead"}]
  /\ held \in [Workers -> Events \cup {NoEvent}]
  /\ call \in [Events -> {"new", "waiting", "returned", "refused"}]
  /\ outcome \in [Events -> {"none", "result", "error"}]
  /\ completed \in SUBSET Events
  /\ ctl \in {"idle", "joining", "clearing"}
  /\ cut \in SUBSET Events

Init ==
  /\ queue = <<>> /\ accepting = FALSE /\ thread = NoWorker
  /\ pc = [w \in Workers |-> "unborn"]
  /\ held = [w \in Workers |-> NoEvent]
  /\ call = [e \in Events |-> "new"]
  /\ outcome = [e \in Events |-> "none"]
  /\ completed = {} /\ ctl = "idle" /\ cut = {}

----------------------------------------------------------------------------
(* Plausible mistakes in the code below.  No specification uses them: each *)
(* is what some property must notice.                                      *)
GetPillAsEvent(w) ==          \* _run without the `envelope is None` return
  /\ pc[w] = "get" /\ queue # <<>>
  /\ queue' = Tail(queue)
  /\ pc' = [pc EXCEPT ![w] = "check"]
  /\ held' = [held EXCEPT ![w] = Head(queue)]
  /\ UNCHANGED <<accepting, thread, call, outcome, completed, ctl, cut>>

CheckIgnoresGate(w) ==        \* _run without the `accepting` check
  /\ pc[w] = "check"
  /\ pc' = [pc EXCEPT ![w] = "handle"]
  /\ UNCHANGED <<queue, accepting, thread, held, call, outcome, completed, ctl, cut>>

CheckWakesFirst(w) ==         \* completed.set() ahead of envelope.error
  /\ pc[w] = "check"
  /\ completed' = completed \cup {held[w]}
  /\ pc' = [pc EXCEPT ![w] = "handle"]
  /\ UNCHANGED <<queue, accepting, thread, held, call, outcome, ctl, cut>>

FinishSilent(w) ==            \* completed.set() not in a finally
  /\ pc[w] = "finish"
  /\ completed' = IF outcome[held[w]] = "error" THEN completed ELSE completed \cup {held[w]}
  /\ pc' = [pc EXCEPT ![w] = "get"]
  /\ held' = [held EXCEPT ![w] = NoEvent]
  /\ UNCHANGED <<queue, accepting, thread, call, outcome, ctl, cut>>

StartReopens ==               \* start sets _accepting before it looks at the thread
  /\ ctl = "idle" /\ thread # NoWorker /\ Alive(thread)
  /\ accepting' = TRUE
  /\ UNCHANGED <<queue, thread, pc, held, call, outcome, completed, ctl, cut>>

StopLeavesGateOpen ==         \* stop without `_accepting = False`
  /\ ctl = "idle" /\ thread # NoWorker
  /\ queue' = Append(queue, Poison)
  /\ ctl' = "joining"
  /\ UNCHANGED <<accepting, thread, pc, held, call, outcome, completed, cut>>

StopWithoutPill ==            \* stop that joins without `put(None)`
  /\ ctl = "idle" /\ thread # NoWorker
  /\ accepting' = FALSE
  /\ ctl' = "joining"
  /\ UNCHANGED <<queue, thread, pc, held, call, outcome, completed, cut>>

JoinWithoutWaiting ==         \* stop that clears _thread without the join
  /\ ctl = "joining"
  /\ ctl' = "clearing"
  /\ UNCHANGED <<queue, accepting, thread, pc, held, call, outcome, completed, cut>>

----------------------------------------------------------------------------
(* ---- submit: check the gate and enqueue under the lock, then wait ---- *)
CanSubmit == thread # NoWorker /\ Alive(thread) /\ accepting

Submit(e) ==
  /\ call[e] = "new"
  /\ \/ /\ CanSubmit
        /\ queue' = Append(queue, e)
        /\ call' = [call EXCEPT ![e] = "waiting"]
     \/ /\ ~CanSubmit
        /\ call' = [call EXCEPT ![e] = "refused"]
        /\ UNCHANGED queue
  /\ UNCHANGED <<accepting, thread, pc, held, outcome, completed, ctl, cut>>

Return(e) ==
  /\ call[e] = "waiting" /\ e \in completed
  /\ call' = [call EXCEPT ![e] = "returned"]
  /\ UNCHANGED <<queue, accepting, thread, pc, held, outcome, completed, ctl, cut>>

(* ---- the worker: take, look at the gate, handle, wake the caller ---- *)
Get(w) ==
  /\ pc[w] = "get" /\ queue # <<>>
  /\ queue' = Tail(queue)
  /\ \/ /\ Head(queue) = Poison
        /\ pc' = [pc EXCEPT ![w] = "dead"]
        /\ UNCHANGED held
     \/ /\ Head(queue) # Poison
        /\ pc' = [pc EXCEPT ![w] = "check"]
        /\ held' = [held EXCEPT ![w] = Head(queue)]
  /\ UNCHANGED <<accepting, thread, call, outcome, completed, ctl, cut>>

Check(w) ==
  /\ pc[w] = "check"
  /\ \/ /\ accepting
        /\ pc' = [pc EXCEPT ![w] = "handle"]
        /\ UNCHANGED outcome
     \/ /\ ~accepting
        /\ pc' = [pc EXCEPT ![w] = "finish"]
        /\ outcome' = [outcome EXCEPT ![held[w]] = "error"]
  /\ UNCHANGED <<queue, accepting, thread, held, call, completed, ctl, cut>>

Handle(w) ==
  /\ pc[w] = "handle"
  /\ \E r \in {"result", "error"} : outcome' = [outcome EXCEPT ![held[w]] = r]
  /\ pc' = [pc EXCEPT ![w] = "finish"]
  /\ UNCHANGED <<queue, accepting, thread, held, call, completed, ctl, cut>>

Finish(w) ==
  /\ pc[w] = "finish"
  /\ completed' = completed \cup {held[w]}
  /\ pc' = [pc EXCEPT ![w] = "get"]
  /\ held' = [held EXCEPT ![w] = NoEvent]
  /\ UNCHANGED <<queue, accepting, thread, call, outcome, ctl, cut>>

(* ---- lowering the gate, and the history of what that catches ---- *)
CloseGate ==
  /\ accepting' = FALSE
  /\ cut' = cut \cup {e \in Events : Unbegun(e)}

RequestPause ==
  /\ CloseGate
  /\ UNCHANGED <<queue, thread, pc, held, call, outcome, completed, ctl>>

(* ---- start and stop, one at a time ---- *)
StartAlive ==
  /\ ctl = "idle" /\ thread # NoWorker /\ Alive(thread)
  /\ UNCHANGED vars

StartNew(w) ==
  /\ ctl = "idle" /\ ~(thread # NoWorker /\ Alive(thread))
  /\ pc[w] = "unborn"
  /\ accepting' = TRUE
  /\ thread' = w
  /\ pc' = [pc EXCEPT ![w] = "get"]
  /\ UNCHANGED <<queue, held, call, outcome, completed, ctl, cut>>

Stop ==
  /\ ctl = "idle"
  /\ CloseGate
  /\ \/ /\ thread = NoWorker
        /\ UNCHANGED <<queue, ctl>>
     \/ /\ thread # NoWorker
        /\ queue' = Append(queue, Poison)
        /\ ctl' = "joining"
  /\ UNCHANGED <<thread, pc, held, call, outcome, completed>>

Join ==
  /\ ctl = "joining" /\ ~Alive(thread)
  /\ ctl' = "clearing"
  /\ UNCHANGED <<queue, accepting, thread, pc, held, call, outcome, completed, cut>>

Clear ==
  /\ ctl = "clearing"
  /\ thread' = NoWorker
  /\ ctl' = "idle"
  /\ UNCHANGED <<queue, accepting, pc, held, call, outcome, completed, cut>>

WorkerStep(w) == Get(w) \/ Check(w) \/ Handle(w) \/ Finish(w)

Next ==
  \/ \E e \in Events : Submit(e) \/ Return(e)
  \/ \E w \in Workers : WorkerStep(w) \/ StartNew(w)
  \/ RequestPause \/ StartAlive \/ Stop \/ Join \/ Clear

Spec == Init /\ [][Next]_vars

(***************************************************************************)
(* The operating system runs every thread that can run, and a handler      *)
(* returns or raises: every wait inside it has its own timeout.  Nothing   *)
(* obliges anyone to submit, to pause, to start or to stop.                *)
(***************************************************************************)
Fairness ==
  /\ \A w \in Workers : WF_vars(WorkerStep(w))
  /\ \A e \in Events : WF_vars(Return(e))
  /\ WF_vars(Join \/ Clear)

FairSpec == Spec /\ Fairness

----------------------------------------------------------------------------
(* Two handlers never run at once, whatever sequence of starts and stops   *)
(* made the worker threads: decisions and orders are serial because this   *)
(* holds (events.py:67-92, stop joins before _thread is cleared).          *)
OneHandler ==
  \A v, w \in Workers : pc[v] = "handle" /\ pc[w] = "handle" => v = w

(* A caller that waits is never stranded: its event is in the hands of a   *)
(* living worker, or in the queue ahead of any poison pill with a living   *)
(* worker to reach it (submit waits without a timeout, events.py:110).     *)
NoStrandedCaller ==
  \A e \in Events : call[e] = "waiting" /\ e \notin completed =>
    \E w \in Workers :
      /\ Alive(w)
      /\ \/ held[w] = e
         \/ \E i \in 1..Len(queue) :
              queue[i] = e /\ \A j \in 1..i : queue[j] # Poison

(* Work that was accepted but not begun when the gate closed is answered   *)
(* with an error; no later start of the loop revives it (events.py:86-90). *)
CutWorkNeverRuns ==
  \A e \in cut : outcome[e] # "result" /\ ~HeldAt(e, {"handle"})

(* The three together: one handler at a time, nobody waiting in vain, and  *)
(* nothing run after the pause that cut it off - whatever starts, stops    *)
(* and submissions meet (events.py:67-130).                                *)
LoopIsSound == TypeOK /\ OneHandler /\ NoStrandedCaller /\ CutWorkNeverRuns

(* An envelope whose caller was woken has exactly one answer, and no       *)
(* worker can still write another (events.py:90-100).                      *)
AnswerIsFinal ==
  [][\A e \in completed : e \in completed' /\ outcome'[e] = outcome[e] /\ outcome[e] # "none"]_vars

(* Every accepted submit returns, through pauses and stops.                *)
SubmitReturns == \A e \in Events : call[e] = "waiting" ~> call[e] = "returned"

(* A stop ends, after the handler that was running when it was asked for.  *)
StopEnds == ctl # "idle" ~> ctl = "idle"

----------------------------------------------------------------------------
(* The loop implements the gate. *)
Phase(e) ==
  IF call[e] \in {"new", "refused"} THEN call[e]
  ELSE IF outcome[e] # "none" THEN (IF outcome[e] = "result" THEN "done" ELSE "failed")
  ELSE IF HeldAt(e, {"handle"}) THEN "running"
  ELSE IF e \in cut THEN "doomed"
  ELSE "pending"

Gate == INSTANCE EventGate WITH phase <- [e \in Events |-> Phase(e)], open <- accepting

(* The queue, its worker threads and the poison pill implement the gate's  *)
(* promise: serial execution, and a pause that dooms all queued work.      *)
ImplementsGate == Gate!Spec
=============================================================================
