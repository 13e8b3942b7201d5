------------------------------ MODULE EventGate ------------------------------
(***************************************************************************)
(* What the robot's business-event loop promises its callers, without its  *)
(* queue, its threads or its poison pill.  Events are run one at a time.   *)
(* Closing the gate dooms everything that was accepted and not yet begun:  *)
(* "Reject new and queued work without waiting for the active handler"     *)
(* (runtime/events.py, request_pause), and a later opening revives none of *)
(* it.                                                                     *)
(***************************************************************************)
CONSTANT Events

VARIABLES phase,  \* where each event stands
          open    \* whether new work is accepted

vars == <<phase, open>>

Phases == {"new", "refused", "pending", "doomed", "running", "done", "failed"}

Running == {e \in Events : phase[e] = "running"}

Init == phase = [e \in Events |-> "new"] /\ open = FALSE

Move(e, from, to) ==
  /\ phase[e] = from
  /\ phase' = [phase EXCEPT ![e] = to]
  /\ UNCHANGED open

Accept(e) == open /\ Move(e, "new", "pending")
Refuse(e) == ~open /\ Move(e, "new", "refused")
Begin(e) == open /\ Running = {} /\ Move(e, "pending", "running")
Reject(e) == Move(e, "doomed", "failed")
End(e) == Move(e, "running", "done") \/ Move(e, "running", "failed")

Open == open' = TRUE /\ UNCHANGED phase

Close ==
  /\ open' = FALSE
  /\ phase' = [e \in Events |-> IF phase[e] = "pending" THEN "doomed" ELSE phase[e]]

Next ==
  \/ \E e \in Events : Accept(e) \/ Refuse(e) \/ Begin(e) \/ Reject(e) \/ End(e)
  \/ Open
  \/ Close

Spec == Init /\ [][Next]_vars
=============================================================================
