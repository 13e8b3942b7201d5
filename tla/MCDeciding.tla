------------------------------ MODULE MCDeciding ------------------------------
(***************************************************************************)
(* DecisionCycle: three rounds let one be traded, one be deleted and one   *)
(* be cut off, in one cycle or several; its constants are plain numbers.   *)
(* ProviderSession: two threads, two sessions, a client of each kind.      *)
(* They have one run, and Providers another, in which the others wait.     *)
(***************************************************************************)
EXTENDS Deciding, TLC

CONSTANTS w1, w2

TwoClients == {[cli |-> "codex", bridged |-> TRUE], [cli |-> "claude", bridged |-> TRUE]}
OneBody == {{"schema", "namespace", "web_search", "store", "effort"}}
Symmetric == Permutations({w1, w2})

RoundsInit == DecidingInit /\ part \in {"own", "talk"} /\ poolMood \in [Pooled -> {"up"}]
RoundsSpec == RoundsInit /\ [][DecidingNext]_decidingVars

(* Time passes, the watch wakes up, its thread and the probing ones go on. *)
PoolInit == DecidingInit /\ part = "pool"
PoolSpec == PoolInit /\ [][DecidingNext]_decidingVars /\ Pool!Fairness

----------------------------------------------------------------------------
(* A provider that is up for good is back in line for good, although no    *)
(* decision is ever put to it to find out                                  *)
(* (runtime/provider_quality.py:296-350).                                  *)
RecoveryIsNoticed == Pool!RecoveryIsNoticed

(* Plugins come to scan when something can answer and to stand down when   *)
(* nothing can (runtime/controller.py:426-428).                            *)
CapacityIsFollowed == Pool!CapacityIsFollowed
==============================================================================
