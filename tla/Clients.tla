------------------------------- MODULE Clients -------------------------------
(***************************************************************************)
(* The programs the robot drives: LAYA behind its gate and JEV             *)
(* (Evaluators), the sign-in of a provider's client (ClientLogin) and its  *)
(* installs (ClientInstalls).  Their states do not meet, so they are put   *)
(* side by side: every behaviour is one of one machine, named by part,     *)
(* while the others wait where they began.                                 *)
(***************************************************************************)
EXTENDS Naturals, FiniteSets

CONSTANTS
  None,
  Callers, Kinds, QueueLimit, Attempts, Batches,  \* Evaluators
  MaxFlows,                                       \* ClientLogin
  Controllers, Dirs, MaxVersion                   \* ClientInstalls

VARIABLES
  part,  \* the machine this behaviour is one of
  \* Evaluators
  gateCooling, gateQueue, gateActive, gateClosed, gateCall,
  \* ClientLogin
  logLast, logProc, logRelay, logFlow, logLink, logPage, logNotice, logLooking,
  logOvertaken,
  \* ClientInstalls
  insRegistry, insDisk, insActive, insStaged, insFlock, insCtl, insCrossed

Gate == INSTANCE Evaluators WITH
  cooling <- gateCooling, queue <- gateQueue, active <- gateActive,
  closed <- gateClosed, call <- gateCall

Login == INSTANCE ClientLogin WITH
  last <- logLast, proc <- logProc, relay <- logRelay,
  flow <- logFlow, link <- logLink, page <- logPage,
  notice <- logNotice, looking <- logLooking, overtaken <- logOvertaken

Client == INSTANCE ClientInstalls WITH
  registry <- insRegistry, disk <- insDisk, active <- insActive,
  staged <- insStaged, flock <- insFlock, ctl <- insCtl, crossed <- insCrossed

gateVars == <<gateCooling, gateQueue, gateActive, gateClosed, gateCall>>
logVars == <<logLast, logProc, logRelay, logFlow, logLink, logPage,
             logNotice, logLooking, logOvertaken>>
insVars == <<insRegistry, insDisk, insActive, insStaged, insFlock, insCtl,
             insCrossed>>

Parts == {"gate", "log", "ins"}

EveryInit ==
  /\ part \in Parts
  /\ Gate!Init
  /\ Login!Init
  /\ Client!Init

(* One machine moves, the others wait where they began. *)
EveryNext ==
  /\ UNCHANGED part
  /\ \/ /\ part = "gate" /\ Gate!Next
        /\ UNCHANGED <<logVars, insVars>>
     \/ /\ part = "log" /\ Login!Next
        /\ UNCHANGED <<gateVars, insVars>>
     \/ /\ part = "ins" /\ Client!Next
        /\ UNCHANGED <<gateVars, logVars>>

EverySpec == EveryInit /\ [][EveryNext]_<<part, gateVars, logVars, insVars>>

ASSUME ClientsAssumption ==
  Gate!EvaluatorsAssumption /\ Login!ClientLoginAssumption /\ Client!ClientInstallsAssumption

----------------------------------------------------------------------------
(* LAYA's gate is held by the first ticket alone, never stands shut, and a *)
(* question ends unanswered only when its time is up or everyone failed    *)
(* (agent/decision_evaluator.py:60-150, plugins/evaluators/laya.py:60-190).*)
OpinionsAreHonest == part = "gate" => Gate!GateIsSound /\ Gate!EveryoneIsAsked

(* One login is waited for, and the page shows its link                    *)
(* (plugins/providers/_client_control.py:395-735).                         *)
OneLoginAtATime == part = "log" => Login!OneLoginAtATime

(* The client in use is whole at every step, and so is the one offered, if *)
(* it is there (plugins/providers/_client_control.py:738-979).             *)
TheClientInUseIsWhole == part = "ins" => Client!TheClientInUseIsWhole
==============================================================================
