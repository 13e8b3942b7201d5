------------------------------ MODULE MCClients ------------------------------
(***************************************************************************)
(* Evaluators: three callers before a queue of two.                        *)
(* ClientLogin: a login and the next one.                                  *)
(* ClientInstalls: two controllers, three directories, two new versions.   *)
(***************************************************************************)
EXTENDS Clients, TLC

CONSTANTS c1, c2, c3

Symmetric == Permutations({c1, c2, c3})

(* One beginning for the machines that wait. *)
OneInit ==
  /\ EveryInit
  /\ part # "log" => ~logNotice

OneSpec == OneInit /\ [][EveryNext]_<<part, gateVars, logVars, insVars>>
==============================================================================
