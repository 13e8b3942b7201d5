------------------------------ MODULE MCTrading ------------------------------
(***************************************************************************)
(* Account: one token and three accepted operations let a position be      *)
(* bought in two pieces at two prices and partly sold with a rounded       *)
(* basis, or sold and then over-sold, or redeemed between transfers, with  *)
(* a save and a crash or a failed ledger write at every point.             *)
(* OrderGate: up to two rules in each lane, two writes that take effect.   *)
(* WriteClient: two threads that build a connection each.                  *)
(* Bridge: two deposits of the same amount beside a withdrawal.            *)
(***************************************************************************)
EXTENDS Trading, TLC

CONSTANTS d1, d2

Worth == (d1 :> 1) @@ (d2 :> 1)
Payouts == ("w1" :> 1)
Symmetric == Permutations({d1, d2})

(* One beginning for the machines that wait. *)
OneInit ==
  /\ EveryInit
  /\ part # "gate" => gateSetup = [paper |-> FALSE, agent |-> 0, business |-> 0]

OneSpec == OneInit /\ [][EveryNext]_<<part, vars, gateVars, walVars, monVars>>
==============================================================================
