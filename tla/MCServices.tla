------------------------------ MODULE MCServices ------------------------------
(***************************************************************************)
(* Settings: one plugin, two requests that save.                           *)
(* AdminAuth: two passkeys, two requests with one nonce, three ceremonies. *)
(* MarketStream: two callers, one token more than the limit.               *)
(* OperatorNotes: two notes and a crash.                                   *)
(***************************************************************************)
EXTENDS Services, TLC

CONSTANTS w1, w2, k1, k2

Symmetric == Permutations({w1, w2}) \cup Permutations({k1, k2})

(* One beginning for the machines that wait. *)
OneInit ==
  /\ EveryInit
  /\ part # "set" => setDisk = {} /\ setFile = [on |-> {}, robot |-> FALSE, screening |-> FALSE, held |-> {}]

OneSpec == OneInit /\ [][EveryNext]_<<part, setVars, admVars, strVars, noteVars>>

(* Bound: what happens after one save went over another is not followed. *)
NoSaveIsRaced == ~setRaced
==============================================================================
