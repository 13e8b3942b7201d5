-------------------------------- MODULE Bridge --------------------------------
(***************************************************************************)
(* The operator's money in and out of Polymarket.  A deposit is a transfer  *)
(* on the source chain, a record of the bridge and a credit on the account, *)
(* three facts the panel tells apart; it follows one deposit the operator   *)
(* named, re-reading it whenever the page is drawn.  A withdrawal is        *)
(* checked, quoted, routed and sent.  The console's requests run in threads *)
(* of their own and share the panel's memory without a lock.                *)
(***************************************************************************)
EXTENDS Integers, FiniteSets

CONSTANTS
  Deposits,
  Amount,        \* deposit -> what it carries
  Pages,         \* requests drawing the page
  Withdrawals,   \* withdrawal -> its amount
  Start,         \* the balance to begin with
  None

BridgeAssumption ==
  /\ Amount \in [Deposits -> Nat \ {0}] /\ Start \in Nat /\ None \notin Deposits
  /\ \A w \in DOMAIN Withdrawals : Withdrawals[w] \in Nat \ {0}

VARIABLES
  chain,      \* deposit -> "unsent", "pending", "mined", "deep" (confirmed), "reverted"
  kind,       \* deposit -> "good", or to another "target", or in another "token"
  route,      \* deposit -> the bridge's record of it: "none", "PROCESSING", "COMPLETED", "FAILED"
  credited,
  balance,
  watched,    \* the panel's memory: the deposit followed and the state last read
  page,       \* page -> what its deposit_watch is reading and has read
  asking,     \* deposit_action: what confirm_deposit has read
  out,        \* withdrawal -> "none", "checked", "sent", "ok", "failed", "unknown"
  mixed       \* history: a page wrote what it had read of another deposit

vars == <<chain, kind, route, credited, balance, watched, page, asking, out, mixed>>
outside == <<chain, kind, route, credited>>
panel == <<watched, page, asking, mixed>>

States == {"", "not_found", "confirming", "failed", "wrong_target", "wrong_token", "arrived", "error"}
Readings == [txid : Deposits \cup {None}, state : States]
Unread == [txid |-> None, state |-> ""]

TypeOK ==
  /\ chain \in [Deposits -> {"unsent", "pending", "mined", "deep", "reverted"}]
  /\ kind \in [Deposits -> {"good", "target", "token"}]
  /\ route \in [Deposits -> {"none", "PROCESSING", "COMPLETED", "FAILED"}]
  /\ credited \subseteq Deposits /\ balance \in Nat /\ mixed \in BOOLEAN
  /\ {watched, asking} \subseteq Readings /\ page \in [Pages -> Readings]
  /\ out \in [DOMAIN Withdrawals -> {"none", "checked", "sent", "ok", "failed", "unknown"}]

Init ==
  /\ chain = [d \in Deposits |-> "unsent"] /\ kind = [d \in Deposits |-> "good"]
  /\ route = [d \in Deposits |-> "none"] /\ credited = {} /\ balance = Start
  /\ watched = Unread /\ page = [p \in Pages |-> Unread] /\ asking = Unread
  /\ out = [w \in DOMAIN Withdrawals |-> "none"] /\ mixed = FALSE

----------------------------------------------------------------------------
(* ---- The chain, the bridge and the account ---- *)
Send(d) ==                              \* the operator's transfer, to the right place or not
  /\ chain[d] = "unsent"
  /\ chain' = [chain EXCEPT ![d] = "pending"]
  /\ \E k \in {"good", "target", "token"} : kind' = [kind EXCEPT ![d] = k]
  /\ UNCHANGED <<route, credited, balance, panel, out>>

Advance(d) ==
  /\ \/ chain[d] = "pending" /\ \E s \in {"mined", "reverted"} : chain' = [chain EXCEPT ![d] = s]
     \/ chain[d] = "mined" /\ chain' = [chain EXCEPT ![d] = "deep"]
  /\ UNCHANGED <<kind, route, credited, balance, panel, out>>

BridgeMoves(d) ==
  /\ kind[d] = "good" /\ chain[d] \in {"mined", "deep"}
  /\ \/ route[d] = "none" /\ route' = [route EXCEPT ![d] = "PROCESSING"]
     \/ /\ route[d] = "PROCESSING"
        /\ \E s \in {"COMPLETED", "FAILED"} : route' = [route EXCEPT ![d] = s]
  /\ UNCHANGED <<chain, kind, credited, balance, panel, out>>

Credit(d) ==                            \* the platform counts it as spendable
  /\ route[d] = "COMPLETED" /\ d \notin credited
  /\ credited' = credited \cup {d} /\ balance' = balance + Amount[d]
  /\ UNCHANGED <<chain, kind, route, panel, out>>

----------------------------------------------------------------------------
(* ---- Following a deposit ---- *)
(* The bridge is asked for all routes of the address; a record is the deposit's  *)
(* own when chain, token and amount agree.                                       *)
Matches(d) == {e \in Deposits : kind[e] = "good" /\ Amount[e] = Amount[d] /\ route[e] # "none"}
StatusByChain(d) ==                     \* a mistake: the source chain's word is enough
  IF chain[d] = "deep" THEN {"arrived"} ELSE {"confirming"}
Arrived(d) == chain[d] \in {"mined", "deep"}
Status(d) ==                            \* deposit_status; a node may not have seen the transaction
  CASE chain[d] = "unsent" -> {"not_found"}
    [] chain[d] = "pending" -> {"not_found", "confirming"}
    [] chain[d] = "reverted" -> {"failed"}
    [] Arrived(d) /\ kind[d] # "good" -> {IF kind[d] = "target" THEN "wrong_target" ELSE "wrong_token"}
    [] Arrived(d) /\ kind[d] = "good" /\ (chain[d] = "mined" \/ Matches(d) = {}) -> {"confirming"}
    [] OTHER -> {IF \E e \in Matches(d) : route[e] = "FAILED" THEN "failed"
                 ELSE IF \E e \in Matches(d) : route[e] = "COMPLETED" THEN "arrived" ELSE "confirming"}

Ask(d) ==                               \* the operator names a transaction: confirm_deposit
  /\ asking = Unread
  /\ \E s \in Status(d) \cup {"error"} : asking' = [txid |-> d, state |-> s]
  /\ UNCHANGED <<outside, balance, watched, page, out, mixed>>

Answer ==                               \* what was read is what is followed from now on
  /\ asking # Unread
  /\ watched' = IF asking.state = "error" THEN [txid |-> None, state |-> "error"] ELSE asking
  /\ asking' = Unread
  /\ UNCHANGED <<outside, balance, page, out, mixed>>

Dismiss ==
  /\ watched.txid # None
  /\ watched' = Unread
  /\ UNCHANGED <<outside, balance, page, asking, out, mixed>>

Settled == {"arrived", "not_found", "failed"}
WatchReads(p) ==                        \* deposit_watch: only what is still on its way
  /\ page[p] = Unread /\ watched.txid # None /\ watched.state \notin Settled
  /\ \E s \in Status(watched.txid) : page' = [page EXCEPT ![p] = [txid |-> watched.txid, state |-> s]]
  /\ UNCHANGED <<outside, balance, watched, asking, out, mixed>>

WatchWrites(p) ==                       \* into whatever is followed by now
  /\ page[p] # Unread
  /\ watched' = [watched EXCEPT !.state = page[p].state]
  /\ mixed' = (mixed \/ page[p].txid # watched.txid)
  /\ page' = [page EXCEPT ![p] = Unread]
  /\ UNCHANGED <<outside, balance, asking, out>>

----------------------------------------------------------------------------
(* ---- Withdrawals ---- *)
Covered(w) == Withdrawals[w] <= balance

Withdraw(w) ==                          \* the balance is read, the choice and the minimum checked
  /\ out[w] = "none"
  /\ out' = [out EXCEPT ![w] = IF Covered(w) THEN "checked" ELSE "failed"]
  /\ UNCHANGED <<outside, balance, panel>>

RouteFails(w) ==                        \* no quote, no address: nothing has moved
  /\ out[w] = "checked"
  /\ out' = [out EXCEPT ![w] = "failed"]
  /\ UNCHANGED <<outside, balance, panel>>

TransferOut(w) ==                       \* the chain moves what is still there, or refuses
  /\ out[w] = "checked"
  /\ IF Withdrawals[w] <= balance
     THEN balance' = balance - Withdrawals[w] /\ out' = [out EXCEPT ![w] = "sent"]
     ELSE out' = [out EXCEPT ![w] = "failed"] /\ UNCHANGED balance
  /\ UNCHANGED <<outside, panel>>

WithdrawAnswers(w) ==                   \* handle.wait() returns, or raises although it was sent
  /\ out[w] = "sent"
  /\ \E s \in {"ok", "unknown"} : out' = [out EXCEPT ![w] = s]
  /\ UNCHANGED <<outside, balance, panel>>

Spend ==                                \* the robot buys
  /\ balance > 0 /\ balance' = balance - 1
  /\ UNCHANGED <<outside, panel, out>>

Next ==
  \/ \E d \in Deposits : Send(d) \/ Advance(d) \/ BridgeMoves(d) \/ Credit(d) \/ Ask(d)
  \/ Answer \/ Dismiss \/ (\E p \in Pages : WatchReads(p) \/ WatchWrites(p)) \/ Spend
  \/ \E w \in DOMAIN Withdrawals : Withdraw(w) \/ RouteFails(w) \/ TransferOut(w) \/ WithdrawAnswers(w)

Spec == Init /\ [][Next]_vars

----------------------------------------------------------------------------
(* What the panel says of the deposit it follows is true, whatever was lost or   *)
(* reordered on the way: "arrived" means confirmed, in an accepted token, at the *)
(* right address and completed by the bridge; "failed" that the chain or the     *)
(* bridge failed it; a wrong transfer is never waited for.  Except when another   *)
(* deposit of the same amount is on the bridge, which it cannot tell apart, or a *)
(* page wrote the state of the deposit followed before.                          *)
Twin(d) == \E e \in Matches(d) : e # d
PanelTellsTheTruth ==
  /\ TypeOK
  /\ LET d == watched.txid IN d # None /\ ~mixed =>
       CASE watched.state = "arrived" -> kind[d] = "good" /\ chain[d] = "deep" /\ (Twin(d) \/ route[d] = "COMPLETED")
         [] watched.state = "failed" -> chain[d] = "reverted" \/ Twin(d) \/ route[d] = "FAILED"
         [] watched.state \in {"wrong_target", "wrong_token"} -> kind[d] # "good"
         [] watched.state = "confirming" -> chain[d] # "unsent"
         [] OTHER -> watched.state \in {"", "not_found"}
=============================================================================
