------------------------------ MODULE WriteClient ------------------------------
(***************************************************************************)
(* PolymarketWriteTransport: how a call gets its connection, and how a      *)
(* quote becomes an order.  The robot's thread and the console's threads    *)
(* call one transport.  Connecting patches the SDK's class, process-wide,   *)
(* behind a lock; the connections themselves are kept without one.          *)
(***************************************************************************)
EXTENDS Integers, FiniteSets, Sequences, SequencesExt

CONSTANTS
  Threads,
  Quotes,
  MaxClients,   \* bound: connections ever made
  MaxPatches    \* bound: patches left on the class before connecting stops

WriteClientAssumption ==
  MaxClients \in Nat /\ MaxPatches \in Nat /\ {"read", "trade"} \cap Quotes = {}

VARIABLES
  init,      \* SyncTransport.__init__: the patches around the SDK's own, the outermost first
  lock,      \* _patch_lock
  pc,        \* thread -> "idle", "enter", "lock", "inside", "built", "using"
  work,      \* thread -> "read", "trade", or the quote whose order it places
  original,  \* thread -> what it read of init
  client,    \* thread -> the connection it holds, 0 for none
  setup,     \* _setup_client, 0 for none
  stale,     \* SETUP_CLIENT_SECONDS have passed since it was made
  trading,   \* _client
  made,      \* connections made
  ready,     \* connections whose wallet is deployed (_ensure_wallet_ready)
  closed,
  quotes,    \* quote -> "none", "live", "expired", "taken"
  orders     \* history: the orders sent, one entry each

vars == <<init, lock, pc, work, original, client, setup, stale, trading, made, ready, closed,
          quotes, orders>>
held == <<setup, stale, trading, made, ready, closed>>
book == <<quotes, orders>>

Clients == 1..MaxClients
Nobody == [own |-> FALSE, by |-> CHOOSE t \in Threads : TRUE]

TypeOK ==
  /\ init \in Seq(Threads) /\ lock.own \in BOOLEAN
  /\ pc \in [Threads -> {"idle", "enter", "lock", "inside", "built", "using"}]
  /\ work \in [Threads -> {"read", "trade"} \cup Quotes] /\ client \in [Threads -> 0..MaxClients]
  /\ {setup, trading} \subseteq 0..MaxClients /\ stale \in BOOLEAN /\ made \in 0..MaxClients
  /\ ready \subseteq Clients /\ closed \subseteq Clients
  /\ quotes \in [Quotes -> {"none", "live", "expired", "taken"}]

Init ==
  /\ init = <<>> /\ lock = Nobody
  /\ pc = [t \in Threads |-> "idle"] /\ work = [t \in Threads |-> "read"]
  /\ original = [t \in Threads |-> <<>>] /\ client = [t \in Threads |-> 0]
  /\ setup = 0 /\ stale = FALSE /\ trading = 0 /\ made = 0 /\ ready = {} /\ closed = {}
  /\ quotes = [q \in Quotes |-> "none"] /\ orders = <<>>

----------------------------------------------------------------------------
(* ---- Quotes ---- *)
GetQuote(q) ==
  /\ quotes[q] = "none"
  /\ quotes' = [quotes EXCEPT ![q] = "live"]
  /\ UNCHANGED <<init, lock, pc, work, original, client, held, orders>>

Expire(q) ==                            \* thirty seconds
  /\ quotes[q] = "live"
  /\ quotes' = [quotes EXCEPT ![q] = "expired"]
  /\ UNCHANGED <<init, lock, pc, work, original, client, held, orders>>

----------------------------------------------------------------------------
(* ---- _require_client ---- *)
ReadAnyReady(w) == setup # 0            \* a mistake: a set-up connection is taken for trading
Reusable(w) == w = "read" /\ setup # 0 /\ ~stale

(* The connection to go on with: the trading one for everything, the set-up one   *)
(* for reads while it is young; else a new one is made, the old set-up one closed. *)
Require(t, w) ==
  /\ work' = [work EXCEPT ![t] = w]
  /\ \/ /\ trading # 0
        /\ client' = [client EXCEPT ![t] = trading] /\ pc' = [pc EXCEPT ![t] = "using"]
        /\ UNCHANGED held
     \/ /\ trading = 0 /\ Reusable(w)
        /\ client' = [client EXCEPT ![t] = setup] /\ pc' = [pc EXCEPT ![t] = "using"]
        /\ UNCHANGED held
     \/ /\ trading = 0 /\ ~Reusable(w)
        /\ pc' = [pc EXCEPT ![t] = "enter"] /\ client' = [client EXCEPT ![t] = 0]
        /\ IF w = "read" /\ setup # 0
           THEN closed' = closed \cup {setup} /\ setup' = 0 ELSE UNCHANGED <<closed, setup>>
        /\ UNCHANGED <<stale, trading, made, ready>>

Call(t, w) ==                           \* balance, wallet, deposit address; or approvals, withdrawal
  /\ pc[t] = "idle" /\ w \in {"read", "trade"}
  /\ Require(t, w)
  /\ UNCHANGED <<init, lock, original, book>>

PlacePeeks(q) == quotes                 \* a mistake: the quote is only looked up
Taken(q) == [quotes EXCEPT ![q] = "taken"]

PlaceOrder(t, q) ==                     \* the quote is taken, whatever becomes of the order
  /\ pc[t] = "idle" /\ quotes[q] \in {"live", "expired"}
  /\ IF quotes[q] = "live" THEN Require(t, q) ELSE UNCHANGED <<pc, work, client, held>>
  /\ quotes' = Taken(q)
  /\ UNCHANGED <<init, lock, original, orders>>

Enter(t) ==                             \* _sdk_uses_our_network: original is read before the lock
  /\ pc[t] = "enter" /\ Len(init) < MaxPatches
  /\ original' = [original EXCEPT ![t] = init] /\ pc' = [pc EXCEPT ![t] = "lock"]
  /\ UNCHANGED <<init, lock, work, client, held, book>>

AcquireUnlocked(t) ==                   \* a mistake: the class is patched by whoever comes
  /\ pc[t] = "lock" /\ lock' = [own |-> TRUE, by |-> t]
  /\ init' = <<t>> \o original[t] /\ pc' = [pc EXCEPT ![t] = "inside"]
  /\ UNCHANGED <<work, original, client, held, book>>

Acquire(t) ==
  /\ pc[t] = "lock" /\ ~lock.own /\ lock' = [own |-> TRUE, by |-> t]
  /\ init' = <<t>> \o original[t] /\ pc' = [pc EXCEPT ![t] = "inside"]
  /\ UNCHANGED <<work, original, client, held, book>>

Connect(t) ==                           \* credentials, wallet, client; or the network fails
  /\ pc[t] = "inside"
  /\ init' = original[t] /\ lock' = Nobody
  /\ \/ /\ made < MaxClients
        /\ made' = made + 1 /\ client' = [client EXCEPT ![t] = made + 1]
        /\ pc' = [pc EXCEPT ![t] = "built"]
     \/ pc' = [pc EXCEPT ![t] = "idle"] /\ UNCHANGED <<made, client>>
  /\ UNCHANGED <<work, original, setup, stale, trading, ready, closed, book>>

Keep(t) ==                              \* the wallet is deployed for trading, and may refuse
  /\ pc[t] = "built"
  /\ IF work[t] = "read"
     THEN /\ setup' = client[t] /\ stale' = FALSE /\ pc' = [pc EXCEPT ![t] = "using"]
          /\ UNCHANGED <<trading, ready, closed>>
     ELSE /\ UNCHANGED <<setup, stale>>
          /\ \/ /\ trading' = client[t] /\ ready' = ready \cup {client[t]}
                /\ pc' = [pc EXCEPT ![t] = "using"] /\ UNCHANGED closed
             \/ /\ closed' = closed \cup {client[t]} /\ pc' = [pc EXCEPT ![t] = "idle"]
                /\ UNCHANGED <<trading, ready>>
  /\ UNCHANGED <<init, lock, work, original, client, made, book>>

Use(t) ==                               \* the call itself; an order goes out, or is not answered
  /\ pc[t] = "using"
  /\ pc' = [pc EXCEPT ![t] = "idle"]
  /\ orders' = IF work[t] \in Quotes THEN Append(orders, work[t]) ELSE orders
  /\ UNCHANGED <<init, lock, work, original, client, held, quotes>>

GrowStale ==
  /\ setup # 0 /\ ~stale /\ stale' = TRUE
  /\ UNCHANGED <<init, lock, pc, work, original, client, setup, trading, made, ready, closed, book>>

Close ==                                \* the plugin is torn down or its configuration replaced
  /\ {setup, trading} # {0}
  /\ closed' = closed \cup ({setup, trading} \ {0}) /\ setup' = 0 /\ trading' = 0
  /\ UNCHANGED <<init, lock, pc, work, original, client, stale, made, ready, book>>

Next ==
  \/ \E t \in Threads :
       \/ \E w \in {"read", "trade"} : Call(t, w)
       \/ \E q \in Quotes : PlaceOrder(t, q)
       \/ Enter(t) \/ Acquire(t) \/ Connect(t) \/ Keep(t) \/ Use(t)
  \/ (\E q \in Quotes : GetQuote(q) \/ Expire(q)) \/ GrowStale \/ Close

Spec == Init /\ [][Next]_vars

----------------------------------------------------------------------------
(* Trading is done on a connection whose wallet exists, over the plugin's own     *)
(* network: the set-up connection "never quietly stands in for the real one", and *)
(* while a thread connects, the outermost patch is its own.                       *)
TradesOnItsOwnClient ==
  /\ TypeOK
  /\ \A t \in Threads :
       /\ pc[t] = "using" /\ work[t] # "read" => client[t] \in ready
       /\ pc[t] = "inside" => init # <<>> /\ Head(init) = t

(* A quote is one order at most, however many callers hold its id, and however   *)
(* an earlier attempt at it failed.                                              *)
QuoteIsUsedOnce ==
  \A q \in Quotes :
    /\ Cardinality({i \in 1..Len(orders) : orders[i] = q}) <= 1
    /\ Cardinality({t \in Threads : pc[t] # "idle" /\ work[t] = q}) <= 1

(* "The patch is on the SDK class and therefore process-wide, which is why it is  *)
(* held only for the call that needs it": with nobody connecting the SDK is as    *)
(* it was.                                                                       *)
PatchIsLifted == ~lock.own => init = <<>>
=============================================================================
