----------------------------- MODULE MarketStream -----------------------------
(***************************************************************************)
(* MarketBookStream: one thread keeps a WebSocket to Polymarket's market    *)
(* channel, callers ask it for order books and wait.  A subscription is     *)
(* answered with the whole book, later changes are applied to it.           *)
(*                                                                          *)
(* The venue's book of a token is its version number.  Both directions of   *)
(* the socket are queues; the socket may break long before it is noticed.   *)
(***************************************************************************)
EXTENDS Integers, FiniteSets, Sequences, SequencesExt

CONSTANTS
  Tokens, Callers,
  MaxSubscriptions,
  MaxVersion,     \* bound: versions of one book
  MaxConnects,    \* bound
  MaxWire,        \* bound: messages under way in one direction before more are produced
  None

MarketStreamAssumption ==
  /\ IsFiniteSet(Tokens) /\ None \notin Tokens
  /\ MaxSubscriptions \in Nat \ {0} /\ MaxVersion \in Nat \ {0}

VARIABLES
  wanted,      \* the tokens wanted, the one requested longest ago first (_last_requested)
  subscribed, refresh,
  books,       \* _books: the version held, 0 for none, Torn for a wrong mixture
  fresh,       \* held no longer than max_age_seconds
  loop,        \* "off", "idle", "connecting", "up"
  initial,     \* the tokens the connection will open with
  waiting,     \* caller -> the token it waits for
  asked,       \* history: caller -> tokens requested since
  stopped,     \* _stop
  version,     \* the venue's books
  serving,     \* the venue's subscriptions of this connection
  broken,      \* the socket is dead, not yet noticed
  out, in,     \* commands on their way to the venue, messages on their way back
  connects

vars == <<wanted, subscribed, refresh, books, fresh, loop, initial, waiting, asked, stopped,
          version, serving, broken, out, in, connects>>
client == <<wanted, subscribed, refresh, books, fresh, loop, initial, waiting, asked, stopped>>
socket == <<serving, broken, out, in, connects>>

Torn == MaxVersion + 1
Want == ToSet(wanted)
Connected == loop = "up"

TypeOK ==
  /\ wanted \in BoundedSeq(Tokens, MaxSubscriptions) /\ IsInjective(wanted)
  /\ subscribed \subseteq Tokens /\ refresh \subseteq Tokens /\ fresh \subseteq Tokens
  /\ books \in [Tokens -> 0..Torn] /\ loop \in {"off", "idle", "connecting", "up"}
  /\ initial \subseteq Tokens /\ waiting \in [Callers -> Tokens \cup {None}]
  /\ asked \in [Callers -> SUBSET Tokens] /\ stopped \in BOOLEAN
  /\ version \in [Tokens -> 1..MaxVersion] /\ serving \subseteq Tokens /\ broken \in BOOLEAN

Init ==
  /\ wanted = <<>> /\ subscribed = {} /\ refresh = {} /\ books = [t \in Tokens |-> 0] /\ fresh = {}
  /\ loop = "off" /\ initial = {} /\ waiting = [c \in Callers |-> None]
  /\ asked = [c \in Callers |-> {}] /\ stopped = FALSE
  /\ version = [t \in Tokens |-> 1] /\ serving = {} /\ broken = FALSE
  /\ out = <<>> /\ in = <<>> /\ connects = 0

----------------------------------------------------------------------------
(* ---- Callers ---- *)
Usable(t) == books[t] # 0 /\ Connected /\ t \in fresh

Evicted(t) ==                           \* over the limit: the one requested longest ago
  IF t \notin Want /\ Len(wanted) = MaxSubscriptions THEN {wanted[1]} ELSE {}

Place(t) == CHOOSE i \in DOMAIN wanted : wanted[i] = t
Requested(t) ==                         \* t is now the one requested last
  Append(IF t \in Want THEN RemoveAt(wanted, Place(t))
         ELSE IF Evicted(t) # {} THEN Tail(wanted) ELSE wanted, t)

NeededOnce(t) == IF t \in Want THEN {} ELSE {t}     \* a mistake: a subscription is thought enough
Needed(t) == IF Usable(t) THEN {} ELSE {t}

GetBook(c, t) ==                        \* returned at once, or waited for
  /\ waiting[c] = None /\ ~stopped
  /\ LET gone == Evicted(t) IN
     /\ wanted' = Requested(t)
     /\ books' = [u \in Tokens |-> IF u \in gone THEN 0 ELSE books[u]]
     /\ refresh' = (refresh \ gone) \cup Needed(t)
     /\ fresh' = fresh \ gone
  /\ loop' = IF ~Usable(t) /\ loop = "off" THEN "idle" ELSE loop
  /\ waiting' = [waiting EXCEPT ![c] = IF Usable(t) THEN None ELSE t]
  /\ asked' = [d \in Callers |-> IF d = c THEN {} ELSE asked[d] \cup {t}]
  /\ UNCHANGED <<subscribed, initial, stopped, version, socket>>

Return(c) ==                            \* woken: by its own book, another's, or for nothing
  /\ waiting[c] # None /\ Usable(waiting[c])
  /\ waiting' = [waiting EXCEPT ![c] = None]
  /\ UNCHANGED <<wanted, subscribed, refresh, books, fresh, loop, initial, asked, stopped, version, socket>>

GiveUp(c) ==                            \* wait_seconds, or the stream was closed
  /\ waiting[c] # None
  /\ waiting' = [waiting EXCEPT ![c] = None]
  /\ UNCHANGED <<wanted, subscribed, refresh, books, fresh, loop, initial, asked, stopped, version, socket>>

(* max_age_seconds.  No book grows old under a caller that waits for it: a wait is *)
(* 8 seconds, and a book that arrives during it lasts 15.                          *)
GrowOld(t) ==
  /\ t \in fresh /\ \A c \in Callers : waiting[c] # t
  /\ fresh' = fresh \ {t}
  /\ UNCHANGED <<wanted, subscribed, refresh, books, loop, initial, waiting, asked, stopped, version, socket>>

Close ==
  /\ ~stopped /\ stopped' = TRUE
  /\ UNCHANGED <<wanted, subscribed, refresh, books, fresh, loop, initial, waiting, asked, version, socket>>

----------------------------------------------------------------------------
(* ---- The connection thread ---- *)
Begin ==                                \* waits for something to ask for
  /\ loop = "idle" /\ wanted # <<>> /\ ~stopped /\ connects < MaxConnects
  /\ loop' = "connecting" /\ initial' = Want
  /\ UNCHANGED <<wanted, subscribed, refresh, books, fresh, waiting, asked, stopped, version, socket>>

ConnectFails ==                         \* tried again after the delay
  /\ loop = "connecting"
  /\ loop' = "idle"
  /\ UNCHANGED <<wanted, subscribed, refresh, books, fresh, initial, waiting, asked, stopped, version, socket>>

Commands(kind, s) == SetToSeq({<<kind, t>> : t \in s})

Connect ==                              \* old books are dropped, the first tokens subscribed
  /\ loop = "connecting"
  /\ loop' = "up" /\ books' = [t \in Tokens |-> 0] /\ fresh' = {}
  /\ subscribed' = initial /\ refresh' = refresh \ initial
  /\ out' = Commands("subscribe", initial) /\ in' = <<>>
  /\ serving' = {} /\ broken' = FALSE /\ connects' = connects + 1
  /\ UNCHANGED <<wanted, initial, waiting, asked, stopped, version>>

Added == Want \ subscribed
Renewed == refresh \cap Want \cap subscribed
RefreshLeft(added, renewed) == refresh \ (added \cup renewed)

Synchronise ==                          \* the top of the receive loop
  /\ loop = "up" /\ ~stopped /\ Len(out) < MaxWire
  /\ LET removed == subscribed \ Want IN
     /\ removed # {} \/ Added # {} \/ Renewed # {}
     /\ subscribed' = (subscribed \ removed) \cup Added
     /\ refresh' = RefreshLeft(Added, Renewed)
     /\ out' = out \o Commands("unsubscribe", removed) \o Commands("subscribe", Added)
                   \o Commands("unsubscribe", Renewed) \o Commands("subscribe", Renewed)
  /\ UNCHANGED <<wanted, books, fresh, loop, initial, waiting, asked, stopped, version, serving, broken, in, connects>>

AcceptAnyChange(t, v) ==                \* a mistake: a change is taken for a book
  IF books[t] = v - 1 THEN v ELSE Torn
AcceptChange(t, v) ==                   \* applied to a whole book only
  IF books[t] = 0 THEN 0 ELSE IF books[t] = v - 1 THEN v ELSE Torn

Receive ==                              \* _accept; what is not wanted is ignored
  /\ loop = "up" /\ ~stopped /\ in # <<>>
  /\ LET msg == Head(in)
         v == IF msg.kind = "book" THEN msg.version ELSE AcceptChange(msg.token, msg.version)
     IN  IF msg.token \in Want /\ v # 0
         THEN books' = [books EXCEPT ![msg.token] = v] /\ fresh' = fresh \cup {msg.token}
         ELSE UNCHANGED <<books, fresh>>
  /\ in' = Tail(in)
  /\ UNCHANGED <<wanted, subscribed, refresh, loop, initial, waiting, asked, stopped, version, serving, broken, out, connects>>

DisconnectKeepsBooks ==                 \* a mistake: as if nothing could change meanwhile
  /\ loop = "up"
  /\ loop' = (IF stopped THEN "off" ELSE "connecting") /\ initial' = Want /\ subscribed' = {}
  /\ serving' = {} /\ broken' = FALSE /\ out' = <<>> /\ in' = <<>>
  /\ UNCHANGED <<wanted, refresh, books, fresh, waiting, asked, stopped, version, connects>>

Disconnect ==                           \* an error, a heartbeat unanswered, or close()
  /\ loop = "up"
  /\ loop' = (IF stopped THEN "off" ELSE "idle") /\ books' = [t \in Tokens |-> 0] /\ fresh' = {}
  /\ subscribed' = {} /\ serving' = {} /\ broken' = FALSE /\ out' = <<>> /\ in' = <<>>
  /\ UNCHANGED <<wanted, refresh, initial, waiting, asked, stopped, version, connects>>

LoopEnds ==
  /\ stopped /\ loop \in {"idle", "connecting"}
  /\ loop' = "off"
  /\ UNCHANGED <<wanted, subscribed, refresh, books, fresh, initial, waiting, asked, stopped, version, socket>>

----------------------------------------------------------------------------
(* ---- The venue and the wire ---- *)
VenueTakes ==                           \* a subscription is answered with the whole book
  /\ out # <<>> /\ ~broken /\ Len(in) < MaxWire
  /\ LET cmd == Head(out) IN
     IF cmd[1] = "subscribe"
     THEN /\ serving' = serving \cup {cmd[2]}
          /\ in' = Append(in, [kind |-> "book", token |-> cmd[2], version |-> version[cmd[2]]])
     ELSE serving' = serving \ {cmd[2]} /\ UNCHANGED in
  /\ out' = Tail(out)
  /\ UNCHANGED <<client, version, broken, connects>>

VenueMoves(t) ==
  /\ version[t] < MaxVersion /\ (t \in serving => Len(in) < MaxWire)
  /\ version' = [version EXCEPT ![t] = @ + 1]
  /\ in' = IF t \in serving /\ ~broken
           THEN Append(in, [kind |-> "change", token |-> t, version |-> version[t] + 1]) ELSE in
  /\ UNCHANGED <<client, serving, broken, out, connects>>

Break ==                                \* nothing comes through any more, and nobody knows yet
  /\ loop = "up" /\ ~broken
  /\ broken' = TRUE /\ out' = <<>> /\ in' = <<>>
  /\ UNCHANGED <<client, version, serving, connects>>

Next ==
  \/ \E c \in Callers : (\E t \in Tokens : GetBook(c, t)) \/ Return(c) \/ GiveUp(c)
  \/ (\E t \in Tokens : GrowOld(t) \/ VenueMoves(t))
  \/ Close \/ Begin \/ ConnectFails \/ Connect \/ Synchronise \/ Receive \/ Disconnect \/ LoopEnds
  \/ VenueTakes \/ Break

Spec == Init /\ [][Next]_vars

----------------------------------------------------------------------------
(* "Never serve a disconnected or stale book": a book a caller can be given is a *)
(* whole one of this connection, and, until the socket breaks, whatever it lacks  *)
(* of the venue's is in the wire or will be asked for.                           *)
SnapshotComing(t) ==
  \/ \E i \in 1..Len(in) : in[i].kind = "book" /\ in[i].token = t
  \/ \E i \in 1..Len(out) : out[i] = <<"subscribe", t>>
  \/ t \in Added \/ t \in Renewed
BooksAreCurrent ==
  /\ TypeOK
  /\ \A t \in Tokens :
       /\ books[t] # Torn /\ (books[t] # 0 => Connected /\ t \in Want)
       /\ books[t] \notin {0, version[t]} =>
            broken \/ SnapshotComing(t) \/ \E i \in 1..Len(in) : in[i].token = t

(* A caller that waits is answered unless the socket fails it: its book is on the *)
(* way, and the limit takes its subscription only when that many other tokens    *)
(* were asked for after it.                                                      *)
RequestsAreServed ==
  \A c \in Callers : waiting[c] # None =>
    LET t == waiting[c] IN
    IF t \in Want THEN Connected /\ ~broken => Usable(t) \/ SnapshotComing(t)
    ELSE Cardinality(asked[c] \ {t}) >= MaxSubscriptions
=============================================================================
