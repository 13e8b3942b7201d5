------------------------------- MODULE AdminAuth -------------------------------
(* The administrator's passkeys and device sessions (runtime/auth.py) and the   *)
(* routes of the console that use them (runtime/dashboard.py).  The database is *)
(* shared by the event loop, where logins and the first look at a request run,  *)
(* and by worker threads, where envelopes are opened and operations are carried *)
(* out: between two statements of one, the other's may run.  A login holds the  *)
(* loop from its check to its session.  A ceremony's cryptography is external:  *)
(* it succeeds for the passkey that takes part.                                 *)
EXTENDS Naturals, FiniteSets, TLC

CONSTANTS
  Passkeys,      \* credentials an authenticator may present
  Requests,      \* envelopes in flight at once
  Nonces,        \* nonces a browser uses; one sent again is a repeated envelope
  Idle,          \* admin_session_hours, in ticks
  Absolute,      \* admin_absolute_session_hours, in ticks
  MaxTime,       \* bound: ticks
  MaxCeremonies, \* bound: ceremonies begun
  None

AdminAuthAssumption ==
  IsFiniteSet(Passkeys) /\ \A n \in {Idle, Absolute, MaxTime, MaxCeremonies} : n \in Nat

VARIABLES
  now, keys,     \* the clock; the registered passkeys
  challenges,    \* open ceremonies: [id, purpose, expires]
  begun,         \* ceremonies begun, so the number of the last
  sessions,      \* [id, key, last, expires]; a session has its ceremony's number
  nonces,        \* <<session, nonce>> already used
  login,         \* a login between its check and its session: [id, key]
  req,           \* a request to /api/secure: [at, id, nonce]
  initialised,   \* history: a first passkey was registered
  ran,           \* history: envelopes whose operation was carried out
  repeated       \* history: those carried out more than once

vars == <<now, keys, challenges, begun, sessions, nonces, login, req, initialised, ran, repeated>>

Resting == [at |-> "idle", id |-> None, nonce |-> None]

Init == /\ now = 0 /\ keys = {} /\ challenges = {} /\ begun = 0
        /\ sessions = {} /\ nonces = {} /\ login = None
        /\ req = [r \in Requests |-> Resting]
        /\ initialised = FALSE /\ ran = {} /\ repeated = {}

\* _cleanup: what every ceremony and every look at a session does first
Live(s) == s.expires >= now /\ s.last + Idle >= now
Cleaned == {s \in sessions : Live(s)}
CleanNonces(ss) == {x \in nonces : \E s \in ss : s.id = x[1]}
Cleanup == /\ sessions' = Cleaned
           /\ nonces' = CleanNonces(Cleaned)

Tick == /\ now < MaxTime /\ now' = now + 1
        /\ UNCHANGED <<keys, challenges, begun, sessions, nonces, login, req, initialised, ran, repeated>>

\* a ceremony is written down
Ceremony(purpose) ==
  /\ begun < MaxCeremonies
  /\ begun' = begun + 1
  /\ challenges' = {c \in challenges : c.expires >= now} \cup {[id |-> begun + 1, purpose |-> purpose, expires |-> now]}
  /\ Cleanup
  /\ UNCHANGED <<now, keys, login, req, initialised, ran, repeated>>

\* the first passkey only before there is an administrator, a further one only after
RegistrationOptions == \/ keys = {} /\ login = None /\ Ceremony("register")
                       \/ keys # {} /\ Ceremony("add")

LoginOptions == keys # {} /\ login = None /\ Ceremony("login")

NewSession(id, k) == [id |-> id, key |-> k, last |-> now, expires |-> now + Absolute]

\* verify_registration: the challenge is used up whatever comes of it.  The first
\* passkey begins a session; a further one does not.
Register(k) ==
  /\ login = None
  /\ \E c \in challenges :
       /\ challenges' = challenges \ {c}
       /\ IF c.purpose = "register" /\ c.expires >= now /\ keys = {}
          THEN /\ keys' = {k} /\ initialised' = TRUE
               /\ sessions' = sessions \cup {NewSession(c.id, k)}
          ELSE UNCHANGED <<keys, initialised, sessions>>
  /\ UNCHANGED <<now, begun, nonces, login, req, ran, repeated>>

AddPasskey(k) ==
  /\ \E c \in challenges :
       /\ challenges' = challenges \ {c}
       /\ keys' = IF c.purpose = "add" /\ c.expires >= now /\ keys # {} THEN keys \cup {k} ELSE keys
  /\ UNCHANGED <<now, begun, sessions, nonces, login, req, initialised, ran, repeated>>

\* verify_authentication: the challenge is used up and the passkey read ...
LoginChecks(k) ==
  /\ login = None
  /\ \E c \in challenges :
       /\ challenges' = challenges \ {c}
       /\ login' = IF c.purpose = "login" /\ c.expires >= now /\ k \in keys THEN [id |-> c.id, key |-> k] ELSE None
  /\ UNCHANGED <<now, keys, begun, sessions, nonces, req, initialised, ran, repeated>>

\* ... and, in another transaction, the session is created.  Its passkey must
\* still be there: a worker may have deleted it (a foreign key).
BackedByAnything(k) == TRUE
Backed(k) == k \in keys
LoginCreates ==
  /\ login # None
  /\ sessions' = IF Backed(login.key) THEN sessions \cup {NewSession(login.id, login.key)} ELSE sessions
  /\ login' = None
  /\ UNCHANGED <<now, keys, challenges, begun, nonces, req, initialised, ran, repeated>>

\* secure_api: a request whose session is live
Arrive(r) ==
  /\ login = None /\ req[r].at = "idle"
  /\ Cleanup
  /\ \E s \in Cleaned, n \in Nonces : req' = [req EXCEPT ![r] = [at |-> "checked", id |-> s.id, nonce |-> n]]
  /\ UNCHANGED <<now, keys, challenges, begun, login, initialised, ran, repeated>>

\* decrypt, on a thread: the nonce is written down before the envelope is opened,
\* and one that is there already, or an envelope that does not open, ends it
Open(r) ==
  /\ req[r].at = "checked"
  /\ nonces' = nonces \cup {<<req[r].id, req[r].nonce>>}
  /\ \/ req' = [req EXCEPT ![r] = Resting]
     \/ <<req[r].id, req[r].nonce>> \notin nonces /\ req' = [req EXCEPT ![r].at = "opened"]
  /\ UNCHANGED <<now, keys, challenges, begun, sessions, login, initialised, ran, repeated>>

\* the idle clock of the session starts again, when it is still there
Touch(r) ==
  /\ login = None /\ req[r].at = "opened"
  /\ sessions' = {IF s.id = req[r].id THEN [s EXCEPT !.last = now] ELSE s : s \in Cleaned}
  /\ nonces' = CleanNonces(Cleaned)
  /\ req' = [req EXCEPT ![r].at = "dispatched"]
  /\ UNCHANGED <<now, keys, challenges, begun, login, initialised, ran, repeated>>

\* delete_credential, in one transaction: never the last one, and its sessions go with it
DeletePasskey(k) ==
  /\ k \in keys /\ Cardinality(keys) > 1
  /\ keys' = keys \ {k}
  /\ sessions' = {s \in sessions : s.key # k}

\* kick_sessions, logout
EndSessions(ids) == /\ sessions' = {s \in sessions : s.id \notin ids}
                    /\ UNCHANGED keys

Operation(own) ==
  \/ UNCHANGED <<keys, sessions>>
  \/ \E k \in keys : DeletePasskey(k)
  \/ \E ids \in SUBSET {s.id : s \in sessions} : ids # {} /\ EndSessions(ids)
  \/ EndSessions({own})

\* dispatch, on a thread: whatever became of the session meanwhile
Dispatch(r) ==
  /\ req[r].at = "dispatched"
  /\ Operation(req[r].id)
  /\ ran' = ran \cup {<<req[r].id, req[r].nonce>>}
  /\ repeated' = repeated \cup ({<<req[r].id, req[r].nonce>>} \cap ran)
  /\ req' = [req EXCEPT ![r] = Resting]
  /\ UNCHANGED <<now, challenges, begun, nonces, login, initialised>>

\* the same operations from the machine itself, which has no session
Local == /\ Operation(None)
         /\ UNCHANGED <<now, challenges, begun, nonces, login, req, initialised, ran, repeated>>

Next == \/ Tick \/ RegistrationOptions \/ LoginOptions \/ LoginCreates \/ Local
        \/ \E k \in Passkeys : Register(k) \/ AddPasskey(k) \/ LoginChecks(k)
        \/ \E r \in Requests : Arrive(r) \/ Open(r) \/ Touch(r) \/ Dispatch(r)

Spec == Init /\ [][Next]_vars

\* What bears the number of a ceremony.
Numbers == 1..begun
Challenges == [id : Numbers, purpose : {"register", "add", "login"}, expires : 0..now]
Sessions == [id : Numbers, key : Passkeys, last : 0..now, expires : 0..(now + Absolute)]
Logins == [id : Numbers, key : Passkeys]
Envelopes == [at : {"checked", "opened", "dispatched"}, id : Numbers, nonce : Nonces]

TypeOK ==
  /\ now \in 0..MaxTime /\ keys \subseteq Passkeys /\ begun \in 0..MaxCeremonies
  /\ challenges \subseteq Challenges /\ sessions \subseteq Sessions /\ login \in Logins \cup {None}
  /\ req \in [Requests -> Envelopes \cup {Resting}]
  /\ nonces \cup ran \cup repeated \subseteq Numbers \X Nonces

\* Every session stands on a passkey that is registered now (deleting one ends its
\* sessions, also while a login with it is under way) and on a ceremony of its
\* own, used up; an administrator, once there is one, never loses the last
\* passkey; and as long as a session lives no envelope of it is carried out
\* twice, however its copies, the idle clock and the cleaning of used nonces
\* interleave (runtime/auth.py; docs/AUTHENTICATION.md: a session is tied to its
\* passkey, the last passkey stays, a nonce serves once).
SessionsAreEarned ==
  /\ TypeOK
  /\ initialised => keys # {}
  /\ \A s \in sessions :
       /\ s.key \in keys
       /\ \A t \in sessions : t.id = s.id => t = s
       /\ \A c \in challenges : c.id # s.id
       /\ login # None => login.id # s.id
       /\ \A x \in repeated : x[1] # s.id
================================================================================
