------------------------------ MODULE Providers ------------------------------
(***************************************************************************)
(* Who may be asked for a decision, and who is told that nobody can be.    *)
(* FallbackDecisionProvider (agent/decision.py) puts each call to a ready  *)
(* provider and reports the outcome to ProviderHealthRegistry              *)
(* (agent/provider_health.py); ProviderQuality (runtime/provider_quality.py)*)
(* checks failed providers out of band; DecisionCapacityWatch              *)
(* (runtime/decision_capacity.py) tells the API plugins whether anything   *)
(* can answer; the operator's recheck (controller.recheck_providers) runs  *)
(* beside all of it.                                                       *)
(*                                                                         *)
(* Time is in ticks and relative: a cooldown is what is left of it, the    *)
(* age of the last probe is capped at the probing interval.  Which of the  *)
(* ready providers comes first (measured quality or the configured order)  *)
(* is left open.                                                           *)
(***************************************************************************)
EXTENDS Integers, FiniteSets

CONSTANTS
  Names,          \* the configured providers
  Reporting,      \* those whose client can tell its quota for free
  Callers,        \* threads that put calls to the pool
  RateLimited,    \* COOLDOWN_SECONDS of a rate limit, in ticks
  Otherwise,      \* COOLDOWN_SECONDS of any other failure
  Ceiling,        \* COOLDOWN_CEILING
  Stated,         \* how far ahead a limit may say it lifts; 0: it does not say
  ProbeInterval,  \* PROBE_INTERVAL_SECONDS
  MaxStreak,      \* bound: failures in a row after which every backoff is at its ceiling
  Overlapping     \* whether the operator's recheck may run beside the watch's own check

ProvidersAssumption ==
  /\ IsFiniteSet(Names) /\ Reporting \subseteq Names
  /\ {RateLimited, Otherwise, Ceiling} \subseteq Nat \ {0}
  /\ Stated \subseteq Nat /\ Stated # {} /\ ProbeInterval \in Nat /\ MaxStreak \in Nat \ {0}
  /\ \A base \in {RateLimited, Otherwise} : base * 2^(MaxStreak - 1) >= Ceiling
  /\ Overlapping \in BOOLEAN

VARIABLES
  mood,    \* environment: "up", "limited" (its client knows), "broken" (its client does not)
  st,      \* ProviderState of each provider
  call,    \* FallbackDecisionProvider._attempt of each caller
  probe,   \* ProviderQuality.probe_recovering, on its worker and in the console
  looked,  \* _looked: each client was asked once about its quota
  check,   \* DecisionCapacityWatch.check, on the watch thread and in the console
  told,    \* _state["available"]: what the watch knows; "unknown" when it starts
  may,     \* _may_decide of the plugins, what they were last told
  due,     \* history: failures since a real answer, ticks owed for them, unproved since
  overtaken \* history: whether the last announcement put out a belief already replaced

vars == <<mood, st, call, probe, looked, check, told, may, due, overtaken>>

Threads == {"background", "console"}
LongestWait == CHOOSE n \in Stated \cup {Ceiling} : \A m \in Stated \cup {Ceiling} : m <= n

TypeOK ==
  /\ mood \in [Names -> {"up", "limited", "broken"}]
  /\ st \in [Names -> [wait : 0..LongestWait, probation : BOOLEAN,
                       fails : 0..MaxStreak, probed : 0..ProbeInterval]]
  /\ call \in [Callers -> [pc : {"idle", "next", "asking"}, left : SUBSET Names, at : SUBSET Names]]
  /\ probe \in [Threads -> [pc : {"idle", "list", "next", "probing"}, left : SUBSET Names, at : SUBSET Names]]
  /\ looked \in BOOLEAN /\ may \in BOOLEAN /\ overtaken \in BOOLEAN /\ told \in {"yes", "no", "unknown"}
  /\ check \in [Threads -> [pc : {"idle", "read", "store", "tell"}, reading : {"yes", "no"}]]
  /\ due \in [Names -> [streak : 0..MaxStreak, owed : 0..LongestWait, unproved : BOOLEAN]]

(* probed: ticks since the last probe, as far as the interval. *)
Idle == [pc |-> "idle", reading |-> "no"]
Fresh == [wait |-> 0, probation |-> FALSE, fails |-> 0, probed |-> ProbeInterval]

Init ==
  /\ mood \in [Names -> {"up", "limited", "broken"}]
  /\ st = [p \in Names |-> Fresh]
  /\ call = [c \in Callers |-> [pc |-> "idle", left |-> {}, at |-> {}]]
  /\ probe = [b \in Threads |-> [pc |-> "idle", left |-> {}, at |-> {}]]
  /\ looked = FALSE /\ told = "unknown" /\ may = TRUE /\ overtaken = FALSE
  /\ check = [k \in Threads |-> Idle]
  /\ due = [p \in Names |-> [streak |-> 0, owed |-> 0, unproved |-> FALSE]]

----------------------------------------------------------------------------
(* ---- ProviderHealthRegistry ---- *)
Ready(s) == s.wait = 0 /\ ~s.probation
NeedsProbe(s) == s.probation /\ s.wait = 0 /\ s.probed = ProbeInterval
HasReady(states) == IF \E p \in Names : Ready(states[p]) THEN "yes" ELSE "no"   \* capacity_reading
Count(n) == IF n < MaxStreak THEN n + 1 ELSE n
Smaller(m, n) == IF m < n THEN m ELSE n
Base(kind) == IF kind = "rate_limit" THEN RateLimited ELSE Otherwise

(* Plausible mistakes; no specification uses them. *)
CooldownUncapped(kind, n, stated) ==   \* the backoff grows past its ceiling
  IF stated > 0 THEN stated ELSE Base(kind) * 2^(n - 1)
RecordProbeAsSuccess(s) ==             \* a report counts as an answer: the streak is forgotten
  [s EXCEPT !.fails = 0, !.wait = 0, !.probation = FALSE]
ProbesNeverDone(b) ==                  \* the worker ends without releasing _probing
  /\ b = "console" /\ probe[b].pc = "next" /\ probe[b].left = {}
  /\ probe' = [probe EXCEPT ![b].pc = "idle"] /\ check' = [check EXCEPT ![b].pc = "read"]
  /\ UNCHANGED <<mood, st, call, looked, told, may, due, overtaken>>
AnnounceOutage(k) ==                   \* plugins are told to stand down, never to start again
  /\ check[k].pc = "tell" /\ may' = (may /\ check[k].reading = "yes")
  /\ overtaken' = (told # check[k].reading)
  /\ check' = [check EXCEPT ![k] = Idle]
  /\ UNCHANGED <<mood, st, call, probe, looked, told, due>>
StoreOnce(k) ==                        \* only the first reading is announced
  /\ check[k].pc = "store" /\ told' = check[k].reading
  /\ check' = [check EXCEPT ![k] = IF told # "unknown" THEN Idle ELSE [@ EXCEPT !.pc = "tell"]]
  /\ UNCHANGED <<mood, st, call, probe, looked, may, due, overtaken>>

(* A failure that states when it lifts is taken at its word; any other is   *)
(* backed off by its kind and by the failures in a row.                     *)
Cooldown(kind, n, stated) ==
  IF stated > 0 THEN stated ELSE Smaller(Ceiling, Base(kind) * 2^(n - 1))

RecordFailure(s, kind, stated) ==
  [s EXCEPT !.fails = Count(@), !.probation = TRUE, !.wait = Cooldown(kind, Count(s.fails), stated)]
RecordSuccess(s) == [s EXCEPT !.fails = 0, !.wait = 0, !.probation = FALSE]
RecordProbeSuccess(s) == [s EXCEPT !.wait = 0, !.probation = FALSE]

(* The same events as the history sees them. *)
Owes(d, kind, stated) ==
  [streak |-> Count(d.streak), owed |-> Cooldown(kind, Count(d.streak), stated), unproved |-> TRUE]
Settles == [streak |-> 0, owed |-> 0, unproved |-> FALSE]

Fails(p, kind, stated) ==
  /\ st' = [st EXCEPT ![p] = RecordFailure(@, kind, stated)]
  /\ due' = [due EXCEPT ![p] = Owes(@, kind, stated)]
Refuses(p) ==                        \* a call that was put to a provider that is not up
  IF mood[p] = "limited" THEN \E s \in Stated : Fails(p, "rate_limit", s) ELSE Fails(p, "other", 0)
Succeeds(p) ==
  /\ st' = [st EXCEPT ![p] = RecordSuccess(@)]
  /\ due' = [due EXCEPT ![p] = Settles]

----------------------------------------------------------------------------
(* ---- FallbackDecisionProvider._attempt ---- *)
(* A cycle asks for the capacity before it starts, so the first look is     *)
(* over; with nobody ready the attempt raises at once.                      *)
Attempt(c) ==
  /\ looked /\ call[c].pc = "idle" /\ \E p \in Names : Ready(st[p])
  /\ call' = [call EXCEPT ![c] = [pc |-> "next", left |-> {p \in Names : Ready(st[p])}, at |-> {}]]
  /\ UNCHANGED <<mood, st, probe, looked, check, told, may, due, overtaken>>

Ask(c, p) ==
  /\ call[c].pc = "next" /\ p \in call[c].left
  /\ call' = [call EXCEPT ![c] = [pc |-> "asking", left |-> @.left \ {p}, at |-> {p}]]
  /\ UNCHANGED <<mood, st, probe, looked, check, told, may, due, overtaken>>

Answer(c, p) ==
  /\ call[c].at = {p}
  /\ IF mood[p] = "up"
     THEN Succeeds(p) /\ call' = [call EXCEPT ![c] = [pc |-> "idle", left |-> {}, at |-> {}]]
     ELSE Refuses(p) /\ call' = [call EXCEPT ![c].pc = IF call[c].left = {} THEN "idle" ELSE "next", ![c].at = {}]
  /\ UNCHANGED <<mood, probe, looked, check, told, may, overtaken>>

CancelCall(c) ==                     \* DecisionCancelled: nothing is held against the provider
  /\ call[c].pc = "asking"
  /\ call' = [call EXCEPT ![c] = [pc |-> "idle", left |-> {}, at |-> {}]]
  /\ UNCHANGED <<mood, st, probe, looked, check, told, may, due, overtaken>>

(* ---- ProviderQuality.probe_recovering ---- *)
ProbeList(b) ==
  /\ probe[b].pc = "list"
  /\ probe' = [probe EXCEPT ![b] = [pc |-> "next", left |-> {p \in Names : NeedsProbe(st[p])}, at |-> {}]]
  /\ UNCHANGED <<mood, st, call, looked, check, told, may, due, overtaken>>

ProbeNext(b, p) ==
  /\ probe[b].pc = "next" /\ p \in probe[b].left
  /\ probe' = [probe EXCEPT ![b] = [pc |-> "probing", left |-> @.left \ {p}, at |-> {p}]]
  /\ st' = [st EXCEPT ![p].probed = 0]
  /\ UNCHANGED <<mood, call, looked, check, told, may, due, overtaken>>

(* The client's own report where there is one that can be read, else a     *)
(* liveness call.                                                           *)
Probed(b, p) ==
  /\ probe[b].at = {p}
  /\ probe' = [probe EXCEPT ![b].pc = "next", ![b].at = {}]
  /\ \/ mood[p] = "limited" /\ Refuses(p)
     \/ p \in Reporting /\ mood[p] # "limited"
        /\ st' = [st EXCEPT ![p] = RecordProbeSuccess(@)]
        /\ due' = [due EXCEPT ![p].unproved = FALSE]
     \/ mood[p] = "up" /\ Succeeds(p)
     \/ mood[p] = "broken" /\ Refuses(p)
  /\ UNCHANGED <<mood, call, looked, check, told, may, overtaken>>

(* The worker ends; the console goes on to check the capacity itself. *)
ProbesDone(b) ==
  /\ probe[b].pc = "next" /\ probe[b].left = {}
  /\ probe' = [probe EXCEPT ![b].pc = "idle"]
  /\ check' = IF b = "console" THEN [check EXCEPT ![b].pc = "read"] ELSE check
  /\ UNCHANGED <<mood, st, call, looked, told, may, due, overtaken>>

(* ---- DecisionCapacityWatch ---- *)
Recheckings == probe["console"].pc # "idle" \/ check["console"].pc # "idle"

Wake ==                              \* the watch's interval is over
  /\ check["background"].pc = "idle" /\ (Overlapping \/ ~Recheckings)
  /\ check' = [check EXCEPT !["background"].pc = "read"]
  /\ UNCHANGED <<mood, st, call, probe, looked, told, may, due, overtaken>>

(* provider_quality.capacity: the first one asks every client about its     *)
(* quota; each one sends the worker to probe, unless it is at it; then the  *)
(* registry is read.                                                        *)
FirstLook ==
  IF looked THEN UNCHANGED <<st, due>>
  ELSE \E stated \in Stated :
         LET dry(p) == p \in Reporting /\ mood[p] = "limited" IN
         /\ st' = [p \in Names |-> IF dry(p) THEN RecordFailure(st[p], "rate_limit", stated) ELSE st[p]]
         /\ due' = [p \in Names |-> IF dry(p) THEN Owes(due[p], "rate_limit", stated) ELSE due[p]]

Read(k) ==
  /\ check[k].pc = "read"
  /\ FirstLook /\ looked' = TRUE
  /\ probe' = IF probe["background"].pc = "idle" THEN [probe EXCEPT !["background"].pc = "list"] ELSE probe
  /\ check' = [check EXCEPT ![k] = [pc |-> "store",
                                     reading |-> HasReady(st')]]
  /\ UNCHANGED <<mood, call, told, may, overtaken>>

Store(k) ==
  /\ check[k].pc = "store" /\ told' = check[k].reading
  /\ check' = [check EXCEPT ![k] = IF told = @.reading THEN Idle ELSE [@ EXCEPT !.pc = "tell"]]
  /\ UNCHANGED <<mood, st, call, probe, looked, may, due, overtaken>>

Announce(k) ==                       \* runtime.notify, outside the watch's lock
  /\ check[k].pc = "tell" /\ may' = (check[k].reading = "yes")
  /\ overtaken' = (told # check[k].reading)
  /\ check' = [check EXCEPT ![k] = Idle]
  /\ UNCHANGED <<mood, st, call, probe, looked, told, due>>

(* ---- The operator: recheck_providers, for one provider or for all ---- *)
Recheck(ps) ==
  /\ ~Recheckings /\ (Overlapping \/ \A b \in Threads : probe[b].pc = "idle" /\ check[b].pc = "idle")
  /\ st' = [p \in Names |-> IF p \in ps THEN [st[p] EXCEPT !.wait = 0, !.fails = 0, !.probed = ProbeInterval] ELSE st[p]]
  /\ due' = [p \in Names |-> IF p \in ps THEN [due[p] EXCEPT !.streak = 0, !.owed = 0] ELSE due[p]]
  /\ probe' = [probe EXCEPT !["console"].pc = "list"]
  /\ UNCHANGED <<mood, call, looked, check, told, may, overtaken>>

(* ---- The environment ---- *)
Change(p, m) ==
  /\ mood[p] # m /\ mood' = [mood EXCEPT ![p] = m]
  /\ UNCHANGED <<st, call, probe, looked, check, told, may, due, overtaken>>

Less(n) == IF n > 0 THEN n - 1 ELSE 0

Tick ==
  /\ st' = [p \in Names |-> [st[p] EXCEPT !.wait = Less(@), !.probed = Smaller(@ + 1, ProbeInterval)]]
  /\ due' = [p \in Names |-> [due[p] EXCEPT !.owed = Less(@)]]
  /\ UNCHANGED <<mood, call, probe, looked, check, told, may, overtaken>>

Calls(c) == Attempt(c) \/ CancelCall(c) \/ \E p \in Names : Ask(c, p) \/ Answer(c, p)
Probes(b) == ProbeList(b) \/ ProbesDone(b) \/ \E p \in Names : ProbeNext(b, p) \/ Probed(b, p)
Checks(k) == Read(k) \/ Store(k) \/ Announce(k)

Next ==
  \/ \E c \in Callers : Calls(c)
  \/ \E b \in Threads : Probes(b) \/ Checks(b)
  \/ Wake
  \/ Recheck(Names) \/ \E p \in Names : Recheck({p})
  \/ \E p \in Names, m \in {"up", "limited", "broken"} : Change(p, m)
  \/ Tick

Spec == Init /\ [][Next]_vars

(* Time passes, the watch wakes up every thirty seconds, and its thread and *)
(* the probing ones go on.  Nobody has to call a provider or to press       *)
(* recheck.                                                                 *)
Fairness ==
  /\ WF_vars(Tick) /\ WF_vars(Wake)
  /\ \A b \in Threads : WF_vars(Probes(b)) /\ WF_vars(Checks(b))

FairSpec == Spec /\ Fairness

----------------------------------------------------------------------------
(* "Only providers that can answer are asked.  One that is cooling down,   *)
(* or has not been confirmed back since it failed, is known not to"        *)
(* (decision.py:557-559): counted over all failures since its last real    *)
(* answer, whatever its client claimed in between, a provider that is      *)
(* asked has served its backoff and been confirmed                         *)
(* (provider_health.py:365-414).                                           *)
AskedWhenDue ==
  [][\A c \in Callers, p \in Names : Ask(c, p) => due[p].owed = 0 /\ ~due[p].unproved]_vars

(* What the plugins were last told is what the watch believes, so that a   *)
(* change of mind will be announced (decision_capacity.py:110-144).        *)
Settled == (\A k \in Threads : check[k].pc \in {"idle", "read", "store"}) /\ told # "unknown"
BeliefIsHeard == Settled => may = (told = "yes")

(* What there is of that beside an operator who rechecks: it fails only if *)
(* the last announcement was overtaken, its belief replaced by the other   *)
(* thread's between the lock and the announcing.                           *)
PluginsHeard == Settled /\ ~overtaken => may = (told = "yes")

(* A provider that is up for good is back in line for good, although no    *)
(* decision is ever put to it to find out (provider_quality.py:296-350).   *)
RecoveryIsNoticed == \A p \in Names : <>[](mood[p] = "up") => <>[]Ready(st[p])

(* "it is what tells the plugins standing down that they may start again"  *)
(* (controller.py:426-428): plugins come to scan when something can answer *)
(* and to stand down when nothing can.                                     *)
CapacityIsFollowed ==
  /\ <>[](\E p \in Names : Ready(st[p])) => <>[]may
  /\ <>[](\A p \in Names : ~Ready(st[p])) => <>[]~may
=============================================================================
