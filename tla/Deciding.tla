------------------------------- MODULE Deciding -------------------------------
(***************************************************************************)
(* A decision and those who are asked for it: the rounds of the engine     *)
(* (DecisionCycle, whose names this module takes over), the conversations  *)
(* a round has with its providers (ProviderSession), and who of them may   *)
(* be asked at all (Providers).  Their states do not meet, so they are put *)
(* side by side: every behaviour is one of one machine, named by part,     *)
(* while the others wait where they began.                                 *)
(***************************************************************************)
EXTENDS DecisionCycle

CONSTANTS
  Workers, Clients, Steps, MaxSessions, MaxAsks, Bodies, Advertised, None,   \* ProviderSession
  Pooled, Reporting, Callers, RateLimited, Otherwise, Ceiling, Stated,       \* Providers
  ProbeInterval, MaxStreak, Overlapping

VARIABLES
  part,  \* the machine this behaviour is one of
  \* ProviderSession
  talkAt, talkTodo, talkAsked, talkCalls, talkProgress, talkBound,
  talkSession, talkFile, talkOrphans, talkBridge, talkUpstream, talkCatalog,
  talkGot, talkBegun, talkLate,
  \* Providers
  poolMood, poolSt, poolCall, poolProbe, poolLooked, poolCheck, poolTold, poolMay, poolDue,
  poolOvertaken

Talk == INSTANCE ProviderSession WITH
  Providers <- Clients, at <- talkAt,
  todo <- talkTodo, asked <- talkAsked, calls <- talkCalls,
  progress <- talkProgress, bound <- talkBound, session <- talkSession,
  file <- talkFile, orphans <- talkOrphans, bridge <- talkBridge,
  upstream <- talkUpstream, catalog <- talkCatalog, got <- talkGot,
  begun <- talkBegun, late <- talkLate

Pool == INSTANCE Providers WITH
  Names <- Pooled, mood <- poolMood, st <- poolSt, call <- poolCall, probe <- poolProbe,
  looked <- poolLooked, check <- poolCheck, told <- poolTold, may <- poolMay,
  due <- poolDue, overtaken <- poolOvertaken

talkVars == <<talkAt, talkTodo, talkAsked, talkCalls, talkProgress, talkBound,
              talkSession, talkFile, talkOrphans, talkBridge, talkUpstream,
              talkCatalog, talkGot, talkBegun, talkLate>>
poolVars == <<poolMood, poolSt, poolCall, poolProbe, poolLooked, poolCheck,
              poolTold, poolMay, poolDue, poolOvertaken>>
decidingVars == <<part, vars, talkVars, poolVars>>

DecidingInit ==
  /\ part \in {"own", "talk", "pool"}
  /\ Init
  /\ Talk!Init
  /\ Pool!Init

(* One machine moves, the others wait where they began. *)
DecidingNext ==
  /\ UNCHANGED part
  /\ \/ part = "own" /\ Next /\ UNCHANGED <<talkVars, poolVars>>
     \/ part = "talk" /\ Talk!Next /\ UNCHANGED <<vars, poolVars>>
     \/ part = "pool" /\ Pool!Next /\ UNCHANGED <<vars, talkVars>>

DecidingSpec == DecidingInit /\ [][DecidingNext]_decidingVars

ASSUME DecidingAssumption == Talk!ProviderSessionAssumption /\ Pool!ProvidersAssumption

----------------------------------------------------------------------------
(* One round is one conversation, its own, and the answer read is the      *)
(* answer to the call it is read for (agent/decision.py:520-592,           *)
(* plugins/providers/openrouter.py, codex.py, claude.py).                  *)
RoundsKeepToThemselves == part = "talk" => Talk!RoundsKeepToThemselves

(* What the plugins were last told is what the watch believes, so that a   *)
(* change of mind will be announced, unless that last announcement was     *)
(* overtaken (runtime/decision_capacity.py:110-144).                       *)
PluginsHeard == part = "pool" => Pool!PluginsHeard

(* Only providers that have served their backoff and were confirmed back   *)
(* are asked (agent/decision.py:557-559, agent/provider_health.py:365-414).*)
AskedWhenDue == Pool!AskedWhenDue
==============================================================================
