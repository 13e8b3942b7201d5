---------------------------- MODULE ProviderSession ----------------------------
(* How one round of the agent is put to a command-line provider (agent/        *)
(* decision.py, agent/consultation.py, plugins/providers/codex.py, claude.py   *)
(* and openrouter.py).  The providers that can answer are tried one after the  *)
(* other; each attempt is one session: a private directory and, in the client, *)
(* one conversation, which every call after the first resumes.  A step asks    *)
(* the model for its next tool, a tool may put a question back to the model in *)
(* the same session, and a last call asks for the decision.  Codex hands its   *)
(* answer over in a file of the session's directory, Claude Code on its        *)
(* standard output.  OpenRouter runs one of the two behind a bridge of its own *)
(* that lives as long as the call.  Several threads (Workers) use the same     *)
(* provider objects; the session is thread-local.                              *)
EXTENDS Naturals, FiniteSets

CONSTANTS
  Workers,      \* threads that run rounds: screening, deciding, reviewing
  Providers,    \* configured providers: records [cli, bridged]
  Steps,        \* config.agent_max_tool_steps
  MaxSessions,  \* bound: sessions opened in all
  MaxAsks,      \* bound: questions a tool puts back to the model
  Bodies,       \* what a client's request may declare: sets of features
  Advertised,   \* the features the chosen OpenRouter model says it supports
  None

MaxTries == 2   \* MAX_ATTEMPTS of a consultation

VARIABLES
  at,       \* what each worker is doing
  todo,     \* the ready providers it has not tried in this round
  asked,    \* the call in progress: [name, conversation, provider]
  calls,    \* calls made in this attempt, so the number of the last one
  progress, \* [steps, asks, tries]
  bound,    \* the consultation is bound to this attempt's provider
  session,  \* [open, conversation, serial] by thread
  file,     \* the call whose answer lies in the session's output file, by name
  orphans,  \* clients' children that outlived a time-out: [worker, serial, name, n]
  bridge,   \* the call whose bridge listens
  upstream, \* the request a bridge has sent: [strict, body, declared]
  catalog,  \* the model's features were read and are kept for good
  got,      \* history: the call whose answer was read as the last call's answer
  begun,    \* history: conversations this attempt began in the client
  late      \* history: a child outlived a call of this attempt

vars == <<at, todo, asked, calls, progress, bound, session, file, orphans, bridge, upstream, catalog, got, begun, late>>

Names == {"agent_control", "plugin_consultation", "trade_decision"}
Transport == {"store", "prompt_cache_key", "parallel_tool_calls", "client_metadata", "include"}
Ours == [namespace |-> "flattened", web_search |-> "openrouter:web_search", web_fetch |-> "openrouter:web_fetch"]

\* What a client declares has none of the names OpenRouter gives its own tools.
ProviderSessionAssumption ==
  /\ Steps \in Nat /\ MaxAsks \in Nat
  /\ \A b \in Bodies : b \cap {Ours[t] : t \in DOMAIN Ours} = {}
  /\ None \notin Nat /\ None \notin Workers \X Nat

NoFiles == [x \in Names |-> None]
NoProgress == [steps |-> 0, asks |-> 0, tries |-> 0]
NoSession == [open |-> FALSE, conversation |-> None, serial |-> 0]

Init == /\ at = [w \in Workers |-> "idle"]      /\ todo = [w \in Workers |-> {}]
        /\ asked = [w \in Workers |-> None]     /\ calls = [w \in Workers |-> 0]
        /\ progress = [w \in Workers |-> NoProgress]
        /\ bound = [w \in Workers |-> FALSE]
        /\ session = [w \in Workers |-> NoSession]
        /\ file = [w \in Workers |-> NoFiles]   /\ orphans = {}
        /\ bridge = [w \in Workers |-> None]    /\ upstream = [w \in Workers |-> None]
        /\ catalog = FALSE                      /\ got = [w \in Workers |-> None]
        /\ begun = [w \in Workers |-> 0]        /\ late = [w \in Workers |-> FALSE]

\* threading.local: the session a thread sees (mutant: one for the whole provider)
SharedSlot(w) == CHOOSE x \in Workers : TRUE
Slot(w) == w
Mine(w) == session[Slot(w)]

Opened == Cardinality(UNION {{w} \X (1..session[w].serial) : w \in Workers})

ClientIo == <<file, orphans, bridge, upstream, catalog>>
History == <<got, begun, late>>

\* a round starts; no attempt is made yet
Begin(w) ==
  /\ at[w] = "idle" /\ Opened < MaxSessions
  /\ at' = [at EXCEPT ![w] = "choose"]
  /\ todo' = [todo EXCEPT ![w] = Providers]
  /\ UNCHANGED <<asked, calls, progress, bound, session, ClientIo, History>>

\* FallbackDecisionProvider._attempt: one session for one provider.  A session
\* inside a session joins it.
Attempt(w) ==
  /\ at[w] = "choose" /\ Opened < MaxSessions
  /\ \E p \in todo[w] :
       /\ todo' = [todo EXCEPT ![w] = @ \ {p}]
       /\ asked' = [asked EXCEPT ![w] = [name |-> None, conversation |-> None, provider |-> p]]
  /\ at' = [at EXCEPT ![w] = "step"]
  /\ calls' = [calls EXCEPT ![w] = 0]
  /\ progress' = [progress EXCEPT ![w] = NoProgress]
  /\ bound' = [bound EXCEPT ![w] = TRUE]
  /\ session' = [session EXCEPT ![Slot(w)] =
                   IF @.open THEN @ ELSE [open |-> TRUE, conversation |-> None, serial |-> @.serial + 1]]
  /\ file' = [file EXCEPT ![Slot(w)] = IF Mine(w).open THEN @ ELSE NoFiles]
  /\ got' = [got EXCEPT ![w] = None] /\ begun' = [begun EXCEPT ![w] = 0] /\ late' = [late EXCEPT ![w] = FALSE]
  /\ UNCHANGED <<orphans, bridge, upstream, catalog>>

\* every provider failed, or none was left to ask
GiveUp(w) ==
  /\ at[w] = "choose" /\ (todo[w] = {} \/ Opened = MaxSessions)
  /\ at' = [at EXCEPT ![w] = "idle"]
  /\ UNCHANGED <<todo, asked, calls, progress, bound, session, ClientIo, History>>

\* the session's directory goes with the session, whatever ended the attempt
Close(w) ==
  /\ session' = [session EXCEPT ![Slot(w)] = [@ EXCEPT !.open = FALSE, !.conversation = None]]
  /\ file' = [file EXCEPT ![Slot(w)] = NoFiles]
  /\ bound' = [bound EXCEPT ![w] = FALSE]

\* stop_if_cancelled: the decision was deleted meanwhile; looked at before each
\* model call of the round itself
Cancelled(w) ==
  /\ at[w] \in {"step", "final"}
  /\ Close(w) /\ at' = [at EXCEPT ![w] = "idle"]
  /\ UNCHANGED <<todo, asked, calls, progress, orphans, bridge, upstream, catalog, History>>

\* what the bridge makes of a request for a model that advertises less than the
\* client asks for: transport hints are dropped, hosted tools replaced by
\* OpenRouter's, a namespace's tools flattened; the answer names them as declared
Dropped(p) == (Transport \ Advertised)
              \cup IF p.cli = "claude" /\ {"output_config", "effort"} \cap Advertised = {} THEN {"effort"} ELSE {}
Renamed(f) == IF f \in DOMAIN Ours \ Advertised THEN Ours[f] ELSE f
Adapted(b, p) == {Renamed(f) : f \in b \ Dropped(p)}
Restored(f) == IF \E g \in DOMAIN Ours : Ours[g] = f THEN CHOOSE g \in DOMAIN Ours : Ours[g] = f ELSE f

\* a later call resumes the session's conversation, the first one begins it
Resumed(w) == Mine(w).conversation
Fresh(w) == <<w, Mine(w).serial>>
Conversation(w) == IF Resumed(w) # None THEN Resumed(w) ELSE Fresh(w)

\* complete: the output file is removed, a bridge of its own opened, the client
\* started.  The features of a bridged model are read before the first call.
Call(w, name) ==
  LET n == calls[w] + 1 IN
  /\ asked[w].provider.bridged => catalog
  /\ calls' = [calls EXCEPT ![w] = n]
  /\ asked' = [asked EXCEPT ![w].name = name,
                            ![w].conversation = Conversation(w)]
  /\ begun' = [begun EXCEPT ![w] = IF Resumed(w) = None THEN @ + 1 ELSE @]
  /\ file' = [file EXCEPT ![Slot(w)][name] = None]
  /\ bridge' = [bridge EXCEPT ![w] = IF asked[w].provider.bridged THEN n ELSE None]
  /\ got' = [got EXCEPT ![w] = None]
  /\ at' = [at EXCEPT ![w] = "calling"]

\* the call is over: the bridge is shut down with it
Hangup(w) == /\ bridge' = [bridge EXCEPT ![w] = None]
             /\ upstream' = [upstream EXCEPT ![w] = None]

\* a failed question comes back to the plugin as no answer; any other failed call
\* ends the attempt, and the round goes to the next provider
Failed(w) ==
  IF asked[w].name = "plugin_consultation"
  THEN at' = [at EXCEPT ![w] = "tool"] /\ UNCHANGED <<session, file, bound>>
  ELSE at' = [at EXCEPT ![w] = "choose"] /\ Close(w)

\* _selected_model_parameters, _selected_codex_catalog: read once, or the call fails
ReadCatalog(w) ==
  /\ at[w] = "step" /\ asked[w].provider.bridged /\ ~catalog
  /\ \/ catalog' = TRUE /\ UNCHANGED <<at, session, file, bound>>
     \/ at' = [at EXCEPT ![w] = "choose"] /\ Close(w) /\ UNCHANGED catalog
  /\ UNCHANGED <<todo, asked, calls, progress, orphans, bridge, upstream, History>>

AskStep(w) ==
  /\ at[w] = "step" /\ progress[w].steps < Steps
  /\ Call(w, "agent_control")
  /\ UNCHANGED <<todo, progress, bound, session, orphans, upstream, catalog, late>>

\* a tool's plugin puts a question back; it is not asked whether the decision stands
AskBack(w) ==
  /\ bound[w]
  /\ \/ /\ at[w] = "tool" /\ progress[w].asks < MaxAsks
        /\ progress' = [progress EXCEPT ![w].asks = @ + 1, ![w].tries = 1]
     \/ /\ at[w] = "unclear" /\ progress[w].tries < MaxTries
        /\ progress' = [progress EXCEPT ![w].tries = @ + 1]
  /\ Call(w, "plugin_consultation")
  /\ UNCHANGED <<todo, bound, session, orphans, upstream, catalog, late>>

\* the model does not converge: the question is abandoned
Abandon(w) ==
  /\ at[w] = "unclear" /\ progress[w].tries = MaxTries
  /\ at' = [at EXCEPT ![w] = "tool"]
  /\ UNCHANGED <<todo, asked, calls, progress, bound, session, ClientIo, History>>

AskFinal(w) ==
  /\ at[w] = "final"
  /\ Call(w, "trade_decision")
  /\ UNCHANGED <<todo, progress, bound, session, orphans, upstream, catalog, late>>

\* do_POST: the client's request, authorised by the call's own token.  On the
\* Responses route a request without the answer's schema goes nowhere.
Post(w) ==
  /\ at[w] = "calling" /\ bridge[w] = calls[w] /\ upstream[w] = None
  /\ \E b \in Bodies :
       /\ asked[w].provider.cli = "codex" => "schema" \in b
       /\ upstream' = [upstream EXCEPT ![w] = [strict |-> TRUE, body |-> Adapted(b, asked[w].provider), declared |-> b]]
  /\ UNCHANGED <<at, todo, asked, calls, progress, bound, session, file, orphans, bridge, catalog, History>>

\* _ask_upstream: no endpoint supports everything asked for; once more without that demand
NoEndpoints(w) ==
  /\ upstream[w] # None /\ upstream[w].strict
  /\ upstream' = [upstream EXCEPT ![w].strict = FALSE]
  /\ UNCHANGED <<at, todo, asked, calls, progress, bound, session, file, orphans, bridge, catalog, History>>

\* the answer, or a refusal that is passed on
Replied(w) ==
  /\ upstream[w] # None
  /\ upstream' = [upstream EXCEPT ![w] = None]
  /\ UNCHANGED <<at, todo, asked, calls, progress, bound, session, file, orphans, bridge, catalog, History>>

\* the client ends and leaves its answer, or nothing (external)
ClientExits(w) ==
  /\ at[w] = "calling" /\ upstream[w] = None
  /\ at' = [at EXCEPT ![w] = "exited"]
  /\ \E wrote \in BOOLEAN :
       file' = [file EXCEPT ![Slot(w)][asked[w].name] =
                  IF wrote /\ asked[w].provider.cli = "codex" THEN calls[w] ELSE @]
  /\ UNCHANGED <<todo, asked, calls, progress, bound, session, orphans, bridge, upstream, catalog, History>>

\* the client is killed at its deadline; a process it had started may live on.
\* Only a question's can still find the directory it would write into.
TimesOut(w) ==
  /\ at[w] = "calling"
  /\ \E lives \in {FALSE, asked[w].name = "plugin_consultation"} :
       /\ orphans' = IF lives THEN orphans \cup {[worker |-> w, serial |-> Mine(w).serial, name |-> asked[w].name, n |-> calls[w]]} ELSE orphans
       /\ late' = [late EXCEPT ![w] = @ \/ lives]
  /\ Failed(w) /\ Hangup(w)
  /\ UNCHANGED <<todo, asked, calls, progress, catalog, got, begun>>

\* what outlived a call writes its answer where the session asked for it (external)
OrphanWrites ==
  /\ \E o \in orphans :
       /\ orphans' = orphans \ {o}
       /\ file' = IF session[Slot(o.worker)].open /\ session[Slot(o.worker)].serial = o.serial
                    /\ asked[o.worker].provider.cli = "codex"
                  THEN [file EXCEPT ![Slot(o.worker)][o.name] = o.n] ELSE file
  /\ UNCHANGED <<at, todo, asked, calls, progress, bound, session, bridge, upstream, catalog, History>>

\* no answer, a client's error, or an answer that is not what the schema asks for
CallFails(w) ==
  /\ at[w] = "exited"
  /\ Failed(w) /\ Hangup(w)
  /\ UNCHANGED <<todo, asked, calls, progress, orphans, catalog, History>>

\* the call's answer: Codex's from the file, Claude Code's from its output
Written(w) == file[Slot(w)][asked[w].name]
Spoken(w) == calls[w]
Answer(w) == IF asked[w].provider.cli = "codex" THEN Written(w) ELSE Spoken(w)

\* the session remembers the conversation of its first answered call
ForgetsConversation(w) == [session EXCEPT ![Slot(w)].serial = @]
Remembered(w) == [session EXCEPT ![Slot(w)].conversation = IF @ = None THEN asked[w].conversation ELSE @]

\* the loop ends: no question may be asked any more (AgentConsultation.release)
LoopEnds(w) == at' = [at EXCEPT ![w] = "final"] /\ bound' = [bound EXCEPT ![w] = FALSE]
Stepped(w) == IF progress[w].steps + 1 < Steps THEN at' = [at EXCEPT ![w] = "step"] /\ UNCHANGED bound ELSE LoopEnds(w)

\* a control answer: decide now, call a tool, or arguments that are no object
Controlled(w) ==
  \/ LoopEnds(w) /\ UNCHANGED progress
  \/ at' = [at EXCEPT ![w] = "tool"] /\ progress' = [progress EXCEPT ![w].asks = 0] /\ UNCHANGED bound
  \/ Stepped(w) /\ progress' = [progress EXCEPT ![w].steps = @ + 1]

\* a reply to a question: one of the options, or not
Consulted(w) ==
  /\ UNCHANGED <<bound, progress>>
  /\ \/ at' = [at EXCEPT ![w] = "tool"]
     \/ at' = [at EXCEPT ![w] = "unclear"]

CallAnswers(w) ==
  /\ at[w] = "exited" /\ Answer(w) # None
  /\ got' = [got EXCEPT ![w] = Answer(w)]
  /\ Hangup(w)
  /\ \/ /\ asked[w].name = "agent_control" /\ Controlled(w)
        /\ session' = Remembered(w) /\ UNCHANGED file
     \/ /\ asked[w].name = "plugin_consultation" /\ Consulted(w)
        /\ session' = Remembered(w) /\ UNCHANGED file
     \/ /\ asked[w].name = "trade_decision" /\ Close(w)
        /\ at' = [at EXCEPT ![w] = "idle"] /\ UNCHANGED progress
  /\ UNCHANGED <<todo, asked, calls, orphans, catalog, begun, late>>

\* the tool returns or raises; the round goes on either way
ToolEnds(w) ==
  /\ at[w] = "tool" /\ Stepped(w)
  /\ progress' = [progress EXCEPT ![w].steps = @ + 1]
  /\ UNCHANGED <<todo, asked, calls, session, ClientIo, History>>

Next == \/ OrphanWrites
        \/ \E w \in Workers :
             \/ Begin(w) \/ Attempt(w) \/ GiveUp(w) \/ Cancelled(w) \/ ReadCatalog(w)
             \/ AskStep(w) \/ AskBack(w) \/ Abandon(w) \/ AskFinal(w)
             \/ Post(w) \/ NoEndpoints(w) \/ Replied(w)
             \/ ClientExits(w) \/ TimesOut(w) \/ CallFails(w) \/ CallAnswers(w) \/ ToolEnds(w)

Spec == Init /\ [][Next]_vars

TypeOK ==
  /\ at \in [Workers -> {"idle", "choose", "step", "calling", "exited", "tool", "unclear", "final"}]
  /\ \A w \in Workers : /\ todo[w] \subseteq Providers /\ calls[w] \in Nat
                        /\ progress[w].steps \in 0..Steps /\ progress[w].asks \in 0..MaxAsks /\ progress[w].tries \in 0..MaxTries
                        /\ file[w] \in [Names -> Nat \cup {None}]
                        /\ upstream[w] # None => at[w] = "calling"
  /\ catalog \in BOOLEAN

\* One round is one conversation, its own: an attempt begins at most one in the
\* client and every call of it speaks there, whatever other threads do with the
\* same provider meanwhile and whichever of its questions fail ("One new
\* Codex/Claude conversation for one application round", session()); a question
\* is put to the provider whose attempt is running; a bridge listens for the call
\* in progress alone, and whatever it changes of a request it never loses the
\* schema, and names the tools to the client as the client declared them; and the
\* answer that is read answers the call it is read for, unless a process of a
\* killed client of this very attempt lives on and writes over it.
RoundsKeepToThemselves ==
  /\ TypeOK
  /\ \A w \in Workers :
       /\ begun[w] <= 1
       /\ at[w] \in {"calling", "exited"} => asked[w].conversation = Fresh(w)
       /\ bound[w] => at[w] \notin {"idle", "choose", "final"} /\ Mine(w).open
       /\ bridge[w] # None => at[w] \in {"calling", "exited"} /\ bridge[w] = calls[w]
       /\ upstream[w] # None => /\ "schema" \in upstream[w].declared => "schema" \in upstream[w].body
                                /\ {Restored(f) : f \in upstream[w].body} \subseteq upstream[w].declared
       /\ got[w] # None => got[w] = calls[w] \/ late[w]
================================================================================
