# A TLA+ model of the prediction-market agent

This directory models the robot in `src/prediction_market_agent/`: the program that discovers prediction
markets on Polymarket and Binance, puts each outcome to a language model, checks the answer against a risk
chain, trades, and keeps its own books, while an operator pauses it, corrects it, funds it and tidies its
records from a web console. It says what the parts of the program promise each other, checks those promises
with TLC over every interleaving of a small instance, and proves some of them with TLAPS for every instance.

Paths below are relative to `src/prediction_market_agent/` unless they begin with `docs/`.

## 1. The system

### Threads and what they share

One process runs all of it:

| Thread | Runs | Shares |
| --- | --- | --- |
| one worker per API plugin | the scan schedule (`plugins/api/_polymarket/runtime.py`, `_binance/runtime.py`) | submits to the event loop, waits for the answer |
| the event thread | every business handler, one at a time (`runtime/events.py`) | engine, account mirror, SQLite |
| console requests (a thread pool) | `runtime/dashboard.py` | manager, plugin files, SQLite, health registry |
| the reconcile thread and the retry timer | `runtime/controller.py` | the manager's lock |
| the capacity watch and the recovery prober | `runtime/decision_capacity.py`, `runtime/provider_quality.py` | health registry, plugins' `notify` |

Durable: the SQLite session memory (decision ledger, execution rows, P&L events, funding continuations,
screening queue, reviews, instructions), the account state file, the runtime choice file, each plugin's funding
book. Everything else dies with the process.

### Components

For each: its state; its operations; what makes it correct; where it is hard.

* **Business-event loop** (`runtime/events.py`). A queue, one worker thread, a gate (`_accepting`), envelopes
  with a result, an error and a wake-up. `start`, `stop`, `request_pause`, `submit`. Correct when handlers never
  overlap, no caller waits for ever, and a pause dooms everything queued. Hard: the gate is lowered by threads
  that do not hold the lock, and the poison pill shares the queue with work.
* **Runtime manager and plugin workers** (`runtime/controller.py`, the two plugin runtimes). The saved choice,
  the pause flag, a request counter, the background thread, the retry timer, one generation of engine, loop,
  catalog and worker at a time. Correct when one robot trades at a time, a pause holds and the last choice wins.
  Hard: the file and the flag are written apart; a worker may outlive a bounded join; locks nest across threads.
* **Account mirror and P&L ledger** (`runtime/broker.py`, `runtime/pnl.py`, `core/state.py`). Cash, realised
  profit, positions, orders; an append-only ledger; a file saved at the end of a cycle. Correct when the books
  balance and a profit stated as known is exact. Hard: ledger writes may fail silently, a crash reopens an older
  mirror beside a newer ledger, and sales may exceed what is recorded.
* **Decision rounds** (`runtime/evaluation.py`, `runtime/actions.py`, `runtime/engine.py`, `runtime/memory.py`).
  A ledger row per round, its execution row, cancellation in process memory. Correct when every round concludes,
  the ledger tells what the venue was told, and a pause or a deletion stops what it can still stop. Hard:
  the operator deletes rows in the middle of a round, and any step may fail.
* **Decision providers** (`agent/decision.py`, `agent/provider_health.py`, `runtime/provider_quality.py`,
  `runtime/decision_capacity.py`). Cooldowns, streaks, probation, probes, the capacity announcement. Correct when
  a provider is asked only after its backoff and a confirmation, recovery is noticed, and the plugins know
  whether anyone can decide. Hard: three threads record outcomes, and announcements are made outside the lock.
* **Funding** (`plugins/api/_funding.py`, both adapters, `runtime/engine.py`, `runtime/memory.py`). One request
  in a file, its settled predecessors, continuations in SQLite. Correct when an answer reaches the decision it
  belongs to, once. Hard: the operator and the robot act on the same file without a lock, requests supersede each
  other in mid-answer, and deadlines pass without a timer.
* **Market discovery** (`runtime/market_discovery.py`, tables in `runtime/memory.py`). A survey reads listings page
  by page over many cycles, a cheap screener refuses, a model chooses under a ledger row. Correct when no page is
  passed over, the screener never decides, and failed rounds choose nothing. Hard: a dozen ways to stop early, each
  saving its place.
* **Screening queue and scheduled reviews** (tables in `runtime/memory.py`, `runtime/engine.py`). Rows with due
  times, waking, skipping, retry. Correct when no contract starves, no stale verdict excludes an event, and no
  appointment is lost. Hard: long sequences of cycles with failures in between.
* **Operator notes and instructions** (`runtime/operator_instructions.py`, the notes beside the funding book).
  Correct when a note becomes one instruction and a deleted one stays deleted. Hard: it is recorded in one store and
  acknowledged in another, with crashes and the console in between.
* **Market-data WebSocket** (`plugins/api/_polymarket/market_stream.py`). One connection thread, callers waiting for
  a book, a bound on subscriptions. Correct when no book of an old connection is served and no caller is forgotten.
* **Rules, guards and paper trading** (`core/risk.py`, `runtime/market_guard.py`, policy plugins,
  `runtime/paper_trading.py`). Two lanes of rules before an action, a transport that fills here. Correct when
  nothing refused is carried out and a simulated account pays for what it buys. Hard: seven operations, two lanes and
  two callers, each with its own idea of what a reduction means.
* **Polymarket's client and money** (`plugins/api/_polymarket/write.py`, `plugins/api/polymarket.py`). Connections
  shared by threads, a process-wide patch of the SDK, quotes used once; deposits and withdrawals as the panel tells
  them. Hard: the robot and the console call the same transport at once.
* **Evaluators** (`agent/decision_evaluator.py`, `plugins/evaluators/`). A pool with cool-downs and a FIFO gate
  before LAYA. Correct when the gate cannot stand shut and everyone is asked before a question ends unanswered.
* **Provider sessions and clients** (`agent/consultation.py`, `agent/decision.py`, `plugins/providers/`). The
  conversation of a round, the OpenRouter bridge, sign-in of a command-line client through a relay, its versioned
  installs. Correct when an answer belongs to its question, the page shows the login that is waited for, the client in
  use is whole. Hard: threads, child processes that outlive their parent, files shared by controllers.
* **Settings and admin sign-in** (`plugin_system/management.py`, `runtime/auth.py`). One selection file rewritten by
  every request; passkeys, sessions, nonces in SQLite. Correct when a pause outlives edits of something else and a
  session stands on a passkey that is still there. Hard: no lock around the file, two transactions in a login.
* **Strategies, research tools, reads and signing at the venues, configuration, console pages, deployment**: not
  modelled. `PROJECT.json` gives the reason for each. Where a modelled part calls one of them, every answer it can
  give is a nondeterministic choice.

## 2. Modules

| Module | Stands for | Composed with |
| --- | --- | --- |
| `EventGate` | what the event loop promises: serial handlers; closing dooms what is pending | abstract specification of `EventLoop` |
| `EventLoop` | `RobotEventLoop`: queue, worker threads, poison pill, start/stop | implements `EventGate` |
| `Robot` | the manager, the console's saves, the plugin worker, the event thread | uses the gate as `EventGate` states it |
| `DecisionCycle` | the engine's cycle and one round after another, against deletions, pauses, crashes | `Deciding` |
| `Account` | the execution gateway, the ledger, the state file | |
| `Providers` | the provider pool, health, probing, the capacity watch | `Deciding` |
| `Funding` | the book of requests, the console's answers, the decisions that wait | |
| `MarketSurvey` | discovery: surveys, the screener's filter, the round that chooses | `Markets` |
| `MarketWork` | the screening queue, scheduled reviews and the worker that serves both | `Markets` |
| `OrderGate` | both lanes of rules, the market guard, the gateway's checks, paper trading | `Trading`, with the next row |
| `WriteClient`, `Bridge` | Polymarket's connections and quotes; deposits and withdrawals | `Trading`, with `Account` |
| `ProviderSession` | a round's conversation with its providers, plugin questions, the bridge | `Deciding` |
| `Evaluators`, `ClientLogin`, `ClientInstalls` | the evaluators' gate; a client's sign-in; its installs | `Clients` |
| `Settings`, `AdminAuth`, `MarketStream`, `OperatorNotes` | the selection file; passkeys and sessions; order books; notes | `Services` |

`Trading`, `Deciding`, `Markets`, `Clients`, `Services` put several machines whose states do not meet side by side.
A variable `part` says which machine a behaviour is about; the others wait where they began, so a run explores the
machines one beside the other, not their product. A property of such a union is the machine's own, under `part =
"…"`. Nothing is lost by that: the machines share no state, and what one sees of another is a choice in it.
These unions leave every constant open, so that what TLC checks on an instance is what the theorems say of all of them.

`MCRobot`, `MCTrading`, `MCMarkets`, `MCDeciding`, `MCClients` and `MCServices` give the constants values for TLC; the
other runs need no module of their own. The specifications named `OneSpec` differ from the union's in the
beginning only: a machine that waits has one initial state instead of several. `Deciding` has two such, one per run:
`RoundsSpec` lets a decision or a conversation go on, `PoolSpec` the provider pool, under the fairness of section 3. The
proofs are in `EventLoopProofs`, `RobotProofs`, `DecidingProofs`, `FundingProofs`, `TradingProofs`, `MarketsProofs`, `ClientsProofs` and
`ServicesProofs`.

Definitions named under "Plausible mistakes" are altered versions of the definitions below them. No specification
uses them; they exist to show that each property would notice the mistake.

### EventLoop

`queue`, `accepting`, `thread` are `_queue`, `_accepting`, `_thread`. `pc` and `held` say where each worker
thread stands in `_run`, and `call`, `outcome`, `completed` are the submitter's place, the envelope's answer and
its event. `Submit` and `RequestPause` are one step each, as their locks make them; `Get`, `Check`, `Handle`
and `Finish` are the worker's loop; `Stop`, `Join`, `Clear` are the three parts of `stop()`, between which other
threads run. Start and stop exclude each other because the manager's lock does (`ctl`). `cut` is history: what
had been accepted and not begun when the gate closed. The counters of `status()` are left out.

`ImplementsGate` is the refinement: the event's abstract phase is computed from its place in the queue, in a
worker's hands or among the answers, and `cut` distinguishes *doomed* from *pending*.

### Robot

`choice` is the runtime choice file, `pauseReq` is `_pause_requested`, `requests` and `thread` are
`_reconcile_generation` and `_reconcile_thread`. `op` is the holder of the manager's lock with its next step
through `_stop_locked` and `_reconcile_locked`. A generation is a record: where its worker stands, where the
business event it submitted stands, and the flags `stop`, `may`, `accepting`, `closed`. A console save is three
steps (file, flag, request) as in the dashboard's handler. Delays are "later". Every lock taker cancels the retry
timer, and a cancelled callback that already waits for the lock is `stale`. A request that changes the plugins is
three critical sections, as in `runtime/dashboard.py:1745-1806`: `SyncStop`, the refresh, installation or save without
the manager's lock, which may raise (`SyncRaises`), and `SyncReconcile`; `between` counts the requests in the middle.
`aborted` is history: an operation failed while no robot was up, and no reconcile has got through since.

The two plugins differ in `BoundedJoin`: Polymarket's `stop()` gives up on its worker after five seconds,
Binance's waits.

### DecisionCycle

A round is its ledger id. `pc` runs through `_evaluate_outcome` and `execute`; `row` and `action` are
`decision_ledger.status` and the kind of the row in `execution_actions`; `cancelled` is `_CANCELLED`. `mirror`
and `file` are reduced to the rounds whose orders they list. `forget_decisions` is three steps, because its
statements are not one transaction. What the model says is reduced to what it asks of the venue.

Quotes and orders fail in two ways. `Fail` is one of the three kinds of error `_evaluate_outcome` catches
(`runtime/evaluation.py:543`): the row concludes as EXECUTION_ERROR with a failed execution row. `Escape` is any
other, with the venue having accepted or not: a KeyError when an accepted answer lacks a field
(`plugins/api/_polymarket/write.py:369-373`), after which `runtime/engine.py:491` goes on to the next outcome, or an
OSError of the network (`plugins/api/_binance/write.py:58-63`, `_polymarket/read.py:36`), which ends the cycle unsaved.
Its row stays STARTED for good and has no execution row; `escaped` remembers it. `CutShort` is an OSError before a
round begins. A write to the ledger is assumed to succeed here; that it may not is in `Account`.

### Account

Money is in ticks. A position carries its cost basis. `mirror.flow`, `loose` and `applied` are history: external
transfers, cash from sales whose basis was unknown, and the financial events this mirror has absorbed. The ledger is
reduced to what `pnl_summary` reads: how many events are uncertain, and which were recorded or lost.

### Providers

Time is relative, in ticks: `wait` is what is left of a cooldown and `probed` is the age of the last probe. `mood` is the
environment. `call`, `probe` and `check` are the positions of `_attempt`, `probe_recovering` and
`DecisionCapacityWatch.check` in each thread. `due` is history: what the failures since the last real answer oblige
the pool to wait for. `overtaken` is history: the last announcement put out a belief that the other thread had already
replaced. `PluginsHeard` excepts it, `BeliefIsHeard` does not.

### Funding

`book` is the plugin's file: the waiting request, its amount and `available_when_asked`, whether its deadline has
passed, and the state of each settled one. `cont` is `funding_continuations`. `robot` is the event thread between
the resumption of funded decisions, the cycle's own decisions and `ENSURE_FUNDS`; `console` is the operator's
request in flight. Every method of `FundingRequests` is one step. `venue` chooses between Binance, where
approving moves money and the reported balance is a configured figure, and Polymarket, where a confirmation
reads the balance. A balance Polymarket cannot read is reported as 0 and filed as such
(`_polymarket/adapter.py:142-158`): `book.had` is what was filed, `book.held` what was really there. The console may
answer in the middle of an ask, and the robot ask, consult and supersede in the middle of an answer, in every run and
proof. `told`, `moved`, `unfiled`, `withdrawn` (requests the robot took back while the operator's answer was under way)
and the book's `peak` and `held` are history.

### MarketSurvey

`resume` is `survey_plans.resume_json`, `cursor`, `active` and `turn` are the survey's passes over its sources, `seen`
and `verdict` what was read and what the screener says of it, `offered`, `row` and `chosen` the round in
`_select`. A listing is a fixed sequence of pages; the reasons for which a survey ends keep their order
(`GoOn`, `Disagree`, `StopHere`, `OutOfTime`). A round may choose whatever the survey read, refused by the screener or
not, and what its own search finds (`Wanted`). `queued` is history: the pages that reached the screening queue.

### MarketWork

`row` and `queue` are `market_screening_queue` and its order by due time, `appts` the pending rows of
`scheduled_market_reviews`. Times are kept as what is left of them. `stage` and `scan` follow the plugin's worker
through a cycle and its waiting; a screening chunk is one contract. A survey lists page after page (`ListPage`), and
after a page works the queue for as many chunks as it has time for, which may be none (`DrainChunk`): the worker may be
busy, the screening paused or unavailable, the clock spent (`runtime/market_discovery.py:318-340`). A failed contract
is asked again after `Backoff`, a missed review after `Retry`. `stale` and `owed` are history: prices that moved since
the answer, and reviews asked for.

### OrderGate

`call` is one action on its way: who asked (a decision, a tool call, the settlement sweep), its size as asked and as
reduced. `heard` holds what the rules of each lane answered: anything, including an exception, an unknown word or a
reduction to nothing. `setup` says how many rules started and whether writes go to the paper transport, whose cash and
shares are `book`. `last` is history: the write that just took effect, with everything the rules had said.

A purchase is asked for as an amount of money (`call.size`), and the venue quotes a price and a number of shares for
it, any of `Lots`: on Polymarket they come to the amount, on Binance the quote's `amountOut` and average price are the
venue's. `Covered` looks at the amount that was asked for (`runtime/paper_trading.py:53-83`), `Filled` takes off what the
quote comes to (`runtime/broker.py:123-133,200`), `Notional`. So the simulated cash may go below nothing, although the
comment at `paper_trading.py:73-75` promises a refusal of "every trade the account could never have paid for";
`OnlyWhatTheRulesAllow` says that it stays at or above nothing when the quote comes to no more than what was asked for.

### WriteClient and Bridge

`trading` and `setup` are the remembered connections, `stale`, `ready` and `closed` the state of each, `init` the
chain of patches around the SDK's constructor, `lock` `_patch_lock`; a quote is used up by `Taken`. In `Bridge` a
deposit has three facts of its own (chain, bridge record, credit) and the panel one memory (`watched`) that requests
read and write without a lock.

### ProviderSession

`session` is the thread-local conversation with its output file, `bound` the consultation a tool may ask through,
`bridge` and `upstream` the local HTTP server before OpenRouter and the request it sends, adapted to the model.
`orphans` are children of killed clients that still write. `got`, `begun` and `late` are history.

### Evaluators, ClientLogin, ClientInstalls

`queue` and `active` are LAYA's FIFO gate, `cooling` the pool's cool-downs, `call` each caller's place in
`evaluate_candidates`. In `ClientLogin` a login is a flow with a process, a reader thread and a relay; `page` is
`self.state`. What the console shows is `Shown`: the link of the relay while it is ready, and only without a relay the
page's own (`snapshot`, `_client_control.py:249-251`). A login may fail after its relay is made (`LoginFails`), and its
reader may give up with the client still running (`ReadFails`, lines 690-695), which then nobody waits for or
kills (`failed`). `overtaken` is history: a login that began before the one before it had wound up. In
`ClientInstalls` directories of one volume are shared by controllers with their own locks and one file lock on
downloads; a failure after publishing removes the directory that was published, and a pointer to a directory that is
not there reads as none. `crossed` is history: an upgrade during another controller's download.

### Settings, AdminAuth, MarketStream, OperatorNotes

`Settings`: `file` is the selection file, `req` a request between reading it and writing it whole; `told` and `raced`
are history. `AdminAuth`: ceremonies, sessions and nonces are rows with lifetimes, a request is checked, opened and
dispatched in separate steps; the cryptography is left out. `MarketStream`: the connection thread with its commands and
messages in flight; a book is a version, or torn. `OperatorNotes`: `harvest`, `acknowledge` and `add` split at their
reads and writes of the file; `book` is `operator_instructions`.

## 3. Runs

| Run | Instance | States | What it shows |
| --- | --- | --- | --- |
| `event_loop` | 3 events, 2 worker threads | 26 thousand | serial handlers, no stranded caller, cut work stays cut, submit and stop end, the gate is implemented |
| `trading` | 1 token, 3 operations, crash and lost ledger writes; 2 rules a lane, 2 writes; 2 threads; 2 deposits and a withdrawal | 1.4 million | the books balance, known profit is exact; nothing refused is carried out; orders leave on a trading connection; the panel is right about the money |
| `robot_safety` | 2 saves, 3 generations, failing loads and teardowns, bounded join | 2.5 million | one robot, none leaked, pauses hold, no request lost |
| `robot_live` | 1 save, 1 request that stops, changes and reconciles, failing loads, teardowns and refreshes, unbounded join | 0.1 million | the choice is followed unless a failure left the robot off, stopped workers end, the lock is released |
| `deciding` | `RoundsSpec`: 3 rounds, 2 deletions, crashes; 2 threads with 2 providers | 2.9 million | rounds conclude unless an uncaught error or a crash cuts them off, deletions and pauses hold, ledger and book agree with the venue; conversations stay apart |
| `providers` | `PoolSpec`: 2 providers, one with a quota report, 1 caller | 0.3 million | asked when due, recovery noticed, plugins hear and follow |
| `funding` | 2 requests, one amount of 2, balance up to 2, unreadable balances, crashes | 0.3 million | answers match their request, are claimed, and only once |
| `market_survey` | listings of 2 and 3 pages with two topics, 3 pages a survey, crashes | 0.2 million | no page is passed over, every page is read again, only recorded rounds choose |
| `market_work` | 2 contracts of one event, one with a moving price, 2 appointments | 0.4 million | no stale verdict excludes, reviews are kept and happen, no contract is passed over when any are screened |
| `clients` | 3 callers, a queue of 2, 2 batches; 2 logins; 2 controllers, 3 directories, 2 new versions | 1.0 million | the gate never stands shut; one login at a time; the client in use is whole |
| `services` | 1 plugin, 2 requests; 2 passkeys, 2 copies of a request, 3 ceremonies; 2 callers, 1 subscription, 2 connections; 2 notes, a crash | 1.4 million | pauses outlive edits; sessions are earned; books are current and callers answered; notes are taken once and stay forgotten |
| `settings_screening` | 1 plugin, 2 requests | | **violation**: a saved pause of the screening is lost |

A few properties are conjunctions of named parts (`LoopIsSound`, `BooksAreRight`, `RobotIsSound`,
`RoundsAreSound`, `AsksAreKept`, `ChoicesAreHonest`, `OpinionsAreHonest`, `TheStreamServes`): the parts say one
thing from several sides, and each includes its module's type invariant. The parts keep their names and their comments.

Seven more configurations stand beside the runs. Each checks one property that the code does not keep (section 5)
and stops at a counterexample; `tlc -config X.cfg M` shows it:

| Configuration | Module | Property |
| --- | --- | --- |
| `RobotResumeRace.cfg` | `MCRobot` | `NoStuckPause` |
| `DecisionScreened.cfg` | `DecisionCycle` | `ScreenedRoundsAreBooked` |
| `ProvidersRecheck.cfg` | `Providers` | `BeliefIsHeard` |
| `FundingApproval.cfg`, `FundingDeadline.cfg` | `Funding` | `CancelledMovesNothing`, `EveryAskIsAnswered` |
| `GateReductions.cfg` | `OrderGate` | `ReductionsApply` |
| `PatchRace.cfg` | `WriteClient` | `PatchIsLifted` |

### Bounds

* `MaxRounds`, `MaxForgets`: a round can be traded while another is deleted and a third is cut off by a crash;
  rounds only meet through the cycle's order, so further ones repeat this. The proof removes the bound.
* `MaxOps` in `Account`: a position built in two pieces and partly sold with a rounded basis, or partly sold and
  over-sold. Every operation on the mirror depends on one token; `Prices` and `Fees` are small so that a fee can
  exceed a proceeds.
* `Savers`, `MaxSync`, `MaxGen` in `Robot`: one save meets the reconcile another caused. `MaxGen` is the largest
  number of generations those can start (an assumption of the module), so that `Build` is never blocked by it.
* `MaxStreak`, `Ceiling`, `Stated`, `ProbeInterval` in `Providers`: the second failure in a row is at the
  ceiling and a stated reset lies beyond it; any longer streak behaves like the last (assumption).
* `MaxAsks`, `MaxMoney`, `Amounts`, `Budget` in `Funding`: one request supersedes the other; an amount of two
  units can be met in part; one decision per cycle makes the budget run out. A third request would only repeat
  what the second does to the first.
* `MaxPages`, `Listing` in `MarketSurvey`: a survey of three pages cannot finish both listings, so it stops in the
  middle of either and the next resumes there; a topic is on both, one only a search finds.
* `Fresh`, `Backoff`, `Retry`, `Interval`, `Delays`, `MaxAppts` in `MarketWork`: a verdict outlives a survey and not
  two, a failed review comes due again behind the other's, and one appointment can meet or miss a later wish.
* `MaxRules`, `Sizes`, `Cuts`, `Funds`, `MaxWrites` in `OrderGate`: two rules of a lane disagree; a reduction to
  nothing and one below the size exist. `Lots`, `Whole`, `Fee`, `Unit`: cash is counted in halves of a tick and a fee is
  one half of each tick traded; the funds cover a purchase of one tick with its fee and not one of two; a quote comes to
  less than what was asked for, as much, or more.
* `MaxClients`, `MaxPatches` in `WriteClient`: a connection is replaced while another thread uses it; two patches can
  be left on one another.
* `MaxSessions`, `MaxAsks`, `Steps`, `Bodies`, `Advertised` in `ProviderSession`: a thread goes through two sessions
  while the other is in the middle of its own, a plugin asks back twice, and the one request body has a field of each
  kind: kept, renamed, dropped.
* `QueueLimit`, `Attempts`, `Batches` in `Evaluators`: three callers and a queue of two make it full; the second
  attempt is the last. `MaxFlows` in `ClientLogin`: one login and the next, which is what can overtake. `MaxVersion` in
  `ClientInstalls`: a version is offered, used and superseded.
* `Idle`, `Absolute`, `MaxTime`, `MaxCeremonies` in `AdminAuth`: a session dies of either clock; a login, a second
  passkey and another login. `MaxSubscriptions`, `MaxVersion`, `MaxConnects`, `MaxWire` in `MarketStream`: two tokens for
  one subscription, a change before and after the snapshot, a second connection. `MaxReads`, `MaxCrashes` in
  `OperatorNotes`: a note is read again after a crash. `NoSaveIsRaced` in `MCServices`: what follows a save that went
  over another's is not followed, since `PausesOutliveEdits` excepts it.
* `Overlapping` is FALSE in the passing runs of `Robot` and `Providers`: they say what holds when one save waits
  for the other, and the recheck for the watch, the configurations with a counterexample what goes wrong otherwise.
  (`PluginsHeard` is proved without it.) History variables mark the overlaps and failures of section 5 elsewhere,
  and the property speaks of all other behaviours: `raced`, `torn`, `mixed`, `overtaken`, `crossed`, `late` in
  `Settings`, `OperatorNotes`, `Bridge`, `ClientLogin` and `Providers`, `ClientInstalls`, `ProviderSession`;
  `withdrawn` and `unfiled` in `Funding`; `aborted` in `Robot`; `escaped` in `DecisionCycle`.
* `CHECK_DEADLOCK FALSE` in `trading`, `deciding`, `clients`, `services`: a bounded history really ends.

### Fairness

* `EventLoop`: every thread that can run does; a handler ends since every wait inside it has its own timeout.
  Nobody has to submit, pause, start or stop.
* `Robot`: the steps of a request once it saved, of the reconcile thread, of the lock holder, of workers and
  handlers are weakly fair. Taking the manager's lock (`AcquireAsync`, `RetryStart`, `SyncReconcile`) is strongly fair,
  as a lock that is free again and again is obtained in the end. Nothing is assumed of the operator, of readiness or of the
  capacity watch.
* `Providers`: time passes, the watch wakes, probing and checking threads go on. Nobody has to call a provider
  or to press *recheck*. A provider that flaps for ever is nobody's duty: `RecoveryIsNoticed` and
  `CapacityIsFollowed` speak of moods that settle.
* `Funding`: the worker starts cycle after cycle, a model call ends, a decision makes a bounded number of tool
  calls (strong fairness of `Conclude`: between two of its calls it could always have ended), a funding status
  that is asked for again and again is read in the end. Nobody has to open the console.
* `MarketSurvey`, `MarketWork`: the worker's thread goes on with its next step, whichever that is (`Step`, `Loop`). What the screener, the
  model and the venue answer is not fair to anybody; the properties ask for listings that answer, a pool that is able
  from some time on, or an evaluator that is asked again and again, and for nothing else. That the evaluator is asked is
  promised by nobody: surveys may spend their time on reading, and reviews go first.
* The machines of `trading`, `deciding`, `clients` and `services` are checked for safety only.

## 4. Proofs

For every value of the constants that satisfies the modules' assumptions:

**`EventLoopProofs`** — the event loop is right for any number of events and worker threads.
`Inductive` strengthens the type invariant by: at most one worker is alive and it is `_thread` (`OneLiveWorker`);
an open gate has a living worker and no stop in progress (`GateHasWorker`); the pill is last in the queue, is
there exactly while a living worker is being joined, and a dead loop has an empty queue (`PillIsLast`); an envelope is in
one place (`OnePlace`); answers match places (`AnswersMatch`); and `cut` is exactly what is unbegun behind a closed gate
(`CutIsExact`). Without `PillIsLast`, `NoStrandedCaller` is not inductive: an event might be
behind a pill. Proved from it: `TypeOK`, `OneHandler`, `NoStrandedCaller`, `CutWorkNeverRuns`, `AnswerIsFinal`,
and the refinement `ImplementsGate`, action by action. `LoopSound` collects the first four.

**`DecidingProofs`** — a decision and those who are asked for it. *DecisionCycle*, for any number of rounds and
deletions: `IInv` adds to the
properties: nothing is recorded of a round that was not opened, the round in progress has its row, and the venue does
not know it until its order is sent (`RoundInv`); an open row with a venue action is about to conclude, an open and
cancelled one is being deleted, or a crash, the screener or an uncaught error left it (`OpenInv`); a round deleted while
the model answers has been cancelled, and goes no further than the check (`CancelInv`); what the mirror or the file lists the
venue accepted, and it has its execution row or is about to get it (`BookInv`); and a pause between the last look and
the sending is exempt (`ExemptInv`). Two lemmas, one for steps that conclude a round and one for steps that only advance it, carry
most of the actions. Proved: `TypeOK`, `EveryRoundConcludes`, `DeletedEarlyNeverTrades`, `LedgerIsHonest`,
`BookIsAudited` (together `RoundsSound`), `PauseStopsTrading`.
*Providers*, for any providers, cool-downs and callers: `ToldInv` says that plugins and watch agree, unless a thread
is about to announce or the last announcement was overtaken, and that a recheck probes before it checks. It holds
with both threads announcing at once and gives `PluginsHeard`; `ProvidersRecheck.cfg` shows that `overtaken`
happens. `Turns` says whose turn it is when the recheck waits for the watch. `AskInv` keeps the registry in step
with the history of failures: a provider out of its cool-down has waited as long as its failures oblige the pool to
(`Match`), one that is being probed has failed and served, one on a caller's list is ready, and nobody has failed
before the first look. Hence the action property `AskedWhenDue`, with one caller and `~Overlapping`.
*ProviderSession*, for any threads, clients and calls: `TalkInv` says that a session is open exactly while an
attempt runs, that its conversation was begun by the first call and is the same from the first answer on, that
bridge and request live only as long as the call they serve, and that the file under a call's name holds its own
answer or what a late child wrote. Every child still writing belongs to a session already closed or to one marked
`late`. Hence `RoundsKeepToThemselves`.

**`FundingProofs`** — the book and the decisions that wait, for any number of requests, any amounts, any balance and
any budget. `Inductive` adds to the type and `OneReminderPerAsk`: the waiting request is not settled, and the book
knows exactly the requests 1 to n, so that a new one gets a number no continuation has (`AskInv`); a continuation
belongs to a request the book knows, is closed before its reminder, and those the cycle has listed are still open,
since only the event thread closes one (`ContInv`). It holds whether or not the console acts in the middle of an ask,
and gives `TypeOK`, `OneReminderPerAsk` and `NothingIsForgotten`, together `AsksKept`. `Calm` follows one answer
through whatever the robot does meanwhile: the request it is about still waits, was taken back by the robot or was found
overdue (`AnswerInv`); what the console is about to say is true of it as long as it waits (`PeakInv`); and money that
moved is answered for, is about to be, was lost track of in a crash, or moved for a request the robot took back
(`MovedInv`). From it: `CancelledInTimeMovesNothing` and the action property `AnswersMatchTheirAsk`, which speak of an
operator and a robot acting at any point of each other's steps. `FundingApproval.cfg` shows what the exception in the
former costs.

**`RobotProofs`** — one robot trades, for any number of requests, generations and immediate reconciles, with or
without faults, and whether or not a plugin's `stop()` waits for its worker. `Inductive` adds to the type: a request
counts once it asked for its reconcile (`RequestsCounted`); the robot in `_events` is the newest one, and while the
manager takes a robot down there is none (`NewestIsCurrent`); a robot that is neither the manager's nor on its way down
has shut its gate, answered its events and been told to stop, and only such a robot has its engine closed
(`FormerIsAtRest`). Proved: `TypeOK`, `OneRobot`, `NoLeakedRobot`, `NoRequestIsLost`. With one save at a time
(`~Overlapping`) the recorded pause is what the last request wants (`PauseIsRecorded`), which gives `NoStuckPause`, so
`RobotIsSound` as the run checks it, and the action property `PauseHolds`.

**`TradingProofs`** — the books and what stands before an order, for any tokens, prices, rules, threads and deposits.
*Account*: `BooksInv` says of the mirror in memory and of the one in the file that cash and basis account for every
flow, that an empty position costs nothing, and what the ledger admits of what it does not know. The books' balance
sums over all tokens; the library's fold is unfolded once by well-founded induction written out as a least
counterexample (`FoldExists`, `LeastNatural`, `LeastSet`), and the rest of the proof only uses what a change of one
token does to a sum. Proved: `BooksAreRight` and, from the freshness of order ids, the action property
`SettledOrdersStay`. *OrderGate*: at every point of a call, every rule already heard consented to what is about to take
effect, at the size it will have (`GateInv`), and a paper purchase that is covered for what was asked is covered for a
quote that comes to no more (`CostGrows`, `PaperIsCovered`), hence `OnlyWhatTheRulesAllow`. *WriteClient*: a client that
trades has its wallet, the thread inside the constructor owns the lock and the outermost patch, and a quote that was taken is in one thread's hands
or in one order (`WalInv`), hence `OrdersUseTheirClient`. *Bridge*: the bridge knows only what was mined, and what a
page, a question under way or the memory says of a deposit was true when read and stays so until it is written
(`MoneyInv`), hence `PanelTellsTheTruth`.

**`MarketsProofs`** — for any listings, contracts, delays and bounds. `SurveyInv`: every cursor, stored or in use, lies
on a page, the pages behind it were read, what a round was offered keeps its share of what was read although the
screener refused the rest (a count over finite sets), and a choice has its row. Proved: `NoPageIsSkipped`,
`ChoicesAreHonest`. `WorkInv`: the queue names a contract once and is
sorted by due time; a contract whose price moved since its answer has no answer any more; a review that is owed has an appointment no later than owed, however rows are inserted before it, held, put
off and aged. The queue is relational (`Queued`: any order the SQL's ORDER BY admits), which is
what made it provable: no fold and no `SelectSeq`. Proved: `ExclusionIsInformed`, `ReviewsAreKept`.

**`ClientsProofs`** — *Evaluators* (`GateInv`): the tickets at LAYA's gate are those of the callers that wait or are
before LAYA, each once, and the holder's is the first; every call knows whom it may still ask. *ClientLogin* (`LogInv`):
a client that runs is waited for, about to be killed, or was given up by its reader; one that is waited for is still
read from; a relay that is ready is open (`ReadyIsOpen`); and only the last login, or its relay, has anything left to
do, unless one began before the one before it had wound up. *ClientInstalls* (`InsInv`): one upgrade at a time and none
beside a download; what is being installed is neither in use nor offered; what is published, switched to or in use was
verified and is there (`PointersAreGood`).
Proved: `OpinionsAreHonest`, `OneLoginAtATime`, `TheClientInUseIsWhole`, for any callers, flows, controllers and
versions.

**`ServicesProofs`** — *Settings* (`SetInv`): what a request read of the file is still true of every field it will not
change, until a save is raced. *AdminAuth* (`AdmInv`): a ceremony's number is used once, sessions end with their
passkeys, a copy of an envelope past its check has used up its nonce. *OperatorNotes* (`NotesInv`): a note is in the
file or was taken, and the robot's copy of the file is current unless a write was torn. *MarketStream* (`StreamInv`):
the last command on a token that is subscribed subscribes it, or it is served and no command speaks of it; the last
message on a token served brings its book to the venue's version, or none is under way and the book is there; every
change under way is the one after the message before it, the first the one after the book held. A token goes over
the limit only as the first of those wanted, so all the others were asked for after it. Proved: `PausesOutliveEdits`,
`SessionsAreEarned`, `TheStreamServes`, `NotesAreTakenOnce` and the action property `ForgottenStaysForgotten`.

In the five union modules the last theorems lift each machine's result to the union the run explores, since a
behaviour of the union is one of the machine that `part` names.

Assumptions: those the modules name (`EventLoopAssumption`, `RobotAssumption`, `CycleAssumption`, `AccountAssumption`,
`TradingAssumption`, `DecidingAssumption`, `FundingAssumption`, `MarketsAssumption`, `ClientsAssumption`,
`ServicesAssumption`; TLC evaluates each on a run), and the modules' reading of the code. They say that sets are
finite, bounds are numbers and markers are not values; `~Overlapping` and *one caller* stand in the theorems that need
them, never in an assumption.

Every safety property the passing runs check is proved. Model-checked only: the liveness properties, since fairness and
ENABLED are outside the prover's reach. Of the properties section 5 shows violated, `NoStuckPause` is proved for
saves that do not overlap; `BeliefIsHeard` and `CancelledMovesNothing` are proved up to the behaviours that `overtaken`
and `withdrawn` mark (`PluginsHeard`, `CancelledInTimeMovesNothing`); the others have no theorem.

## 5. What the code does otherwise

One run and seven further configurations (section 3) find a behaviour that contradicts what the repository says.

1. *Screening pause* (`plugin_system/management.py:365`, run `settings_screening`, quoted in `PROJECT.json`).
   `refresh` rewrites the selection file from a dictionary that leaves `screening_paused` out, so a saved pause
   ends at the next refresh, whatever that is for; the comparison that should spare the write (line 372) never finds the
   two equal, because `to_dict()` does name the field. `docs/CONFIGURATION.md:86`: "重启后保持".
2. *Resume race* (`runtime/controller.py:69`, `RobotResumeRace.cfg`). Two saves write the file in one order and the
   pause flag in the other. The robot is rebuilt, is reported running and refuses every event, although
   `runtime/controller.py:136` says "whatever the operator chose last is what the robot returns to". The mirror
   image, a saved pause whose flag is cleared by an earlier save's late step, leaves the flag open until the reconcile
   stops the robot.
3. *Screened rounds* (`runtime/evaluation.py:293`, `DecisionScreened.cfg`). The status of a screened-out round is
   named through a class this module does not import: NameError, the row stays `STARTED` and the cycle ends without
   saving. `runtime/memory.py:1462` describes the status as "A round that was not run".
4. *Announcements* (`runtime/decision_capacity.py:122`, `ProvidersRecheck.cfg`: `BeliefIsHeard`). The reading is
   judged under the lock, the announcement is made outside it: a recheck and the watch can leave the plugins
   standing down for good. `runtime/controller.py:427`: the watch "tells the plugins standing down that they may
   start again".
5. *Approval* (`plugins/api/_funding.py:123`, `FundingApproval.cfg`). `settle` files whichever request waits,
   which need not be the one the operator approved: the robot may have taken that one back, or replaced it, while the
   money was being moved. `plugins/api/_funding.py:268`: "cancelling it means no money moves
   for it".
6. *Deadline* (`plugins/api/_funding.py:155`, `FundingDeadline.cfg`). `find` does not look at `expires_at`.
   `docs/API_PLUGINS.md:100`: "过了期限的请求算 `failed`".
7. *Reductions* (`runtime/evaluation.py:511-518`, `593`, `GateReductions.cfg`). A rule of the agent lane that
   answers ADJUST to a sale or to a tool call (an order, a transfer) changes nothing: the action goes on at full size.
   `plugins/agent_policy/custom_rules.py:19-23` says of "every tool call the model makes, plus the trade it
   proposes" that a rule can reduce it, and `docs/RISK_FILTERS.md:42-43` calls this outcome the worst.
8. *The patch of the SDK* (`plugins/api/_polymarket/write.py:151`, `PatchRace.cfg`). `original` is read before the lock
   is taken, so a second thread may remember the first one's patch and put it back for good; the comment above it says
   the patch "is held only for the call that needs it".

Noticed on the way, without a run of their own:

* A plugin load that fails during a reconcile lists no platform as wanted, so no retry is armed and the robot
  stays off after the cause is gone (`runtime/controller.py:190-204`; `LoadFails`); likewise a teardown that
  raises, and a console request whose refresh, installation or save raises after its `stop()`, which cancelled the
  retry timer, and before its `reconcile()` (`runtime/dashboard.py:1745-1806`; `SyncRaises`). `ChoiceIsFollowed` excepts
  a robot left off this way until another reconcile gets through (`aborted`).
* An order or quote that fails with something other than ExecutionError, RuntimeError or ValueError leaves its row
  STARTED, the status of a round "still running" (`runtime/memory.py:1481`), with no execution row
  (`runtime/evaluation.py:543`; `Escape`). If the venue had accepted, such a row can be deleted, though
  `runtime/memory.py:1539` says executed actions are kept, and the order is missing from the mirror.
* A Polymarket balance that cannot be read is filed as 0 with the request (`_polymarket/adapter.py:142-158,197-204`);
  the operator's confirmation then compares with 0, and *partial* may be the answer although nothing arrived.
  `AnswersMatchTheirAsk` excepts *partial* on such a request.
* A paper purchase is covered for what was asked and debited for what the quote comes to (`OrderGate` in section 2).
* The settling guard of the plugin runtime's `start()` cannot fire: a runtime object is created per catalog and
  started once. What keeps two cycles apart after a bounded join is the unbounded join of the event loop.
* A decision deleted after the cancellation check still trades (`runtime/evaluation.py:474-478`).
* An execution row committed between `forget_decisions`' look and its DELETE loses its decision
  (`runtime/memory.py:1574`), though `runtime/memory.py:1539` says such decisions are kept.
* `complete_decision` raises for a deleted row; its docstring (`runtime/memory.py:1478-1484`) says it is silent.
* The status page's `net_result` (`runtime/engine.py:565`) adds withdrawals back and does not take deposits off:
  a deposit shows as a gain.
* A ledger row that is lost may be the one that says the profit is unknown (`runtime/broker.py:84`);
  `KnownProfitIsExact` therefore speaks of ledgers that lost nothing.
* `AskedWhenDue` is checked and proved with one calling thread. A second caller of the pool could ask from a set of ready
  providers read before the first one's failure was recorded.
* A crash between the venue's transfer and `settle` leaves the request waiting, and it may be approved twice; two approvals
  in flight do the same. `CancelledMovesNothing` exempts what a crash kept out of the book (`unfiled`).
* Binance's *satisfied* reports the balance it expects after the transfer, while `account_funds` goes on reporting
  the configured figure.
* The funding book is rewritten in place without a lock by two plugin instances (the robot's and the
  console's); `Funding` takes each method as one step. The notes beside it are written the same way: a note added
  during `acknowledge` is lost (`plugins/api/_funding.py:247`; `torn` in `OperatorNotes`).
* Closing a continuation before the decision it wakes may lose a reminder to a crash or an exhausted budget. That
  is the documented choice, and `OneReminderPerAsk` is what it buys.
* Discovery and work: a contract whose price moves at every listing is due again at once each time and may starve in
  the queue behind others like it (`EveryContractIsScreened` speaks of the rest). Only the oldest twenty
  active instructions are ever reviewed (`runtime/operator_instructions.py:190`).
* Rules: a rule plugin that cannot start is skipped with a warning (`runtime/bootstrap.py:104-110`). A quote is not put
  to the business lane, although the guard's docstring says every call is. Paper trading mints cash for shares never
  held, does not check transfers, lets a tool call name its own fee, and fills a limit order at its limit at once.
* Money: the bridge's records name no deposit, so two deposits of one amount are confounded
  (`_polymarket/write.py:650-662`; `Twin` in `Bridge`). The watch may write what it read of the deposit followed
  before (`plugins/api/polymarket.py:168`; `mixed`). "not_found" is final although a node may only be late. A withdrawal
  whose `wait()` fails is shown as failed and may be repeated.
* Sessions: a child of a timed-out consultation may write the output file of a later call (`late`). Answers to plugin
  questions count towards `tool_budget_exhausted` (`agent/decision.py:447`). `ask` "never raises", but
  `int(reply["choice"])` may (`agent/consultation.py:309`).
* Evaluators: the pool's list of errors is shared by concurrent callers.
* Login: a reader thread whose login succeeded forgets the process first and closes, up to 30 seconds later, whichever
  relay is current (`_client_control.py:660-705`); its late output may configure the next login's link (`707-724`); a
  refusal with old credentials marks the new ones (`225-238`). A reader that fails forgets a client that may still run:
  its timer is cancelled and nobody kills it (`690-705`). In local mode the page goes on showing the link of a login that
  ended or was cancelled until its relay closes (`249-251`). `login` does not look at `closed`, and the quota
  reader's deadline does not bound its `readline` (`352-392`).
* Installs: a failure while old versions are removed deletes the directory just published (`955-979`), which
  leaves the pointer to it dangling. `upgrade` holds only its controller's lock; another controller's pruning can
  delete the version being activated (`crossed`). A stale `installed_version` may offer an older version as new.
* Settings: two requests that overlap lose one's field (`raced`); two overlapping refreshes may leak a catalog or
  normalise the file against an empty one; a teardown or initialiser that fails leaves the catalog empty until the
  next refresh, and plugins initialised before it are never torn down.
* Sign-in: a request past its check is carried out although its session is ended meanwhile (`Dispatch` in
  `AdminAuth`).

## 6. Not modelled, and what is left

Not modelled: strategies, evolution and the playbook (prompt text and floating-point statistics over rows
`DecisionCycle` writes); the research tools (read-only, their answers are choices); reads, signing and parsing at
the venues (I/O); the console's pages and reports (rendering; the handlers that change state are actions of the
modules above); configuration from the environment; deployment. In the modules: the 20-entry limit on settled requests
(two are filed), the currency check, the path with nobody to ask (`consult is None`), Binance's *partial* through
rounding, and the capacity check of a cycle (part of the fairness of `StartCycle`) in `Funding`; settlement and
reviews in `DecisionCycle`; the one-shot command line in `Robot`; the ranking among ready providers in `Providers`;
quotas, encryption and scripts in `ClientLogin`; cryptography and the recognition of local hosts in `AdminAuth`;
private configuration forms in `Settings`; what a note or an answer means, everywhere.

Left to do, most important first:

1. `Funding`, refined: read and write of the book as separate steps, as `OperatorNotes` does.
2. Composition of `DecisionCycle` with `Account`, the mirror's orders replacing the set `mirror`, and with `OrderGate`
   for the verdict it leaves open.
3. An abstract *work list* that `MarketWork` implements.
