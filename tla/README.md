# A TLA+ model of the AI investment firm

`firm` researches a stock with a team of language-model agents, proposes a trade, pauses for a
human, and books the answer in a PostgreSQL ledger. This directory models the part of it that
moves money (the ledger, the decision cycle with its human gate), the surfaces that keep operators
and paused cycles together (the Telegram bot, the web dashboard, the channels of `firm run`), the
desk of agents that call a language model under a token budget, and the offline evaluation. Each
module is translated from the source (paths below are under `src/src/firm/` unless they start with
`docs/` or name a top-level document; `eval/` is the repository's top-level directory);
`PROJECT.json` maps each definition to its lines.

```
tlc -workers 2 -config MCLedger.cfg MCLedger      # check a run
tlapm LedgerProofs.tla                            # check the proofs of a module
```

## 1. The system: an inventory

| component | state it keeps | operations | interacts through |
|---|---|---|---|
| ledger (`persistence/ledger.py`, `models.py`, `domain/portfolio.py`) | tables portfolios, holdings, lots, trades, audit_log, approvals, decision_cycles, pending_runs | `buy`, `sell`, `ensure_portfolio`, `record_approval`, `record_cycle`, pending-run rows, reads | one transaction per call, any number of sessions of any number of processes |
| orchestration graph (`orchestration/`) | graph state, a LangGraph checkpoint per thread | nodes research .. judge, `interrupt()`, `resume_decision` | calls agents, reads the portfolio loaded at start, calls the ledger |
| risk policy (`domain/risk.py`, `tools/size_position.py`) | none | `check_trade`, `check_daily_halt`, `size_position` | called by the risk node and by the guardrail |
| ledger guardrail (`domain/guardrails.py`) | none | `enforce_before_write`, `enforce_hitl_approved` | last check before a ledger write |
| composition (`composition.py`) | the wiring of a process; the portfolio read once | `build_live_pipeline`, offline variants | shared by CLI, bot and web |
| Telegram bot (`bot/service.py`) | `_pending` (locked), a `_ResumeSignal` per run, the `getUpdates` offset | poll, dispatch, run thread, card, tap, expiry, resume | threads of one process; Telegram's queue; checkpoints |
| web runtime (`web/runtime.py`, `web/app.py`) | pending_runs rows | POST /api/run, GET /api/approvals/pending, POST /api/approvals/{id} | worker threads, event loop, table, checkpoints |
| live CLI run (`cli/commands/run.py`) | position in the list of tickers | ingest, build, one cycle per ticker, ask, resume | graph, one channel, evidence store |
| approval channels (`adapters/telegram.py`, `adapters/approval/`) | offset, deadline, message id | ask one question, wait | used by the CLI; Telegram's queue |
| news ingestion (`agents/news_ingestion/`) | one transaction | fetch, embed, insert, commit | evidence store, before the cycles |
| retrieval (`adapters/evidence_pgvector.py`) | table news_chunks; one connection per run | search by ticker and date | read by the agents' tools |
| upstream and narrating agents (`agents/`) | none between calls | research, technical, debate, research manager; synthesis, judge | language model, evidence, bars |
| token budget (`adapters/llm_token_budget.py`, `domain/guardrails.py`) | tokens per correlation id | test before a call, add after it | wraps the language model |
| language-model adapters (`llm_anthropic.py`, `llm_cassette.py`, `fakes.py`, `llm_offline.py`) | the cassette file; canned responses left | complete, complete with tools | called by the agents |
| offline ledger (`composition.py:418`) | portfolio, trades, cycles, keys | buy, sell | the evaluation's graph |
| evaluation (`eval/`) | days, records, NAV snapshots | one cycle per day and symbol | graph, frozen prices and news |
| market data, strategy | bars, calendar | latest bar, signals | read-only to a cycle |
| reports, observability, migrations | files, logs | print | read-only to the system |

What is hard about it:

* **Concurrency.** Bot threads, web workers and the CLI each open their own session on one
  portfolio; the bot's loop and its run threads share a map and unlocked signals; a dashboard
  polls while cycles run.
* **Crashes.** The ledger commits in its session and LangGraph saves checkpoints in its own, later,
  in the background. A node that was executed may be executed again. The bot keeps in memory what
  the chat still shows.
* **Interrupt and resume.** The risk node runs *from its top* on every resume, against data that
  may have moved since the human was asked.
* **Retries and delivery.** Idempotency keys on fills; unconfirmed Telegram updates come again;
  buttons can be tapped twice, late, or after a restart; a second tab posts again.
* **Timeouts.** A tap races the ten-minute expiry, in the bot and in the channel of `firm run`, which
  looks at its clock only between two long polls.
* **Partial failure.** Any request to the model, any tool, embedding, insert, card or report may fail,
  and each has its own way of being passed over. One database connection serves a whole run: an error
  that is not rolled back blinds what follows.
* **Shared counters.** The two analysts call the model at the same time, and the budget is tested
  before a call and added to after it.

What makes each component correct: a key is filled at most once and for good, cash and lots agree
with the trades, nothing half-written stays (ledger); nothing is traded that no answer asked for,
hard limits hold, a cycle recorded as filled was filled (graph, policy, guardrail); a waiting trade is decided at
most once, by an answer that was given, and does not get lost on the way (bot, web, run); a call that
fails degrades a cycle to a hold, never to a trade, and a budget is passed by no more than what was
in flight (desk); the decision is made from the past only (retrieval: that is the filter of the
search, modelled as `Visible`, and no property of its own); a recorded evaluation replays the same
(cassette).

## 2. The modules

```
IdempotentFills  <= Ledger (Money)                     <- MCLedger,        LedgerProofs
                    DecisionCycle (Money, RiskPolicy)  <- MCDecisionCycle, DecisionCycleProofs
                    Desk                               <- MCDesk,          DeskProofs
                    Replay (RiskPolicy)                <- MCReplay,        ReplayProofs
ApprovalGate     <= BotService                         <-                  BotServiceProofs
                 <= WebRuntime                         <- MCWebRuntime,    WebRuntimeProofs
                 <= LiveRun                            <- MCLiveRun,       LiveRunProofs
```

`A <= B` reads "B is shown to implement A"; `<-` reads "is extended by". `FiniteSums` holds lemmas only
(induction, sums over finite sets, folds over sequences) and is extended by LedgerProofs,
DecisionCycleProofs and ReplayProofs.

* **Money**: prices and costs, in half cents: commission, slippage, debit of a buy, proceeds of a sale.
* **IdempotentFills**: what the ledger promises its callers: a key gets at most one fill, for ever,
  and whoever is told "filled" is told that one.
* **Ledger**: `LedgerRepository` at the grain of SQL statements. A call is looked up by key
  (`FindByKey`), reads the portfolio row, reads holdings and lots, flushes and commits. The engine
  runs at READ COMMITTED, so each SELECT is a step, and sees whatever is committed then. SQLAlchemy
  writes everything at the flush; every flush updates the portfolio row and so waits for a
  concurrent one to commit; hence flush and COMMIT are one step. `Conflict` is the unique
  constraint; `Crash` is a rolled-back transaction, or a commit whose acknowledgement is lost.
* **RiskPolicy**: `check_trade`, `check_daily_halt`, `size_position`, over whole percentages.
  `size_position` floors a *float* of the Decimal quotient: `FloatFloor` rounds a quotient that lies within
  the float's relative precision at its coarsest (`Mantissa`, 2^53 for a double) of the next whole number up
  to it; quotients beyond 2^53 shares are left out, and TLC's runs use 10^9, as its integers have 32 bits. The
  unit of money is any in which the price and the NAV are whole, so un-rounded live prices are covered.
* **DecisionCycle**: cycles of one live process from the `pm` node to the end. `thread[c]` is the
  saved checkpoint, `run[c]` the state of an executing call; `Persist` is LangGraph's background
  writer, so a crash can lose nodes that have already had their effects. `plan[c]` is what a cycle meets:
  the plan, the mode, market hours, and the closes that its bar may show, one of which each read finds
  (`pm`, and an override when it is resumed). `Start`, one action per node and branch, `Resume` by the
  operator, `Crash`, after which the portfolio is read anew; `FilledElsewhere` is a fill by another
  process; `MarketDataFails` is a bar that cannot be read, in each of the three nodes that read one.
  Here a fill is one step: its inside is `Ledger`. What the earlier nodes do is part of the plan.
* **ApprovalGate**: what every approval surface promises: a case is asked, answered any number of
  times, decided once by one of the answers, or dropped, and then nothing decides it.
* **BotService**: Telegram's queue (`sent`, `confirmed`), the loop (`offset`, `batch`, `deciding`:
  a tap whose run is in hand while the lock is already released), the run threads (`pc`), `pending`
  and `signal`. `SendCard` and `Register` are two steps, as in `_send_hitl_card`. `Restart` loses
  the memory and keeps queue, chat and checkpoints.
* **WebRuntime**: `todo`/`stage` is a worker thread that runs a request's tickers one after the
  other; `handler` is the one request on the event loop, whose steps interleave with the workers
  because each statement and each `get_state` is its own transaction. A registry write may fail and
  is swallowed; a crash leaves rows and checkpoints.
* **Desk**: `stage[c]` is the node that runs (research and technical side by side), `call[c][n]` the
  call of node n to the model: the breaker's test, each request to the API with the tool between two,
  the text, and the two steps in which `record_tokens` adds what was used. `KeyOf` is the correlation
  id the breaker finds: that of the cycle for `firm run`, the empty one for the bot and for a resume in
  the web. `ResearchResult` .. `JudgeResult` are what each agent makes of an answer, an error, a
  refusal, or JSON with a field of the wrong shape; `out[c]` is what reaches the graph state. `PmNode`,
  `RiskNode` (risk and execution), `Resume` and `Reporting` may also end a cycle: by a bar that cannot be
  read (`nodes.py:149`, `:480`, `:516`, `:715`) or a NAV without a price for a holding (`nodes.py:629`).
* **Replay**: sessions of the evaluation over one cassette: `record`, `offline` with a cassette, and
  `offline` without one, which is the fake model with its finite list of responses. `Key(n)` of a node
  is the text of its prompt as far as the model can tell: two days whose prompts are the same share an
  answer. Research and technical are one superstep of two threads: `calls[n]` takes each through
  `TestBudget`, `GetReply`, `TakeResponse`, `ReadTotal` and `AddTokens`, one step per access to the total and
  the response index that they share without a lock; `Debate` joins them and `AnalystRaises` ends the
  cycle. All later nodes have the thread to themselves, and their call is one step (`Ask`). `PmToReporting` sizes, checks (`RiskPolicy`) and fills, `Buy` and `Sell` being the
  ledger in memory; `EndCycle` is what the harness reads back: a record, and the day's NAV.
* **LiveRun**: `firm run`. Ingestion is one transaction (`staged`, `tx`) over the feeds of all tickers;
  then `pos` goes through the tickers; `Search` reads the store over one connection (`conn`). A graph
  that pauses asks the channel: Telegram posts a card, polls with `offset`, `clock` and `wait` (the rest
  of the long poll in flight), and its server redelivers what is not `confirmed`; the console reads a
  key; Slack and the dry run only expire.

Interfaces between modules: `DecisionCycle` uses the ledger as an atomic step that fills, replays,
refuses or fails, which is what `IdempotentFills` allows and what `Ledger` is proved to give;
`BotService` and `WebRuntime` hand one of their answers to a graph that takes it once, which is
`Resume` of `DecisionCycle`; so does `LiveRun`, for which a graph ends, raises or pauses. `Desk` gives
`DecisionCycle` its plan (`out[c].manager`, "failure" being no plan) and takes pm to execution as one
of the ways through a human or straight on. `Replay` runs the whole graph, each call being one step,
over the ledger in memory. They are separate modules because their product is out of reach.

Definitions introduced by a comment `Slip:` are plausible mistakes in the definition that follows
them (a dropped guard, a reset, an off-by-one). No action uses them. Putting one in the place of
the real definition makes the property named for it in `PROJECT.json` fail, so each property is
known to depend on the code it is about.

## 3. The runs

| run | bounds | shows |
|---|---|---|
| `ledger_concurrent` (741 000 states) | 2 sessions, 4 calls, 3 keys, one symbol; cash for one large buy, not two | FillsAreIdempotent, AllOrNothing, CashNeverNegative, TypeOK, with retries, crashes and lost acknowledgements between any two statements |
| `ledger_serial` (26 000) | 1 session, 2 symbols, 4 calls | CashReconciles, PositionsReconcile, SellsAreFifo with lots closed, reduced and spanned |
| `cycle` (1 850 000) | 1 cycle, 8 plans in both modes, 5 answers, bars at two prices or none, 1 fill of another process, 2 crashes, failures of database, record and market data | HumanGate, OneFillPerCycle, FilledHasTrade, ApprovalsMatch, OneRecordPerLife, CapHolds, LargeWasSeen, TypeOK |
| `bot_service` (213 000) | 2 runs, 4 updates of which one /run, 1 restart | NoUpdateLost, NothingTwice, GateHolds (refinement), TypeOK; PausedIsSettled under fairness |
| `web_runtime` (431 000) | 2 requests with 3 threads, 1 crash, 1 failure of any kind | OneExecutor, CardsStayListed, GateHolds (refinement), TypeOK; RegistryDrains under fairness |
| `desk` (88 000) | 1 cycle of `firm run`, with or without bars and `--force-buy`; budget 2, 1 token per request; 2 tool rounds for an analyst, 1 for a debater, 1 debate | OvershootBounded, ModelNeverKills, TypeOK; SpentDeskHolds, EveryCycleEnds under fairness |
| `replay` (1 180 000) | 3 days of which one has no bar, 2 symbols, sessions offline-offline and record-offline-offline, the analysts in every order; 20 canned responses, budget 20 | ReplaysAgree, OneRecordPerCycle, FilledIsTraded, BookFollowsTrades |
| `live_run` (1 073 000) | 2 tickers that share an article, one article of the future, a malformed item; 4 channels; poll window 1, expiry 2, 2 taps | NoTapForgotten, FirstTapDecides, OneWindowLate, GateHolds (refinement), TypeOK; EveryTickerEnds under fairness |

Four more runs find the counterexamples of section 4.

Why these bounds are enough to be interesting. Lost updates, duplicate fills and conflicts need two
sessions and two calls; four calls let a retry follow a conflict and a sale follow two buys, and
three keys leave room for a retry and a distinct call. One cycle with two crashes reaches a node
that is executed three times, with another answer each time; the portfolio it is checked against
changes between the pause and the answer when another process fills and a crash reads the portfolio
anew: the buy of 8 shares that threshold mode pauses for is small on the portfolio of afterwards, while
the bar may show another price by then. In `cycle_refusal_is_final` the fill is that of a second cycle. Four updates are a command and three taps:
reject, act, and one too many; one restart gives two runs for one redelivered command. Three threads
on two workers are one thread waiting behind another and one beside it. One cycle has the only two
calls of the desk that overlap, and a budget of two tokens is spent inside the first tool loop, between
two nodes, or not at all; a bound of two rounds and one debate is reached and left. Three days with
two symbols are the fewest in which a prompt without a date comes back on another day, a position
outgrows its cap, and the responses or the budget run out in the middle of a cycle. Two tickers are
one card whose taps are in the queue when the other is asked; with two taps one is late or on the wrong
card; an expiry of two ticks ends between two polls or inside one. The cents and prices are
chosen so that limits are met on both sides; `MaxCalls`, `MaxCrashes`, `MaxRestarts`,
`MaxUpdates`, `MaxCommands`, `MaxFailures` and `MaxTaps` are bounds of the model alone, and all the theorems of
section 5 hold for any value of them.

Every configuration but those of the ledger turns deadlock checking off, because those systems
really stop: cycles end, the bounded operator runs out of messages, and nothing else is due. (In
`Ledger` a restart may provision the portfolio at any time.)

**Fairness.** `BotService`: weak fairness
for the loop's steps and for each thread; the wait has a timeout, so `TimeOut` is a step of the
thread and taps need no fairness. `WebRuntime`: weak fairness for workers and for the handler that
runs; *strong* fairness for starting a scan, since the dashboard polls every 8 seconds
(`templates/dashboard.html:555`) and its request is queued by the event loop between others.
`Desk`: weak fairness for the nodes of a cycle: a request to the API ends in an answer or a time-out;
nobody has to answer an approval. `LiveRun`: weak fairness for the program's own steps; the operator may
never tap nor type. Its clock assumes that a fetch comes back within its window, which is the HTTP
client's time-out, and that the process is not suspended. `Replay` and `DecisionCycle` state no
liveness and need no fairness: nothing in the code makes an operator answer a paused cycle (the bot's
expiry leaves the graph paused, and the dashboard has none).
No crash, restart, tap, fault or new command is assumed to happen, or to stop happening beyond the
bounds.

## 4. Where the code and its documents differ

Four runs are expected to find a counterexample. In each, the property is a sentence of the
documentation.

| run | sentence | what the code does |
|---|---|---|
| `ledger_two_sessions_cash` | `docs/technical_overview.md:144` "single serializable transaction" | two fills read the same balance, unlocked, at READ COMMITTED; one debit is lost. With one session at a time the balance is proved to reconcile (`CashAlwaysReconciles`) |
| `cycle_refusal_is_final` | `nodes.py:331` "override:hold -> no trade. expire -> fail-safe rejection", `README.md:172` "On timeout ... the trade is auto-rejected" | in threshold mode the resumed risk node evaluates the limits again before it looks at the answer (`nodes.py:230`). In the trace a cycle pauses; another one fills, and the process is restarted and reads a portfolio that has grown; the first is answered "hold" or expires, its trade is small now, and the node auto-approves and trades it. What does hold is `LargeWasSeen`: a trade that is large when it is made was asked for |
| `web_paused_is_listed` | `web/runtime.py:260` "the web operator sees it in GET /api/approvals/pending" | a poll during the cycle's work takes the running thread for a finished one and deletes its row; when it pauses it is never listed |
| `desk_budget_per_cycle` | `ARCHITECTURE.md:303` "Hard cap 50K/cycle" | the budget is kept per correlation id; the bot's threads never set one, so all its cycles share the total of the empty id, and once it is spent every later cycle is refused. For `firm run`, which sets an id per cycle, the sentence is proved (`RunBudgetIsPerCycle`) |

The following differences were met while modelling and have no run of their own; most can be seen in
the behaviours of the modules.

*Ledger and decision cycle.*

* "Hard limits still enforce ... after approval" (`ARCHITECTURE.md:106`): `check_trade` returns "needs
  a human" before it tests concentration (`domain/risk.py:80`), and an approved trade passes on that
  verdict.
* "Every decision cycle writes `decision_cycles`" (`ARCHITECTURE.md:236`) is not true, and no property
  says so: with a second symbol in the portfolio the execution node has no price for it (`nodes.py:629`),
  `Portfolio.nav` raises, and the run ends before reporting; a bar that cannot be read ends it in `pm`, in
  the resumed risk node, or in reporting itself, after a fill too; a failed `record_cycle` is only logged
  (`nodes.py:984`); an approval that expires in the bot leaves the graph paused (`bot/service.py:261`).
  What is checked of the rows is that they are true (`FilledHasTrade`) and not written twice by one
  process (`OneRecordPerLife`).
* `_fetch_report_prices` "never raises" (`nodes.py:706`): it calls `get_bar`, which in the live adapter
  calls yfinance without a `try` (`adapters/market_data_live.py:52`).
* `size_position` floors a float (`tools/size_position.py:55`): a quotient just below a whole number
  becomes that number, and the size may be over "the per-trade hard cap" (`size_position.py:39`) by a
  relative 2^-53. `check_trade` then rejects it.
* Two sessions may sell one lot twice: the second finds no lot to delete and only logs
  (`persistence/ledger.py:466`; `docs/technical_overview.md:278` "Long-only").
* A retry that overlaps its original fails on the unique constraint, and its caller gets an error
  and not the stored fill (`ledger.py:310`; `docs/technical_overview.md:156` "no-ops").
* No caller passes `start_of_day_nav`, so the daily halt is never evaluated
  (`agents/execution/agent.py:30`).
* The portfolio is read once per process (`composition.py:333`), so "re-validates after every HITL
  resume" (`ARCHITECTURE.md:270`) is against a copy. `CapHolds` is therefore stated of that copy.
* The trade commits before the checkpoint (`orchestration/nodes.py:646`; `ARCHITECTURE.md:243` "one
  ACID boundary"): after a crash in between, a cycle that has traded can be answered "hold" and be
  recorded as a hold. `FilledHasTrade` is the direction that does hold.
* A hold or an expiry leaves no approvals row (`nodes.py:408`; `ARCHITECTURE.md:285`).
* The `Trade` built before the interrupt is not the one executed; each run of the node draws a new
  uuid (`nodes.py:225`). The idempotency key, which is what counts, is stable.
* The judge runs after reporting has written the row, so its score and alignment are always NULL in it
  (`nodes.py:1005`; `ARCHITECTURE.md:265`).

*Desk.*

* The tokens of a tool loop that fails are never recorded, and `record_tokens` reads and writes the
  total without a lock (`domain/guardrails.py:60`). Web resumes use the bucket of the empty id too.
* JSON of the wrong shape is not an `LLMError`: `float(None)` in the research manager is a TypeError
  that nothing catches, and the judge's `int("x")` raises after a fill.
* The technical agent promises a derived signal when the model fails (`agents/technical/agent.py:9`);
  when the call fails before its tool ran there is nothing to derive from, and the result is
  "unavailable".

*Evaluation.*

* "Reproducible" (`docs/technical_overview.md:92`): a cassette is keyed by the text of the prompt
  (`llm_cassette.py:51`); prompts of the manager and the debaters without a date collide across days
  and the last recorded answer wins, so a replay need not repeat what was recorded
  (`docs/PROJECT_UNDERSTANDING.md:146` admits it). `ReplaysAgree` is the half that holds: two replays
  of one cassette agree, and only as far as neither runs short. The two analysts test the shared
  total, take the next response and add to the total in any order (`graph.py:91`, `guardrails.py:61`,
  `fakes.py:190`), and where one of them is refused, or finds the responses used up, need not be the same
  in two replays.
* "Long-only" (`docs/technical_overview.md:278`): the ledger in memory sells what is not held and buys
  without cash (`composition.py:449`).
* All cycles of a session share one budget, under the empty id. A cycle that dies after its fill
  leaves a blank record, and its trade is in no metric.

*Surfaces.*

* "The operator can still tap the button" after a restart (`docs/telegram_flow.md:89`): the pending
  map of the bot is gone (`bot/service.py:189`): "No matching run found".
* An expired run of the bot only says so in the chat: the graph is left paused and no row is
  written (`bot/service.py:261`; `README.md:172`).
* A tap dispatched between the end of the wait and the `finally` is acknowledged as applied, and is
  not (`bot/service.py:204-208`). A tap before `_pending` has the run is told "may have expired".
* A failed `get_state` unregisters a thread, although its message says "skipping"
  (`web/runtime.py:172`). `CardsStayListed` excludes those threads (`unread`).
* A tap after `expires_at` that arrives within the long poll is accepted (`ports/approval.py:39`);
  `OneWindowLate` bounds by how much. What the graph then makes of an expiry in threshold mode is the run
  `cycle_refusal_is_final`: `GateHolds` says who answers, not what the risk node does with it.
* End of file or Ctrl-C at the console is an override to hold, recorded as a human's; the button
  "edit" approves without an edit.
* A Slack card whose request fails ends the cycle in error, with nothing decided.

*News.*

* An error of the server during ingestion aborts the transaction; the later inserts only warn and the
  COMMIT rolls everything back silently, while the count of added articles says otherwise. A null in
  one item loses the whole ingestion.
* A chunk is unique by url alone, so an article that was fetched for one ticker is never seen by
  another that shares it.
* The evidence connection is never rolled back (`adapters/evidence_pgvector.py`): one failed SELECT
  makes every later search of the run fail, and its cycles refuse for want of evidence.

## 5. What is proved

The proofs hold for every value of the constants that meets the modules' named assumptions.

**LedgerProofs.** `TypeCorrect`, `CashIsNeverNegative`, `AuditLogMatchesTrades`, `NothingPartial`
(the action property AllOrNothing), and `LedgerImplementsPromise`: the ledger implements
`IdempotentFills` with any number of sessions. The invariants are not inductive alone: that no key
is filled twice needs that ids are drawn once (`issued` bounds every id in a row or a call), and the
balance needs that a call past its portfolio step carries a balance it has already found sufficient.
Both are parts of the module's `Inv`. `TypeCorrect` includes the lots: what a sale leaves of a reduced lot
is positive. `AuditLogMatchesTrades` is proved only: no run checks it.

`CashAlwaysReconciles`, `PositionsAlwaysReconcile` and `SalesCloseOlderLotsFirst` (SellsAreFifo) are proved
under `OneSession`, and for any number of calls, retries, crashes and lost acknowledgements. The hypothesis
is needed: with two sessions the run `ledger_two_sessions_cash` violates the first one. Their invariant is
`SerialInv`: what the session read is what the tables still hold when it writes over them (`ReadsAreFresh`;
this is exactly what the second session destroys), and lots are told apart by their stamps (`LotsApart`), so
that "older" orders them. What FIFO takes from the lots is summed over the lots of the symbol: `ConsumedSum`
says that the parts add up to the quantity sold.

**DecisionCycleProofs.** `HumanDecides` (HumanGate) and `ApprovalsAreTrue`, which say more of cycles in
"always" mode; `TradesOnce`, `FilledIsTraded`, `CapIsHard`, `LargeTradesAreSeen`, `RecordedOncePerLife`. They rest
on `Inv == Domains /\ \A c : CycleInv(c)`: a trade in the graph state, saved or in memory, is one that an
answer given so far asked for or, in threshold mode, one that needed none, with an id built for this cycle
(`Sound`, `IdsOK`), and rows belong to the trade of their cycle (`RowsOK`). It has to speak of the saved
checkpoint as well as of the running state, because a crash swaps one for the other.
`LargeTradesAreSeen` needs one fact more, `AutoOK`: a trade that goes to execution without a decision
carries a verdict "approved" on the portfolio as it is, which no step but a crash changes, and a crash
ends the call. `RecordedOncePerLife` rests on `LifeOK`: a cycle that this life has recorded is past its
reporting node, or over with a checkpoint that nobody can carry on.

`TypeCorrect` is the one that reads portfolios: sizes come from a net asset value, a sum over symbols, and
fills from cost bases, sums over lots; `TypeInv` adds to `TypeOK` that a trade in flight has a side.
`SizesRespectTheCap` ties the pm node to the risk node: a size computed on a portfolio passes the
per-trade cap of that portfolio by no more than the relative precision of a float, and not at all while
conviction times capped NAV is below `Mantissa`: there the cap rejects only what is checked against
another portfolio. It is stated in any unit of money in which price and NAV are whole numbers.

**BotServiceProofs.** `TypeCorrect`, `NothingIsLost` (NoUpdateLost), `NothingIsTakenTwice`
(NothingTwice) and `ImplementsGate`: BotService implements `ApprovalGate`, every step of the bot being
a step of the gate or a stutter. The invariant is `TypeOK /\ QueueOK /\ DecidingOK /\ \A r : RunOK(r)`.
`QueueOK` relates Telegram's queue, offset and batch: what lies below the offset or is confirmed was
dispatched, a batch is consecutive, and nothing at or above the offset was dispatched in this life.
`RunOK` relates a thread's place, its graph and its signal: a signal that is set is a decision that
was tapped, and a thread resumes only while its graph is paused.

**WebRuntimeProofs.** `TypeCorrect`, `ExecutorsKeepApart` (OneExecutor), `CardsAreKept` (CardsStayListed)
and `ImplementsGate`, for any number of requests and threads. `Inv == TypeOK /\ TodoOK /\ ShownOK /\
AnswerOK /\ HandlerOK`. `TodoOK` ties the head of a worker's list to the checkpoint "running" and keeps
shown threads out of every list: that is why an answer, which needs a shown thread, never meets a
worker. `ShownOK` says that a shown thread waits in the table or was answered. `HandlerOK`, with
`ScanOK`, says what a half-done scan may delete next: a thread that does not pause any more, or that
no dashboard has shown, or whose own `get_state` failed.

**DeskProofs.** `TypeCorrect`, `BudgetBounds` (OvershootBounded), `ModelFailuresDegrade` (ModelNeverKills),
and for `Driver = "cli"` `SpentDesksHold` (SpentDeskHolds) and `RunBudgetIsPerCycle` (BudgetIsPerCycle). Each cycle keeps `CycleInv`: only the nodes of
the stage call the model, or an analyst whose colleague raised, and a call uses at most `CallMax` per
round (`CallsOK`); while the analysts run, a total is no more than the shares of the finished ones, and
later a call that was let in found it within the budget while nobody else adds (`TotalOK`). `TotalOK`
carries the bound across the unlocked read and write of `record_tokens`. `SpentDesksHold` rests on a second predicate,
`Spent`: the total stands still, every call is refused, the manager's failure is no plan. It needs the
cycle to own its bucket; in the bucket the bot's cycles share, a lost update can bring the total back
below the budget, and the theorem is not claimed there. `RunBudgetIsPerCycle` is the converse of the bound: a
total never runs ahead of what the API has charged the cycle. `BilledOK` says so with the two analysts' calls
in flight: the total, together with what any two calls have used and not added yet, is within the bill, and
the same goes for the total that a call has read and is about to write back. Tokens can be lost between the
two, never invented; in the bot's shared bucket a cycle pays for the others, and the run of section 4 shows
it. `ModelFailuresDegrade` says which steps may end a cycle, node by node (`Deaths`): a node that asks the
model, over JSON of the wrong shape alone; the others over market data or a portfolio, pm only with a plan,
risk and execution only with a trade.

**LiveRunProofs.** `TypeCorrect`, `TapsAreKept` (NoTapForgotten), `FirstTapsDecide`
(FirstTapDecides), `NoLaterThanAWindow` (OneWindowLate) and `ImplementsGate`. `ProgressOK` says that the
tickers to come are untouched (`Fresh`), that an open question has no decision yet, and that nobody
answers what was not asked. `TapsOK` is the reason the first tap decides: an update that was confirmed,
or lies below the loop's offset, is not about the card being polled, so no earlier tap on it can have been
passed over. `CardsOK` is the other half, for `TapsAreKept`: a card that the operator has is decided, or is
the one whose loop runs, so whatever was passed over is history. `ClockOK` adds to the clock what is left of the fetch in flight. The refinement takes one lemma
per way a question can end.

**ReplayProofs.** `TypeCorrect`, `BookAlwaysFollowsTrades`, `OneRecordPerCycleAlways`, `FilledAlwaysTraded`
and `ReplaysAlwaysAgree`, for any days, prices, watchlists, scripts of sessions, canned responses and budgets.

* The book: `TradedCash` and `TradedShares` are folds over the session's trades; a fold is shown to be the
  last value of a sequence of partial results (`LeftFoldIs`), so that one more trade is one more step, and the
  in-memory `Buy` and `Sell` take the same step.
* The records: `ProgressInv` says where a session is by what it has written (`RecordedTo`): the n-th record
  is that of the n-th pair of a day with a bar and a symbol, in order, and there is one NAV per such day.
* Records and trades: `TradedInv` says that both are those of cycles that are over, and that the running
  cycle's trade is there exactly when its outcome says so, or the cycle is about to raise. It needs
  `WatchedOnce`: `run_eval` does not test its list, and a symbol named twice would trade twice a day under
  one pair of day and symbol.
* Replays agree: until it is short of budget or responses, an offline session is a function of the cassette,
  whatever the analysts' order. `After(c, x)` is the state that follows state x over cassette c, written
  without variables, the superstep of the analysts being one step of it. The steps of their calls leave
  that state alone and only have to find the replies it foresees (`CallsAgree`, `AnalystIs`); every other action
  is shown to be the function (`SuperstepIs`, `AskIs`, `DeskIs`, `EndCycleIs`, `DayIs`). A state is reached by a
  `Path` of such steps from the opening; there is one path (`OnePath`), along which records and NAVs only grow
  (`PathGrows`), so two sessions that stopped being sure at different cycles agree on those they share
  (`ReportsAgree`). `AgreeInv` carries that what each replay was sure of lies on the path over the cassette
  as it is now, whence the hypothesis `RecordedFirst`: a script that records again after a replay changes
  the cassette, and nobody expects that replay to agree with a later one. From the cycle in which a session is
  short (`short`, `sure`) nothing is claimed, and two replays may differ there.

**FiniteSums.** The library's induction theorems take an operator as a parameter, which the provers cannot
instantiate. `NumberInduction` and `SubsetInduction` state induction over a *set* of good cases instead, proved
from the well-foundedness of the numbers and of the subsets of a finite set, and can be cited for any predicate: a proof defines the
set, hides it, and cites the lemma. On them rest the lemmas on `MapThenSumSet`, `FoldFunction` and `FoldLeft`
(one element more, one less, reindexed, of a sum of functions, non-negative) that the three modules above use.

Every invariant, action property and refinement that a passing run checks is stated by one of these theorems.
Where the provers stop and TLC alone speaks is liveness: PausedIsSettled, RegistryDrains,
EveryCycleEnds, EveryTickerEnds need fairness and ENABLED, which the prover does not treat.

## 6. Assumptions and what is left out

* PostgreSQL, LangGraph and Telegram are modelled from how the code uses them: READ COMMITTED,
  unique constraints and rollback; checkpoints after each node, written in the background, and a
  resumed node run from its top; updates kept until confirmed by a higher offset.
* One portfolio; one live process in `DecisionCycle`, restarted after a crash; one bot process, since
  Telegram serves one consumer of `getUpdates`.
* An operator of the dashboard posts only threads that some dashboard has shown, and only buttons
  that are in the chat are tapped. `resume_approval` itself does not look whether the thread waits.
* In `Ledger` and `DecisionCycle` decimals are whole half cents, prices chosen so that commission and slippage
  are exact; quantities are whole.
* In `Replay` the fake model's index, tested, used and advanced by three reads, is read once: past the end
  the call raises either way, and a response looks like every other. A line appended to the cassette is one
  write, and so is the one of a call recorded beside it.
* Paused graphs that are resumed in `BotService` and `WebRuntime` take the answer; what follows is in
  `DecisionCycle`. For a thread that is not paused a resume starts no node that asks; the status field
  it overwrites in a finished checkpoint is read by nobody and left out.
* A bot and a `firm run` on one Telegram token would compete for the same updates; each is modelled alone.
* Not modelled: texts and formatting, logging and tracing, argument parsing, read-only web routes and
  queries, configuration, migrations, seeding: they read once, print, or create what the modules start
  from. Of the evaluation, the ratios that `eval/metrics.py` makes of the records are left out; of
  retrieval, the scores; of `strategy/`, the arithmetic on price series, whose result is an input.

## 7. Plan

Built, in this order: ledger, decision cycle, bot, dashboard (the path of the money and the surfaces
that decide); then the desk with its budget, the evaluation with its cassette and ledger in memory, and
`firm run` with its channels and its news. What is left:

1. Pure algorithms against reference definitions: calendar and "latest bar not after the decision"
   (`services/calendar.py`, `adapters/market_data_frozen.py`), the thresholds of `strategy/`, the ratios of
   `eval/metrics.py`, the scores of retrieval.
2. Two consumers of one Telegram token: `BotService` and `LiveRun` over one queue.
3. `DecisionCycle` driven by `Desk` for one cycle, in place of the choice of a plan.
