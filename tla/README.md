# POMA: a TLA+ model

POMA rebalances an Interactive Brokers (IBKR) account from cron. Every five
minutes or so a fresh process starts, reads a few files, talks to IBKR, writes
the files and ends. What has to survive is not a thread but a sequence of
processes, any of which may be killed between two statements, over a broker that
answers late, in part, or not at all. This directory models that part of the
program: how a plan is sized and priced, how an order is planned, marked, sent,
followed, replaced and closed, where the record of it is kept, how scheduled
commands share one session, how failures are announced, and how the login the
whole thing hangs on is kept alive without disturbing a trade.

Paths below are relative to the repository (`src/` in `PROJECT.json`).

## 1. Inventory

| Component | State | Operations | Correct when |
|---|---|---|---|
| Order lifecycle (`src/poma/order_lifecycle.py`) | a ledger row | classify a broker status; apply a result or a snapshot | a row is terminal only for an order that is over |
| Order ledger (`order_store.py`, `persistence.py`) | event log, open-order snapshot, cache | load, upsert | readers see one durable map; a returned upsert is not lost |
| Staged submission (`execution_manager.py`, `broker.py`) | rows, the batch in memory | replay, plan, reprice, fit to cash, mark, send, wait, record | an orderRef is sent at most once; buys are funded |
| Reconciliation and stale check (same files, `ibkr_order_history.py`) | rows, open and completed orders as read | follow, time out, cancel, replace, resume, block a new run | no live order is overlooked; a replacement never works beside its original |
| IBKR (outside) | orders, cash | accept, reject, fill, cancel, close | - |
| Session (`state.py`, `cli.py`, `engine.py`) | `rebalance_state.json` | begin, resume, mark, settle | one run id per day, a bounded number of attempts, pending sessions are closed |
| Locks (`runtime_lock.py`, `ops/cron/run_logged.sh`) | runtime lock, host lock | take, find busy, release | a skipped pass never counts as a good one |
| Incident gate (`recovery_readiness.py`, `ops/cron/alert_diagnostics.py`) | incident file | gate, audit, report | no scheduled order under an incident; it ends only when nothing is unresolved |
| Operator resolution (`ops/scripts/resolve_unresolved_order.py`) | one row | resolve | only the single UNKNOWN row with a broker identity |
| Quality and journal (`rebalance_quality.py`, `journal.py`) | planned-orders file | record, assess | a pending session can be assessed |
| Gateway watchdog (`ops/scripts/gateway_auth_watchdog.py`, `gateway_auth.py`) | policy file, both locks | probe, decide, save, restart, notify | restarts are limited, also across crashes; no command is disturbed; recovery is never locked out |
| Gateway Ops and deployment (`ops/scripts/run_gateway_ops_workflow.py`, `repair_ib_gateway_runtime.py`, `install_ibc_config_helper.py`, `deploy-gcp-vm.yml`) | service, IBC mode, `.env` mode, crontab, timer | repair, configure, restart, verify, arm | only a verified login of the deployed mode re-arms the schedule; success leaves the service and the watchdog up |
| Telegram outbox (`telegram_outbox.py`, `notifications.py`) | a directory of files, a drain lock | enqueue, drain | bounded; delivered again, or lost, only for stated reasons |
| Failure alerts (`ops/cron/alert_diagnostics.py`, `drain_notifications.py`) | incident file per command | report failure, report recovery | a standing incident keeps alerting |
| Planning (`engine.py`, `risk.py`, `execution_policy.py`, `portfolio*.py`, `strategies/`) | the account snapshot, the plan | size, filter, round, fit to cash, limit | no sell beyond the position; rounding keeps an affordable plan affordable |
| Pricing (`execution_pricing.py`, `_reprice_for_execution`) | quotes of the phase, the refreshed cash | quote, retry, refresh, trim, escalate | no order on an old quote; the approved size is kept, cut only as far as cash requires |
| Rank velocity, universe, market data, costs, configuration | inputs only | - | not modelled |

**How the parts interact.** `monitor` and `rebalance` take the runtime lock, pass
the incident gate, run a reconcile pass (`check_stale_orders`), build a plan,
journal it and call `submit_plan`. `reconcile-orders` runs the same pass alone,
then closes the session whose orders have ended; its exit status decides the
incident file, which the next `monitor` reads. All of them write the ledger
through `OrderStore.upsert`. Orders carry an orderRef built from run, ticker and
side; it is the only link between a ledger row and a broker order after a crash.
Application and host scripts put the Telegram messages they cannot deliver into one
directory, which the cron wrapper drains. The watchdog takes the same two locks as
the commands; Gateway Ops takes none, stops the watchdog and removes the crontab
instead; a deployment removes the crontab too and replaces `.env`.

**What is hard.** A kill between marking and sending, or between sending and
recording; a timeout that races the broker's answer; an open-order list that is
old when it is used; completed-order and execution queries that fail separately;
a replacement in several steps (reserve, cancel, place, record); a retry that must
know what was already sent; two files written by one upsert; two locks taken by
different parties; a status that waits for something that may never come; a limit
compared before an unlocked write; a decision saved before it is carried out; a
workflow of remote commands of which any may fail after taking effect; quotes that
age while others are retried; prices that disagree. The 40
entries of `hazards` in `PROJECT.json` name the line for each, with the
properties that would catch it.

## 2. Modules

| Module | Models | Note |
|---|---|---|
| `OrderLifecycle` | rows, statuses, `classify_lifecycle`, the row updates | operators only |
| `Broker` | IBKR as the code uses it | external |
| `ExecutionState` | ledger, process, kill, passing of time | the state shared by the next two |
| `Submission` | `submit_plan`, `submit_trades` | one action per step that reads or changes shared state |
| `Reconcile` | `reconcile`, timeout policy, replacement, `check_stale_orders` | likewise |
| `ExecutionManager` | the composition of the five above, properties, `ExecInv` | checked through `MCExecution` |
| `OrderRows` | what a ledger row goes through, as its callers may rely on it | abstract; refined by `ExecutionManager` and by `Session` |
| `Ledger` | the durable map `OrderStore` promises | abstract |
| `OrderStore` | log, snapshot, cache, the steps of `upsert`, kill, full disk, power failure | refines `Ledger` |
| `Session` | `monitor`, `rebalance`, `reconcile-orders`, the wrapper, the incident file | orders reduced to row classes |
| `TelegramOutbox` | the outbox directory, its senders and drains | one action per file operation or delivery |
| `AlertDiagnostics` | `run_logged.sh` after a command, `report`, the host's drain | composes with `TelegramOutbox`; properties |
| `GatewayWatchdog` | watchdog runs, the Gateway service, trading commands, the two locks | |
| `GatewayOps` | the Gateway Ops workflow, the deployment | composes with `GatewayWatchdog`; properties |
| `Pricing` | `execution_pricing.py`, `_fresh_replace_limit_price` | operators only |
| `Planning` | `build_plan`, `_reprice_for_execution`, `_fit_buys_to_refreshed_cash`, the escalation of a resting order | uses `Pricing`; properties |
| `ExecutionProofs`, `TrackingProofs` | proofs about `ExecutionManager` | the second extends the first |
| `OrderStoreProofs`, `SessionProofs`, `OutboxProofs`, `GatewayProofs`, `PlanningProofs` | proofs about the other five | |
| `SumTheorems` | sums over finite sets | used by `TrackingProofs` and `PlanningProofs` |
| `MCExecution`, `MCOrderStore`, `MCSession`, `MCNotify`, `MCGateway`, `MCPlanning` | instances for TLC | |

**Execution.** `orders` is the sequence of orders IBKR has received (an id is an
index); `ledger` maps each trade to its row; `proc` is the one process that holds
the runtime lock: its program counter `pc`, the trades still to do, what it read
(`opens`, `hist`, `execs`) and what it will record. A trade stands for a (run,
ticker, side) key. An atomic step is what happens between two points where the
broker, a kill or the ledger file can intervene; each upsert is one step, which is
what `Ledger` says and `OrderStore` is proved to implement. Time is an age class
per row: before `REPLACE_AFTER_SECONDS`, from there on, and from
`CANCEL_AFTER_SECONDS` on. Quotes, reachability and which orders a query reports are choices of the
environment; `LossyHistory` and `LossyFills` say whether completed orders, or
only their executions, may be missing. Orders have references `base` and `repl`:
the code appends `:r1`, and its guard `replace_count < 1` admits no second one.
Quantities are in trading increments, so that "trim by whole increments" and the 5%
limit (`TrimDivisor`) keep their arithmetic.

**Store.** The log is a sequence of events with a number of lines that are
synced, and a flag for a torn tail; the snapshot has a visible and a durable
content; `up` is the upsert in progress. A power failure keeps any prefix of the
log from `synced` on. The abstract `Ledger` has the map, the set of maps that may
survive a power failure, and the call in progress.

**Session.** `rows` reduces a ledger row to what the commands tell apart: absent,
planned, retry (failed before acceptance), working, unknown, final, and *lost*: an
UNKNOWN row whose order was never sent, after a kill before the send or a `placeOrder`
that raised. `proc` is the command under the runtime
lock, `wrap` the cron wrapper with the host lock and a result to report, `clock`
the exchange day and its window. A pass may leave a row in any state that
`Reconcile` shows it can; a submission in any that `Submission` can.

**Rows.** `OrderRows` is where the two meet: a map from keys to the row classes above
and the set of planned rows the attempt at work may still send. Planning, sending, the
end or kill of an attempt, and broker evidence are its four kinds of step.
`ExecutionManager` implements it under `AbstractRow`, which reads a row's class off the
ledger and the broker's orders, and `Sending`: a row that is marked but not sent, or
sent and still waited for, counts as in hand. `Session` implements it with its own
`rows`, and with what is left of the running attempt in hand.

**Outbox and alerts.** A message is a slot, reused when its file is gone; `rec`
holds what the file says, in ticks (life left, wait left, attempts); `fate` is what
Telegram knows, which POMA does not: not taken, taken, or taken while a fault kept
POMA from acting on it. Senders take no lock, so listing and writing are separate
steps; a drain holds `flock`. `Fault` is one bounded supply of lost answers, failing
file operations, kills and power failures. `host` is the wrapper's position after a
command has ended; `incident` the command's incident file, whose count matters only
up to 3. A sender's direct delivery never enters the directory, so it is no state.

**Gateway.** `svc`, `auth` and `young` are the service as systemd and the API show
it; `ibcMode` is what IBC's `config.ini` says, `gwMode` what the Gateway was last
started with, `envMode` what the deployed `.env` says: the three are written by
different parties. `policy` is the watchdog's file, `past` the restarts that really
were requested (the file is not trusted to state the property). `late` is a restart
whose `systemctl` client timed out, which systemd completes when it likes. `running`
holds the trading commands: `cron` with both locks, `direct` with the runtime lock
only. `ops` walks through one workflow run and keeps how the last one ended: well,
failed, or aborted (its first command or the one that resumes the watchdog failed, or
its runner died). A remote command may fail before or after it took effect. `wdFailed`
says that the last restart the watchdog asked for failed and none has succeeded since.
It is not a report: the code ignores the result of its notification and may be killed
before it, so no property speaks of one. A tick is a cooldown.

**Planning.** `input` is what the world answers (holdings in half shares, one broker
mark, closes, cash, the trend); `account` is what the run believes, which is the
fallback after a failed read. Prices are in $0.0001. A quote is an arbitrary
member of `Quotes` for each request, so that two requests for one ticker need not
agree. The rounding loop is stated by its effect: a round-up is taken back iff the
overshoot exceeds the savings of those before it. Sizing is in whole shares (the
default rule). Phases, retries and the refresh follow `_reprice_for_execution`. Before
the buys leave, `funds` is read: the run's cash and what the sells have brought, each
having filled in part, whole or not at all. `_trim_buys_to_cash` is stated by its effect
too: it starts at the largest buy, whose cut in whole shares either covers the whole
shortfall or would leave less than a share, which blocks every buy; so its loop never
gets to a second one. `Submission` has the same step on increments and claims;
here it meets the quotes and limits that make the shortfall. What happens to an order
once it is sent is `Submission`'s business.

## 3. Runs

The runs of the execution, store and session models check deadlock: no reachable
state is stuck. `notify`, `gateway` and `planning` do not: bounded faults and
workflow runs may be used up with nothing left to do, and a planning run ends.

| Run | Instance | Shows |
|---|---|---|
| `exec_retry` | two buys of one increment in one batch (symmetric), 2 attempts, 1 kill, cancels of unaccepted orders, lossy history | `BaseOrderPlacedOnce`, `ResubmittableMeansUnsent`, `LiveOrderIsTracked`, `TerminalRowIsTrue`, `ExecInv` |
| `exec_replace` | one buy of 2 increments, 2 attempts, 1 kill, auto-replace | `OneLiveOrder`, `ReplacesOnlyUnfilledCancelled`, `TerminalRowIsFinal`, `LiveOrderIsTracked`, `TypeOK` |
| `exec_runs` | two runs with a buy each, 2 attempts, policy `cancel`, lossy history and fills, 1 kill | `NoOrderOverUnresolvedRun`, `LiveOrderIsTracked` |
| `exec_cash` | a sell and a buy of 2 at price 10, cash 8, 9 or 10, 2 attempts, 1 kill | `BuysAreFunded` for a single buy, `RowsAreFollowed` over the two phases |
| `exec_resolve` | one buy of 2, auto-replace, lossy fills, 1 kill, fairness | `SentOrderIsResolved` |
| `order_store` | 2 keys, an open and a terminal row, 3 log lines | `StoreInv`, `CacheIsCurrent`, `ImplementsLedger` |
| `session` | 1 trade, 2 runs, 2 days, budget 2, 2 kills | `SessionInv`, `NoOrderDuringIncident`, `IncidentEndsResolved`, `SessionIsStable`, `SessionFollowsRows` |
| `session_settle` | 2 trades, 1 run, 1 day, 1 kill, fairness | `PendingIsSettled` |
| `notify` | 3 slots, limit 1, batch 1, 2 attempts, life 3 ticks, 2 senders, 2 drains, 2 failure categories, 1 fault, fairness | `QueueIsBounded`, `DuplicatesAreExcused`, `NoSilentLoss`, `IncidentKeepsAlerting`, `TypeOK` |
| `gateway` | threshold 2, cooldown 1, window 3, 2 restarts per window, 1 fault, 1 workflow run with 1 forced login, 1 deployment, fairness | `RestartsRateLimited`, `WatchdogExcludesCommands`, `ArmedOnVerifiedLogin`, `NothingLeftDown`, `LoginIsRetried`, `TypeOK` |
| `planning` | 3 tickers (core, safe, a leftover), all 3 price bases, 3 quote attempts, 8 quotes (tight, risen, wide, too wide, one-sided, crossed, unusable, unknown), every partial fill of the sells before the buys | `SellsStayWithinHoldings`, `RoundingFitsCash`, `OrdersGoOutFresh`, `ApprovedSizeIsKept`, `TypeOK` |
| `exec_overtrade` | a violation | see section 6 |

**Why the bounds are enough to be interesting.** Two attempts make a retry after
every kind of first attempt; one kill can fall on any step of either. Two
increments are the least quantity with a partial fill. A sell and a buy are the
least plan with two phases (`exec_cash`), and two trades of one side the least
batch of which one order is sent and the other is not (`exec_retry`). A
replacement needs one reservation and its resumption in a later pass;
`MaxReplacements` 2 leaves room for the second placement that `exec_overtrade`
finds; a row is granted one replacement only (`replace_count < 1`). Cash
8, 9, 10 at price 10 lies on both sides of the trim limit and needs the sell's
proceeds or not. Two days and two runs let a session end, a day pass, and a manual
run take the id in between; two kills exceed a budget of two. Three log lines give
each key an overwritten event and the other a kept one. An outbox limit of 1 with two
senders is the least in which two pass the comparison together, and a batch of 1
leaves a due message for the next drain; 3 slots let a message arrive while two are
queued. A window of three cooldowns with a budget of two makes both limits bind, at
different times; one workflow run and one deployment are enough to overlap each other
and the watchdog; one fault can fall on any step, and later runs meet its
consequences. Three quote attempts are the least with an accepted quote that grows
old before the last attempt, and holdings of half shares with a mark unlike the
closes make sizes disagree; the cash balances are such that the buys fit, are short by less
than 5%, which costs a share (with one buy and with two), or by more. The mutants in
`PROJECT.json` (at least one per property and run) are each found under the same bounds.

**Fairness.** `FairSpec` (execution): the process runs on; cron starts passes
again and again (`WF`); a pass that is repeated for ever is not refused by IBKR
every time (`SF` on the two queries); IBKR ends every order, since orders are DAY
orders (`WF` on the broker's ending steps); time passes. `FairSessionSpec`: a
command runs to its end and the wrapper reports and releases; `reconcile-orders`
has cron slots of its own, so it is not kept out for ever (`SF`); outages end
(`SF`); a pass sooner or later sees an ended order as ended, and sooner or later
reads the account (`SF`). Kills are bounded, so they cannot go on for ever.
`monitor` and manual commands have no fairness: nothing makes an operator act.
`FairSpec` (alerts): cron runs the command again and again and a started script runs
on; a quiet moment, in which time passes, comes again and again, because a send or a drain has
timeouts of seconds and the application does not alert without pause. Telegram need
never answer. `FairSpec` (gateway): the timer fires every two minutes and some
firing finds both locks free (`SF`, commands being short and minutes apart), a
started watchdog run, command or workflow run goes on, time passes. Login, repair
and deployment have no fairness.

## 4. Proofs

The theorems hold for every set of trades, quantities, settings, keys, runs,
days, kills and attempts allowed by the named assumptions
(`MaxQtyAssumption`, `BrokerAssumption`, `ExecutionAssumption`, `StoreAssumption`,
`SessionAssumption`, `OutboxAssumption`, `AlertAssumption`, `WatchdogAssumption`,
`OpsAssumption`, `PricingAssumption`, `PlanningAssumption`), which give the constants
their types and the order the configuration demands (a cooldown no longer than its
window, a spread limit no larger than the wide one, allocations of at most 100%), and
that a portfolio has finitely many trades.

* **Execution** (`ExecutionProofs`). `OrderPlacedOnce` and `ResubmittableIsUnsent`
  follow from `ExecInvariant`. "No orderRef is sent twice" is not inductive: a
  process that already holds a trade in its batch would send it whatever the row
  says. `ExecInv` adds that whatever the process may still send was never sent
  (`UnsentInv`), that a batch holds only fresh trades of the current side (`PhaseInv`), that all rows of
  a batch are marked before its first order leaves, so that a kill leaves no
  retryable row behind (`MarkedInv`), that a result that says "not sent" is
  true (`ResultInv`), and that the order ids it holds name orders the broker
  knows (`CursorInv`). `TypeCorrect` is the type invariant.
* **Submission** (`ExecutionProofs`). Two more layers over `ExecInv`, which the
  theorems about live orders also need. `IdentityInv`, which order a row stands
  for: a trade with any order has one under its ledger key (`FamilyInv`), a row
  that names or reserves a replacement has used its one grant (`RowInv`), and a
  replacement is under way only for a row that reserved it (`ReserveInv`). `SubmitInv`,
  what `submit_plan` knows: a row is open from its mark until its order is sent
  (`MarkInv`), a result in memory never claims more than the broker executed, nor an
  end that has not come (`SentInv`), and every open row is of the session's own run
  (`RunInv`). `StaleRunsBlock` is the last one read at the moment of sending: the check
  is made once, before planning, and nothing between it and the send opens a row of
  another run.
* **Tracking** (`TrackingProofs`). `LiveOrdersAreTracked` and `AtMostOneLiveOrder`
  are proved together, as `TrackInv`, because each needs the other: a replacement is
  alone only because the row that led to it named the only live order, and it is
  tracked only because it took the row of an original that is no longer live. The
  strengthening is about the open-order list, which is old when it is used: it may
  have orders that ended since, but it misses none that is still live (`SnapInv`), and
  during a replace nothing but the original is live before, and nothing but the
  replacement after (`ReplaceInv`). A pass works on open rows only (`OpenInv`), from
  which `TerminalRowsAreFinal` follows. `ReplacesOnlyUnfilled` assumes `~LossyFills`
  and `TerminalRowsAreTrue` also `~AutoReplace`: without either hypothesis TLC has a
  counterexample (section 6, items 1 and 4). They need that a history
  that was read came with its executions (`HistInv`), and that the row of a trade
  without orders claims no fill, a terminal row exactly its order's (`TrueRow`).
* **Funding** (`TrackingProofs`, sixth layer). `BuysFunded` proves `BuysAreFunded` under
  `NoRivalClaims`: nothing is replaced, and a run has a single attempt or a single buy.
  The hypothesis is what the code needs: `_fit_buys_to_refreshed_cash` compares the batch
  with the cash alone, so a working buy that another phase or a replacement put there is
  not counted (section 6, item 2). The sum over working buys is not inductive, since
  orders go out one by one after one comparison. `Funded` therefore adds the part of the
  batch that is fitted and not yet sent: sending moves a trade from one sum to the other,
  a fill takes as much from the claims as from the cash, and a sell only adds cash. At
  the comparison no buy may be at work (`NoRivalAtFit`): with one buy per run because
  a live order of that trade would have an open row and not be in the batch, and a live
  order of another run would have blocked this one; with one attempt because until the
  buy phase sends, every order of the run is a sell (`FirstInv`). `FitInv` says that only
  a fitted batch has quantities other than the planned ones, `PlainInv` that there are no
  replacements.
* **Rows** (`TrackingProofs`, seventh layer). `LedgerImplementsRows`: every step of
  submission, replay, reconciliation, replacement and kill is a step of `OrderRows` or a
  stutter. `RowsInvariant` adds to the layers above what the mapping needs: an open row
  has nothing a retry acts on unless it is as planned (`OpenRowInv`); the rows of a batch
  stay planned until they are marked (`HandInv`); and a row that a callback closed
  while its phase was still being sent agrees with the result in memory that
  will be recorded over it (`AnswerInv`), without which recording could open a final
  row again or call it unsent.
* **Store** (`OrderStoreProofs`). `StoreInvariant` (what upsert holds in memory is
  what the files will say, and the snapshot is replaced only over a durable log:
  `UpsertInv`; the cache is the dictionary of the lines it was read from:
  `CacheInv`; old and new snapshot agree on rows the durable log does not have:
  `SnapshotsAgree`),
  `CacheCorrect`, and `StoreImplementsLedger`: every step of the store is a step of
  `Ledger` or a stutter under the mapping `Visible`, `Survivors`, `CallStatus`.
* **Session** (`SessionProofs`). `SessionInvariant`: the retry budget counts kills
  (`RetriesBounded`), a pending session has a whole planned-orders file
  (`PendingIsAssessable`), and session file, locks and running command agree
  (`AttemptInv`). The last is what makes the first two inductive: only the attempt
  that holds the host lock marks its session, and a manual run never has the
  session's run id, so its journal cannot tear the session's.
  `SessionStable` and `IncidentHoldsTrading` follow with one more step each: how a
  step may change the session file, and that a report cannot be made while an
  attempt holds the host lock. `IncidentEndsSettled` needs what a pass knows while it
  runs (`PassInv`: a row still planned is one it still has to follow) and what holds
  between its success and the report (`AuditInv`): no row is unsettled, and the
  incident itself keeps every command from getting past the gate to write another.
  `SessionImplementsRows` is the refinement of `OrderRows` by the commands; it needs that
  an attempt's rows in hand are planned and a pass's are open (its `HandInv`). With
  `LedgerImplementsRows` it says that `Session` and `ExecutionManager`, written apart from
  each other, agree on what can become of a row.
* **Outbox** (`OutboxProofs`). `OutboxIsBounded`: the bound is not inductive, since
  a sender that has passed the comparison will write whatever the directory holds by
  then. The strengthening `Room` counts the files together with the senders admitted
  but not yet done writing (`Admitted`): each of them saw fewer than `MAX_MESSAGES`
  files, and at most all of them were admitted at once.
  `DeliveryIsOnceWithoutFaults` needs `OneDrain` (a drain at work holds the file lock)
  and `TakenIsHeld` (a message whose fate is "yes" is in the hands of a drain that is
  about to unlink it). `NothingSilentlyLost` adds `DeliveredIsTaken`: what a drain is
  about to unlink after a delivery, Telegram has taken, since no sender is given the
  slot of a message in a drain's hands. `AlertTypes` is the type invariant of the
  composition with the alerts.
* **Gateway** (`GatewayProofs`). `WatchdogRateLimit`: the inductive `RateInv` says
  that the policy file contains every request inside the window that was really made,
  and that a run about to act was granted its restart against that file and is in it
  already. The first is what "save before restart" buys; the workflow, the
  deployment and kills leave both files alone. `CommandsUndisturbed`,
  `ScheduleArmedOnLogin` and `SuccessLeavesUp` follow from `OpsInv`: during a workflow
  run the watchdog is off and none of its runs is under way (`Alone`); from the rewritten
  `config.ini` to the arming, the mode the run is for is the mode of the file, then of
  the running Gateway, then of the verified login, and no delayed restart is left that
  could end it (`Mode`); and only a run that saw the service up ends well, and only a run
  whose resume command succeeded ends well or failed (`Outcome`).
  `GatewayTypeInvariant`: the types are not inductive alone, since a workflow writes its
  action into IBC's file; `WorkflowInv` adds that only a `configure-<mode>` run gets there.
* **Planning** (`PlanningProofs`). `OrdersAreFresh`: by `FreshInv` no priced order is
  newer than the current attempt and none is wide before the second; the refresh prices
  again whatever an earlier attempt left. `PlanningTypes`, `SellsFitHoldings` and
  `ApprovedSizes` follow from `PlanningInv`: every trade of the plan fits the position it
  was sized on (`PlanInv`); the snapshot it was sized on is the account's own, or the plan
  is blocked before anything is priced (`SnapshotInv`, `GateInv`); and every order, priced
  or sent, is within what was approved (`OrderInv`), which the refresh would not keep if it
  started from the repriced size. `ApprovedSizes` adds `FitInv`: until the fit only sells
  have gone out, afterwards the buys sent are those priced, all whole or one cut (`PhaseInv`),
  and `TrimmedToCash` itself. The latter rests on the sum before and after the cut differing
  by exactly the shares cut at the limit (`TrimmedCost`), which a cut rounded up
  brings under the cash and a cut of one share less does not. The escalation
  changes a limit, not a size, so it is stated at the limits first sent. `RoundingKeepsCash` is about sums over any set of
  trades: demoting a set of buys lowers the net cash by exactly the sum of their savings
  (`NetOfDemoted`), all round-ups demoted is the rounded-down plan, and if one is kept, then
  before the first that is kept all were demoted and that was enough (`FirstKept`).

* **Sums** (`SumTheorems`). The sums of planning and funding are the fold
  `SumFunctionOnSet`, a recursive function. The library's induction
  theorems take an operator and cannot be instantiated here, but the well-foundedness of
  the numbers is a statement about sets (`WFMin`): a set of counterexamples has one of
  least cardinality, and that one is refuted (`LeastNumber`, `SmallestMember`). From it
  come the existence and the recursion equation of the sum (`SumExists`,
  `SumRecursion`) and the laws used above (`SumRemove`, `SumAdd`, `SumSplit`,
  `SumNatural`, `SumSame`, `SumZero`, `SumShrinks`).

**Only model-checked.** The four liveness properties (`SentOrderIsResolved`,
`PendingIsSettled`, `IncidentKeepsAlerting`, `LoginIsRetried`): fairness and ENABLED are out
of the prover's reach. Every safety property of a passing run is also a theorem,
`BuysAreFunded`, `TerminalRowIsTrue` and `ReplacesOnlyUnfilledCancelled` under the
hypotheses named above.

## 5. Reading the properties

`TerminalRowIsTrue` and `TerminalRowIsFinal` are the two directions of "UNKNOWN
rather than wrong": a row is closed only on evidence, and then stays closed.
`SentOrderIsResolved` is the price: evidence does come. `PendingIsSettled` excepts a
*lost* row on purpose: a crash between `_record_planned` and the marking leaves a
PLANNED row that the next pass calls UNKNOWN, no broker evidence can ever exist
for it, and the operator script asks for a permId it cannot have.
`RowsAreFollowed` and `SessionFollowsRows` put the same into one contract: a row
becomes one that a retry may act on only through a failure before acceptance, reported
while the attempt still has the row in hand, and a row without an order is never final
by evidence.
`RetriesBounded` says what holds instead of "12 attempts" (ADR 0005): one more per
kill, because a session found *running* is resumed whatever its count.

`QueueIsBounded` likewise says what holds instead of "64": as many more as senders
that can race. `DuplicatesAreExcused` and `NoSilentLoss` are the two sides of
at-least-once delivery, with the faults that excuse an exception named one by one.
`RestartsRateLimited` is about `past`, not about the file that is meant to record
it. `LoginIsRetried` is its counterpart: a limiter that is safe because it never
lets go would satisfy the first. `ArmedOnVerifiedLogin` is where deployment, workflow
and watchdog meet: `.env` may change between the verification and the arming, which
is why the arming command reads it itself. `NothingLeftDown` says of every run that got
past its first command and could resume the watchdog, failed ones included, that the
timer runs; of runs that report success also that the Gateway is up, or a restart of
the watchdog's own failed since. An aborted run is excepted (section 6), and a Gateway
that a failed run leaves stopped is skipped by the watchdog until someone acts on it.
`ApprovedSizeIsKept` is about what reaches the broker: "within half a share of the
approved notional" holds of the priced buy; the one sent may be smaller, by the shares
the cash did not cover and no more.

## 6. Disagreements between the code and its own words

1. `exec_overtrade` (a run, a finding in `PROJECT.json`): a replacement placed but not
   recorded that fills before the next pass is placed again, because the cancelled
   original is matched first and `submit_replacement` looks at open orders only. The
   docstring of `_resume_replacement` says it is safe against duplicates. The same
   configuration violates `TerminalRowIsTrue`: the row knows of one of the two.

The following are found by changing one line of a configuration:

2. A second attempt offers its buys cash that a still-working buy of the first attempt
   has claimed; ADR 0005 (line 43) promises buys the broker can fund. `exec_retry.cfg`
   with `StartCash = {1}` violates `BuysAreFunded`; two attempts and two buys of a run are
   what `NoRivalClaims` excludes.
3. A working, reserved, unrecorded replacement makes `_restore_untracked_broker_orders`
   raise (`execution_manager.py:645`), so the pass stops instead of adopting it as the
   docstring of `reconcile` says. `exec_overtrade.cfg` violates
   `InterruptedReplaceIsFound`.
4. Without executions a partly filled, cancelled order is reported with no fill
   (`ibkr_order_history.py:86`), and the replacement is for the full quantity, against
   the comment at `broker.py:1308`. `exec_replace.cfg` with `LossyFills = TRUE` violates
   `ReplacesOnlyUnfilledCancelled`, and, also with `AutoReplace = FALSE`,
   `TerminalRowIsTrue`.

The passing runs about replacement therefore bound the replacement path to what
does hold (`exec_replace` has no lossy fills; `NeverOverTraded` is checked only where it
is violated).

Smaller ones, written into the properties as exceptions or noted only:

* `telegram_outbox.py:99` treats a read that fails with an `OSError` like a corrupt
  record and unlinks a valid message, next to the comment "never delete a valid unsent
  message" (line 130). `NoSilentLoss` excepts it.
* A Gateway Ops run whose first command (stop the watchdog) takes effect but reports a
  failure returns before the `try` whose `finally` starts the timer again
  (`run_gateway_ops_workflow.py:484`): the run is red and the watchdog stays off until
  the next run or reboot. `docs/ibkr-gateway-operations.md` (lines 171-173) says that
  Gateway Ops "resumes the timer afterwards, including failures"; `NothingLeftDown`
  excepts exactly the aborted runs.
* The same page (line 168) says that Telegram notifications report a failed restart. The
  watchdog ignores the result of `gateway-watchdog-notify`, and a kill between the restart
  and the call sends nothing (`gateway_auth_watchdog.py:212-220`).
* A failed repair leaves `ibgateway` stopped; the watchdog skips a stopped service.
* `configure-*` that fails after `poma-configure-ibc` leaves a new mode in `config.ini`
  for whoever restarts the Gateway next, the watchdog included. The watchdog then reports
  `configuration_error` and does not restart again.
* "leaving its schedule unchanged" is printed although the crontab was removed at the
  start of the same run.
* A watchdog restart that outlives its 45-second client can complete while a command
  runs: the locks are released with the watchdog (`WatchdogExcludesCommands` ends there).
* `clear-rebalance-state` removes the session file without any lock.

## 7. Not modelled

* An fsync that fails with an I/O error; a torn log line of which only the newline
  is missing (both noted as hazards); the fsync of a directory entry.
* Rediscovering orders after a lost ledger (`_restore_untracked_broker_orders`
  beyond its conflict checks); `dry_run`; an older run resumed by hand between two
  scheduled ones.
* Accounts whose equity exceeds the managed cap (`rebalance_quality.py:93-99`).
  `PendingIsSettled` does not hold for them: their quality is always "unknown", for which
  `reconcile-orders` leaves the session pending (`cli.py:711-714`).
* Submission: a `placeOrder` that raises before IBKR has the order, which leaves the row
  uncertain like one whose answer is lost; status callbacks during the wait for a cancel,
  of which only the last is recorded here. The acceptance timeout looks at the
  order and cancels it in one step; the code's cancel may also reach an order accepted in
  between, which the broker's race with a cancel covers. The executions of a history
  are read all or not at all.
* `reconcile-orders` started by hand without the host lock; a malformed incident
  file; a wrapper killed while its container runs on.
* Alerts and outbox: message texts, the HTTP call, a queue of other files in the
  directory, more than the two senders and two drains the host has (`AlertAssumption`). A
  send that finds all slots taken counts as delivered at once: a bound of the instance.
  Gateway: clock jumps (all limits use the wall clock), `clear-rebalance-state`
  and the read-only actions of Gateway Ops, two workflow runs at once (one concurrency
  group), a reboot during a workflow run or a deployment, installation details, whether a
  notification arrives.
* Planning: the rank-velocity strategy and its universe, fractional shares, the snapshot
  price source, `dry_run`, the GrossPositionValue override of positions, binary rounding
  ties (none occur at the run's prices), `MAX_POSITION_PCT` (funds are exempt). Between
  planning and the fit, cash moves only by the run's own sells, which fill at their limits.
  Orders of a phase go out in one step: the wait for an acceptance between two of them
  ages the later one's quote, which `OrdersGoOutFresh` does not measure.
* Market data over HTTP, cost estimates, configuration parsing, diagnostics and
  read-only inspection scripts: numerical or pure input and output.

## 8. Plan

Done, in this order: `OrderLifecycle`, `Broker`, `ExecutionState`, `Submission`,
`Reconcile`, `ExecutionManager`; `Ledger` and `OrderStore`; `Session`; `TelegramOutbox`
and `AlertDiagnostics`; `GatewayWatchdog` and `GatewayOps`; `Pricing` and `Planning`; the
proofs of the six, of every safety property the runs check; `OrderRows` and its two
refinements. Left:

1. Ledger loss: restoring untracked broker orders in `Reconcile`.
2. The weighing of executions (`_execution_proven_fills`) and the drift verdict against a
   reference.
