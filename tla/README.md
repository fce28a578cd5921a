# A verification development of the Agentic Forex Desk

TLA+ specifications of the backend: the path from a schedule to an order, the
owner's switches, sizes and capital, the risk-reducing actions and the accounts
they are routed to, the authorization server and the candle history. With them
come TLC configurations that check them on small instances and TLAPS proofs of
what matters most for every value of the constants.

Paths below are relative to the root of the repository's sources (`app/...`,
`docs/...`); line numbers refer to the commit these modules were written from.

## 1. The system

The backend (`app/`) is a FastAPI and MCP server with SQLite storage. It
connects the users' TradeLocker accounts, offers research tools to ChatGPT, and
runs *autonomous demo profiles*: a schedule triggers a run, a decision provider
proposes a trade, and a chain of deterministic checks turns it into one
protected order. Several processes share the database: API workers, the MCP
server inside them, and the scheduler worker. Every `await` and every SQLite
transaction is a place where they interleave.

### Inventory

| Component | State it keeps | Operations | Hard behaviour | What makes it correct |
|---|---|---|---|---|
| Order submission (`services/autonomous/execution.py`, `storage/execution.py`) | previews, snapshots, `broker_submissions`, `autonomous_runs` | `review`, `submit`, `_poll_reconciliation`, emergency close, `execution_result` | two calls with one preview; lost requests and answers; a crash between the claim, the POST and the four records | one order per preview; a rejection is true; an answer is final; nothing is verified without an order |
| Decision runner (`services/autonomous/runner.py`) | `autonomous_decision_runs` | `run`, resume, safe retry, `_finish` | two calls drive one row; a reset rests on a row read earlier; a crash at any phase | a run is submitted once; sent work is not retried; every run ends |
| Scheduler (`jobs/autonomous_scheduler.py`, `storage/schedules.py`) | `autonomous_schedules`, `autonomous_schedule_dispatches` | `save`, pause, resume, delete, `claim_due`, `mark_running`, `finish_dispatch`, safe retry | leases that run out under a live worker; stale saves; restarts; bounded batches and retries | no occurrence is lost or run twice after it ended; every dispatch ends |
| Autonomous controls (`services/autonomous/control.py`, `storage/execution.py`) | kill switch, demo and live toggles, audit log | `start`, `stop`, `emergency_stop`, the tools and routes that write the switches | `start` clears the kill switch and runs at once while an emergency stop arrives; a run reads the switches at seven points with awaits between | after a stop no order leaves but from a call past its last look |
| Risk-reducing actions (`submit_action`) | `demo_action_previews`, `demo_action_executions` | close, cancel | an unknown broker answer, a repeated key, credentials replaced under way | sent once, to the route it was reviewed on; "verified" is true |
| Connections and accounts (`storage/brokers.py`, `tradelocker/accounts.py`, `routes/platform.py`) | connections, accounts, the default | save, discover, onboarding status, select, disable | what a route learned before an await is written over what others wrote meanwhile | one default; a discovery takes nothing back |
| Profiles and capital (`storage/brokers.py`, `execution_profile_v2.py`, `trading_policy.py`) | profiles with an allocation | create, PATCH, PUT, delete, capital check | the check of a patch knows no equity, the check of an entry only the last one | saved percentages never stop an entry |
| Sizing and limits (`execution.py`, `trading_policy.py`) | what a snapshot, preview and submission carry along | size, risk, margin, budget | rounding; each value is from another moment; the owner edits meanwhile | an order that is sent loses within the rate |
| OAuth storage (`storage/oauth.py`, `routes/oauth.py`, `mcp/auth.py`) | transactions, codes, refresh families, nonces | bind, complete, exchange, rotate, revoke | reuse of a rotated token, double exchange, an await between check and code | one token per family to refresh with; scopes never grow |
| TradeLocker client (`brokers/tradelocker/client.py`) | tokens | `place_order`, `login`, reads, `close_position`, `get_candles` | a 401 is answered by a login and a second send; timeouts | a second send never makes a second order |
| Request limiter (`tradelocker/rate_limiter.py`) | a lease and a cooldown per connection | `acquire`, `release`, `set_cooldown` | a lease that runs out under a slow request; 429 answers out of order | one call within its lease; no attempt in a cooldown; every page ends |
| Candle history (`client.py`, `market_data/history.py`, `candle_cache.py`) | a row per account, instrument, timeframe | paginate, validate, merge, cache, fall back | a bar ends between request, pages and answer; a page fails after others | only finished bars are cached; "complete" misses nothing its reason does not tell |
| Series and config caches, librarian | maps with a time to live | get, put | repeated fills | - |
| MCP tools, HTTP routes, providers, models, frontend, widget | none of their own | adapters | - | - |

How they interact: the scheduler worker calls the runner with the run key of
the dispatch; the runner claims a decision run, asks the decision provider,
calls `review` and `submit`, and writes the ending; `submit` claims the
submission and talks to the broker. MCP tools and the dashboard call the same
runner and the same `submit` directly, flip the controls and edit schedules,
profiles and accounts. All of them meet in the database, through `UNIQUE`
constraints, conditional `UPDATE`s and leases; there is no in-memory lock on
this path.

## 2. Modules

| Module | What it models | Proofs |
|---|---|---|
| `OrderCommand` | the abstract promise of a command: claimed once, at most one effect, a truthful and final answer | |
| `OrderSubmission` | `review`, `submit`, reconciliation, emergency close and `execution_result`, with the broker and the network as adversaries; implements `OrderCommand` | `OrderSubmissionProofs` |
| `DecisionRuns` | the runner: one profile, its runs by run key, any number of calls | `DecisionRunsProofs` |
| `AutonomousControls` | the switches over `DecisionRuns`: every handler that writes them and every point that reads them | `AutonomousControlsProofs` |
| `DispatchSchedule` | one schedule, its occurrences, the lives of the worker, the owner | `DispatchScheduleProofs` |
| `BrokerAccounts` | connections, accounts, the default, and the routes that change them | |
| `RiskActions` | review and submission of a close or cancel over `BrokerAccounts`; implements `OrderCommand` | `RiskActionsProofs` |
| `ProfileCapital` | the profiles of an account and what of its equity each may use | |
| `EntrySizing` | snapshot, size, checks and open risk of entries over `ProfileCapital` | `EntrySizingProofs` |
| `TokenGrants` | the abstract promise of a grant: opened once, renewed with the same scopes or fewer, ended for good | |
| `OAuthTokens` | the authorization server; implements `TokenGrants` | `OAuthTokensProofs` |
| `RequestLimiter` | one page of history behind the shared lease and cooldown | |
| `CandleHistory` | `get_candles`, its pages over `RequestLimiter`, and the durable cache | `CandleHistoryProofs` |

`MC<module>` holds the instances of a module for TLC. Composition: by `EXTENDS`,
where the outer module's actions leave the inner state alone or take its steps
(`AutonomousControls` over `DecisionRuns`, `RiskActions` over `BrokerAccounts`,
`EntrySizing` over `ProfileCapital`, `CandleHistory` over `RequestLimiter`); by
`INSTANCE ... WITH` for the abstract specifications.

Definitions named `Slip...` are plausible mistakes in the definition that
follows them. They are not part of any specification; each shows that a
property notices the mistake when the definition is replaced by it.

### 2.1 OrderSubmission

State: `kill`, `demo` are the two controls `get_autonomous_controls` returns;
`preview`, `previewLive`, `snapshotLive` the documents and their expiry; `sub`,
`subKey`, `subOrder`, `subLinked` the columns of `broker_submissions`; `run` the
`result_status` of `autonomous_runs`; `wire` and `reply` the requests under way
and the broker's answers; `owner`, `book`, `protected`, `echoed` the broker's
books; the rest are the locals of the calls, `pc` naming the next transaction
or await.

Each action is the code between two awaits or transactions. `ClaimWins` is the
`INSERT` that `UNIQUE(preview_id)` and `UNIQUE(idempotency_key)` decide;
`CheckAccount` to `FinalCheck` are the checks of `submit` in the order it reads
the account, the entries, the positions and the orders; `CheckFails` stands for
any other check of that stretch (prices, providers, loss limits, validation),
whose only effect on the state is the rejection. `Post`, `Unauthorized`,
`LoggedIn` are `place_order` with its one re-login. The broker may accept a
request whose caller is gone, decline it, answer with a 4xx (`refused`), a 5xx
(`fault`), a 401 or nothing, fill or end an order at any time, drop the
`strategyId` (`Echoes`) and book an order without its stops (`Protections`).
Reads return any subset of what is booked: rows lag. `Matches` is the order of
preference of `_reconcile`: the order number, then the strategy id, then the
terms. `StoreOutcome`, `MarkPreview`, `RecordRun`, `LinkRun` are the four
transactions that record the answer, and `Die` may fall between any two of them.

A "setup" stands for pair, side, type, lots and prices; two previews may share
one. Assumptions about the broker, taken from how `client.py` uses it: a 4xx
answer means no order was booked, one request makes at most one order, an
order's terms do not change.

### 2.2 DecisionRuns

State: a row per run key (`state`, `safe`: its reason code is in
`SAFE_PRE_SUBMIT_RETRY_REASONS`, `rowPreview`, `rowExecution`), the previews
made and who submitted them, and the calls. `Claim`, `ClaimFails` and `Found`
are `claim_decision_run` with its two unique indexes; `Adopt` is a call that
found a row and may work on it, `Resume` the later `UPDATE` that resets it
without a condition; `Advance` one phase of `run` with its write; `Review`,
`StorePreview`, `SubmitClaims`, `SubmitReturns` the order path as the runner
sees it, with the run's key as idempotency key; `Finish` any ending that
`_finish` writes. Only callers in `Schedulers` pass `allow_safe_retry`.

### 2.3 DispatchSchedule

Time is kept as what the code compares: occurrences are `1..Last`, `passed`
counts those in the past, `late` those past their maximum lateness; a lease is
running or expired, a retry delay running or due. `ClaimDue` is the one
`BEGIN IMMEDIATE` transaction of `claim_due`: the reclaimed dispatches `R`,
then the schedule if it is due and the batch has room, its misfire or dispatch,
the suppressed duplicate, and the move of `next_run_at`. `MarkRunning` is the
conditional `UPDATE`, `RunReturns` any answer `run_once` can get from the
runner (whose memory of the run key is `result`; a call may raise before it reads
its row, as `runner.py:140` does, and that is a safe failure to the worker), `Report` the unconditional
`finish_dispatch`. A save computes `next_run_at` (`BeginSave`) and writes it
later (`Save`). A `Worker` is one life of a process, since `worker_id` is drawn
at start.

`EditsOfOne` excludes overlapping workers together with edits: a dispatch is
known here by its occurrence and in the code by its id, and the two differ only
when a worker reports to a dispatch that was deleted and inserted again by
another worker.

### 2.4 AutonomousControls

`controls` is the row of `autonomous_controls`, made by its first reader. A
handler of the API process runs without an await, so each is one action that
writes both switches; `enable_kill_switch` makes two transactions of which the
second repeats the first, so only its crash while the row is still to be made
(`EnableCrashes`) is a step of its own. `looks[c]` counts how often a call saw
autonomy on since its last write; `Needs` says how many looks the code takes
before it leaves a step: `_blocking_reasons` before the snapshot, inside
`snapshot`, twice on the way to `review`, before `submit` and twice inside it.
A call that lacks one may only give up (`GatedWork`). `Post` is `place_order`
after the last look. `barred` remembers the calls that were not past that look
at some moment since autonomy went off.

### 2.5 BrokerAccounts and RiskActions

A route that awaits TradeLocker's account list is an *ask*: it begins with what
it read and ends by writing what it learned over whatever was written meanwhile
(`Saved`, `Discovered`, `Rejected`). `SyncAccounts` is `sync_accounts` with its
default; `SelectAccount` and `SavedOnly` are the handlers with two transactions,
which may stop between them. `standing` folds `available` and `broker_active`.

`submit_action` resolves the profile, awaits the discovery in `context()`,
compares the routing with the preview (`Matches`), claims (`Claim`: the two
unique keys), reads the target, sends, and lists again. The broker carries out
what reached it at any later time (`CarryOut`) and a target may end on its own.

### 2.6 ProfileCapital and EntrySizing

Allocations are modes with a value; equities are what the broker may report at
each read. `Allowed` is the check of a PATCH, `Fits` the check of an entry.
An entry carries along what each step read: the allocation when the snapshot
began (`ctx`), the base and the room for margin of the snapshot, the size at the
quote of the preview, the equity of the submission. `record = "held"` is a
verified submission with a `broker_position_id`, the only rows that
`profile_broker_ids` counts. A unit is the loss of one lot at the stop. `tally`
is a history variable: which orders of the profile were past their own budget
check at that of an entry (`past`), and which of them it did not count (`missed`).

Amounts are integers and `LotsFor` divides them exactly. The code divides floats
(`execution.py:268`) and then rounds down: a quotient such as 0.3 / 0.1 comes out
just below the step it should reach, and the size is one step smaller than the
model's. That errs to the safe side of `SizeIsLargest`: only "largest" may be off
by a step, and the loss stays within the rate up to the precision of a float.

### 2.7 OAuthTokens

One API process: what a handler does between two awaits is one action, and
`complete_authorization` awaits the broker between its checks and `issue_code`
(`BeginComplete`, `IssueCode`). A refresh token names the access token issued
with it; `Serves` is the scope check of the middleware. Assertions, codes and
tokens may be presented by anybody in any order, and expire at any time.

### 2.8 RequestLimiter and CandleHistory

Times are what is left of them, and a tick takes one from each. `held` is what
is left of the lease as the call took it; `told` of the longest wait the broker
asked for. A bar `t` lasts from `t` to `t + 1`; `now` is the one forming; `part`
marks bars whose prices were read before they ended. The broker answers a page
with any of its bars. `Conclude` is the merge with the cached bars, the
validation and the put. A refresh starts one bar before the newest cached one
(`StartOf`); the fallback uses the entry read before the pages (`snap`). An end
is the caller's, behind, at or ahead of the clock (`Ends`). `stop` is what the
result says of how its pages ended: `covered` for the reasons that make
`pagination_complete` true (`history.py:303`), `cut` for the others. Two history
items serve the properties: `ahead` has the bars that some request asked up to
before they had ended, `left` what the broker left out of the last page.

## 3. Runs

| Run | Checks | Instance |
|---|---|---|
| `submission_once` | `AtMostOneOrder`, `RejectedIsTrue`, `RunAgrees`, `AnswerIsFinal`, `ImplementsCommand` | 2 calls, 1 autonomous preview, 2 keys, 2 order numbers; deaths, moving controls, expiry |
| `submission_alike` | `VerifiedIsBacked`, `EmergencyClosesOwn` | 1 call, 2 previews with the same terms, no strategy ids, unprotected orders |
| `submission_settles` | `ClaimIsAnswered` | 1 call, 2 previews with different terms, no deaths, weak fairness |
| `submission_clash` | `FailureAfterDispatchIsStored`, violated | 1 call, 2 previews with the same terms |
| `runs_once` | `OneSubmissionPerRun`, `TradeHasOrder`, `NoRetryAfterSend`, `StoppedOrdersNothing` | `AutonomousControls` with 2 calls that may retry and 1 immediate run, 1 run key, 2 previews, deaths, switches turned at any moment |
| `runs_end` | `RunEnds` | 2 calls of which 1 may retry, 2 run keys, 2 previews, no deaths, weak fairness |
| `schedule_accounts` | `OccurrencesAccounted`, `MisfiredNeverRan` | 2 overlapping workers, 3 occurrences, batch of 1, owner retries |
| `schedule_lives` | `EndedStays`, `DispatchEnds`, `ScheduleMoves` | 3 lives one after the other, 1 occurrence, 1 retry, all edits, weak fairness |
| `tokens_once` | `OneGrantPerRequest`, `OneHead`, `ReuseEndsFamily`, `ToolsWithinGrant`, `AssertionOnce`, `ImplementsGrants` | 1 request, 2 users, 2 clients, 2 scopes, 4 assertions, 2 completing calls, 2 codes, a family of up to 3 refresh tokens |
| `desk_actions` | `DefaultAgrees`, `SentOnce`, `RoutedAsReviewed`, `VerifiedIsGone`, `DiscoveryPreserves`, `ImplementsCommand` | 2 connections with 2 accounts and 1, 2 routes, 1 ask, 2 reviewed actions submitted by 2 calls with 1 key, deaths; `CONSTRAINT SmallDesk` (below) |
| `candle_series` | `OneWithinLease`, `CacheIsFinal`, `FreshIsCurrent`, `WholeReply`, `CooldownIsKept`, `CallsAnswered` | 2 processes, 4 bars of which 1 is closed, pages of 2 bars, leases of 2 ticks, 2 attempts, 2 kinds of request with ends from 2 bars behind the clock to 1 ahead, deaths, weak fairness |
| `entry_risk` | `SizeIsLargest`, `LossWithinRate`, `OverrunIsUncounted`, `SharesFit` | 2 profiles, 5 allocations, 2 equities, 2 owner requests, 2 entries, quantities of 2 and 4 |

The type invariants are theorems (section 5) and take no place in the runs.

### Why the bounds are enough to be interesting

- Two calls suffice for every race on one row; with two order numbers a second
  order of a preview can exist, so `AtMostOneOrder` can fail (it does when the
  table enforces the key only).
- Two previews with one setup are what confuses reconciliation; a third adds no
  new relation between a row and a submission.
- `runs_once` has two previews so that a resumed run can have a second one to
  send, and a third call so that a stop can fall on one while two race. Its one
  run key keeps it small; that a call finds the run of another key is in
  `runs_end`, without deaths, and in the theorems with both.
- With three occurrences a misfire can jump over two. With one occurrence and a
  stale save the occurrence comes due again and again, which is the hard case of
  `EndedStays` and `ScheduleMoves`; the theorem covers more occurrences.
- `MaxRetries = 1` is the smallest count that can be forgotten.
- Three refresh tokens make a family with a rotated token, its successor and the
  one that a replay would add; the fourth assertion is another user's.
- `SmallDesk` keeps `desk_actions` within reach of TLC. Without an action the
  accounts are two of one connection or one of each, so that the default moves
  within a connection and between two, and the selection of the other one has to
  be cleared. With an action there is the account of its target alone, whose
  route, credentials and switches are all an action reads; with two reviewed
  actions, which may race with one key, no discovery is under way. What the
  constraint leaves out the theorems of `RiskActionsProofs` cover, for they know
  no constraint.
- In `candle_series` a lease of two ticks can run out under a request while the
  next call holds its own, a bar may end between any two steps, and the closed
  bar is one that a gap check must not miss or demand. An end one bar ahead of
  the clock (`Lead`) is the smallest that takes the forming bar in; the theorems
  are for any `Lead` and `Reach`.
- In `entry_risk` two positions of the smallest loss (2) fit the budget of an
  allocation of 300 (4), two of the largest (4) fit none (7 at most) and yet may
  both be open when their submissions overlap or the first was pending; the shares
  60 and 40 fill an account exactly,
  900 is more than any equity, and profits are negative and positive.

`WorkerDies` needs another life to be left, `Pass` and `Tick` stop at the
horizon, `MaxEdits` caps the owner's requests of `ProfileCapital`, `Reach` and
`Lead` say how far a request may end from the clock, and `MaxTries` is the code's
own limit: those are the bounds in the guards. `SmallDesk` is the only
constraint of a configuration. Nothing else is capped.

`CHECK_DEADLOCK FALSE` is set where the instance really stops: the previews,
order numbers, tokens or entries are used up, or the horizon has passed with no
life left.

### Fairness

`OrderSubmission` and `DecisionRuns` take weak fairness of the steps of a call:
the event loop resumes a call whose await is over, and the HTTP client, the
poll and the decision provider have timeouts. Starting a call, the broker and
the owner are not fair. Calls do not die in their liveness runs: the code has no
recovery of a row whose call died, so `claimed` submissions and active runs
then stay as they are (see section 6). `DispatchSchedule` adds that a
supervisor restarts the worker (systemd unit, `Restart=`) and that leases and
delays run out. There the worker *may* die; the reclaim by lease is the
recovery under test. The owner's safe retry is switched off in
`schedule_lives`: an owner who asks for it without end keeps a batch of one
busy and starves the schedule, which is no fault of the worker. `CandleHistory`
takes weak fairness of time and of the steps of a call; calls may die there, and
a lease whose holder died must not keep the others out.

## 4. Where the documents and the code differ

`submission_clash` is a violated run: the composite match may find the order of
an older identical setup; its number breaks `broker_order_id UNIQUE`, the
`IntegrityError` leaves `submit`, and the dispatched order stays `claimed`
(`docs/tradelocker-demo-execution.md:42`).

The following were met while modelling. The steps that show them are in the
modules; the properties are stated so that they hold of the code, and no run is
spent on them.

Orders:

- "only one open position and one pending order are permitted"
  (`docs/tradelocker-demo-execution.md:30`): `submit` compares the limits with
  positions and orders read awaits earlier (`execution.py:1062`, `1077`) and
  posts later, without a reservation; two submissions of different instruments
  both pass a limit of one.
- "The kill switch blocks new entry snapshots, previews, and submissions"
  (`docs/tradelocker-multi-account.md:64`): the switch is read for autonomous
  previews only (`execution.py:845`, `1009`, `1084`); a manual one is submitted.
- "If a filled position is found without both protections, the service records
  `protection_failure`" (`docs/tradelocker-multi-account.md:60`): when the
  emergency close itself fails, the answer is `unknown` (`execution.py:1171`).
- "Pre-submit stale work may resume; work at or after preview/submission is not
  replayed automatically" (`docs/autonomous-scheduler-operations.md:68`): the
  reset of a resumed run (`runner.py:155`) is an `UPDATE` without a condition on
  a row read in an earlier transaction, and sends a run that has previewed,
  submitted or traded since back to `claimed`. `OneSubmissionPerRun` shows why
  this does not order twice: the idempotency key is the run's.

Controls:

- "MCP callers can enable it, but cannot disable it or arm/reconfigure a
  profile" (`docs/autonomous-demo-runner.md:11`): the MCP tool that starts
  autonomy clears the kill switch and reconfigures the profile; and
  `set_kill_switch(enabled=false)` enables it.
- A call past its last look may post long after a stop: `place_order` awaits,
  and its one re-login and second send do not look again.
- The key of an immediate run derives from `updated_at` of the controls, so
  starting again without a change is a duplicate of the former run.

Accounts and actions:

- A discovery that was under way when a connection was disabled or rejected
  makes it active again (`brokers.py:361`), and a rejection of the old
  credentials marks newly saved ones `reauthentication_required`.
- A cancellation counts as verified when the order is absent, be it filled.
- A claim that meets the key of another preview answers with that preview's
  execution. An action whose call died stays `claimed`.

Profiles and risk:

- Submissions of one profile that overlap may together exceed the open-risk
  budget: each reads it before either is settled. An order that was pending when
  it was verified has no position id and is never counted once it fills
  (`storage/execution.py:359`). The code does not prevent either overrun;
  `OverrunIsUncounted` says how large it can be: of the open positions of a
  profile, take the one that was checked last; what exceeds the budget it was
  checked against is no more than those its check could not count.
- The row of a closed position counts for ever. The budget check uses the loss of
  the preview, not of the last quote, and `OverrunIsUncounted` counts the same.
- `submit` uses the allocation it read before its awaits: one lowered meanwhile
  is not honoured. `LossWithinRate` shows the clamp to the equity read last,
  which bounds the loss all the same; it cannot notice the stale value itself.
- A PATCH takes what it leaves out from `profile_v2_json`: it may enable a
  profile that a PUT disabled. A PUT that enables a profile again skips the
  allocation check, hence `revived` in `SharesFit`. Fixed amounts may claim more
  than the account has (`tests/unit/test_execution_profile_v2.py:176` saves 6000
  and 5000 of 10000); the check of an entry catches that, so `SharesFit` is about
  percentages and full accounts. Profiles without a `profile_v2_json` are outside
  the check.

Candles:

- An end time ahead of the clock (`client.py:684` takes any) makes the forming bar
  count as complete, and it is cached, although "Completed candles are required
  for cache storage" (`candle_cache.py:146`). `CacheIsFinal` and `WholeReply` say
  that these bars, those some request asked up to before they ended, are the only
  ones that get in with prices that are not final.
- An explicit end in the past, with a warm cache that is newer, is refused as
  `invalid_time_range`, or keeps the cached bars after it, or overwrites the
  newer entry.
- A ranged request whose later pages fail is still reported complete when what
  it has is without gaps: `complete` is overwritten by the contract, which starts
  at the oldest bar, and only `pagination_complete` and the reason tell
  (`history.py:302`). A page window that lies wholly in a closed market has no
  bars and ends the pages in the same way, as `provider_no_older_history`.
  `WholeReply` asks of such a reply that it has no gap after its oldest bar, and
  of every other that it begins where it was asked to.

Scheduler: with two worker processes at once the one whose lease was reclaimed
reports over the answer of the other. The operations guide allows one scheduler
process per database, so `EndedStays` is stated for that.

## 5. Proofs

TLAPS checks the following for every set of callers, previews, keys, orders,
run keys, workers, tokens, accounts, profiles and entries, and every size, rate,
time and horizon. Assumptions are the named `ASSUME`s of the modules: `None` is
none of the values, the constant functions have their types, sizes are naturals,
switches are Booleans, and `EditsOfOne`; a theorem names any other.

**OrderSubmissionProofs.** `TypeCorrect` (`TypeOK`) rests on `TypeInv`, which
adds that a busy call has a target and that an answer "accepted" has an order.
The safety theorems rest on `IInv`:

- `OneHolder`: of the calls past the claim of a preview at most one works on it;
- `RowsFollowCalls`: what the row of a preview says at each step of its call;
- `OrdersFollowPosts`: while its holder has not posted, or what it posted was
  refused, a preview has no order and no request under way;
- `RowsAgree`: the run, the preview and the submission agree.

None is inductive alone: that a second send after a 401 cannot make a second
order needs that the first was refused, which needs that only one call sends.
From `IInv` follow `OneOrder`, `RejectionIsTrue`, `RunsAgree`, `AnswersAreFinal`
and `Refinement`: every step is, seen from outside, one of the four steps of
`OrderCommand` or a stutter. `MInv` adds what a match may return and yields
`VerifiedRestsOnOrder` and `ClosesItsOwn`: an unprotected row never matches by
terms, so what is closed was found by number or by tag and is the call's own.

**DecisionRunsProofs.** `RunInvariant` proves `IInv`: a call in the middle of a
run has a run and a preview of its own (`AtWork`, `OwnPreview`), previews in
hand are unsent (`Unsent`), the row knows the preview of a run that sends
(`RowKnows`), and a submission belongs to one run (`SentByOne`). From it follow
`RunTypes`, `RunSendsOnce`, `TradeIsBacked` and `SentIsNotRetried`.

**AutonomousControlsProofs.** `ControlledRefines`: the governed runs are runs of
`DecisionRuns`, which carries its theorems over (`ControlledSendsOnce`).
`StoppedInv` says that no barred call is past the last look: a look needs
autonomy on, and that empties `barred`. `StoppedStays` follows.

**DispatchScheduleProofs.**

- `ScheduleTypes`; in particular `retry_count` never passes its limit.
- `EndedIsFinal`, for one worker at a time (`~Overlap`): at most one life is up
  and what it runs is `running` or deleted, so the unconditional
  `finish_dispatch` overwrites nothing that ended.
- `NothingIsLost` and `MisfiresDoNotRun`, for an unedited schedule and any
  number of overlapping workers. `LeftAlone` adds that nothing at or after
  `next_run_at` has a dispatch, that `next_run_at` is at most one past the
  clock, and that a run in progress has a dispatch that did not misfire. A poll
  changes these (`PollMoves`, `PollStep`); every other step keeps them for one
  common reason (`Quiet`, `QuietStep`).

**RiskActionsProofs.** The invariant ties a call to the row it claimed: only the
call that inserted the row is past the claim, it has sent at most once, and the
row says `claimed` until it records. From it `SentAtMostOnce`, `RoutedSafely`
(the routing compared is the one kept in the call), `VerifiedTargetsAreGone` and
`Refinement` to `OrderCommand`; for the accounts `OneDefault` and
`DiscoveryIsGentle`.

**OAuthTokensProofs.** The invariant says that the tokens of a family but one
are rotated, that a family begins with one code and a code with one request, that
a token's scope lies within its request's, and that a nonce is kept until its
assertion expired. From it `OneTokenWorks`, `ReuseIsTheEnd`, `OneGrant`,
`ScopesNeverGrow`, `AssertionsAreSingleUse`, and `Refinement` to `TokenGrants`.

**CandleHistoryProofs.** `LimiterHolds`: a call that counts on its lease owns
the row and the row promises no less; the cooldown is at least what the broker
asked. Hence `LeaseIsExclusive` and `CooldownHolds`. `CacheHolds`: a bar that
was read before it ended is the newest of its call, so validation leaves it out
unless it begins before the end asked for; then it is in `ahead`, where bars
stay. What came from the cache had ended when the row was read, or is in `ahead`
as well. `RepliesAreWhole`: an answer is called complete only over bars that
`Whole` accepted, and its prices are final by the invariant of `CacheHolds`, be
it merged, served from the row, or from the row as it was read before a 429. A
range whose pages ended as covered reaches back to its first bar, or has as many
bars as the range, or its last page spanned all that was left of it: only the
window of that page can lack bars (`left`).
`FreshRowsAreCurrent`, for any ends: a row expires when it was stored or when
the next bar of an open market ends after its newest (`Timed`), so what is
served without a request hides no bar that has ended. `TypeCorrect` covers the
row and the answers; that the newest and the next bar are bars at all is
`OldestIsLeast`, `NewestIsGreatest` and `DueIsNext`.

**EntrySizingProofs.** `SizingHolds` ties each entry to its own reads, so the
owner's edits cannot disturb it. `SizesAreLargest` rests on division with
remainder, `LossesWithinRate` on `WithinEquity`: what a profile may use is
clamped to the equity whatever its allocation and profits are. `TypeCorrect`
types every variable and every field of an entry.

Two groups are about sums over sets. `SharesAreChecked` is the invariant
`ShareInv`: until a PUT enables a profile again, the percentages of the enabled
native profiles with capital of their own add up to at most 100 and a full
account is alone. The check of a PATCH compares the patched profile with its
peers only; that the others stay within 100 when it is turned off, deleted or
shared needs that a sum over fewer profiles is no larger. `SharesAlwaysFit`
follows where no profile has a fixed amount: the shares of any equity then fit
in it.

`OverrunIsBounded` rests on `RiskInv`, which says the same of every set of orders
of a profile that are past their budget check, not only of the open ones: the one
that was checked last has all others in `past`, had room for what it counted,
and those it did not count are in `missed`. The open positions are such a set,
and which positions are open may change at any time; what an order was sized for
and checked against does not. That only finitely many entries are past their
check at a time (`HeldHolds`) is proved too, so the set of entries may be
infinite.

The community module's sum is a fold, which the prover knows as a function on
the subsets of a set. `SumExists` and its companions show that there is one such
function, and that it takes out and adds a member as a sum does. Where they, or
`OldestIsLeast`, need induction, they take a least counterexample instead: `<`
on the naturals and strict inclusion of finite sets are well founded
(`WFMin`), and the claim is the set of those that satisfy it, so that no
operator has to be instantiated.

### Model-checked only

The liveness properties (`ClaimIsAnswered`, `RunEnds`, `DispatchEnds`,
`ScheduleMoves`, `CallsAnswered`): fairness and ENABLED are out of the prover's
reach. Every invariant, action property and refinement of a passing run is a
theorem.
`EndedStays` with overlapping workers does not hold: its theorem assumes
`~Overlap`.

## 6. Not modelled, and known limits

- A submission, run or action whose call died stays `claimed` or active. The
  code has no recovery for it, and no property here says otherwise.
- A finished run can be overwritten by a second driver that lost the
  idempotency key; `DecisionRuns` has these steps. The order is sent once, but
  the record of a TRADE may be lost.
- The gates of the decision (spread, news, session, daily loss, drawdown,
  cooldowns) are endings that may come for any reason; what they compute is not
  checked. Arming and disarming a profile is among them.
- `DispatchSchedule` lets the runner answer anything that `DecisionRuns` allows,
  and `DecisionRuns` sees of a submission what `OrderSubmission` answers: the
  three are not composed into one state space, which TLC could not search.
- One user, account and profile at a time, but for `EntrySizing`. Tenancy is a
  `WHERE user_sub=?` in every statement.
- One schedule. Others only compete for the batch, which the nondeterministic
  choice of `R` covers for the dispatches.
- Calendar arithmetic (`next_scheduled_utc`, daylight saving time).
- The API runs as one process, as the deployment does: handlers without an
  await are atomic. Where the scheduler's process meets it, transactions are.
- OAuth: access tokens are never revoked in the code and their expiry is left
  out; no route calls `revoke_refresh_token`, which is an action all the same.
  Client id metadata documents are fetched, not modelled.
- Candles: the hourly aggregation of daily and four-hour bars, coalescing of
  equal requests, malformed rows, the series and configuration caches.
- Margin and risk that the broker reports for an order: they can only refuse
  more. A request that got a 401 and was sent again counts as one send.
- Heartbeats, the audit log, formatting, logging and the read-only tools.
- The parts listed as not modelled in `PROJECT.json`, with reasons there.

## 7. Order of work and what would come next

The modules were written from the order outwards: submission, runner, schedule;
then the switches over the runner, the actions over the accounts, the grants,
the candles, and the sizes over the profiles. Each was checked with TLC before
its theorems were proved.

Next would be the composition of `DispatchSchedule`, `DecisionRuns` and
`OrderSubmission` by refinement, so that the theorem "an occurrence leads to at
most one order" is stated once from end to end; arming as part of
`ProfileCapital`; and `next_scheduled_utc` as an operator against a reference
definition.
