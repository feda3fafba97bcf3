# Fincept: TLA+ models, checks and proofs

Fincept is an event-driven paper-trading platform. Services are asyncio
processes that exchange events over Redis streams through one library,
`fincept-bus`, and share a few Redis keys and a Postgres audit log. A second
subsystem, the Quant Foundry, sends training jobs to remote workers on RunPod and
takes their callbacks over HTTP.

These modules model the parts where the order of steps, crashes and failed
calls decide whether the system is correct: delivery, the kill switch, the path
from a signal over a target, an intent and an order to a position, the strategies
that react to it, and the life of a Quant Foundry job. Numeric code (models,
features, backtests) is outside.

## 1. Inventory

### The event path

```
 ingestor --md.trades--> features --features.online--> agents --sig.*--> orchestrator
     \                                                                     | ord.orders
      \--md.trades (prices)--------------> OMS + risk gate <---------------+<-- strategy host
 API --events.alerts, kill-switch key----> OMS  <--poll--> Alpaca          |   ^ fills, positions
                                            | ord.fills, ord.orders        |   |
                                            v                              |   |
                                        portfolio --positions in Redis--> risk snapshot of the OMS
```

Every arrow with a stream name is a publish and a consumer group of
`fincept-bus`: delivery is at least once, a handler may run again at any time.

### Components

| Component | State | Operations | Hard because | Must hold | Status |
|---|---|---|---|---|---|
| fincept-bus consumer, producer | stream, group cursor, pending list, delivery counts, dead-letter stream, batch in hand | publish and trim; scan, dead-letter, claim, read, handle, acknowledge; stop | consumers of a group interleave between awaits; crash anywhere; every Redis call may fail; slow handlers | nothing delivered is lost; dead letters only after all attempts; backoff; all settled in the end while no consumer task stays ended | modelled |
| kill switch (API, risk, OMS) | alert stream, state key, flag in memory | trip, clear (publish, then write key); apply, persist; start (read key) | key and flag are written by three parties without a lock; redelivery | a trip stays in force until the next all-clear, and for good while the OMS listens; dashboard agrees | modelled |
| OMS, sim router, risk gate | inbox, prices, snapshot of positions, verdict, what is published | audit, snapshot, check, publish states and fill | the snapshot is read over several awaits from a store another service writes; redelivery restarts the handler | no intent lost; caps; a trip stops fills | modelled |
| portfolio service | positions in memory, position hashes, strategy index | resolve owner, apply fill, put hash, put index, publish; hydrate | memory changes before the store; redelivery; crash between writes | positions equal the fills | modelled |
| position kernel | quantity, average cost, realised PnL | apply a fill | formulas across zero | a position accounts for the cash of its fills | modelled |
| orchestrator | prediction cache, target per symbol (memory and Redis) | consensus, allocation, delta, publish decision and intent, record target; hydrate | three tasks share the target, which is read before and written after the publications; writes to Redis in the background | intents add up to the recorded target; no target recorded that was not ordered | modelled |
| OMS, Alpaca router | pending orders in memory, orders at the venue | submit, watch, hand over, background poll | venue and stream fail separately; the handler outlasts its timeout; pending orders are in memory only | each order tracked, filled once or lost to a named failure | modelled |
| strategy host | runner, strategy state, ledger of outstanding orders (memory and Redis), configuration | reap, reconcile, start, stop; bar, fill and position hooks; submit | fills, positions and bars arrive on different streams; the runner is stopped anywhere | under the id of the class fills reach their strategy; no pyramiding; the runner follows the configuration | partly |
| Quant Foundry job lifecycle | outbox, inbox, payloads (files and memory), RunPod runs | create, dispatch, receive, process, poll, sweep | four threads without a lock; append to a file and set in memory are two steps; conflicting and late callbacks; signatures age | a job takes effect once; verdicts agree with effects; a running job ends if its result is collected in time | partly |
| leader lease | Redis key with expiry, `is_leader` | acquire, renew, release | clock, pauses, Redis errors | at most one leader | not modelled: nothing calls it |
| agents, features, backtester, trainers, ingestor, jobs, settlements, API reads, dashboard, tools | data sets and caches | numeric or request/response | little that is concurrent beyond delivery | | not modelled |

`PROJECT.json` lists every component with its status and every hazard at its line.

## 2. Modules

| Module | Models | Source |
|---|---|---|
| `BusConsumer`, `BusConsumerProofs` | the consume loop, several consumers, one stream and group; theorems | `libs/fincept-bus/.../consumer.py`, `producer.py` |
| `DeliveryContract` | abstract: what the bus promises a service | refined by `BusConsumer` |
| `ConsumerGroup`, `ConsumerGroupProofs` | one consumer's group as a record and operators on it; lemmas | the same loop, seen from a service |
| `KillSwitch`, `KillSwitchProofs` | API requests, alert consumer, key and flag; theorems | `api/routes/control.py`, `risk/state.py`, `oms/main.py` |
| `Orchestrator`, `OrchestratorProofs` | signal to target to intent: three tasks over one router, composed with a group each; theorems | `orchestrator/router.py`, `decisions.py`, `consensus.py`, `allocator.py`, `main.py` |
| `OrderFlow`, `OrderFlowProofs` | intent to position: OMS and portfolio composed over two groups; theorems | `oms/`, `risk/`, `portfolio/` |
| `PositionKernel` | how a fill changes a position, and the cash of the fills as its reference; theorems in `OrderFlowProofs` | `fincept_core/portfolio.py` |
| `AlpacaRouter`, `AlpacaRouterProofs` | intent consumer, poller and venue; theorems | `oms/alpaca/runtime.py` |
| `StrategyHost`, `StrategyHostProofs` | supervisor, runner and one strategy, composed with a group on three streams; theorems | `strategy_host/supervisor.py`, `runner.py`, `outstanding_store.py`, `backtester/strategies.py` |
| `JobLifecycle`, `JobLifecycleProofs` | jobs, callbacks and their threads; theorems | `quant_foundry/gateway.py`, `gateway_callback.py`, `outbox.py`, `inbox.py`, `callbacks.py`, `runpod_client.py` |
| `MCBusConsumer`, `MCKillSwitch`, `MCOrchestrator`, `MCOrderFlow` | instances for TLC; `MCOrderFlow` also evaluates `BooksBalance` once | |

### Correspondence

* **BusConsumer.** A message is its position in the stream. `pc[c]` names the
  await a consumer is at: `top` (scan of XPENDING), `doom`/`doomAck`
  (dead-letter XADD and XACK of a message out of attempts), `xclaim`,
  `handle` (a handler call), `count`/`lastAdd`/`lastAck` (after a handler raised:
  XPENDING of the message, and on the last attempt the dead-letter move),
  `read`, `stopped`, `dead` (the process died) and `ended`: an exception left
  `consume()` in a process that stays up, from a payload that cannot be read, a late
  handler, or a Redis error in a call of the loop that is in no try block
  (`LoopError`). The stop event is looked at only before a read, as in the code. Redis is version 7
  (docker-compose.yml:24), where XCLAIM drops pending entries whose message was
  trimmed; groups are created at id 0. `handler_timeout_ms` defaults to
  `block_ms`, one second: a handler that returns later has had its effect, its
  message stays pending, and `consume()` ends with TimeoutError.
* **KillSwitch.** An alert is an index of `alerts`. A request is two steps,
  `EmitAlert` and `RecordState` (publish, then write the key). `Apply` is
  flag, then key, in one step, because `KillSwitchState.apply` uses a synchronous
  Redis client and the event loop runs nothing in between. `Start` reads the key;
  a missing key starts disengaged, a failed read engaged. A consumer task that ended on a
  slow handler or on a Redis error of its own loop (`HandleTooSlow`, `LoopError`:
  `listening = FALSE`) is not restarted while the process is up. `GiveUp` moves a pending alert
  whose last attempt failed to the dead-letter stream.
* **OrderFlow.** `opc` and `ppc` name the await of the two handlers. `OmsConsume`
  and `PortfolioConsume` are the loop between two handler calls
  (`ConsumerGroup!Consumed`); `OmsLoopError` and `PortfolioLoopError` end it in a process
  that stays up and is `deaf` from then on. `Decide` is one step: flag, check and
  `process_intent` run without an await. `ReadPositions` is one HGETALL per
  strategy in sorted order. Quantities and prices are integers; the code
  uses Decimal, which neither rounds nor overflows here. A position is its
  quantity; cost and PnL do not influence a decision. An intent of a venue
  other than the paper one takes the same path with the sim router.
* **ConsumerGroup** is what a service sees of the loop: any pending message may be
  claimed when the batch is empty, in the order of idle times. Deliveries are not
  counted. A delivery that raised may have been the last attempt (`Raised`), and so
  may one its consumer did not survive (`GivenUp`): the message is then acknowledged and
  in `dead`, on the dead-letter stream. What holds in a service so holds for every
  `max_delivery_attempts`, 1 included. The dead-letter write itself succeeds
  (`bus_dlq_fault` shows what a failed one does), and streams stay below their retention.
* **PositionKernel.** Quantities carry their sign, amounts are integers. `Spent` is
  the cash of a sequence of fills; `Forgotten` names what a partial close loses
  (section 5).
* **Orchestrator.** The prediction, sentiment and regime tasks are `Streams`; `at[t]`
  is the await a handler is at: `rest` (between handler calls), `next` (between the
  symbols of a regime), `decision`, `order`, `record` (the two publications and the
  audit row of `on_prediction`). `Decide` is everything up to the first await.
  `targets` is `TargetState` in memory, `stored` its Redis hash, `saving` the writes
  `update()` starts with `create_task`: they land in any order (`Persist`) or fail.
  `LoopError` ends one of the three tasks for as long as the process is up. Scores are
  integers, rounded as `Decimal.quantize` does. `net`, `slips`, `due` and
  `considered` are history: what intents add up to, how often a target was
  recorded or lost amiss, the target computed when a symbol was last considered (none if
  it was passed over because its signals are stale), what was handled.
* **AlpacaRouter.** `handler.at` is where `submit_intent` and its consumer are, `poller`
  the task of `poll_pending_orders`. `late` says that a second has passed since the
  POST, which is the handler's timeout: it looks every half second, so an order that
  neither the POST nor the first look shows ended makes it late. Publishing a fill and
  forgetting its order are apart: a publication that took effect and then raised leaves the order
  pending, and an exception of `on_filled` ends the poll task, so nobody tells it again
  (`pending` is in memory only). `venue` is Alpaca, taken to accept a `client_order_id` once. `lost`
  is history: orders a named failure or a restart stopped tracking.
* **StrategyHost.** `ownId` says that the strategy is configured under `gbm.v1`, the id
  its class stamps on every intent (strategies.py:382); both cases are initial states.
  The OMS and portfolio copy the id of the intent, and the runner passes by every fill and position
  that carries another than the configured one (runner.py:218, runner.py:224): without
  `ownId` no hook is called and the position is never installed. `runner.at` is where the
  runner is: a hook, the ledger write (`put`) and the publication of an intent, `deaf`
  when its consumer task has ended. `GiveUp(s)` moves a pending
  message to the dead-letter stream; the marks of settled messages are dropped (`Current`). One XREADGROUP returns messages of all three streams, handled in the order bars,
  fills, positions (`Before`). A supervisor tick is two steps: reap and stop on the
  configuration it read (`Tick`), then start on the same (`StartRunner`). The
  strategy is `GBMStrategy`; its model leans any way. `blind` is history: the strategy
  ordered on an outdated position or while an earlier runner's order worked, or a late
  fill of such an order lowered its counter (`on_fill` looks at the side only). The two
  orders of the run do not reach the last; the theorem covers it.
* **JobLifecycle.** Four threads call the gateway without a lock (the API's event
  loop, the RunPod poller, the sweeper, the shadow dispatcher through
  `asyncio.to_thread`). `thread[a].at` is the next read, append, assignment or
  remote call of the call under way. An update of the outbox or inbox is two steps:
  `Logs` (append to the file) and `SetRecord` (assign in memory). A run stands for
  the bytes of its result, so two runs of a job are two payload hashes. `StorePart` is a
  batch of predictions of which a later one is bad: `store_batch` appends them one by
  one, so those ahead of it stay (`parts`, apart from `effects`) and the callback is
  rejected. `Expire` makes the signature of a result nobody has collected for five minutes
  too old (`late`), when the poller gets to it and its age is looked at: the gateway answers `bad_signature` and records nothing, on every poll.
  `Call` may start a run although its reply cannot be read, and the job is then FAILED.
  The copy a store has in memory is read together with the append that follows it, which
  loses nothing: of the old record the thread takes over the run, and that is fixed in a
  callback, and in a job matters only while it is RUNNING, a status written with the run
  the thread was given.

The operators marked "faulty variant" beside an action are plausible bugs used to
test the properties; no specification uses them.

## 3. Runs

| Run | Configuration | Shows |
|---|---|---|
| `bus_shared` | 2 consumers, 2 messages (one poison, one slow and failing), 2 attempts, retention 1, a crash, stop requests | nothing lost or dead lettered early whatever two consumers do; stop leaves nothing in hand; refinement of `DeliveryContract` |
| `bus_solo` | 1 consumer, 3 attempts, one fault of every kind, a crash, fair | backoff up to its cap, bounded dead-letter duplicates, every message settled if no consumer task stays ended |
| `bus_dlq_fault` | one failed dead-letter write | **violated** `NoSilentLoss`: the message is acknowledged although it is nowhere |
| `kill_switch` | 3 requests, 2 at a time, a crash, a failed request, an end of the consumer task or a failed access to the key, fair; 1,707,840 states | a trip holds until the next all-clear; key and flag agree; a trip as the last word stands unless the OMS stays deaf |
| `kill_stale_clear` | 2 alerts, a crash | **violated** `EngagedUntilCleared`: a redelivered all-clear undoes a later trip |
| `order_flow` | 2 strategies, 2 symbols, 2 intents (market and limit, both sides), a trip, price changes, one failure of any kind, fair | no intent lost, a trip stops fills, positions exact, caps on a settled snapshot, both services settle unless deaf; 877,695 states |
| `order_double_booking` | 1 intent, one failed call | **violated** `PositionsMatchFills`: a retried fill is booked twice |
| `order_caps` | 2 intents of 2 strategies, no failure | **violated** `CapsAlwaysHold`: both are approved before the first fill shows |
| `orchestrator` | 2 symbols, one of them traded, a model, news and a regime over both symbols, 2 signals, time 0 to 2, one failure of any kind; 1,791,980 states | intents drift from the recorded target only by what races and losses explain; nothing recorded that was not ordered; no regime acknowledged half handled unless dead lettered; quiet targets are within the deadband or given up with their signals |
| `alpaca_router` | 2 intents, 2 restarts, 2 failures of any kind, fair; 148,194 states | an order Alpaca holds is watched, pending, filled once or lost to a named failure; fills of orders handed over arrive while the poller lives |
| `strategy_host` | lot of 2 (partial fills), 2 bars, 2 orders, one upset (edit, crash, lost consumer), one failed call, both under the id of the class and under another, fair; 1,480,898 states | under the class's id fills of earlier orders reach the strategy; under another each runner buys once and nothing is sold; no pyramiding or overselling on a known position; the runner follows the configuration |
| `job_lifecycle` | 1 job, 2 create_job calls, 1 delivered callback next to the poller, one failure of any kind, fair; 1,156,949 states | a job takes effect once; verdicts agree with effects; a restart changes no answer; a running job ends unless its result was collected too late |

Why the bounds are enough for what the runs ask: two consumers or two operators
are what a race needs; two messages fill a batch and leave one behind; attempts
of 2 and 3 reach the last attempt and the cap of the backoff; three alerts give
trip, clear, trip; one failure of a kind at every possible point is every single
failure, and the theorems below hold for any number. Two intents with caps of 2
and price 1 sit exactly at the cap. `bus_shared` has no dead-letter fault because
`bus_dlq_fault` shows what one does.

Two tasks and two signals are what the race of the orchestrator needs, and with one
failure every await is cut off once; x is traded and y is not, so a regime meets both
ends of `on_prediction`. With an age limit of 1, time 0 to 2 lets signals go stale between a
failed publication and its retry. Two restarts and two failures let an Alpaca order be lost,
redelivered, and lost again. Lot 2 makes an order fill in two parts. Two
`create_job` calls give a job two runs with different results, which callback, poller
and sweeper can all report. Before dead letters, ends of a loop, partial batches and the second
id were added, these runs were made larger once by hand, without an error: two
failures and no time (orchestrator, 4.5 million states), both symbols traded (5.9
million), two callbacks (job_lifecycle, 1.7 million), two jobs without failures
(6.9 million), batches of two (strategy_host, 7 million), three intents
and one failure (alpaca_router, 0.8 million).

Deadlock is checked in `bus_solo` and `bus_dlq_fault`: a consumer that nobody stops
always has a step. It is off in `bus_shared`, where both consumers may have returned
from a stop request, and for the other modules: with the bounded input used up and all
handled, they rest, and so do they with a consumer task that has ended.

### Fairness

`FairSpec` of `BusConsumer`, `KillSwitch` and `OrderFlow` assumes that time passes,
that a running loop runs on, that an API request in progress is served or fails, and that a
process that died is started again. The loops are asyncio tasks that do nothing but await Redis; the
services run in containers of an orchestrated deployment (docker-compose with
`restart: unless-stopped`, ECS services with a desired count, infra/aws/ecs.tf).
No fairness is assumed of operators, prices, crashes, faults or slow handlers,
and none of a consumer task that ended in a process that is up: `run()` waits for its stop event
only (oms/main.py:261, portfolio/main.py:122, orchestrator/main.py:255), so nothing
restarts it. In `BusConsumer` a restart from `ended` is possible (somebody restarts the
service) and never fair. The liveness properties except such a task each in its own words:
`EverySettled` presumes that no consumer stays `ended`, `LastTripStands` that the OMS is
`listening` again and again, `FlowSettles` asks nothing of a service that is `deaf`, and
`FillsArrive` nothing of a poller that is dead.

`AlpacaRouter` assumes only that the poller comes round (every five seconds) while its
task lives; `StrategyHost` only that the supervisor ticks (every two seconds; `run`
catches what a tick raises); `JobLifecycle` that the poller's thread runs on and that
RunPod ends every run, for `build_job_policy` sends a time limit with it; not that a
result is collected within the five minutes its signature is good for.
`Orchestrator` states no liveness.

## 4. What is proved

TLAPS proves, for every value of the constants, every invariant and action property
the passing runs check, and the refinement of the delivery contract. The listed
theorems, by module:

**`BusConsumerProofs`**

* `TypeCorrect`; `DeadLetterAfterAllAttempts` (`DlqAfterAllAttempts`): `DlqInv` adds that what a
  consumer has set aside as out of attempts has been delivered that often, and that
  delivery counts only grow.
* `NoMessageLost` (`NoSilentLoss`), when no dead-letter write fails (`MaxXaddFaults = 0`;
  `bus_dlq_fault` shows the assumption is needed): `LossInv` adds that what waits
  in `acks` was handled, dead lettered or trimmed.
* `GracefulStop` (`StopLeavesNothingInHand`): `LocalOK` says what a consumer holds at each
  place of its loop; only a scan leaves dead letters to write, only a batch messages to handle.
* `ConsumerImplementsContract` (`ImplementsContract`), under the same assumption: every step
  of any number of consumers is one of `DeliveryContract` or a stutter.
  `ContractInv` joins the two invariants above.
* `SoloDeadLettersOnce` (`DlqEntriesBounded`) and `SoloBackoff` (`BackoffHonoured`), of a
  consumer alone in its group, the case they are checked in: two consumers break the
  backoff (section 5). `SoloInv` adds that what the consumer holds is pending, that what it
  is about to claim is ripe, and that a message with one dead letter more than faults and
  crashes pay for is between its dead letter and its acknowledgement, or settled.

**`KillSwitchProofs`**

* `TypeCorrect`; `TripStaysInForce` (`TripHolds`). The property talks of requests that
  were recorded; the invariant (`StandingIsQuiet`, `KeyHolds`, `FlagHolds`) adds that behind a
  standing trip only engaging alerts are outstanding, so any word applied or
  recorded from there on engages.
* `OnlyLaterClearDisengages` (`EngagedWhileDeliveredOnce`): while nothing was claimed, alerts
  are handled in stream order (`HandledInOrder`), so an all-clear that takes effect
  is later than every trip applied.
* `DashboardAndFlagAgree` (`DashboardAgrees`): as long as nothing disturbed them, the key shows the
  last alert once that is applied (`LastWord`), and key and flag agree or alerts are
  still to be applied or were dropped by a consumer that ended (`Agreeing`).

**`OrchestratorProofs`**

* `TypeCorrect`; `OnlyOrderedIsRecorded` (`RecordedWasOrdered`): by `Ordered`, a task at
  `record` has its decision on both streams, and so has every decision in `saving`.
  `NoneHalfConsidered` (`AcknowledgedWasConsidered`): by `Progress`, the symbols a signal still
  has to be handled for are the tail of its list, so what is acknowledged was considered
  for all of them, or is on the dead-letter stream after its last attempt.
* `DriftIsPaidFor` (`DriftBounded`) is an argument by potential. `Paid`: the drift of a symbol,
  plus twice the cap for each decision under way on it that may yet be recorded over another
  target than it started from, stays within twice the cap for each slip. All
  decisions but the first to come are such; after one came, all that remain.
* `SettledIsReached` (`Converged`): by `Kept`, the target last computed is that of the one
  decision under way, or it is reached, or a signal still pending will have the symbol
  considered again, or one was given up on (`GivenUpOn`, which the property excepts).

**`OrderFlowProofs`**

* `TypeCorrect`; `NoIntentIsLost` (`NoIntentLost`): `Telling` relates what is published about the
  intent in hand to the plan of its verdict, `DoneAnswered` carries it to the
  acknowledgement, and `MovesFacts` of `ConsumerGroupProofs` says that a message leaves the
  pending list only through `done` or to the dead-letter stream, whatever the number of
  attempts. `TripStopsFlow` (`TripStopsFills`): `AtMostOneLate` counts the
  fill already decided on.
* `FillsBookedOnce` (`PositionsExact`): while no fill was delivered twice and none is pending
  that is not in hand (`Orderly`), store and memory are the sums of the fills
  that have reached each (`BooksExact`: all passed ones, and the one in hand from the
  await on at which it was applied or written).
* `SettledSnapshotKeepsCaps` (`CapsHoldOnSettledSnapshot`): `SnapshotExact` adds that what
  has been read of a settled snapshot is the notional of the stored position of each
  strategy; the caps were checked on the sum.
* `FillKeepsBooks` and `BooksBalanceForEver`: cost of what is held less realised PnL changes by
  the cash of a fill, except for what a partial close forgets; hence, over any sequence
  of fills with exact averages, the position accounts for all their cash.
  `BooksBalance` is the same of the sequences TLC enumerates.

**`AlpacaRouterProofs`**: `TypeCorrect`; `NoOrderUnaccounted` (`OrdersAccounted`). The
invariant adds that the handler's order is the message in hand, that what someone
tracks or lost is at Alpaca, that nothing is both tracked and lost, and that an order
pending with its fill already out is the one whose telling ended the poller.

**`StrategyHostProofs`**

* `TypeCorrect`; `FillsReach` (`FillsReachTheirStrategy`), under the id of the class.
  `Recorded`: an order that was sent is in
  the stored ledger or forgotten; `Ledger`: what is stored is in the memory of
  a running runner or forgotten.
* `NeverPyramids` (`NoPyramiding`): by `Counted`, as long as the strategy is not blind its
  pending counters cover what is left of its orders and the fills still on their way to it
  (`Sound`), so with both at zero nothing works and what it orders next is alone.
  Under another id the strategy is blind once an order has filled, and the theorem says no
  more than that the orders before were alone.
* `OthersBuyOnce` (`OtherIdBuysOnce`) says what holds there: by `OnlyBuys` and `BoughtOnce`
  neither the position nor the count of working buys ever moves back, so a runner's first order stays
  its last.

**`JobLifecycleProofs`**

* `TypeCorrect`; `TakesEffectOnce` (`EffectOnce`). `Once(j)` relates the two stores and the
  threads of a job: at most one thread is between the first receipt and the effect of its
  callback, only with nothing in effect yet, and with the result the inbox file
  holds; what was stored in part (`PartsInv`) is of that result too. The
  exception (`raced`, two threads receiving the first callback at once) is
  needed: section 5.
* `RestartAnswersTheSame` (`MemoryMatchesFile`): by `Agree`, while a thread is between its
  append and its assignment, what it will assign is the last line of the file.
* `FailsClosed` (`VerdictMatchesEffect`): by `Verdict`, a thread on its way to PROCESSED or
  COMPLETED stands behind an effect in full, one on its way to REJECTED behind none in
  full (predictions ahead of a bad one may be stored), and no other thread is at work on the job.

Each argument is the usual one: initial states satisfy the inductive invariant,
every action preserves it (one lemma per conjunct, one case per action), it implies
the property. The assumptions are the named ones in the modules
(`BusAssumption`, `KillSwitchAssumption`, `OrchestratorAssumption`,
`OrderFlowAssumption`, `AlpacaRouterAssumption`, `StrategyHostAssumption`,
`JobLifecycleAssumption`) and the two hypotheses named above.

Sums over sets and over sequences are inductions over data. The library's induction
theorems take an operator as parameter, which the provers cannot instantiate, so
`OrderFlowProofs` (section "Sums") argues by the smallest counterexample: strict
inclusion is well founded on finite sets (`FS_StrictSubsetOrderingWellFounded`), so a
set of counterexamples has a minimal one (`WFMin`), and taking one element out of it
gives a smaller one. A sequence has a first position at which a claim fails.

Only model-checked is what needs fairness and ENABLED: `EverySettled`, `LastTripStands`,
`FlowSettles`, `FillsArrive`, `ConfigFollowed`, `JobsEnd`. So are the dead-letter bound
with several consumers, which is not claimed, and what the violation runs show.

Proving changed the models in two places. `NoPyramiding` was false at larger bounds: a late fill
of an earlier runner's order is counted against a newer one, which is now part of `blind`.
`Converged` was false once time passes between a failed publication and its retry;
`due` is now cleared where the code gives the target up, and the run has the time
for it.

## 5. Where code and text disagree

The four violation runs are the disagreements found, each quoted in
`PROJECT.json` (`findings`). Further observations that have no run of their own:

* An unreadable message (consumer.py:285) or a slow handler (consumer.py:311)
  ends the loop before the acknowledgement of its batch, so messages already
  handled run again, and enough of it drags them to the dead-letter stream.
* The scan decides which messages to claim, the XCLAIM uses the base idle
  time (consumer.py:221): with two consumers the backoff may be cut short.
  `BackoffHonoured` is therefore checked with one consumer.
* Two concurrent operators may leave the key at the older word (control.py:312).
* A missing key starts the OMS disengaged (risk/state.py:114).
* After a redelivery an order may be FILLED and then REJECTED, or filled twice:
  the handler keeps no memory of order ids.
* The gate adds the size of an intent to the exposure whatever its side, so at the
  cap an order that would reduce the position is rejected.

* A Redis error in a call of the loop itself (XPENDING, XREADGROUP, XACK;
  consumer.py:124) ends the consumer task as a slow handler does. The service stays up, looks
  alive and handles nothing more: a deaf OMS that was trading goes on trading after a
  trip, and a deaf portfolio leaves the risk gate with old positions.

Position kernel:

* An opposite fill smaller than the position takes the branch the comment at
  portfolio.py:84 calls a cross-flip: the rest of the position gets the price of the
  fill as its average cost, and the gain or loss it had made so far is in neither
  realised nor unrealised PnL any more. The specification
  (spec/prompts/phase-O-orchestrator-risk-oms.md:216) says "If reducing:
  realized_pnl += ... Quantity decreases". No test closes a position in part.
  `Forgotten` is the amount; the backtester's equity is computed from these fields
  (backtester/engine.py:300).

Orchestrator:

* The recorded target is what was asked for, not what was filled (router.py:129): an
  intent the risk gate rejects is not asked for again.
* A decision whose publication failed is retried with the signals as they are then: if they have
  gone stale in between, it is given up without a trace (consensus.py:88, `due`).
* Two tasks that decide on one symbol at once both order against the same
  target (`slips`), and a crash between publication and record orders again.
* Writes of the target to Redis are not ordered among each other (decisions.py:150): a restart may find
  an older target.

Alpaca router:

* An order still open a second after the POST makes the handler late, and the intent
  consumer ends until the OMS is restarted (runtime.py:164, consumer.py:310).
* A network error on the POST is published as REJECTED although the order may be at
  Alpaca; a redelivered intent is refused there and published as REJECTED too.
* Pending orders are lost in a restart; the poll task ends, unnoticed, on a network error while
  polling or a failed publication. If the fill was out before the publication raised, its
  order stays in the pending list and is never polled again (runtime.py:244).
* The poller's fills carry side BUY and strategy "alpaca.unknown": the comment at
  runtime.py:294 says the side "gets overwritten", which no code does.
* An order filled in part and then cancelled publishes no fill.

Strategy host:

* strategy_config.py:97 says of `strategy_id` that "it is also the strategy_id stamped on
  every OrderIntent the host emits". `GBMStrategy` stamps its class constant `gbm.v1` (strategies.py:382) and
  nothing stamps the intent again. Configured under any other id it is told of no fill and no
  position: each runner buys one lot, sells nothing, and the next runner buys again
  (`OtherIdBuysOnce`).
* runner.py:47 says fills in flight at a restart "will arrive and be ignored", for the ledger
  is in memory only; the ledger is also stored in Redis and loaded again, so they do reach the
  strategy (`FillsReachTheirStrategy`).
* A restarted strategy starts from position 0 until the next position event, and may
  buy a second lot (`blind`).
* A fill handled before the position that follows from it leaves the strategy idle
  with an outdated position: it buys again, or sells what it no longer has.
* A late fill of an order of the runner before is counted against the order of this one
  (strategies.py:557), whose counter reaches zero too early: "correct under partial
  fills" (strategies.py:354) holds without a restart in between.
* A rejected order leaves the pending counters of the strategy up for good: it never trades
  again until it is restarted. A failed ledger read drops the fills of earlier orders.
* The consumer task may end while the runner waits for its stop (runner.py:476).

Quant Foundry:

* A callback whose third prediction is bad is REJECTED with the first two stored
  (shadow_ledger.py:260): rejected does not mean without effect.
* A result collected more than 300 seconds after it was signed is refused as
  `bad_signature` without a record (signatures.py:66, gateway_callback.py:125). The poller
  asks again for ever, the job stays RUNNING, and the result is lost.
* A reply of status 200 whose body cannot be read, or has no id, fails the job although RunPod
  has started the run (runpod_client.py:321).
* A torn last line of the outbox file, as a crash in an append leaves it, stops `_reload`
  and with it the start of the gateway (outbox.py:146); not modelled.
* inbox.py:4 says a crash during processing "can be safely retried": a callback
  delivered again is DUPLICATE and is never processed, so the job keeps its
  status (`JobsEnd` asks only for the result to be in the inbox).
* outbox.py:238 calls terminal states sticky, but a status update overwrites them in
  memory and on the last line of the file: the poller and the sweeper may turn
  COMPLETED into FAILED, a slow dispatcher into RUNNING, and `create_job`
  dispatches a completed job again.
* Two threads that receive the first callback of a job at once both process it
  (inbox.py:149), and the payload file is overwritten before the hash is checked.
* A job put back to QUEUED after a passing error is never dispatched again:
  `dispatch_sweep` has no caller.

## 6. Not modelled, and why

The mapped lines are about one percent of the repository. Nearly all of the rest has
no protocol to check: the half that are the Quant Foundry trainers, gates and
report writers (numeric code on files one process writes), the RunPod worker images,
the dashboard, agents and features (one consumer loop each, whose delivery
`BusConsumer` covers), the API's read routes and the database layer. The notes of
the components in `PROJECT.json` give the reason for each.

Inside modelled components: the local mock mode and the budgets of the
gateway, forged signatures (their age is modelled) and torn lines of its files; hot
reload of a strategy's model and strategies other than `GBMStrategy`;
fees, spread and latency of paper fills; audit rows nothing reads; the rounding of
Decimal at 28 digits. `LeaderLease` is used by its tests only (strategy_host/main.py:12
says it is deferred), so there are no candidates to model.

## 7. Plan

What is left, in order of worth:

1. The position kernel's cost and PnL in the positions of `OrderFlow`, and `FillsBookedOnce`
   for them.
2. `Orchestrator`, `OrderFlow` and `StrategyHost` meet on ord.orders and ord.fills: their
   contract (an intent is answered at most as often as it is delivered) as an
   abstract specification each of them refines, and proofs of the refinements.
3. The operators of `ConsumerGroup` as a refinement of `DeliveryContract`, which
   would tie every service's view of its group to what the bus is proved to promise.
4. `LeaderLease`, once the strategy host uses it.
