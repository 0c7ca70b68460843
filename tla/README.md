# PolicyCore: formal models, checks and proofs

TLA+ models of the stateful core of the policy decision backend (`src/policy_core`), the
TLC configurations that check them, and TLAPS proofs about them. Paths below are relative
to the repository; the package root is `src/policy_core`.

Run a check with `tlc -config X.cfg M`, a proof with `tlapm M.tla`. `PROJECT.json` lists the
components, the runs, the source lines each definition stands for, the hazards of the code,
a deliberate bug per property that the property detects, and the theorems.

## 1. The system

A FastAPI process (or several) over PostgreSQL (asyncpg) and Redis. HTTP handlers call
services, services read and write the database and the Redis cache, WebSocket clients hold
long connections that are told of changes. Everything in a process runs on one asyncio event
loop: code between two awaits is atomic, everything else interleaves.

| Component | State | Operations | Talks to | Hard behaviour | Correct means | Here |
|---|---|---|---|---|---|---|
| Connection registry `websocket/manager.py`, endpoint `websocket/app.py` | connections, counter, user index, rooms, cached membership, heartbeat | connect, disconnect, subscribe, unsubscribe, send, heartbeat | sockets, Redis, database, handlers | several tasks disconnect one connection; a failed send disconnects inside a disconnect; snapshots walked across awaits | counter and indexes agree; nothing forgotten too early or never | partly |
| Message queue `websocket/message_queue.py` | Redis lists by priority, processing, dead letters | enqueue, dequeue, acknowledge, reject, cleanup | Redis, other processes | crash between two commands; timeout racing a late answer | a message is in one place, once, and none is lost | modelled |
| Quote collaboration `websocket/handlers/quotes.py` | editing sessions, field locks, deduplication, timers | subscribe, unsubscribe, edit, cleanup, auto release | registry rooms, quote service | timers of old edits, cleanup across awaits | every lock expires, no session is orphaned, and no lock but by an exception | modelled |
| Dashboard streams `websocket/handlers/analytics.py` | a task per dashboard | start, stop, cleanup, stream | registry, database | a stream disconnects its connection while the endpoint cancels the stream | a stream has an owner, and ends with its connection | modelled |
| Room permissions `websocket/permissions.py` | profiles, owners, grants, cached answers | ask, set profile, grant, own, clean up | (no caller yet) | an answer cached before a change | a fresh answer | partly |
| Delivery, monitoring `websocket/manager.py`, `websocket/monitoring.py` | priority buffers, token buckets, counters | send, enqueue, process, drop | registry | full pools, backpressure | what is dropped is chosen by priority | no |
| Notification and admin handlers `websocket/handlers/*` | subscriptions | subscribe, send | registry, database | | | no |
| Reconnection manager `websocket/reconnection.py` | connection state, attempts, breaker, two tasks | lost, established, failed, stop | the application | reports that come late or twice, in any order | no loss is forgotten, the attempts are bounded | modelled |
| Replica pool `core/enterprise_db_architecture.py` | turn queue, replica health, breakers | acquire, execute, health check | Redis, PostgreSQL | timeouts in the queue, mixed reports to a breaker | turns come round, healthy replicas are used | modelled |
| Database pool `core/database.py` | asyncpg holders, warm-up, counters | acquire, read, execute, transaction, retry, health check | asyncpg | a transaction whose statements want connections of their own; exhaustion judged by what is open | every call ends, holders come back | partly |
| Connection slots `core/redis_connection_manager.py` | slots, wait queue, windows in Redis | acquire, queue, wait, notify, release | Redis, other processes | lost notification, dying holder, failed command | no slot too many; who waits gets an answer | modelled |
| Rate limiter `core/rate_limiter.py` | request times per client | check, cleanup | every HTTP request | bounded deques, shared trackers | limits hold, nobody is locked out | modelled |
| Audit logger `compliance/audit_logger.py` | pending events | log, flush, close | database, all controls | a list read before an await and cleared after it | an event is stored once, or its loss is accounted for | modelled |
| API keys `core/auth/oauth2/api_keys.py` | rows, cached rows | create, validate, rotate, revoke | database, Redis | a validation filling the cache after a revocation | what was revoked is refused in the end | partly |
| OAuth2 scopes `core/auth/oauth2/scopes.py` | tables | validate, expand | tokens | a memo shared between branches | the closure, and nothing more | modelled |
| MFA `core/auth/mfa/*` | challenges, recovery codes, templates, risk memory | issue, verify, enrol, remove, assess | cache, database | read, decide, write back across awaits | attempts bounded, a code accepted once | partly |
| Rating arithmetic `services/rating/*` | none | discounts, surcharges, factors | rate engines | order, caps, rounding, edges of bands | bounds, monotony, agreement of the tables | partly |
| Rating engines, rate tables `services/rating*` | rate tables, caches | calculate, approve | database, cache | stale tables | premiums within the rules | no |
| Quote service, wizard, claims, policies, customers `services/*` | rows with a status, sessions in the cache | create, convert, transition, step | database, cache | concurrent conversions, lost updates | only legal transitions | no |
| Administration `services/admin/*`; SSO `core/auth/sso*`; OAuth2 server | approvals, links, tokens | request, approve, issue | database, identity providers | approval racing a change | nothing unapproved applies | no |
| Caches, optimizers, monitors, compliance controls, API, schemas, configuration | counters, fixed data | | | | | no |

"no" is explained in section 8. What is modelled first is the state in memory or Redis that
concurrent tasks share, since there the code alone decides what happens; then the decisions
(prices, scopes, risks) that are functions and need only inputs.

## 2. Modules

| Module | Models | Checked by |
|---|---|---|
| `WsConnections` (`MCWsConnections`, `WsConnectionsProofs`) | connection registry, rooms, endpoint task, heartbeat | `ws_rooms`, `ws_failures`, `ws_ghost`, proofs |
| `MessageQueue` (`MCMessageQueue`, `MCReconnection`, `MessageQueueProofs`) | Redis message queue | `mq_queue`, `mq_timed_out`, `rc_loop`, proofs |
| `QuoteCollab` (`MCQuoteCollab`, `QuoteCollabProofs`) | editing sessions and field locks | `qc_sessions`, `qc_orphan`, proofs |
| `Reconnection` (`Realtime`, `MCReconnection`, `RealtimeProofs`) | reconnection manager | `rc_loop`, proofs |
| `DashboardStreams` (the same) | streams of a connection's dashboards | `rc_loop`, proofs |
| `ReplicaPool` (`Database`, `MCDatabase`, `DatabaseProofs`) | replica pool and circuit breakers | `rp_turns`, proofs |
| `DatabasePool` (the same) | main pool of `core/database.py` | `rp_turns`, proofs |
| `ConnectionSlots`, its abstract specification `Semaphore` (`Admission`, `MCAdmission`, `AdmissionProofs`) | connection slots in Redis | `admission`, proofs |
| `RateLimiter` (the same) | HTTP rate limiter | `admission`, proofs |
| `AuditTrail` (`TrailAndKeys`, `MCTrailAndKeys`, `SecurityProofs`) | audit logger | `trail_keys`, proofs |
| `ApiKeys` (the same) | API keys and their cache | `trail_keys`, proofs |
| `DiscountStacking` (`Pricing`, `MCPricing`, `PricingProofs`) | stacking of discounts | `access`, proofs |
| `Surcharges` (the same) | surcharges and their cap | `access`, proofs |
| `RatingFactors` (the same) | the factors of a premium | `access`, proofs |
| `MfaChallenges`, `RecoveryCodes`, `Biometrics`, `RiskEngine` (`Access`, `MCAccess`, `SecurityProofs`) | second factors | `access`, proofs |
| `RoomPermissions` (`Realtime`, `MCReconnection`, `RealtimeProofs`) | room permissions and their cache | `rc_loop`, proofs |
| `Scopes` (the same as the second factors) | OAuth2 scopes | `access`, proofs |

Components that share no state are put side by side by a module (`Database`, `Admission`,
`Realtime`, `TrailAndKeys`, `Access`, `Pricing`) that declares the constants and variables of
each, instantiates them, and states their properties. The MC module and the module of the proofs
both extend it, so that what is proved for all constants is the very formula a run checks. In the
run a variable `part` chosen at the start says which component acts, so their states add up and
do not multiply, and the fairness of each is restated for its part. `MCAccess` extends `MCPricing`.

Operators named `X_Something` before a definition `X` are bugs a maintainer could introduce;
`PROJECT.json` pairs each with the property that finds it. They are used nowhere else.

**WsConnections.** One task per client and the heartbeat. `loop` names the running task, so a
task keeps the event loop until its next real suspension. Because `disconnect`,
`_leave_room_internal`, `send_to_room` and `_send_message_direct` call each other, every task
has a call `stack` of frames (function, point reached, connection, room, what its loop has
still to visit). `conns`, `count`, `userConns`, `rooms`/`roomKeys` are the dictionaries of
`ConnectionManager`, `redis` and `dbRow` the outside copies, `socket`/`client` the two ends of
the transport. A KeyError on a room that vanished unwinds the stack (`Raise`). Sends either
succeed or raise; Starlette's `send_json` is external. Pings are not timed: any registered
connection may be found dead. A uuid4 is used once, so a connection has one life.

**MessageQueue.** One action per Redis command, since every command is an await and workers may
be in other processes. `op[t]` is what a task holds between two commands. `late` and `old` stand
for the two timeouts, `failed` for messages that an operation failed in the middle of. A caller
that gets an `Err` gives the message up.

**QuoteCollab.** One action from await to await for the endpoint tasks, one for the timer tasks
(`AutoRelease`, oldest first: all sleep two seconds) and one for the end of the deduplication
window. The value of an edit is its number. A send reaches the members of the room in the step
that starts it. Look-ups that may raise (`sessions[q] = {}` under a snapshot of the keys) do,
and so may any send: one to a peer that is gone disconnects it, two such disconnects at once raise
KeyError, and a message above 1 MB cannot be built. What an exception ends depends on where it is
caught: an edit is answered and the endpoint serves on (`EditRaises`), a subscribe or unsubscribe
ends the endpoint and starts the cleanup, and in the cleanup nothing after it runs. `raised` is a
history: the owners whose last edit of a field raised, before its timer was created.

**Reconnection.** The reconnection and health tasks, the breaker, and every report the
application can make, in any order and at any time, also after `stop()`.

**ReplicaPool.** Callers between `zadd`, `zrange`, `zrem` and the connection; `queue` is ordered by
the time of the call, which may differ from the order of arrival. `OnSuccess`, `OnFailure`,
`Allows`, `AfterAsking` are the methods of `CircuitBreaker`. An exception of the caller comes back
through the `yield` and counts against the replica, as in the code. Nothing in the repository
imports this class, nor `ReconnectionManager`; they are modelled as the libraries they are.

**DatabasePool.** asyncpg's pool keeps a holder for each connection that there may be and hands out
the one returned last; `free` is that stack, `open` the holders with a live connection (idle ones
close). The warm-up's holders are never given back (`warmed`). A task runs a statement, a read, a
transaction, whose statements take connections of their own, or a call that is tried again.
What a statement does in the database is an outcome.

**ConnectionSlots.** One action per Redis command; the two Lua scripts are one each. A command may
fail and a process may die at any await (`FaultStep`). `lost` counts the slots in the counter that
nobody is going to release; it is what the refinement needs beside the holders. `Semaphore` is the
abstract specification: at most `Size` slots are held or lost. `ImplementsSemaphore` states the
refinement, with the holders read off the program counters.

**RateLimiter.** `check_rate_limit` never awaits, so a request is one step. Times are ages that the
clock increases, which keeps the model finite without a bound on time. `served` is a history of
what the client really got, against which the two deques are judged. `RuleAssumption` is what the
limits need of a configuration: a rule asks for no more than its deque holds, or else the burst
limits, which are of one tracker for all rules, keep it. The proof showed that this must be asked
of the bursts of all rules and not of the rule's own. The real numbers meet it: no burst is above 50, so not above 60; 300 a minute and 5000 an
hour, which the deques of 100 and 2000 cannot count, are above 50 + 60 and 50 + 3600.

**DashboardStreams.** The endpoint of one connection, the heartbeat and up to `MaxStreams` stream
tasks. A stream that cannot send disconnects its own connection, the disconnect cleans up the
streams, and that cancels the stream that is running it. A stream over and out of the table is
used again, so that the bound is on streams at once.

**AuditTrail.** A call of `log_event` per event. The call that fills the batch takes the values of
the list (`batch`), awaits the INSERT, and clears whatever the list has become. `late` are the events
appended during that await, `forgone` those pending when the process ends. A refused row fails the
batch it is in, and the list stays.

**ApiKeys.** Rows and cache entries of the keys of one client; one action per await of validate,
rotate and revoke. Time is in ticks and counts down. `raced` remembers the keys whose entry was
written when they were no longer active.

**DiscountStacking, Surcharges, RatingFactors.** Amounts are integers in fractions of a cent, so
that `quantize` rounds as it does in the code. The stacking loop is a state machine, one step per
discount; the others are functions, whose state is a call and its answer. Only positive base loss
costs are rated (`Bases`), since the code refuses the others.

**MfaChallenges, RecoveryCodes, Biometrics.** Each is read, decided on and written back, with awaits
between: one action per await, two tasks. Whether an answer is right is an outcome. A challenge
counts its minutes down; `Kept` is the minute that every answer, also a wrong one, leaves it.

**RoomPermissions.** Synchronous: a call is a step. The cache of answers may lapse at any time.

**Scopes.** A request is validated and expanded, and what it was granted may then be the token of a
check, which expands it again. The recursion of `add_scope_with_includes` is a stack: `calls` has,
of each call under way, the scopes it has not added yet, and `Adds` visits any of them: a request
is a list in the client's order, and the properties hold in every order of it and of the tables.
A call may be checked at any later time; nothing but the granted scopes connects the two.

**RiskEngine.** The score with its weights, against what each sign should do. The thresholds of
`LevelOf` exclude each other: a chain of `elif` takes the first, a `CASE` any that holds.

## 3. What the runs show

| Run | Instance | Result |
|---|---|---|
| `ws_rooms` | 2 connections of one user, 1 room, heartbeat, symmetric | the inductive invariant of the proofs; recursion is bounded; a connection leaves the registry closed and unindexed; ended endpoints are forgotten |
| `ws_failures` | 1 connection, 2 rooms, stores may raise | a connection whose client is gone is forgotten for good, even when a handler's cleanup or a KeyError skipped its own disconnect |
| `mq_queue` | 2 messages, 2 workers (both interchangeable), 2 priorities of which the messages have the last, cleanup, `MaxRetries` 2, any command may fail | a message that never overstays exists once and is lost only by a failure of its own operation; one worker per message |
| `qc_sessions` | 2 connections, any send may raise; locks: 1 field, 2 edits; cleanups: 2 quotes, 1 edit | a lock without edit or timer is one whose edit raised; every other lock is released; look-ups after an await succeed; a completed cleanup leaves nothing |
| `rc_loop` | manager: 3 attempts, threshold 2, raising callback. Queue: 1 message, 3 workers. Streams: 2 dashboards, 3 streams. Rooms: 2 users, 1 room, 3 profiles | no loss forgotten, FAILED means exhausted, an open breaker is earned, the task ends; the processing list empties whatever workers do; a stream has an owner, and all tasks end; a cached permission is the answer |
| `rp_turns` | replicas: 3 callers, 1 replica, threshold 2. Pool: 2 tasks, 3 holders, 1 warmed, 2 attempts | while nobody gives up turns come round and everybody is served; the breaker opens exactly at the threshold; holders are accounted for, calls end, an exhausted pool opens up |
| `admission` | slots: 2 calls of one client and 1 of another, 1 slot, 1 request per window, failures and deaths. Limiter: 1 client, 3 rules, minute 3, hour 7, deques 4 and 6 | the counter is what is held and lost; a queued request is told before it is taken out, and its call ends; the slots refine the semaphore; minute, hour and burst limits hold for everything served; who asks on is served again |
| `access` | discounts: 3 offers, 3 rates, 2 priorities. Surcharges: 2 drivers, 3 states. Factors: edges of all bands. 1 challenge, 2 lists of 2 codes, 3 templates (2 allowed), requests of up to 3 of the 17 scopes, 1 device with 5 failures | see the paragraph below |
| `trail_keys` | trail: 5 events, one of high risk, one refused, batches of 2, 3 rows per INSERT. Keys: 2 keys, 2 tasks, hour 1, day 2 | an event is lost only if it came late or was pending at the end; twice only if two flushes overlapped or the first failed; a stale cache entry comes only from the race, and is refused in the end |
| `ws_ghost`, `mq_timed_out`, `qc_orphan` | small | violated: see section 6 |

`access` shows of the discounts that the total stays within the maximum but for one exclusive
discount and that the amounts add up (`DiscountsFair`); that discounts that stack compound, so that the order of the offers is free, but
for a unit each that the divisions may round, that the cap on surcharges only caps, and that a
worse driver is not cheaper (`ChargedFairly`); of the factors, that impacts explain the premium,
territories blend, ages agree, better profiles and less cover are not dearer
(`FactorsConsistent`). `SecondFactorsHold`: answers to a challenge count and none outlives its
time; a recovery code is accepted once if no list was written over a newer one; records and list
of the templates agree if no update was torn. `ScopesFit`: a request is granted its closure in
whatever order it is expanded, a check adds nothing to it, and writers may read. `RiskFits`: a
worse sign never lowers the risk level, a login that is familiar in every respect has the lowest,
and the method offered is one the level allows. In two places these properties say what the code
does where a test of the repository says otherwise: `test_discount_stacking_within_limit` wants the
rates of stacked discounts to add up, and `test_assess_risk_trusted_network` wants a familiar login
at MEDIUM. Both are stated, and refuted, as `RatesAdd` and `FamiliarIsMedium` (section 6).

**Why the bounds are enough.** Two connections are what the races over one room and one index
need, and two rooms what a snapshot of room keys needs to be stale; a third of either repeats
them, and the proofs cover any number. Two messages and two workers show overtaking, a retry
shows a message that comes back; three messages add queue order, which no property is about.
Two edits of one field allow an edit that raises after one that left a timer, and one by the other
connection after a release; the proofs cover any number. The part `locks` of `qc_sessions` bounds
what may begin, never what is fair. Three callers make one wait behind another while a third overtakes; so do three calls for one slot.
Two tasks and two holders are the fewest with a connection each that wait for another one. In the
rate limiter the three rules keep the proportions of the real ones: one stricter than the deques,
one at them, one (monitoring) that the deques cannot count, and which only its burst limit keeps.
Three low-risk events over batches of two overlap two flushes and come late; one of high risk and
one that the table refuses meet each of them. Two tasks on one record are what a lost update
takes. The tables of the pure functions are entered at and beside the edges of every band.
`MaxEdits`, `CleanupEdits`, `MaxStreams`, `MaxOffers` and `MaxDrivers` bound what the code does not; `Reconnection`
and `ReplicaPool` count failures up to their threshold, above which the code never looks, and the
counters of the MFA modules stop where they can make no more difference.

**Deadlock** is checked except where the system may stop: in `QuoteCollab` when all edits are made and
all connections are gone; in `admission` when every call has ended, in `trail_keys` when every
event is logged and the process over, in `rc_loop` when `stop()` was called and nobody reports, or
when all streams and their connection have ended; and in `access`, whose functions answer once.

**Fairness.** asyncio's ready queue is first-in first-out: a task whose await has completed runs
again. So the steps of a task are weakly fair, and strongly where another task may hold the
loop between (`WsConnections`). Timers fire and the clock passes (`GetsOld`, `Cools`, `CoolsDown`,
`Tick`, `Deadline`, `Closes` and `Expires` of the pool, the heartbeat finding an absent client dead).
Nothing is assumed of workers of the message queue, of clients, of messages that may never come,
or of new calls: a call of `ConnectionSlots` or a task of `ApiKeys` goes on once it has begun. In
`ReplicaPool` awaits on a connection end, callers give connections back, and a replica answers a
health check now and then; in `Reconnection` the application says sooner or later what came of an
attempt. `ServedAgain` of the rate limiter has its assumption in the formula: the client goes on
asking. `access` has safety properties only, and no fairness.

## 4. What is proved

For every value of the constants that satisfies the named assumptions (finite sets, positive
thresholds, markers that are no members), which TLC evaluates on every run. `[][Next]_vars` is all
that the proofs take of a `Spec`; no fairness is used.

* `WsConnectionsProofs`: `RegistryInvariant` and, from it, `TypeCorrect`, `CountCorrect`,
  `UserIndexCorrect`, `ForgottenClosed`. The counter and the index are not inductive alone: that
  the index stays right rests on `FrameOK`, which says of every frame on every stack that a
  disconnect past its check has met its connection registered, and that one past the user index
  has it out of there, and on `NewUnregistered`, since nobody puts a connection back.
  `TypeCorrect` includes that the counter never becomes negative, which needs the count.
  `RecursionBounded` (for a finite set of rooms): the frames of a stack are of disconnects of
  connections already lost and of leaves of rooms already left, each once, so a stack that grows
  uses up connections and rooms (`DepthInv`). `EndedForgotten`: an endpoint that is closing is
  unregistered or has a disconnect of its own on its stack (`EndInv`).
* `MessageQueueProofs`: `QueueInvariant`, `PromptMessagesOnce`, `OneWorkerAtATime`. For each message the
  invariant adds the lists it is in and the hands it is in (`Copies`), says what the cleanup may
  hold (never a prompt message), that a retry count below its bound goes with every live entry,
  and that an entry listed as processing is there for the worker who means to remove it.
* `QuoteCollabProofs`: `CollabInvariant` and, from it, `CollabTypes`, `OrphansAreOfExceptions`,
  `SubscribeFindsSession`, `CleanupIsComplete`. The strengthening says what a cleanup under way
  has already undone and what is still on its lists, which is what makes the last step complete.
  An orphan is blamed on its owner's last edit, which needs that a timer that fires releases only
  its own owner's lock and that every edit that ends otherwise has created one.
* `RealtimeProofs`. Manager: `ManagerKeeps`, `NothingForgotten`; `NotForgotten`, `FailedIsExhausted` and
  `OpenIsEarned` are inductive together with the types (`Kept`). Streams: `StreamsOwned`, from where
  the endpoint stands in its life and what it has emptied by then (`EndpointInv`). Rooms:
  `FreshAnswers`; freshness is inductive, and the proof is of which cached keys each change clears.
* `DatabaseProofs`. Breakers: `BreakersSound`, `OpenCounts`, and `OpenStaysOpen`, which proves why `HealthyIsUsed` is refuted. A half open breaker has the
  failures of an open one, so `OpenMeansFailed` needs that none is ever half open, which follows
  from the routing and not from the breaker. Turns: `TurnsSound`, `HeadAlive`: who waits is in the
  queue once, and who is there waits or has given up. `TypesSound`. Main pool:
  `HoldersAreAccounted`; each holder is free, kept by the warm-up, or with one task for one purpose
  (`HoldersInv`, `CallsInv`), and the counter is below the cardinality of what is counted (`CountInv`).
* `AdmissionProofs`. Slots: `SlotsInvariant`, `SlotTypes`, `SlotsAccounted`, and the refinement
  `SlotsAreSemaphore`. `Accounted` counts a set that the program counters define, so the proof first
  says which steps add a holder or take one away, and then that each step is one of the
  semaphore's or a stutter of it. `ToldFirst`: a call past the wait has been told (`RemovesTold`).
  Limiter: `LimitsKept`. Each deque follows the end of the history up to its length (`Followed`), so
  that a limit at or below the length is counted exactly; a limit beyond the length is kept because
  bursts space the history (`Paced`).
* `SecurityProofs`. Trail: `TrailTyped`, `NothingElseIsLost`, `NothingElseIsTwice`, `FullIsFlushed`. The
  invariant ties the list, the batches in flight and the rows together: an event stored twice was
  in two batches, what was answered is out of the list for good (`ClosedOK`), so that no later flush
  takes it, and one in no list was in a batch that is written, late, or forgone. Keys:
  `EntriesAreOwed`, with the lives of entries and what each await has already revoked. Second
  factors: `ChallengesHold` (what a verification has read and what was told add up),
  `CodesAreSpentOnce` (a spent code is out of every list but a blurred one), `TemplatesHold` (what a
  call under way has added or taken is what record and list differ by), `SecondFactorsTogether`.
  Risk: `RisksAreOrdered`; the score is a weighted sum, and each threshold is crossed upwards.
  Scopes: `ScopesDoFit`, `GrantsAreLeast`. What is expanded together with what the calls under way
  have left (`Reached`) has what was asked for, includes what is expanded, and lies in every closed
  set that has the request (`ScopesInv`); at the end nothing is left, so `Reached` is the answer,
  and a closed argument is its own closure.
* `PricingProofs`. `StackingKeeps`, `TotalIsBounded`, `NeverMoreThanThePremium`: the premium that remains
  and what was deducted cover the base, also after an exclusive discount has replaced the others
  without restoring what remains. `ListedAddUp`, `DiscountsAreFair`: each line is off by half a cent at
  most. `OrderOfDiscountsIsFree`: the discounts taken so far have left the product of their
  complements, but for a unit each (`Kept`, `Within`), and a product over a set of positions does
  not depend on the order in which they are taken out of it. `FactorsAreConsistent`: all six rating
  functions, for any premiums, tables and profiles. `SurchargesAreFair`: the cap scales each line by
  a ratio below one, so prefix by prefix the capped sum lies between the exact share and a unit
  less per line (`Shrunk`); each band grows with the record, list by list (`Less`), a fee is listed
  when it was, and a scaled sum falls short of the limit by a cent a line at most, so that crossing
  the cap costs no more than that. `ChargesAreFair` puts both together.
  A fold is reasoned about by what it is on the first n positions, with an induction made by
  hand from the least counterexample, since the library's induction takes an operator.

Proving changed the model in six places. `RuleAssumption` of the limiter was too weak: the
deques are shared by all rules. The guards of `LevelOf` overlapped. The bound that `TerritoryBlends`
stated was one too wide, and needed positive base losses. The limiter's clean-up pops from the
left while the first is old (`Popped`), as `popleft` does, where the model had selected by age.
`OrderIsFree` was exact, which holds of the units of the run and not of every unit: it now allows a
unit for each division. And `Scopes` computed its answer by a RECURSIVE operator, of which nothing
can be proved: it now takes the steps of the recursion, in any order of the lists.

Only model-checked: every liveness property (TLAPS does not do them): `GoneIsForgotten`,
`LocksAreReleased`, `LoopEnds`, `ProcessingDrains`, `AllEnd`, `GetsThrough`, `PoolRecovers`, `RefusedInTheEnd`,
`QueuedCallEnds`, `ServedAgain`. Every invariant that a passing run checks is proved, and so are
the action properties and the refinement of the semaphore.

## 5. What the properties are about

Each property is stated above its definition. The ones a reviewer should look at first:
`UserIndexRegistered` and `EndedIsForgotten` (any number of tasks disconnecting one connection),
`GoneIsForgotten` (the heartbeat as a safety net), `PromptOnce` and `ProcessingDrains` (the cleanup
racing workers), `OrphanedByException` and `GoneLeavesNothing` (exceptions and
cleanup across awaits), `NotForgotten` (in
`Kept`), `GetsThrough`, `CallsEnd` (in `PoolRecovers`: two transactions that hold all connections and
want another end only by their timeouts), `ImplementsSemaphore`, `QueuedCallEnds`, `LimitsRespected`,
`Owned` and `AllEnd` (a stream cancelled by its own disconnect), `LostOnlyIfLate` and
`TwiceOnlyIfShared`, `StaleOnlyIfRaced` and `RefusedInTheEnd`, `CodesOnce`, `AnswersCount`,
`OrderIsFree`, `WorseIsNotCheaper`, `ExpandIsClosure`.

## 6. What the code says and does not do

Stated as a property and refuted by TLC; three are runs, the others can be asked by naming the
property in a copy of the given configuration.

| Property | Says (source) | Ask with | What happens |
|---|---|---|---|
| `NoGhostMembers` | "Remove from all rooms and notify room members" (manager `disconnect`) | run `ws_ghost` | a subscribe during the awaited close leaves a disconnected member |
| `LimitRespected` | "System cannot accept new connections until existing ones disconnect" (`connect`) | `WsRooms.cfg`, `MaxConnections = 1` | overlapping handshakes all pass the check before `accept()` |
| `UserIndexComplete` | "Send a message to all connections of a user" (`send_to_user`) | `WsFailures.cfg`, `StoresFail = FALSE` | KeyError on a vanished room aborts a disconnect half way |
| `NoNestedDisconnect` | "skip notification to prevent recursion" (`_send_message_direct`) | `WsRooms.cfg` | a leave notification reaches the connection itself, which joined again |
| `MirrorAgrees` | "Store subscription in cache for distributed systems" (`subscribe_to_room`) | `WsFailures.cfg`, `StoresFail = FALSE` | `sadd` and `srem` of two tasks arrive in the other order |
| `TimedOutIsKept` | "Remove from processing queue and reject" (`_cleanup_loop`) | run `mq_timed_out` | the entry is removed before `reject` looks for it: the message is lost, without any command failing |
| `LockHasTimer` | "Release lock after short delay (allows for rapid edits)" (`handle_collaborative_edit`) | run `qc_orphan` | an edit that raises before the timer is created, as one above 1 MB does, leaves the lock |
| `OnlyOverdueTaken` | "Check if message has been processing too long" (`_cleanup_loop`) | `MqQueue.cfg` | decided on a snapshot; `reject` takes a later retry of the same id |
| `OneEditor` | "is currently being edited by another user" (`handle_collaborative_edit`) | `QcOrphan.cfg`, `MaxEdits = 3` | the timer of an old edit releases the lock of a new one |
| `OnlyOwnLocks` | "Release all field locks held by this connection" (`cleanup_connection`) | `QcOrphan.cfg` with two fields, `MaxEdits = 3` | a lock taken over meanwhile is deleted |
| `NoGhostEditors` | "Remove from all active sessions" (`cleanup_connection`) | `QcOrphan.cfg` | what raises cuts the cleanup short: a send, or (three quotes, no field) a session that emptied during an await |
| `EditReachesRoom` | "Skip duplicate update" (`broadcast_quote_update`) | `QcOrphan.cfg`, `MaxEdits = 2` | a different value within 500 ms is dropped as a duplicate |
| `OpenIsProbed` | "Check if we can try half-open" (`should_attempt_reconnection`) | `RcLoop.cfg` | the task that would ask has ended, and no call starts another |
| `AttemptsGoOn` | "If we've exhausted all attempts, mark as failed" (`_reconnection_loop`) | `RcLoop.cfg` | the loop sets RECONNECTING and asks for DISCONNECTED: one attempt |
| `HealthyIsUsed` | "Reset circuit breaker if needed" (`_health_check_loop`) | `RpTurns.cfg`; `OpenStaysOpen` proves why | an open breaker is never asked and never closed: the recovery timeout and HALF_OPEN ("Testing recovery") have no effect |
| `TurnsComeRound` | "Dequeue when ready (O(1) operation)" (`acquire_connection`) | `RpTurns.cfg` | a caller that times out stays at the head of the queue |
| `ExhaustedIsInUse` | "Connection pool exhausted: {pool_size} connections in use" (`core/database.py`) | `RpTurns.cfg`, as `Pool!...` | judged by what is open: an idle pool counts as exhausted until its connections close |
| `WarmedAreReleased` | "Release all warmed connections back to pool" (`core/database.py`) | `RpTurns.cfg`, as `Pool!...` | the warm-up's connections are not released |
| `AutomaticRelease` | "Automatic release" (`managed_connection`) | `Admission.cfg` | a slot is lost without any failure |
| `RemovedIsWoken` | "Publish to waiting client" (`core/redis_connection_manager.py`) | `Admission.cfg` | a request leaves the queue with nothing to wake its call |
| `EndsOnlyIfFailed` | "Connection failed, stop streaming" (`handlers/analytics.py`) | `RcLoop.cfg`, as `Streams!...` | the rate limit ends a stream too |
| `RowIsClosed` | "Remove from database" (`disconnect`) | `RcLoop.cfg`, as `Streams!...` | the stream that was about to close the row is cancelled |
| `PendingIsStored` | "Flush all pending events to database." (`compliance/audit_logger.py`) | `TrailAndKeys.cfg` | events appended during the INSERT are cleared with the rest |
| `WithinStateMaximum` | no surcharge above the state's maximum (the table of caps and a test of it) | `Access.cfg`, as `Charges!...` | filing fees go on top of the cap |
| `RatesAdd` | "30% total" of 10, 15 and 5 percent, 300.00 of 1000.00 (`tests/unit/test_rating_calculator.py`, `test_discount_stacking_within_limit`) | `Access.cfg` | each rate is taken of what the others left ("Apply to remaining premium"): 273.25 |
| `FamiliarIsMedium` | MEDIUM, for "Only risk factor should be no_mfa (0.3)" (`tests/unit/test_mfa.py`, `test_assess_risk_trusted_network`) | `Access.cfg`, as `Risk!...` | `_update_risk_factors` drops `no_mfa`: LOW; and 0.3 is below the 0.4 of MEDIUM |

A property of an instance is asked by a definition `X == Streams!X` in a copy of the MC module.

## 7. Plan

Done, the most important behaviour first: the registry, the message queue, the collaboration, the
reconnection manager, the replica pool and the rate limiter; then the connection slots with their
semaphore, the database pool, the dashboard streams, the audit trail, the API keys, the rating
arithmetic, the second factors, the room permissions, the scopes and the risk engine.

Modelling left: of the calculators the driver and vehicle risk scores, trends and the weather
tables; the registry's broadcast and shutdown.

## 8. Not modelled, and why

Before a service was modelled, its statements were compared with the migrations and its values with
the data classes they are put into. Where an operation fails before the interesting states, a
model of what it would do on another schema would not be a model of this program; the hazards of
its control flow are then listed in `PROJECT.json`, without properties.

* **Transport and libraries**: Starlette, asyncpg, Redis and uvicorn appear as the outcomes the
  code can see.
* **Registry**: `broadcast`, server shutdown, the health and scaler tasks; token buckets and
  backpressure appear as a choice whether a message is sent. **Delivery**: `send_json` uses the
  json module, which cannot encode the datetimes in the buffered messages; and no caller sends
  with critical priority. **Monitoring** decides nothing.
* **Notification and admin handlers**: a notification calls `UUID()` without an argument; the admin
  handler is declared to take models and is called with dicts, and reads a column `admin_users` lacks.
* **Quote service**: `create_quote` names columns that `alembic/versions/002*` does not create,
  statuses are upper case where `ck_quotes_status` wants lower case, `converted_to_policy_id` refers to
  policies that are never inserted, and a cached quote has computed fields that its model forbids.
* **Quote wizard**: its constructor gives the steps validations that their model forbids.
* **Customers, policies, claims**: the e-mail validator insists on an `EmailStr` and is given a
  str, so no customer can be built; statuses are upper case where migration 001 allows lower case.
* **Rating engines, rules, rate tables**: one engine passes a field `SurchargeList` does not have, the
  other assigns to a frozen model; the rules of states and business iterate over a model as over
  a dict; `RateTableService` reads columns migration 010 does not create. **Rating caches**: the
  serialiser is declared to take the result class and is given dicts. Of the **calculators**, the
  risk scores, the external scorer, the statistical models, trends and weather tables are left.
* **OAuth2 server**: `_generate_tokens` always raises, and the columns differ from migration 009.
  **SSO**: login flows the providers decide; provisioning makes a `UUID` of a `UUID`, which raises.
* **MFA**: no caller learns the id that the SMS `verify_code` asks for; the HTTP API passes a string
  where the manager is declared to take a UUID, so the modules model the classes as a library.
  The options of a WebAuthn registration always end in an `Err` (the library's parameters are models
  where `WebAuthnRegistrationOptions` declares dicts), and a trusted device is one entry, set and read.
  Signs of risk that `_update_risk_factors` drops (`no_mfa`, `new_country` and others) are not in
  `RiskEngine`, for they reach no decision; a test expects of `no_mfa` that it does
  (`FamiliarIsMedium`, section 6).
* **Administration**: the tables of pricing overrides are in no migration; the rest is a statement
  or two per operation. **Compliance controls** return mostly fixed findings.
* **Caches, optimizers, performance monitors**: one Redis call each, or measurements. **Schemas,
  models, API handlers, configuration**: validation of single values and wiring. The SQL functions
  in the migrations have no callers in `src/`.

Modelled although little calls them: `ReconnectionManager`, the replica pool and
`RoomPermissionManager` have no caller, `managed_connection` only its usage example, and no migration
creates `api_keys`, whose columns are taken from the statements. They are modelled as libraries.

What was met on the way and is not a property, because the code does it by design or by one
assignment: a scope expansion may exceed the client's own scopes (`quote:convert` brings
`policy:write`); roles compare as strings; the `expires_at` of room grants and challenges is never
read; a ZIP that starts with 7 never gets hail though the comment names Texas; `rotate` ignores
what became of the revocation.
