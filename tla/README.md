# Vehicle Triggers API: a verification project

TLA+ models, model-checking runs and machine-checked proofs for
`vehicle-triggers-api`: the service that lets developers register webhooks on
vehicle signals and events, and calls them when a message from Kafka meets a
webhook's condition. Paths below are relative to the repository.

## 1. The system

| Part | Code | State it keeps | Operations |
|---|---|---|---|
| Triggers repository | `internal/services/triggersrepo` | Postgres: `triggers`, `vehicle_subscriptions`, `trigger_logs`; row locks held by two transactions, the counting of a failure (`SELECT ... FOR UPDATE`) and a deletion | create, update, soft-delete; subscribe, unsubscribe; count and reset failures; log a delivery; read the last log |
| Webhook and subscription API | `internal/controllers/webhook` | local variables of a handler between its statements | register, update, delete; subscribe and unsubscribe one, a list, all |
| Webhook cache | `internal/services/webhookcache` | the map `webhooks`, the flag `schedule`, the goroutines asleep or rebuilding | `ScheduleRefresh`, `PopulateCache`, `GetWebhooks` |
| Metric listener, loop | `metriclistener.processMessage`, `internal/kafka`, `RunConsumer` | a semaphore, the goroutines in flight; the broker's committed offsets | receive, acquire, process, acknowledge, release, drain |
| Metric listener, webhooks | `metriclistener` (`signal.go`, `events.go`, `handleTriggeredWebhook`) | one goroutine per webhook of a message | evaluate, send, report, log, unsubscribe on a missing permission |
| Trigger evaluator | `internal/services/triggerevaluator` | none of its own: reads the log and the clock | permission, cooldown, previous value, condition |
| Webhook sender | `internal/services/webhooksender` | none | one POST with a 30-second timeout |
| Token exchange client and cache | `internal/clients/tokenexchange` | permission answers, kept for minutes | `HasVehiclePermissions` |
| Request validation, CEL conditions, signal definitions | `webhook/validation.go`, `internal/celcondition`, `internal/signals` | none; one shared slice of default permissions | validate, compile and try a condition, evaluate it |
| Identity client, auth, configuration | | none that changes | |
| Process | `cmd/vehicle-triggers-api`, `internal/app` | an errgroup of servers and consumers, a five-minute ticker | start, cancel, shut down, restart |

How they interact. API handlers change the tables and nudge the cache of their
own process. The cache sleeps five seconds, then rebuilds the map of enabled,
subscribed webhooks from the tables. The listener looks a message's vehicle up
in the map, evaluates each webhook from the cached copy of its row and from the
log, calls the target, and reports the outcome to the row itself: a failure
raises `failure_count` and at the threshold makes the webhook `failed` (the
circuit breaker), a success resets it. A missing permission makes the listener
delete the subscription and nudge the cache. Several replicas share the database
and the Kafka consumer group and nothing else.

What is hard. Rows are read in one statement and written in another; the
listener decides from copies that may be minutes old; nudges are debounced and
run with whoever's context came first; rebuilds read with many queries and
overlap; messages are delivered again after a crash or a rebalance; the
cooldown is checked long before the row it depends on is written; the webhooks
of one message share what they write; permission answers are cached on one side
and asked for directly on the other; a condition is accepted on made-up values
and evaluated on real ones; the parts of the process end in any order.
`PROJECT.json` lists every such hazard at its line, with the properties that
watch it.

What makes each part correct:

* repository and API: the breaker trips in time and loses no failure; what a
  developer has chosen is overridden by the breaker alone; a deleted webhook stays
  deleted, and its deletion takes the subscriptions it finds; locks are given
  back;
* cache: no nudge is lost, a rebuild shows the store, the map converges to it;
* loop: bounded in flight, drained before it returns, no offset committed past
  an unhandled message, messages of a partition in order, shutdown ends;
* evaluation and delivery: deliveries and calls a cooldown apart, a previous
  value that is not stale;
* permissions: nothing done on an answer older than the cache may make it, a
  revoked vehicle unsubscribed in the end, the list of permissions kept whole;
* registration: a stored row is one a single request could have asked for, an
  update changes what it names, an accepted condition can be evaluated;
* process: nothing served from an empty cache, consumers drained before their
  subscribers close, an end for every cancellation, an honest exit status.

## 2. The modules

| Module | Models | With |
|---|---|---|
| `TriggerStore` | the two tables and the repository's operations on them | |
| `WebhookApi` | the HTTP handlers | extends `TriggerStore` |
| `TriggerLifecycle` | deliveries and their reports, the cache as an atomic copy, restarts | extends `WebhookApi` |
| `CircuitBreaker` | abstract: status and failure count, every operation one step; `RacySpec` is what remains of it when calls overlap | refined by `TriggerLifecycle` |
| `WebhookCache` | debounce, rebuild, swap, contexts, failures | stands alone, with its own small store |
| `Dispatcher` | the message loop, its goroutines, the broker as the code uses it | stands alone |
| `AtLeastOnce` | abstract: what the consumer of a topic promises | refined by `Dispatcher` |
| `Delivery` | evaluation and delivery of one vehicle's messages about one metric | stands alone |
| `PermissionCache` | the token exchange and its cache, the listener's and the API's use of them | stands alone |
| `PermissionSort` | the in-place sort of the shared permission list | stands alone |
| `Conditions` | the types of CEL conditions: compiled, tried, evaluated | |
| `Registration` | validation, and the columns of concurrent updates | extends `Conditions` |
| `Process` | startup, the errgroup, cancellation, shutdown, exit status | stands alone |
| `MCTriggerLifecycle`, `MCDelivery`, `MCPermissionSort`, `MCRegistration` | values for TLC, and the symmetry it may use where only safety is checked | |
| `...Proofs` | the theorems | extend the module they are about |

Operators named `X_something` above a definition `X` are mutants of it: `X` with
a plausible bug. They are used only to show that each property can fail.

### TriggerStore, WebhookApi, TriggerLifecycle

`status`, `failures` and `subs` are the columns. Two transactions of the code
hold a row between statements, and `lock` says which: the increment of a failure
count, by `SELECT ... FOR UPDATE`, and `DeleteTrigger`, by the `UPDATE` it begins
with. The deletion is modelled by its statements, `BeginDelete`, `DeleteRelated`
and `CommitDelete`: at READ COMMITTED nobody sees the new status or misses the
subscriptions (`doomed`) before the commit. Other statements are atomic. An
`UPDATE` of a locked row waits. The insert of a subscription locks the trigger's
row `FOR KEY SHARE` for its foreign key: it waits for a `FOR UPDATE` lock and not
for a deletion, whose `UPDATE` changes no key. `UpdateTrigger` overwrites the row
by id whatever it has become, as the SQL does. The statements are operators of
their own (`InsertTrigger`, `SetTrigger`, `InsertSubscription`,
`DeleteSubscriptions`: the methods of the generated models the service calls),
and the repository's operations are made of them. The developer's own columns
are told apart in `Registration`. `early`, `chosen` and `counted` are history
variables: the subscriptions a deletion found when it began, the status the
developer gave last, and the failures counted since.

A call of `Calls` is a handler between two of its statements: `UpdateRead` and
`UpdateWrite` are the two halves of `UpdateWebhook`; `DeleteCheck`, `DeleteRead`,
`SoftDelete`, `DeleteSubs` and `DeleteCommit` are the two lookups and the
transaction of `DeleteWebhook`; the subscription handlers check the
owner, then the permissions of all vehicles, then write vehicle by vehicle. The
single-vehicle handlers are lists of one. The identity API answers a
subscribe-all with any set of vehicles, or an error (it is asked for the first
hundred only, so a larger fleet is subscribed in part). A call whose owner check
fails changes nothing and is no step.

A worker is `handleTriggeredWebhook` for one webhook: `Attempt` decides from the
cached row (`ShouldAttemptWebhook`), the send ends in one of three ways, and the
report is `ResetTriggerFailureCount` (one statement) or `IncrementRead` and
`IncrementCommit` (a transaction). `Restart` takes calls and workers with it and
rolls back their transactions. The cache is a copy replaced as a whole; `skipped`
are the triggers whose own fetch failed. `pending` is the scheduled refresh by
the context it was given, `lasting` (an API call's, the ticker's) or `passing` (that
of a message's errgroup); a nudge that finds one scheduled is dropped.

### WebhookCache

`ScheduleRefresh` is the compare-and-swap that starts a goroutine; `WakeUp`,
`ClearSchedule`, `LoadSubscriptions`, `FetchTrigger`/`SkipTrigger` and `Install`
are that goroutine's steps, one per shared access. `ctx` is the context it
carries: that of the API or the ticker lives on, that of a message's errgroup is
cancelled by `GroupEnds`. `outdated` and `unread` are history variables for the
properties. `CACHE_BUILD_WORKERS` fetch in parallel, so triggers are fetched in
any order. The false branch of the flag test after the sleep is not an action:
`ScheduleHasOneOwner` proves it is never taken.

### Dispatcher

`stage` is the program counter of `processMessage` inside `Start` inside
`RunConsumer`; `work` those of the message goroutines. `Commit`, `CloseChannel`
and `Rebalance` model the client library and the broker, which are outside the
repository, as the code relies on them: one unacknowledged message per
partition, an offset committed on acknowledgement, redelivery from the
committed offset after a restart or a rebalance, and a channel closed once its
context is done. `attempts` is a history variable: how often the message after
the committed offset has been handed to a processor.

### Delivery

A message is its number, and a log row's snapshot is the number of the message
that fired. `Evaluate` is `EvaluateSignalTrigger` or, when `service` says that the
metric is the name of an event, `EvaluateEventTrigger`, statement by statement:
an event's previous value comes from the row its cooldown is read from, a
signal's from the newest row of any webhook on the metric. `Deliver` is the rest.
`calls` is a history variable: the calls made, by which goroutine, and when; the
`lane` of a log row, the goroutine that wrote it, is history too. Time is a
counter; writing a log row advances it, since log times are distinct down to the
microsecond. A `Lane` is a goroutine with messages of the
vehicle: one lane is the rule within a session (`Dispatcher!OneLiveDelivery`),
two are what a rebalance or a producer that does not key by vehicle gives. The
webhooks of a message run side by side on either. A condition holds or not,
freely. The unsubscribing on a missing permission is in `TriggerLifecycle`,
`WebhookCache` and `PermissionCache`.

### PermissionCache, PermissionSort

One developer and one list of permissions; every key of the cache goes through
the same steps. `granted` is what the token exchange would answer, `since` a
history of when it last would have answered either way. A listener's goroutine
finds an entry or asks, receives, stores and decides in separate steps, so
answers overtake each other on their way into the cache; an API call asks the
token exchange itself. Time is counted in ticks since something happened and
the counts stop at a cap, so the model has no last tick. `Latency` bounds how
long a step after an answer may take: without a bound an answer may be of any
age when it is acted on.

`PermissionSort` is `slices.Sort` of a short slice (an insertion sort) run by two
goroutines on the slice both were handed, `signals.DefaultPermissions`, one load
or store of an element at a time. A string is two words; the torn values the
memory model allows besides are left out.

### Conditions, Registration

A condition is `var op literal`, with a factor or `geoDistance` around the
variable, or the bare variable, guarded or not, and a literal is its type.
`signalEnv` and `eventEnv` are the declared types, `Compile` the overloads
(`geoDistance` is known to the signals' environment only),
`PrepareSignalCondition` and `PrepareEventCondition` the trial run on made-up
values (every number an int), `EvaluateFails` a message on which the evaluation
is an error (numbers are doubles, durations unsigned, the variables of the wrong
value type unbound).

`Registration` is one row with all the columns a request may change.
`RegisterWebhook` validates and verifies the target; `UpdateRead` and `UpdateWrite`
are `UpdateWebhook` before and after its write, with `copy` the row in the
handler's hands. The
reports of deliveries (`IncrementTriggerFailureCount`, `ResetTriggerFailureCount`)
change its status, to `failed` and back, beside them. `overtaken` is a history
variable: another write came between.
An update does not verify a changed target again.

### Process

`main` is where `main` stands; each server is a listening and a shutdown
goroutine, each consumer the goroutine of `RunConsumer`, all in one errgroup: a
signal or the first error cancels them. The loop of a consumer is reduced to the
number of its messages in flight (`Dispatcher` has the rest); it leaves when it
sees the context, with an error, or the closed channel, without. The shutdown of
either server may return an error. `orphan` is a
history variable: fasthttp does not remember a shutdown that comes before it
listens, so an API told to end during startup listens for ever.

## 3. The runs

Passing:

| Run | Checks | Shows |
|---|---|---|
| `lifecycle` | `TypeOK`, `CountBelowThreshold`, `NoFailureLost`, `RefinesBreaker`, `LocksAreReleased`, `TrippedBreakerIsSeen` | with one API call at a time the life of a webhook is that of the abstract breaker, no failure is lost, no lock is kept, and an open breaker reaches the listener once permissions stop going missing |
| `calls_overlap` | `NoEarlyOrphan`, `OnlyTrippingOverrides` | two API calls against each other and against two deliveries: a deletion takes every subscription that was there when it began, and the developer's choice of a status stands until as many failures as the threshold have been counted since |
| `cache` | `TypeOK`, `ScheduleHasOneOwner`, `NudgeIsServed`, `QuietRebuildIsExact`, `CacheConverges` | with a vehicle whose permission goes missing, and the cancelled contexts that brings: the debouncing loses no nudge, an undisturbed rebuild is exact, and once no permission is denied any more overlapping rebuilds end with the store's contents |
| `dispatch` | `TypeOK`, `InFlightBounded`, `ReturnsDrained`, `OneLiveDelivery`, `NoPartitionForgotten`, `RepeatsBounded`, `ShutdownEnds`, `EverythingCommitted`, `RefinesAtLeastOnce` | the loop's bound, drain, order and offsets; no partition is left blocked, and only disruptions repeat a message; shutdown ends and messages get through |
| `delivery_serial` | `TypeOK`, `LogsSpaced`, `CallsRespectCooldown`, `PreviousIsNotStale` | cooldown and previous value with one goroutine per vehicle, for signals and events |
| `permission_cache` | `TypeOK`, `ActsOnRecentAnswer`, `SettledDecisionHolds`, `RevokedIsUnsubscribed` | how old an answer may be that something is done on, that a settled decision is not undone by an older answer, and that a revocation arrives |
| `registration` | `TypeOK`, `StoredRowsAreValid`, `EvaluatesUnlessUnforeseen`, `OnlyProvidedChanges` | what may end up in a row, and what an accepted condition may still fail on |
| `process` | `TypeOK`, `ServesPopulated`, `DrainedBeforeClosed`, `UnaskedExitIsFailure`, `CancelledIsNotStuck`, `CancelledEnds` | startup and shutdown in every order of failures |

Some definitions are proved and not run, because a run of theirs would repeat
another: `DeletedIsFinal` with one call follows from `RefinesBreaker`,
`CommittedWasHandled` and `HandledInOrder` are what `AtLeastOnce` says of offsets and
order, `LockedCopyIsCurrent` is what `NoFailureLost` rests on, and
`RefinesRacyBreaker` and `OnlyUpdatesRevive` say what is left of `RefinesBreaker` and
`DeletedIsFinal` when calls overlap.

Where the code and what the repository says of it part (each run finds the one
property violated; the quotations are in `PROJECT.json`, `findings`):

| Run | Property | What happens |
|---|---|---|
| `deleted_webhook_returns` | `DeletedIsFinal` | two calls: an update that read the row before a delete writes it back |
| `updated_webhook_stuck` | `UpdatedWebhookRecovers` | a failed webhook that is updated without a status never recovers |
| `doomed_refresh` | `NudgeIsServedAlive` | the listener's nudge, and those debounced into it, run with a cancelled context |
| `permissions_lost` | `PermissionsKept` | two sorts of the shared list lose a permission and keep another twice |

The passing runs fix a constant that the violations change, and so say what
holds under which condition:

* `Calls = {c1}` in `lifecycle`. `CountBelowThreshold` and `NoFailureLost` do not
  need it (section 4 proves them for any `Calls`); `RefinesBreaker` does, as
  `deleted_webhook_returns` shows. What is left of it and of `DeletedIsFinal` with
  any number of calls is stated by `RefinesRacyBreaker` and `OnlyUpdatesRevive`,
  which are proved: the row changes as the breaker says but for the one write
  of a stale copy, and only that write brings a deleted webhook back.
* `NoEarlyOrphan` speaks of the subscriptions that are there when the deletion
  begins. Later ones may survive it: a subscription inserted between its
  `DELETE` and its `COMMIT`, or after it by a call that had passed its owner check,
  stays in the table, because the soft-deleted row is still one to its foreign
  key. The cache skips it (`triggersrepo.go` joins on rows not deleted), so it has
  no effect unless an update brings the webhook back.
* `OnlyTrippingOverrides` ends at the threshold on purpose. A developer disables a
  webhook; deliveries begun before may still report. Fewer failures than the
  threshold change its count only; as many make the disabled webhook `failed`
  (`triggersrepo.go:718`), and a success after them makes it `enabled`
  (`triggersrepo.go:697`). The repository does not say whether that is meant.
* `CacheConverges` and `TrippedBreakerIsSeen` begin when permissions stop going
  missing (`<>[]` of no such step). While they go on, refreshes with a cancelled
  context may follow each other for ever, ticks debounced into them, and a
  context cancelled between the subscriptions and the triggers makes every
  trigger fetch fail, and installs the empty map. `QuietRebuildIsExact` speaks of
  rebuilds whose context is not cancelled, beside others whose context is.
* `Lanes = {l1}` in `delivery_serial`: with two lanes both pass the cooldown
  check before either logs, and `LogsSpaced` fails. How far it can fail is
  proved for any number of lanes: `LaneRespectsCooldown` and `BurstBounded`, one
  logged delivery of a webhook for each lane within a cooldown.
* `ActsOnRecentAnswer` does not say that a fresh answer wins. Within `MaxAge` of a
  grant a cached denial still unsubscribes a vehicle the API has just
  subscribed.
* `EvaluatesUnlessUnforeseen` names what the trial run cannot see, and each of the
  three does fail on messages: arithmetic (`durationNs / 1000000 < 500`, in the
  readme's style, is an int in the trial and unsigned on a message), what is
  behind a guard the made-up values do not pass, and `value` of a signal the
  schema does not know.
* `OnlyProvidedChanges` excepts updates another write has overtaken, an update or
  the report of a delivery: those revert the columns the other changed.
* `CancelledEnds` excepts `orphan`, and the assumptions below.

What holds by design and surprises all the same: a list call one vehicle of
which failed has changed subscriptions and does not nudge the cache
(`vehicle_subscription_controller.go:440`), so the change waits for the ticker; a
refused call is not logged and starts no cooldown, so calls to a failing target
repeat with every message until the breaker opens; a sibling webhook that fires
first for the same message logs the message itself, which is then the previous
value the other sees.

### Bounds, and why they are enough

* Lifecycle: one webhook, since no operation touches two (`Triggers` is a set in
  the proofs); two deliveries, the least that can race for a lock; a threshold of
  2, so that below, at and above it all occur; `FailureCap`, one above the
  threshold, only stops new deliveries for a row already above it. One call in
  `lifecycle`, where liveness forbids symmetry; two in `calls_overlap`, the least
  for a deletion to meet an insert, an update or another deletion, with the two
  deliveries that can count up to the threshold beside them.
* Cache: two refresh goroutines, since the schedule flag allows one asleep while
  another rebuilds; two triggers, for a rebuild to see one before and one after a
  write, with one enabled configuration each, since a row that is off differs
  from it already; the one vehicle is the denied one; two writes and one
  database error (`MaxWrites`, `MaxFaults`), so that a rebuild can be overtaken by
  one change and the next by another. `Refreshers` is a real restriction of the
  model: a nudge waits while both are busy.
* Dispatcher: two partitions, two messages each, two disruptions of any kind
  (shutdown, crash, failed subscription, rebalance), two slots; three goroutine
  names, one more than the slots, so that exceeding the limit is possible.
* Delivery: two webhooks, three messages, one redelivery, a clock of 5 and a
  cooldown of 2: time for a cooldown to pass twice.
* Permissions: one vehicle, since a key has its own entry; two goroutines, for
  one answer to overtake another; an expiration of 2 and a latency of 1, so that
  an entry is hit when fresh, when old, and missed. The sort: two goroutines and
  the two default permissions in the order of the source.
* Registration: two updates, of which one overtakes the other; a condition over
  one variable of each declared and bound type, in every combination with the
  kinds of metrics; an update brings one column (`MaxColumns`), and a condition
  that is good for signals or for events. Two columns at once add no step. The
  reports of deliveries come at any time, and set any status they can set.
* Process: both consumers, a limit of 2.
* Deadlock is checked in the lifecycle, cache and permission runs. Dispatcher and
  Delivery have finitely many messages and a bounded clock, a deleted row is the
  end of `Registration`, and a process exits, so they do stop.

### Fairness, and why the code justifies it

* Goroutines that can take a step take it (WF): Go's scheduler. A send ends by
  its 30-second client timeout. The queries and the permission check of a
  processor have no deadline but the end of the process: that they return is an
  assumption on Postgres and the token exchange, which `EverythingCommitted` and
  `ShutdownEnds` rest on.
* A delivery report that waits for a row lock gets it (SF): Postgres queues the
  waiters of a lock. A deletion goes on to the end of its transaction (WF).
* The ticker ticks (WF). There is no SF on it: nothing makes a tick fall where
  no refresh is scheduled. `TriggerLifecycle` assumes that of the refreshes with
  a lasting context not every one fails (SF on `pending = "lasting" /\ Refresh({})`),
  and nothing of those with a passing one, into which ticks are debounced;
  `cache` supports this with contexts in full.
* `Receive(p)` is SF: goroutines that send on a Go channel queue in order, so no
  partition is passed over for ever. `Restart` is WF: the pod is restarted.
* In `PermissionCache` time passes, the ticker refreshes and no answer is kept for
  ever (WF); for `RevokedIsUnsubscribed` the vehicle goes on reporting and the
  token exchange and the database work now and then (SF), since it is the
  vehicle's messages that make the listener look. That the ticker's refresh gets
  through fits the run's one vehicle: denials of other vehicles could absorb
  its ticks for as long as they go on.
* In `Process` `main`, the servers and the consumers go on (WF), the last seeing a
  done context sooner or later although messages keep coming (SF: `select`
  chooses at random). A request in progress ends: the API has no endless ones,
  and a client that keeps a connection of the API busy for ever would hold up
  its shutdown, which has no limit.
* Nothing is assumed of developers, vehicles or targets otherwise, except in
  `HealthySpec`, used by `updated_webhook_stuck` alone: there the vehicles
  report and the target accepts, and the webhook is stuck all the same.

## 4. The proofs

Checked by TLAPS for every value of the constants (any number of webhooks,
vehicles, calls, deliveries, partitions, messages, any threshold, cooldown or
limit), from the assumptions named in the modules.

* `TriggerLifecycleProofs`. `TypeCorrect`, then `BreakerInvariant`. The
  invariant adds to the types that a delivery in `"locked"` holds the lock of
  its webhook and its copy is the row, and that a usable row is below the
  threshold. The lock half is needed because the commit writes `copy + 1`:
  without it the copy could be older than the row. From it:
  `BreakerTripsInTime`, `LockProtectsCopy`, `FailuresAreNotLost`.
  A deletion is in it too (`DeleterHoldsLock`): between its statements the call
  holds the lock of its webhook. `ChoiceStandsUntilThreshold`, for any number of
  calls, adds what a late report may find: as long as fewer failures than the
  threshold have been counted since the developer's choice, the row's count is
  no higher than they are and its status is the chosen one, and a copy under the
  lock is that row. `DeletionTakesSubscriptions`, for any number too, follows the
  subscriptions a deletion found: those it has not seen deleted by others are
  doomed when its commit comes, and its lock keeps another deletion of the
  webhook from beginning in between. Two theorems
  assume one API call at a time (`OneCall`), which is needed (section 3):
  `SerialCallsKeepDeleted` and the refinement `SerialCallsRefineBreaker`. Their
  invariant says that a call beyond its owner check has a live webhook, since
  only the call itself could delete it. Without `OneCall` that is false, and two
  theorems say what remains: `AnyCallsRefineRacyBreaker` and `DeletedUntilUpdated`.
  All refinements rest on one lemma, `RowStep`: a
  step does to each row what the abstract breaker may do, or is the late update
  of a row deleted since it was read. `CallsInv` adds to the invariant of the
  breaker that a call's webhook has a row, deleted or not, and that an update
  carries the status of a row that was live when it was read.
* `WebhookCacheProofs`. `DebounceInvariant` gives `OneOwner` and
  `NudgesAreServed`. `QuietRebuildsAreExact` rests on an invariant of a rebuild
  in progress: as long as no write, error or cancellation has come in between,
  what it has loaded is the subscriptions, and what it has fetched together with
  what is left to fetch is exactly the rows of their triggers. A cancelled
  context stays cancelled, so a rebuild that ends with a live one has skipped
  nothing on its way.
* `DispatcherProofs`. `SlotInvariant`: free slots and busy goroutines add up to
  `MaxInFlight`; from it the types, `InFlightIsBounded`, `LoopReturnsDrained`.
  `OffsetInvariant`: the live delivery of a partition is the one after its
  committed offset, there is one at most, and everything up to the offset has
  been handled; from it `CommitsFollowHandling`, `HandlingInOrder`,
  `OneDeliveryAtATime`, and with it the refinement `KeepsPromise`: a processor
  that returns is a `Handle` of `AtLeastOnce`, because everything before its
  message has had its turn, an acknowledgement in a live session is a `Commit`,
  and every other step, a crash included, is a stutter. `NothingIsForgotten`
  follows a waiting partition's message from the broker to the loop's hands and
  on to a goroutine. `RepeatsAreBounded` needs more than its own bound: the
  inductive `RepeatsInv` says that a partition that may get its message again
  has had one disruption that has not brought the message back yet, a consumer
  on its way out being such a disruption already.
* `DeliveryProofs`. For any number of lanes, `CooldownInv`: the `last` of an
  evaluation past its reading is no older than any row of its webhook that the
  same lane has logged, and past the check it is at least a cooldown old. From
  it `EachLaneCools`, and `BurstIsBounded`: the rows of one cooldown map to
  their lanes one to one. With one lane the same invariant gives `CooldownHolds`
  and `CallsHoldCooldown`; `PreviousKeepsUp`, also with one lane, has its own.
* `PermissionCacheProofs`. `PermissionTypeCorrect`, `ActsOnRecent` and
  `SettledHolds`. The invariant gives each place an answer can be its own age:
  as received, the age of the answer; in the cache, the age of the entry and one
  latency; in a decision, the expiration and two. An entry can be written long
  after its answer was given, which is where the first latency comes from.
  `SettledHolds` follows: what changes a subscription acts on an answer, and an
  answer old enough to contradict the settled decision is out of every place.
* `PermissionSortProofs`. The converse of `permissions_lost`.
  `RaceInventsNothing`: however many goroutines sort, the indexes stay in the
  list and what a swap carries is an element of it. `AloneItSorts`: with one
  goroutine no permission goes missing between two swaps, the sorted part grows,
  and the key is sorted in the end; so it is the sharing that loses a permission
  and not the sort.
* `RegistrationProofs`. `StoredRowsValid` and `OnlyProvided` rest on an
  invariant of the copy in an update's hands: it is valid for the metric of the
  row, which no update changes, and equals the row but for the provided columns
  unless another write has come between. `AcceptedEvaluate` follows from the
  validity of the row by cases on the types (`TrialIsEnough`): what is not an
  error on an int is none on a double or an unsigned number, unless there is
  arithmetic.
* `ProcessProofs`. One invariant, `LifeInv`: what `main` has started by now,
  what a consumer may have in flight where it stands, and that a cancelled
  context comes from a signal or from an error the group remembers. From it
  `ServesOnlyPopulated`, `DrainsBeforeClosing`, `UnaskedExitFails`. `StuckInv`
  adds what has been launched where `main` stands, and that a server told to
  shut down no longer listens, and gives `CancelledNeverStuck`: while a
  cancelled process runs, some part of it has a step to take, unless the API
  began to listen after its shutdown (`orphan`). That those steps are taken, and
  the end reached, is `CancelledEnds`.

Only model-checked: the liveness properties `LocksAreReleased`,
`TrippedBreakerIsSeen`, `CacheConverges`, `ShutdownEnds`, `EverythingCommitted`,
`RevokedIsUnsubscribed` and `CancelledEnds` (fairness and `ENABLED` are beyond
the prover), and the violations. Every invariant and action property of the
passing runs is proved. There are no recursive definitions.

## 5. Not modelled, and why

* Read-only handlers, payload formats, logging, metrics, swagger, and the parts
  of the generated database models the service never calls: no state of theirs
  matters to a property.
* Authentication: middleware that lets a request through or refuses it.
* The values of conditions, their cost limit and the rest of the CEL language: a
  condition is a free choice in `Delivery`, its types are in `Conditions`.
* The HTTP exchange of a delivery: three outcomes.
* The connection pool, in which `GetTriggerByIDAndDeveloperLicenseForUpdate` may
  leave a transaction open when it finds no row (it holds no row lock then), and
  the reuse of request contexts by the HTTP server: behaviour of libraries.
* A channel the Kafka library closes on its own.

Divergences between documentation and code met on the way that no run is about:

* `triggersrepo.go:365` says "Delete all related vehicle subscriptions"; a
  subscription inserted after that statement by a call whose owner check came
  first survives (section 3).
* `README.md:101` offers `source` to the conditions of signals, as an identifier;
  it is declared a double (`celcondition.go:42`), so a condition that compares it
  with a string is refused.
* `README.md:94` says the API validates conditions; see `EvaluatesUnlessUnforeseen`
  for those that pass and fail on messages.
* `README.md` says a webhook's status defaults to `enabled`, while an empty status
  is refused.
* `README.md:236-242` describes the verification of a target before a registration
  is accepted; an update that changes the target does not repeat it.
* An update with an empty display name stores the empty name, where a
  registration would store the id.
* Display names are called unique without regard to case, while the index
  compares them with case.
* The developer guide says the cache refreshes every minute, the code every five.
* A SIGTERM usually ends in "Server failed.": `Start` returns the error of the
  context it was cancelled with, and the errgroup hands it on.

## 6. Plan

Done: the modules above, each with runs and proofs.

Next, in order of importance:

1. `TriggerLifecycle` over `WebhookCache`: the atomic copy replaced by the real
   rebuild, with a refinement mapping from the detailed cache to the copy.
2. `Dispatcher` with `Delivery`: lanes as the dispatcher's goroutines, so that
   one lane per vehicle is derived instead of assumed.
3. `Process` over two `Dispatcher`s, in place of the counters of messages.
4. The connection pool, with the transaction a failed `SELECT ... FOR UPDATE`
   leaves open.
5. Theorems: `BreakerInvariant` with the detailed cache; the refinements of 1
   to 3; what is left of `PreviousIsNotStale` with several lanes.
