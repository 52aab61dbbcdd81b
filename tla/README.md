# Verification of kptgolib

kptgolib is a library of building blocks for Go services: an application
runner, Kafka consumers and producers with their middlewares, metrics, a vault
client, tracing, logging and smaller helpers. This directory holds TLA+ models
of the parts where goroutines, callbacks, retries and failures meet, TLC
configurations that check them, and TLAPS proofs of their safety properties for
every size of the system.

`PROJECT.json` maps each definition to its source lines and lists the runs, the
mutated definitions that each property detects, the findings, the hazards and
the theorems.

## 1. Inventory

| Component | State | Operations | Talks to | What is hard |
|---|---|---|---|---|
| Application runner (`runner/runner.go`, `runner/runnable.go`) | contexts, wait group with errors, `ready`, one goroutine per `Run()` and per `Close()` | `AppRunner.Run`, `Run`, `Ready`, `InitializerAsModule`, `CloserAsModule` | every module | shutdown from any side at any time, panics, order of closing, exit code |
| HTTP server module (`runner/modules/httpmod`) | listener, server, requests in flight | `Init`, `Run`, `Close` | runner | draining while dependencies are still needed |
| Partition consumer (`kafka/concurrent_partition_consumer.go`) | client, cancel function, wait group, three mutexes, group handler | `Run` (retry loop), `Close`, `SetConsumerGroupHandler`, callbacks `Setup`, `Cleanup`, `ConsumeClaim` | sarama, metrics | `Close` against a retry, two locks, handler errors from claim goroutines |
| Consumer module (`runner/modules/kafkamod/consumer.go`) | client, context, `ready`, `errCh`, `runFinished`, `runOnce` | `Init`, `Run`, `Close`, callbacks | sarama, metrics, runner | partitions claimed before `Run`, `Close` before `Run` |
| Message middlewares (`kafka/middleware`) | retry counter, markers per partition, Serial's mutex | `Mark`, `MarkIfNoError`, `IgnoreErrors`, `Recover`, `Retry`, `CommonDefaultsWithRetry`, `Serial`, `MultiPartitionMark` | consumers | lost and repeated messages over restarts |
| Metrics cross registration (`metrics/cross_register.go`) | map of configs, gauges, tickers, the Prometheus registry | register, unregister (one, all), update loop | Kafka clients, Prometheus | ticks after unregistration, names that collide |
| Vault client (`vault/client.go`) | API client holder, `initialized`, lock, circuit breaker | `List`, `Read`, `Write`, `Delete`, `Mount`, `Unmount`, `ListMounts` | vault server | token expiry seen by many goroutines, nested breaker |
| Kafka producers (`kafka/producer.go`, `kafka/async_producer.go`, `kafkamod/producer.go`) | client, prefix, response goroutine | constructors, `SendMessages`, `Close`, `Init`, `Run` | sarama, metrics, runner | responses during `Close`, late sends, failed construction |
| Leader selector (`leader-selector`) | lease, timers, callbacks | `Start` | client-go, Kubernetes | expiry against renewal, lost answers, crashes, a late `Start` callback |
| HTTP metrics (`metrics/metrics.go`, both HTTP clients, `metrics/openapi`) | gauge and summaries, rules, response writers | instrumented handlers and clients, `expandURL` | net/http | panics, codes written twice, labels of client and server |
| JWT and HTTP middleware (`jwt`, `httpmiddleware`) | configuration, context of a request | `Handle`, `Handler`, `New`, `GetUserNameFromRequestToken` | HTTP metrics, the application's handler | partly filled contexts, two readers of one header |
| Error cache (`ecache`) | go-cache | `Get`, `SetIfData`, `Delete`, `Flush` | | thin layer |
| Tracing, logging, credential reader, gerror, other metrics | little or none | | | data and I/O |

What makes the components correct, in short: the runner closes everything in
reverse order and its exit code is true; a consumer that is closed is quiet,
and one whose handler failed stops; no message is marked that was not handled
in the way its middleware promises; registered metrics do not collide and stay
exported; vault operations survive an expired token without a login storm; every
message given to a producer is answered; one instance leads, and somebody does;
what is recorded of a request is what happened to it, and a handler is called
only with the claims it demands.

## 2. Modules

| Module | Models | Notes |
|---|---|---|
| `AppRunner` | runner, `httpmod.Server` | `pc`, `idx`: the goroutine in `AppRunner.Run`; `run`, `close`: the goroutines of the two loops; `stop`, `appCtx`, `runCtx`: who cancelled which context |
| `ConsumerGroup` | sarama's `Consume` (vendored) | extended by the two consumers, which supply the callbacks |
| `PartitionConsumer` | `kafka.ConcurrentPartitionConsumer` | `runPc`, `closePc`: the goroutines in `Run` and `Close`; `owed`, `swapped`: which group handlers were set up, and which were exchanged in a session |
| `ConsumerModule` | `kafkamod.Consumer`, `ConcurrentGroupConsumer` | `initPc`, `runPc`, `consumePc`, `closePc` |
| `HandlerChain` | marking, retries, ignored errors, recovery | one partition, restarts at the marked offset |
| `MultiMark`, `MCMultiMark` | `MultiPartitionMark`, `Serial` | the handler is a buffering one (the application's), which may fail at every step; `refused`: the messages it failed before taking them |
| `MetricsRegistry`, `MCMetricsRegistry` | `metrics/cross_register.go` | prefixes and metric names are abstract: `HasPrefix` is the check of the code, `FQName` any function from a prefix and a name to a Prometheus name, also one that is `Invalid`; `replacing`: constructors between the three calls with which they replace a prefix |
| `VaultClient` | `vault/client.go` | the server is external, the breaker vendored |
| `ModuleContract` | the interface `runner.Module`, abstractly | what a module promises to the runner; implemented by `ConsumerModule` and `Producers` |
| `Producers` | the three Kafka producers | `pc`: constructor or `Init`; `loop`: `handleProducerResponse`; `chans`: sarama's channels; `msg`: where each message is, `"refused"` if the dispatcher met it during the shutdown |
| `LeaderSelector` | `leader.go` and the elector of client-go it configures | `pc`: `acquire`, `renew` and the pause between renewals, release; `timer`, `age`, `since`: discrete time; `start`: goroutines of `OnStartedLeading` that have not run; `slow`: who leads by a slow call of `acquire` |
| `UrlTemplate` | `expandURL`, rules and labels | pure operators; a template is a sequence of characters of one or two bytes, a path a sequence of segments as they are sent, with the escapes that `Unescape` lists; `RawPath` is what the rules see, `Cut` the second parsing by the client |
| `AppRunnerProofs`, `HandlerChainProofs`, `MultiMarkProofs`, `MetricsRegistryProofs`, `VaultClientProofs`, `LeaderSelectorProofs`, `HttpExchangeProofs` | | the proofs about the module of that name |
| `KafkaProofs` | | the proofs about `PartitionConsumer` and, as the instances `CM` and `P`, `ConsumerModule` and `Producers` |
| `HttpExchange`, `MCHttpExchange` | client, HTTP metrics, validation, JWT middleware, handler | one `pc` per request; the order of the layers is the one `httpmiddleware.New` builds |

Grain. An action is the code between two points where another goroutine can
see or change something: a channel operation, a lock, a call into the outside
world. A critical section that only reads and writes its own data is one step.
Examples: `Spawn` is one iteration of the first loop of `Run`, and `RunCall` is
separate because the loop goes on before `Run()` is called; `RunReturn` and
`RunRecorded` are separate because `cancel()` runs before the group stores the
error; in `VaultClient`, `Dial` and `Login` are separate because the new API
client is visible before it has a token.

Panics are outcomes: recovered ones are errors, others end the goroutine or
the process (`InitPanics`, `CloseWakes`, `crashed`). Operators named `Bug...`
are faulty variants of the definition that follows them; no specification uses
them. They document which mistake each property would detect.

## 3. Runs

| Run | Bounds | Properties |
|---|---|---|
| `app_runner` | 2 modules, all 16 combinations of kinds | `ExitIsQuiescent`, `ExitCodeIsTruth`, `ClosedInReverse`, `DependenciesOutliveRequests`, `NoSpuriousShutdown`, `ShutdownCompletes` |
| `partition_consumer` | 2 partitions, 2 group handlers, with and without retries | `ClosedForGood`, `SetupMeetsCleanup`, `CloseReturnsQuietly`, `HandlerErrorEndsRun`, `CloseHangsOnlyOnSetup` |
| `consumer_module` | 3 partitions, with and without preclaim | `CloseIsFinal`, `ImplementsModule` |
| `handler_chain` | 5 chains, with and without `Recover`, 2 messages, 2 retries, 3 starts | `NothingSkipped`, `RetriesSpent`, `StopKeepsMessage`, `DeliveredInStep` |
| `multi_mark` | 3 claims (two of them with the same partition number), 2 messages each, 2 sessions, both nestings, handlers that fail | `MarkedWasWritten`, `WrittenGetsMarked` |
| `metrics_registry` | 4 prefixes (contained, flattened to one, invalid, empty), 2 metrics that flatten to one, 2 registrations, 1 constructor that replaces | `PrefixesDisjoint`, `LateUpdatesEnd`, `GaugesStayExported`, `CrashNeedsCollision`, `MetricsGetExported` |
| `vault_client` | 2 goroutines, 2 tokens, 1 external fault, breaker thresholds 2 and 1 | `NoNilClient`, `FailuresAreExplained`, `OneLoginPerToken`, `CallsReturn` |
| `http_exchange` | 2 requests, 3 overlapping paths, 8 URLs (escaped slash, percent, question mark, space, letter and escape, in either segment), 2 claims, 4 sets of options; templates of up to 6 characters | `GaugeIsInFlight`, `RecordedIsSent`, `LabelsAgree`, `ClaimsReachHandler`, `ExpandsByOffsets` |
| `producers` | 1 producer of each kind, 1 prefix, 2 messages | `PrefixOwned`, `MessagesAnswered`, `ImplementsModule` |
| `leader_selector` | 2 instances, lease 6, deadline 2, retry 1, latency 1 tick | `LeaseExcludes`, `LeaseRespected`, `NoLeaderlessWait` |

`app_runner` also checks `TypeOK`. In the other modules that define one, it is a
conjunct of the inductive invariant of the proofs.

Why the bounds are enough. In the runner a property relates at most two
modules and the appended FnRunner, and the theorems cover every N. The partitions
of a consumer interact only through the session and the context, so two show
one failing while another handles a message. Two registrations are what a
collision needs, and a registration that is replaced uses both. Two vault
workers show one that reconnects and one that does not hold the lock; one fault
suffices to open the breaker, because an operation whose reconnect fails counts
twice, and a static token that expired fails without limit. In `MultiMark` a
second session is what a stale marker needs to be called in. `MaxLogins`
saturates one above the number that `OneLoginPerToken` allows. One prefix makes
the three producers collide; with two messages one is answered while the other
is still in a channel. In `HttpExchange` requests meet only in the gauge, so two
are enough; the paths are chosen so that the order of the rules matters. The
durations of `LeaderSelector` are the smallest that `LongLease` allows: with a
lease of 5 two instances lead at once. An Update of `acquire` that takes longer
than `Latency` is counted one tick beyond it, which is all that `slow` looks at.
`LeaseRespected` is about shorter leases as well, and the theorem covers them.
The largest runs are `http_exchange` (2.7 million states), `metrics_registry`
(600,000), `producers` (240,000) and `leader_selector` (212,000); each takes
about two minutes.

Deadlock is checked for the vault client, which can always be called, and for
the leader selector, which can always be started again. The other systems stop: an application exits, a consumer is closed, messages run out.

### Refinement

`ModuleContract` is what the runner relies on: work ends only because of `Close`
or a failure, `Run` blocks until it has ended, after `Close` nothing is at work
even if `Run` is called only then (`ClosedIsQuiet`), and both return, in whichever order they were called. `ImplementsModule` of
`ConsumerModule` and of `Producers` is this specification under a refinement
mapping; its liveness is written with leads-to, so that TLC checks it under the
fairness of the implementing module. The mapping of the consumer calls it active
while `consume` runs, that of the producer while its client has not delivered
all answers. `AppRunner` uses the same contract for its generic modules: `Run()`
may end at any time and does end after `Close()`.

### Disagreements with comments

Two runs expect a violation. Each checks what a comment in the code says.

* `close_ends_run`: "Close will cause run to exit." (`runner/runner.go:166`). A
  `Closer` that panics leaves `done` open; the application hangs.
* `uniqueness_guaranteed`: "In case cross registered metrics uniqueness cannot be
  guaranteed, an error is returned." (`cross_register.go:285`). Prefixes that
  `flattenKey` makes equal are accepted, and an update goroutine panics.

What the passing runs show beside what they promise:

* `ConcurrentPartitionConsumer.Close` can deadlock with a retry that has done
  `Add(1)` and waits for `runSetupMutex`; `CloseHangsOnlyOnSetup` says that it
  hangs in no other way. A `Close` during the sleep of the retry loop returns,
  and the next attempt consumes: `ClosedForGood` is stated without retries.
* `Consumer.Close` while the group is being joined makes `Run` return an error,
  hence exit code 1.
* `SetConsumerGroupHandler` takes effect in the middle of a session: the handler
  that is taken out gets no `Cleanup`, the one put in a `Cleanup` without `Setup`.
  `SetupMeetsCleanup` promises the pairing to all other handlers.
* `MultiPartitionMark` stores a marker before it calls the handler and leaves it
  there when the handler fails. If the session is still on, `markAll` of another
  claim marks the message, which nobody has handled and nobody delivers again.
  `MarkedWasWritten` names these messages as the only ones that are lost.
* `Retry` calls the handler once and then again up to `maxRetries` times
  (`RetriesSpent`). `HandlerChain` has the five compositions its header lists; others
  behave differently: `IgnoreErrors` outside `MarkIfNoError` leaves a failed
  message unmarked and goes on, and the next mark skips it.
* After `UnregisterMetricsWithPrefix` the update goroutine may run twice more
  (`LateUpdatesEnd`), and the gauges it then registers are never removed. A late
  update can also meet the successor of its prefix and panic
  (`CrashNeedsCollision`, which lists all reasons for a panic). So do two topics
  `my-topic` and `my_topic` of one client.
* The constructor of the partition consumer replaces a prefix that is refused; if
  the prefix is refused for an overlap only, or was unregistered by somebody else
  meanwhile, it panics (`ReplacePanics`).
* A producer whose client cannot be created keeps its metrics prefix
  (`PrefixOwned`). A message sent to a closed producer may panic, and so may one
  that sarama's dispatcher refuses while the channel of the errors is closed.
* `OnStartedLeading` runs in its own goroutine and ignores its context. It can
  call `Start` after `OnStoppedLeading` has called `Stop`; the work then goes on
  without the lease. The model has these steps, and no property can exclude them.
* `NewLeaderElector` checks that the lease lasts longer than the deadline, and that
  longer than 1.2 retry periods. `LeaseRespected` needs no more. For
  `LeaseExcludes` the lease has to outlive two deadlines and a retry period, and a
  deadline and `Latency` (`LongLease`). The defaults (60, 15, 5 seconds) do; values
  from the environment, such as 20, 15 and 5, need not. Nothing bounds the time of
  an Update of `acquire`: an instance whose first Update took longer than `Latency`
  may lead, until its first renewal, together with one that has taken its lease.
* `expandURL` mixes byte and rune offsets: it is right exactly for the templates
  that `ExpandsByOffsets` names.
* A client without a template parses the decoded path as a URL. An escaped percent
  sign makes it panic (`ClientPanics`); an escaped question mark or hash cuts the
  path, and the request is counted under another uri than the server's.
  `LabelsAgree` says for which URLs and clients both sides agree.
* No option sets `signatureVerificationIsEnabled`, so the JWT middleware never
  verifies a signature; the model has no step for it.

### Fairness

Weak fairness is assumed of steps that a goroutine takes by itself, because the
Go scheduler runs what can run. In addition:

* `AppRunner`: a request in flight ends, and a generic module's `Run()` ends
  after `Close()`, which is the contract of `Module` ("Run() is expected to block
  until app is finished"). Nothing makes a generic `Run()` end before, and
  nothing makes an interrupt happen.
* Consumers: brokers answer or fail, handlers return, a session whose context
  is cancelled notices it. Strong fairness for `MessagesClosed`: a claim that is
  over has finitely many buffered messages, so the loop meets the closed channel.
* `MetricsRegistry`: tickers tick and the update goroutines get the mutex.
* `VaultClient`: requests are answered; strong fairness for taking the lock,
  since `sync.Mutex` hands over to a waiter that starves.
* `Producers`: brokers answer or sarama's retries run out, the goroutines of
  sarama and of the response loop run, the runner calls `Run` of its modules.
  Nothing makes an application close a producer.
* `LeaderSelector`: time passes, what is due is done before it does (no process
  is paused past its own timeouts), and a request that is repeated for ever is
  answered at some time (strong fairness of `Apply` and `Reply`). Every call ends,
  with an answer or an error.

## 4. Proofs

Each proof module defines an inductive invariant `IInv` (`ModuleInv` for
`ConsumerModule`, `ProducersInv` for `Producers`), proves that `Init` implies it and that every step of `Next`
keeps it, and derives the theorems. Nothing is assumed but the named
assumptions of the modules; TLC evaluates them on every run. The fairness of the
specifications is not used.

| Module | Theorems | For all | Assumptions |
|---|---|---|---|
| `AppRunnerProofs` | `TypeCorrect`, `ExitQuiescence`, `ExitCodeTruth`, `ReverseClosing`, `DependencySafety`, `JustifiedShutdown` | numbers and kinds of modules | N is a natural number |
| `LeaderSelectorProofs` | `TakenWhenExpired`, `OneLeader` | sets of instances, durations, delays | what `NewLeaderElector` checks (`DurationsAssumption`); "none" and "dead" are no identities. `LongLease` is a hypothesis inside `LeaseExcludes`, not of `TakenWhenExpired` |
| `KafkaProofs` | `NothingAfterClose`, `CleanupFollowsSetup`, `QuietClose` of `PartitionConsumer`; `FinalClose`, `ConsumerImplements`, `ConsumerQuiet` of `ConsumerModule` | sets of partitions, with and without preclaim or retries, group handlers | `Nil` is no group handler |
| | `OwnedPrefixes`, `ProducerImplements`, `ProducerQuiet` of `Producers` | sets of producers, prefixes and messages | `ProducersDistinct`, a hypothesis of the theorems: "free" is no producer, and the producer of the module is synchronous |
| `VaultClientProofs` | `ClientIsThere`, `ExplainedFailures`, `NoLoginStorm` | workers, thresholds, numbers of tokens and faults | the thresholds are positive; `NoOne` is no worker |
| `MultiMarkProofs` | `OnlyRefusedAreLost`, `NoPartitionForgotten` | claims, partition numbers, messages, sessions | every claim has a partition number; `NoOne` is no claim |
| `HandlerChainProofs` | `NoMessageSkipped`, `StoppedMessageKept`, `MarksInStep`, `RetriesBounded` | messages, retries, restarts; the five compositions | the bounds are natural numbers |
| `MetricsRegistryProofs` | `DisjointPrefixes`, `FewLateUpdates`, `StayingGauges`, `CrashesAreCollisions` | prefixes, metrics, registrations, any `FQName` and `Invalid` | a prefix is a prefix of itself; `FQName` is defined for all prefixes and names |
| `HttpExchangeProofs` | `GaugeCounts`, `NoneUncounted`, `StatusRecorded`, `LabelsOfBothSides`, `ClaimsComplete` | numbers of concurrent requests, OpenAPI documents and orders of their rules, values of variables, claims, options | finitely many requests and paths; a path is a sequence of segments |

### Why the invariants are what they are

`AppRunner`. `Phase` says what `pc` and `idx` mean for the goroutines: while closing,
everything above `idx` is closed and nothing below it is. `ClosedInReverse` is not
inductive without it, since it does not say where the loop stands. `Results`:
`errs` is exactly the set of failures of the goroutines that are done, because it
lags behind the results. `Requests`: requests are in flight only in servers whose
`Close()` is not over, and a server that drains accepts none. `Causes`: where a
cancelled context comes from; the FnRunner's `Close` cancels the outer context,
which looks like a reason to shut down, but happens only when the shutdown has
begun.

`LeaderSelector`. Both theorems are statements about time. An instance may take the
lease when it has watched the same record for `LeaseDuration`. `RecordSeen` says that
nobody has watched the current record for longer than it exists (`since`), and that
who has it knows its holder; `OwnRecord` that an instance which believes to hold
the lease, and has the current version, does hold it; `Expired` that an Update the
API server would accept takes a lease that is free, its own or over. These three are
inductive for all durations and give `LeaseRespected`. `LeaseExcludes` needs the time
from an Update to the end of the leader's renewals: `Recent` bounds `since` by the
timer of an instance that leads, or whose Update was accepted: at most that timer
while the Update is answered, `RenewDeadline` more during the pause, and, in the
next window, at most what has passed between that Update and the window's beginning
(`Old`), plus the timer. `Timers` bounds the timers themselves. With `LongLease` the sum
stays below `LeaseDuration` (`SureIsRecent`), so nobody else can take the lease.

`ConsumerModule`. `SessionInConsume`: a session exists only inside the call of
`Consume`. `Lifecycle`: the order of `Init`, `consume`, `Run` and `Close`, through the
result that `consume` sends last. `EndHasReason`: the context is cancelled only by
`Close` or a failing handler, and `consume` ends only then or after a fault. The
contract demands the last one when work ends.

`PartitionConsumer`. `RunCounted`: the wait group counts `run` from `Add(1)` to
`Done`, and sessions exist only in between. `CloseLocks`: `Close` holds
`runSetupMutex` until it returns, so an attempt that starts after `Wait` is over
does not get past the mutex; this is why `CloseReturnsQuietly` holds with retries
too. `OneAttempt`: without retries, `Close` finds a cancel function only once `run` is
in its loop, and `run` is not executed again. `CloseReturnsQuietly` is an action
property; the proof shows that `CloseReturns` is the only step it is about.
`HandlerPaired`: in a session exactly the present handler is set up, up to those that
were exchanged in one.

`Producers`. `MadeOwners` ties the registry to the producers that exist, and
`ShutdownInOrder` says that sarama closes the errors only when no message is counted
any more: without it an answer could come after `Close` had returned, which the
contract forbids.

`VaultClient`. `Connected`: who may try an operation has seen a connected client, and
a connected client stays one. `LastAttemptIsFresh`: the token of the last attempt is
valid unless there is an excuse. `LoginsPaid` counts: without faults there
were no more logins than the token in use allows, and who is about to log in
found under the lock that this token is not the valid one.

`MultiMark`. The properties hold with `Serial` outside, and so does `SerialInv`:
one claim between `Lock` and `Unlock` (`Exclusive`), which finds its own marker
when it marks (`OwnMarker`); a marker of this session belongs to a message that was
handled or refused, or is about to be handled by the holder of the lock
(`MarkersTaken`); what was delivered is in the buffer, written or refused
(`Collected`), and has its marker in the map while it is not marked (`Pending`); no
mark is ahead of the deliveries (`NotAhead`).

`HandlerChain`, `MetricsRegistry`. The properties are inductive together, with the
types and a fact or two each: a message is at hand unless the consumer is idle; a
config has gauges for metrics of its own, and none before it is created
(`GaugesKnown`); the late updates of a config, those it was woken for and the tick in
its channel are two at most (`LateBounded`). `PanicHasReason` derives the reasons of
`CrashNeedsCollision` from what the Prometheus registry can hold.

`HttpExchange`. Nothing couples the requests but the gauge. `Labelled`: the label is
looked up for the gauge and again by the summaries, and the path and the rules do
not change in between; `NoneUncounted` adds that every
label found is one that the gauge has, so that `GaugeIsInFlight` leaves no request
out. `WritersAgree`: the code the response writers keep is the one that was sent, or
200 while none was, unless the handler misuses the writer; this is the state that
`RecordedIsSent` only sees at the end. `ObservedOnce` and `SeenOnce`: which requests
server and client have observed, and under which label. `LabelsAgree` then is a
statement about two lookups. `LabelOfPath` says what a lookup returns, a rule that
matches or the decoded path. With a template, what matches the template matches its
expansions, so if the URL matches its own template only, both lookups find that
rule or none (`TemplatesAgree`), in every order of the rules. Without one,
`PathsAgree` shows that the second parsing changes nothing if the path has an empty
`RawPath` and, once decoded, no character that a URL gives a meaning.
`OutcomesFit` says what `processToken` puts into the context for any header.

### Refinement

`ConsumerImplements` and `ProducerImplements` state `Spec => Contract!Safety`: the initial
states of the consumer (the producers) are initial states of `ModuleContract`
under the mapping, and every step is one that a module may take, or leaves the
mapped state alone. `ConsumerQuiet` and `ProducerQuiet` are what the runner takes from
it: once `Close` has returned nothing of the module is at work. The liveness of the contract, the other half of
`ImplementsModule`, is checked by TLC.

### Only model-checked

* Liveness, for which the prover would need fairness and ENABLED:
  `ShutdownCompletes`, `HandlerErrorEndsRun`, `CloseHangsOnlyOnSetup`,
  `MetricsGetExported`, `CallsReturn`, `MessagesAnswered`, `NoLeaderlessWait`, and the
  liveness part of `ImplementsModule`.
* `ExpandsByOffsets` of `HttpExchange`: it is about what a fold computes for every
  template, which takes induction over data. It is checked for all templates of up
  to 6 characters.

## 5. What is left out

* Of sarama, multierror, the breaker, go-metrics, client-go and the Prometheus
  registry, which are vendored, the parts are modelled that the library's behaviour
  depends on; net/http and the vault server by what their callers rely on.
* `PartitionConsumer`: one call of `Run` and one of `Close`. Data of messages, logging and metrics values are left out everywhere.
* `HandlerChain`: an error that is both retryable and markable (possible with
  `errors.Join` only) is left out.
* `MetricsRegistry`: the random key of an anonymous registration equals no prefix. A
  metric counts as one of its registry (`source`) from the moment it has a value to
  export: histograms without samples, and metrics of other types, are not exported.
* `LeaderSelector`: an Update that its sender has given up on is applied at once or
  never; clocks run at the same speed; all instances are configured alike. What the
  service does in `Start` and `Stop` is not modelled, only when they are called.
* `UrlTemplate`: segments are the representative ones of `Unescape`; characters of a
  path that mean something in a regular expression, and empty segments, are left
  out. `GetUserNameFromRequestToken` is a function of one header, which reads the
  claims by another JSON library than `jwt.Middleware`, and is not modelled.
* `Producers`: the tracing headers of messages; `HttpExchange`: methods, bodies,
  the size of requests, the management server, the profiling endpoints.
* The table of Kubernetes paths is data for the rules that `UrlTemplate` takes.
* Components with no state to interleave on (error cache, tracing, logging,
  credential reader, gerror) are listed in `PROJECT.json` with the reason.

## 6. Plan

Done: all models; the proofs of all safety properties that the runs check, but
for `ExpandsByOffsets`, and of the safety part of both refinements.

Next: `AppRunner` with `ModuleContract` in the place of a generic module.
