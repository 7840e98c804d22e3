# Bunny in TLA+

Bunny is a sidecar that probes an application (egress), turns the outcome into
metrics (telemetry), and serves health endpoints that are answered by PromQL
queries over those metrics (ingress). It reloads its configuration file while
it runs (config) and can delay its own shutdown until the application has ended
(signals). This directory holds a TLA+ model of it, the TLC runs over the model
and TLAPS proofs. `PROJECT.json` maps every definition to the lines of Go it
translates.

## The system

`main` wires buffered channels of capacity one between five goroutines, starts
them and waits for all of them.

| part | state | operations | hard behaviours | modules |
|---|---|---|---|---|
| main | WaitGroup, wiring | go, `wg.Add`, `wg.Wait` | Add after go; the order of the listeners | `Bunny` |
| config | `bunnyConfig`, hash, watcher | first read, reload, send to four listeners | two reads of one file; blocking sends; the file changes at any time | `Bunny`, `ConfigFile` |
| telemetry | registry, providers, TSDB | configure, tell egress and ingress, shut down | barrier without a version; nil providers; replaced providers go on | `Bunny`, `Rollout`, `Exporters` |
| telemetry, queries | none | instant and range query, reading the result | the five shapes of a result | `HealthQuery` |
| telemetry, metrics | registry, counters, response times | register, count, callback | registration by two goroutines; shared map; several readers | `Registry`, `Exporters` |
| egress | probes, ticker, delay | update, tick, signal | waits for the stage outside its select; a tick of the version before | `Bunny`, `Probes` |
| probes | one goroutine per run | exec, gRPC, HTTP GET, TCP | deadline racing the answer; overlapping runs; shared slice | `Probes` |
| expect, Bee's TCP server | connection | steps of a conversation | each end waiting for the other | `Expect` |
| ingress | endpoints, server, meter | update, replace the server, answer, signal | listening goroutine nobody waits for; handlers read a slice being rebuilt | `Bunny`, `Ingress`, `HealthQuery` |
| signals | expression, OS channel | update, wait for the process, forward | deaf to configurations while it waits | `Bunny` |

A new version of the configuration travels from config to egress, ingress,
signals and telemetry, in that order. egress and ingress then wait for one
token on `ConfigStageChannel`, which telemetry sends them when its registry
and providers are in place. A signal goes from the operating system to signals
and from there to config, egress, ingress and telemetry.

## Modules

How they fit together: `Bunny` is shown to implement `Rollout`, an abstract
account of how versions reach registry, provider, egress and ingress. `Registry`
and `Exporters` are built on the actions of `Rollout`, so what they show does
not depend on channels and still holds of `Bunny`. The other modules each look
at one goroutine more closely than `Bunny` does.

* `Bunny` is the control plane: main, the five goroutines, every channel, and
  how the process ends. One action is one step another goroutine can see: a
  receive, a send, the replacement of a global. A configuration is the number
  of the load that made it. What depends on its contents is a choice: a probe
  more or less to register, an expression set or not, a handler that panics
  (`proc = "rejected"`: no action in a probe, a duplicate path, `null` as the
  whole file, no watcher). `proc = "crashed"` is a panic that any
  configuration can meet. `phaseBar` and `versionBar` are the refinement
  mapping to `Rollout`.
* `MCBunnyRunning` starts `Bunny` with version 1 applied everywhere, for the
  questions about a Bunny that is already running.
* `Rollout` is the abstract specification. telemetry turns to the next version
  when every applier has received the one before; an applier starts when the
  provider has reached its version.
* `ConfigFile` is config and its file: first read, watcher, hash, the two reads
  of a reload, and others who write, truncate, remove or touch files in the
  directory. Sending to the listeners is one step, since `Bunny` has its detail.
  `Bunny!Reload` stands for `ConfigFile!HandleEvent` followed by `Reload`.
* `Registry` is `NewCounterMetric` and `NewResponseTimeMetric` as far as
  Prometheus is concerned, for the several metrics each goroutine makes in a
  version (three per probe and per endpoint). A name OpenTelemetry refuses ends
  the counter there and not the gauge; then `Unregister` and `MustRegister` are
  two steps on whatever registry the global holds at each of them. A registry
  refuses an invalid name or label name, a second collector with the same name
  and label values, and other label names than it has seen for the name; it
  remembers those for good.
* `Exporters` is the OpenTelemetry side: a provider per version with its
  readers, which a reload replaces and does not shut down; probes and queries
  that still count on old providers; the map `ResponseTimes` and the callbacks
  that empty it; scrapes of the default registerer; and the shutdown of the last
  provider. A push reader collects in one step and delivers or fails in another.
  The shutdown is the signal (`TakeSignal`), the last collection once no export
  is under way (`LastCollect`), the end of that export, the end of the pull
  reader, and the return; probes, which nobody waits for, count in between. The
  push exporters of a provider are merged into one reader; that each of two would
  fail by itself, and that the first to collect takes a response time from the
  other, as it does from the readers of another provider, is not shown.
* `Probes` is egress in discrete time: the ticker and the tick that waits in its
  channel, the initial delay, the choice of an action, and one goroutine per
  run with its deadline, for each of the four actions. Any time may pass between
  two steps of a goroutine.
* `Expect` is a TCP conversation: the loop of `newTCPSocketAction` over the
  configured steps, and probe and Bee working through their scripts, each with
  a deadline. What waits to be read is a sequence of texts, each a word and the
  delimiter sent after it; a line is all texts up to the first that ends in the
  delimiter asked for.
* `Ingress` is the HTTP side of ingress: endpoints rebuilt one at a time,
  `Shutdown`, the new server, the goroutine in `ListenAndServe` (check, bind,
  register the listener) and the handler. The stage barrier is in `Bunny`; an
  `Update` here is one whose stage has arrived. Reading `healthEndpoints` during
  the rebuild is a data race, so the lookup may find, miss or panic.
* `HealthQuery` is what happens below one request: metrics before, query,
  `handleQueryResult`, metrics after, status. Floats are `"one"` or `"other"`,
  strings are the words between blanks. A nil database (an open that failed)
  makes the query panic, and net/http drops the connection.
* `BunnyProofs`, `ConfigFileProofs`, `RegistryProofs`, `ExportersProofs`,
  `ProbesProofs`, `IngressProofs`, `HealthQueryProofs` and `ExpectProofs` hold
  the proofs. `MCRegistry`, `MCProbes` and `MCExpect` hold constants.

External parts, modelled from how the code uses them: delivery of signals, the
watched process, inotify, `net/http`, `promql`, the Prometheus registry, the
readers of the OpenTelemetry SDK, `time.Ticker`, deadlines and TCP. `go.mod`
asks for Go 1.22, where `Reset` and `Stop` leave a tick in the channel.

Definitions marked *Faulty* are plausible mistakes in the definition that
follows them. No specification uses them; each breaks one property and so shows
that the property depends on that piece of code.

## Runs that pass

| run | what it shows | size |
|---|---|---|
| `bunny_safety` | `Bunny` implements `Rollout`, from the start of the process on and with signals at any moment; forwarding never blocks; main's return is complete; a shutdown panics only before the first configuration or when it overtakes main's last `wg.Add`; when nothing can go on without an event from outside, Bunny is at rest, waits for the watched process or hangs in a shutdown | 2 loads, 2 signals, 3.5M states |
| `bunny_running` | the barrier keeps metrics, providers, registries and server consistent; no circular wait; everybody applies every version unless a signal comes; a signal that meets a pipeline at rest ends in a clean exit; a goroutine waits for its stage for ever only if telemetry has returned on a signal or signals waits for a process that does not end; an event from outside causes a bounded number of steps | from a running Bunny, 3 loads, 1 signal, 0.6M states |
| `config_fresh` | config follows a file as long as it does not return to earlier contents, and reloads only for changes | 3 contents, 5 changes |
| `registry` | registering panics only over a name or label name Prometheus does not accept, over one name with different label names, or over a metric egress and ingress share; at rest the metrics counted on are the ones exposed | 3 versions, 2 metrics per goroutine and version out of 5, 7.7M states |
| `exporters` | a response time is reported once; unless its last export fails, the shutdown leaves of the last provider only what was counted after the signal; counts are sent though a reload has replaced their provider | 2 versions, 2 counts, 2 measurements, 0.6M states |
| `probes` | rounds keep the pace and the delay of their version; runs are counted on the version that started them; successes are in time, commands get their own trace ID and runs end, but for the cases named in the properties | 2 versions of 7 configurations, 2 runs, 1M states |
| `expect` | a probe that asks Bee what it expects fails only by a timeout; success means Bee said a line for every receive step; both ends come to an end | conversations of up to 4 steps |
| `ingress_servers` | only the server made last serves; no handler outlives its server; requests that meet no update run their query; unless a shutdown overtook a listening goroutine the new server listens; replacing or closing the server always ends | 3 updates, 2 ports, 0.4M states |
| `health_plain` | the status is the documented one for results without histograms in a matrix or blanks in a string; attempts and successes account for every request | 2 requests, lengths up to 2 |

Why the bounds are enough. In `bunny_safety` the second load meets a process
that is still starting, and the second signal one that is shutting down. In
`bunny_running` two more versions are under way behind the one in use, one being
applied and one in a buffer, and a signal meets them anywhere. A third one would
leave config blocked on egress or ingress; the same configuration with
`MaxLoads = 4` (2.6M states, eleven minutes) holds too and is not part of the
runs for its length, and all its safety properties are proved for any number of
loads. Three updates let a late listening goroutine of the first server meet the
third, and three versions of `Registry` let metrics of one version meet the next
two. Of its five metrics three share a name, with one label of two values and
with another label, and two have a name nobody accepts, so that two metrics of
one goroutine can be the same, differ in a label value, or be at odds. Two
versions in `Exporters` are a provider that was replaced and the last one; two
counts are one before the last collection and one after it, or one on each
provider, and two measurements overwrite each other or meet two readers.
Two runs overlap on one environment and on one counter, two versions
let a tick and a run of the first meet the second, and `MaxAge` is beyond the
longest period and the longest delay. `MCProbes` has a configuration for each action, with and without room
behind the environment (two variables and three), with and without expect steps,
with the ticker stopped, and without an action. Vectors of length two have a
first and a later sample. Three contents are one in use, one hashed and one read
instead. The conversations of `MCExpect` are all sequences of up to four of
Bee's lines, and each odd step (another delimiter, one too long, no expression,
both kinds, neither) before up to two of them.

Deadlock is not checked: the process ends by itself or is stopped by a bound.
What blocked goroutines may wait for is `NoCircularWait`, `StandstillExplained`
and `StuckOnlyInShutdown`.

## Disagreements with the documentation

Three runs end in a counterexample.

| run | what happens |
|---|---|
| `bunny_hang` | telemetry takes the signal while egress and ingress, told of a new version, wait for its stage; main never returns |
| `config_deleted` | deleting the file sends the default configuration |
| `exporters_scrape` | after a reload with the prometheus exporter, the metric of a probe of both versions is reported by two readers of the default registerer, and the scrape of `openTelemetryMetricsPath` (line 372) fails; `ScrapesStayBroken` proves that it goes on failing |

Others show as conditions of properties that hold. References are to the
README.md of the repository.

* A signal before the first configuration meets nil providers, and `wg.Done` may
  run before the last `wg.Add` (`CrashOnlyAtTheEdges`).
* Two reloads while signals waits for the watched process block config on
  signals and egress on telemetry: no more probes until the process ends
  (`StuckOnlyInShutdown`), although line 154 says probes go on until then.
* A change of the file before the watcher is in place, and a change between the
  two reads that is taken back later, go unnoticed (`CaughtUp` and `reused` in
  `FollowsFile`), although line 163 says the change is detected.
* A path without an endpoint in the slice, rejected or not rebuilt yet, is
  answered with 200 without a query (`LookupNotFound`, and `quiet` and
  `"rejected"` in `QuietRequestsRunTheirQuery`), although line 377 says a query
  decides.
* A goroutine that binds after `Shutdown` of its server can make the bind of the
  next one fail; then nothing listens (`hasty` in `UnhurriedUpdateServes`).
* What probes count after telemetry took the signal, and what a replaced provider
  holds, may not be sent any more (`atSignal` and `On(provider)` in
  `ShutdownSendsAll`).
* A gauge whose name OpenTelemetry refuses is registered with Prometheus all the
  same; two metrics of one name with different label names, in one version or in
  two that follow each other, end the process (`AtOdds` in `RegistrationIsSafe`).
* Line 251 says success always includes that the action completes before
  `timeoutMilliseconds`; a command whose output a child keeps open, and a dialer
  whose time left is exactly zero, are exceptions (`SuccessInTime`).
* With three variables or more whose number is not a power of two, overlapping
  runs of an exec probe can get each other's trace ID (`CommandHasItsTrace`).
* Histograms in a matrix and words after the first are ignored (`Plain` in
  `StatusAsDocumented`), although lines 436-437 say no.
* A failed listing of the processes counts as the end of the watched process
  (`ProcessListFails`), although line 455 says Bunny shuts down after it.

Four of the hazards in `PROJECT.json` are the very cases their property leaves
out or sets apart, and the property says that nothing else brings about the same harm: the
endpoints rebuilt under a handler and the path without an endpoint
(`QuietRequestsRunTheirQuery`), the nil database, which costs a request its
second count and its answer (`AttemptsAreAccounted`), and the shared slice of an
exec probe with three variables or more (`CommandHasItsTrace`).

## Fairness

Go's scheduler runs every goroutine that can go on, so each goroutine has weak
fairness over all its steps, with a `select` treated as one choice: nothing says
which ready case is taken. In `Ingress` the handlers are fair because queries
have a deadline. Waiting for requests and for exporters in a shutdown is taken
to end; `UpdateEnds` checks the former. In `Probes` and `Expect` time passes and
what has a deadline fails once that is over; nothing is assumed of the probed
program. In `Exporters` a periodic reader that is open collects (weak fairness),
and of its exports, over and over, some succeed (strong fairness of a successful
`ExportEnds`: an endpoint that never answers gets nothing); scrapes may or may
not come. Nothing
is assumed of the rest of the environment: signals, file changes, reloads, a
failing list of processes and the end of the watched process may or may not
happen.

## What is proved

The theorems hold for every value of the constants that meets the assumption of
the module. Each rests on an inductive invariant `IInv` (`ConfigInvariance` for
`ConfigFile`), of which the properties are consequences; the theorem
`Invariance` of each module states it.

**Bunny** (`BoundsAssumption`: at least one load). `TypeCorrect`,
`MetricsNotStale`, `TelemetryOneAhead`, `RestIsConsistent`, `DeadlockFree`,
`ForwardingIsFree`, `ExitIsComplete`, `CrashesAreEarly`,
`StandstillsAreThree`: the invariants of `bunny_safety` and `bunny_running`, from
the start of the process. A channel does not remember what went through
it, so `IInv` counts. `UpdateInv`: config has sent
listener r every version up to `SentTo(r)`, and r has received them all but the
one in its buffer. `StageInv`: the tokens in the buffer are those telemetry has
sent minus those r has taken. `TelemetryInv` ties registry and provider to
telemetry's version. From these follows the lemma `Barrier`: whoever takes a
token finds a registry and provider of its own version or the next. `MetricInv`,
`SignalInv` and `WaitInv` carry the rest. `DeadlockFree` follows the edges of a
supposed circle until it reaches a goroutine that is owed something.
`CrashesAreEarly` adds `StartInv`: nobody returns before signals forwards,
signals is started last, so four of the five `wg.Add` have happened by then.
`RunningIsSafe` has the properties, those of types and panics apart, and the
next two results of the specification of `MCBunnyRunning`: its initial states
satisfy the same invariant.

`StandstillsAreThree` is what can be proved of "Bunny does not hang" without
fairness. `Blocked` says when a goroutine can do nothing without an event from
outside, and the theorem says what holds if all are blocked. Without a signal
telemetry and signals are never held up, so whoever waits for a stage or for
room in a channel is owed it by somebody who can go on; a signal only adds the
two causes of `StuckOnlyInShutdown`, and config blocked on a goroutine that has
returned.

`WorkEnds` gives the other half. `Work` bounds the steps the goroutines still
have to take, those that what they send will cause in others included: a version
that config has yet to send costs its listeners more than one in a channel, and
that more than one being applied. A reload adds at most 25, a signal at most 10,
and every step of the code takes something away. The two theorems together say
that after the last event from outside Bunny comes to one of the three
standstills, exits or panics, if only some goroutine that can go on does; that
last inference is left to the reader and to the liveness runs.

**Bunny implements Rollout** (`RolloutImplemented`). Three guards of `Rollout`
correspond to no test in the code; a lemma derives each from the counts above:
what is received is the next version, a token stands for a finished provider,
and telemetry begins a version only after the others received the one before.

**ConfigFile** (`ContentsAssumption`: an empty file, a missing file, the default
and the initial hash are not contents). `TypeCorrect`, `FileIsFollowed`,
`ReloadsAreNeeded`. `FreshInv` says that a configuration in use under the file's
own hash is the file's, and that otherwise an event is waiting. `SendInv`
charges every publication but two to a change of the file.

**Registry** (any appliers, metrics, versions; `RegistryAssumption`: the bounds
are natural numbers). `TypeCorrect`, `SafeRegistration`, `MetricsExposed`.
telemetry is at most one version ahead (`RolloutInv`), so what is made and what a
registry holds comes from two versions (`MadeInv`). A goroutine has at most one
collector under way, its latest (`MakingInv`), and between the two calls the
registry holds no collector of that goroutine in its place (`UnregisteredInv`);
so what `MustRegister` refuses is invalid or at odds with something else. Every
collector of the version that is not under way is exposed or displaced
(`ExposedInv`).

**Exporters** (any appliers, versions, counts, measurements; `ExportersAssumption`:
the bounds are natural numbers). `TypeCorrect`, `TimesReportedOnce`,
`LastProviderFlushed`, `ScrapesStayBroken`. A measurement is in one place, the
map or one reader (`ReportInv`). Only the last provider is shut down and nothing
is loaded after the signal (`StopInv`); from its last collection on, what is
fresh on it was counted after the signal, and once that export is delivered
nothing else is unsent (`FlushInv`). A series belongs to the present provider or
an earlier one (`SeriesInv`), whose prometheus reader therefore stays until the
shutdown: two readers with data of one metric go on reporting it.

**Probes** (`ProbesAssumption`: periods, delays and timeouts are integers, a
timeout is at least -1 and a delay at most `MaxAge`, up to which ages are told
apart). `TypeCorrect`, `PaceKept`, `DelayKept`, `SuccessesInTime`,
`CountsWhereStarted`, `CommandTraces`. `TimeInv` ties the ticker to the age of
the version: the time to the next tick is the period less the age modulo the
period, and rounds and the waiting tick together are at most one more than the
periods that are over. `RunInv` says for each state of a run what its outcome
can be. The counters are cardinalities of sets of runs, and a step moves one run.

**Ingress** (any paths, ports, requests, updates). `TypeCorrect`,
`CurrentServes`, `NoRequestOutlivesServer`, `QuietRequestsAsked`,
`UnhurriedServes`. `ServerInv`: every server that was replaced is closing, so a
late goroutine can only come to serve the present one. `UnhurriedInv`: as long
as no shutdown overtook a goroutine, only the present server's is under way.

**HealthQuery** (finitely many requests, results of any length).
`AnswersAsDocumented`, `AttemptsAccounted`. Where a request is says what its
result and its status are; the difference of the counters is the number of
requests that owe a success.

**Expect** (`ConfsAssumption` and `TextsAssumption`: a configuration is a
sequence of configured steps, what Bee says can be said, and a long delimiter is
not a delimiter of one byte). `TypeCorrect`, `AnswerableProbesSucceed`,
`SuccessWasHeard`, for configurations of any length. `Count` is the number of
steps of a kind in the first part of a script, a cardinality, so that moving on
by one step adds one or nothing (`CountNext`) and no induction is needed.
`Delivered`: what the probe has received and what waits for it are together at
most what Bee has sent; this holds of every conversation and gives
`SuccessWasHeard`. `InStep`: while a probe with an answerable script is running
and no deadline has passed, the two are equal in both directions and the texts
that wait are those of Bee's script that come next; so neither end can read
anything but what it asked for, and Bee cannot have closed before the probe is
answered. `ConversationsAreFinite` has a measure like that of `Bunny`: a
configured step may become a step of the script, that a text that waits, and
every step of the model uses one of them up, or a deadline, or the conversation.

The type invariants of `ConfigFile`, `Probes`, `Ingress`, `Registry` and
`Exporters` are proved and not part of a run.

Model-checked only: the liveness properties (`UpdatesAreApplied`,
`QuietShutdown`, `StuckOnlyInShutdown`, `ChangeIsApplied`, `UpdateEnds`,
`CountsAreSent`, `RunsEnd`, `BothEnd`), which are out of the prover's reach.
That `Registry` and `Exporters` keep to `Rollout` is neither: each of their
steps has an action of `Rollout` as a conjunct or leaves its variables alone.

## What is not modelled

* Struct declarations, log levels and the formatting of logs: nothing else
  depends on them. (The go-kit adapter tests for level info before it knows the
  level of a record, so at level warn errors of the database are not logged.)
* Traces, but for the trace ID in the environment of a command. URLs, headers
  and hosts of probes: they go into a library call unchanged. (The host of a
  tcpSocket probe is read from the key `service`, not `host`.)
* An exec probe with an empty command, whose first word `act` indexes.
* Bee's HTTP and gRPC servers: the probed program of `Probes` answers anything.
* Which expression signals watches for. `watching` says whether one is set; a
  configuration without one leaves the previous one in place, as in the code.
* Other processes that hold the port: in `Ingress` a bind fails only over a
  listener of Bunny's own, and `UnhurriedUpdateServes` assumes that.
* PromQL, the database and exporters beyond what the modules above say of them.
