# TLA+ models of experiment-go-server

This directory specifies the Amplitude Experiment Go server SDK, local evaluation
above all: how flag configurations and cohorts are kept up to date, how flags are
evaluated, how events are deduplicated, and how the remote client retries. The
modules are checked with TLC on small instances; the `*Proofs` modules prove safety
properties with TLAPS for every value of the constants. `PROJECT.json`
maps each definition to the lines it models and lists runs, mutants, findings,
hazards and theorems.

Paths below are relative to `src/pkg/experiment/local/` unless they start with
`internal/` or `remote/`.

## The system

A local `Client` holds two storages, flags and cohorts, which a
`deploymentRunner` fills and `EvaluateV2` reads. The flags come from a streamer,
backed by a poller, backed by retries:

    deploymentRunner
      flagConfigFallbackRetryWrapper         streamer, with poller as fallback
        flagConfigStreamer --- flagConfigStreamApiV2 --- sseStream --- go-sse
        flagConfigFallbackRetryWrapper       poller, without fallback
          flagConfigPoller --- poller
      both updaters: flagConfigUpdaterBase.update
        cohortLoader --- CohortLoaderTask --- directCohortDownloadApi
        flagConfigStorage, cohortStorage
    Client.EvaluateV2
        topologicalSort, evaluation.Engine
        exposureFilter / assignmentFilter --- internal/cache

| component | state | operations | what has to be right | modelled in |
|---|---|---|---|---|
| `flagConfigFallbackRetryWrapper` (`flag_config_updater.go`) | `isRunning`, two timers, the two wrapped updaters | `Start`, `Stop`, `scheduleRetry`, `fallbackStart`, the callback main reports its failures to | nothing is revived after `Stop`; main is always retried; the fallback covers outages of main and stops when main is back | `FallbackRetry`, refining `RetryingUpdater` |
| `flagConfigStreamer`, `flagConfigStreamApiV2` | two locks, `stopCh`, one receive goroutine and one stream per connection | `Start`, `Stop`, `Connect`, `Close`, `closeAll`, the failure report | no connection out of reach, none leaked, no double close, no silent death | `StreamApi` |
| `sseStream` (`stream.go`) | `cancelClientContext`, one context, goroutine and timer per connection | `Connect`, `Cancel`, receiving, keep-alive, reconnect | one live connection, the reader is never left without connection or error | `SseStream` |
| `flagConfigUpdaterBase.update`, storages | flags, cohorts, the index of cohorts by group type | `removeIf`, `putFlagConfig`, downloads, `deleteUnusedCohorts` | flags have their cohorts, the latest configuration wins, nothing unused stays, what is stored is found | `FlagUpdate` |
| `cohortLoader` | pool of task objects, `jobs`, one goroutine per task and per waiter | `loadCohort`, `run`, `wait`, `getCohort` | one download of a cohort at a time, nobody misses the end of what he waits for | `CohortLoader`, refining `SingleFlight`; seen from the updates in `FlagUpdate` |
| `poller`, `deploymentRunner` | ticker goroutines, the nested wrappers | polls of flags and cohorts, `start` | flags are served whatever the stream does | `Deployment` (the nesting), `FallbackRetry` (a poll is a piece of main's work), `FlagUpdate` (the cohort poll) |
| `exposureFilter`, `assignmentFilter`, `internal/cache` | LRU list and map, expiry | `shouldTrack` | no duplicate within the TTL, no silence beyond it, bounded memory | `TrackingFilter` |
| `topologicalSort` (`sort.go`) | call stack, flags not yet placed | traversal | dependencies first, exactly the required flags, cycles found | `FlagSort` |
| `internal/evaluation` | results so far | `Evaluate`, conditions, segments, buckets | the result depends on the definitions, not on the order of a map; widening a rollout moves nobody; thresholds divide the users in order | `Engine`, `FlagEvaluation` |
| cohort targeting (`flag_config_util.go`, `enrichUserWithCohorts`, `UserToContext`) | | from a user and the stored cohorts to the context | a cohort filter means membership | `CohortTargeting` |
| `Client` | registry of instances, storages | `Initialize`, `EvaluateV2` | one client per key; the whole of an evaluation | partly: `EvaluateV2` in `FlagEvaluation` |
| assignment and exposure services | | formatting events for the analytics library | | not modelled: pure formatting |
| `remote/` client | registry; per fetch its deadline, timer and delay | `Initialize`, `FetchV2...`, `retryFetch` | a fetch ends with what its requests earned, in bounded time | `RemoteClient` |
| logger, `cmd/xpmt` | | | | not modelled: output only |

Hard behaviours, and where they are modelled: timers that have expired cannot be
recalled by `time.Timer.Stop` (`FallbackRetry`); failure reports arrive after the
updater was stopped or started again (`FallbackRetry`, `StreamApi`); lock order and
goroutines racing `Close` (`StreamApi`); reconnects racing `Cancel`, sends on closed
channels (`SseStream`); updates that overlap because every message is handled by
`go onUpdate(flags)` and every poll has its own goroutine (`FlagUpdate`); jobs shared
between updates and the cohort poll (`FlagUpdate`); task objects that are used again
while others still hold them (`CohortLoader`); one wrapper that starts and stops
another (`Deployment`); Go's random map order (`FlagSort`, `FlagEvaluation`); deadlines,
retries and cancellation (`RemoteClient`).

## Modules

### RetryingUpdater, FallbackRetry

`RetryingUpdater` is what an owner may expect of a self-recovering
`flagConfigUpdater`: after a successful `Start` it serves, with interruptions that
end, until `Stop`. `FallbackRetry` is the wrapper. Each method and each timer body
runs under `w.lock`, so each is one action; a method with two outcomes is two
actions (`RetrySucceeds`/`RetryFails`). What is not under the lock is counted:
goroutines spawned and waiting (`retryCalls`, `fallbackCalls`), expired timers whose
body waits (`retryBodies`), unexpired timers that `w.retryTimer` or
`w.fallbackStartRetryTimer` refers to (`retryTimer`, `fallbackTimer`) and ones whose
reference was overwritten (`lost...`). `mainWork` counts the polls or receive loops of
main that may still report a failure, also after main was stopped. The wrapped
updaters appear through their interface; a failed `Start` leaves them down since
both implementations stop first.

Bounds: `MaxStarts` Start calls, `MaxWork` pieces of main's work, `MaxPending`
goroutines and timers of a kind. `MaxWork = 2` lets a late report of old work meet
new work, three starts let a leftover of the first start meet the third, and
`MaxPending = 3` is never reached by one chain, so the bound is only met by
overlaps.

### Deployment

`deploymentRunner` with streaming: the streaming wrapper, in the variables of
`FallbackRetry`, has as its fallback the polling wrapper, an instance `P` of
`FallbackRetry` without a fallback. The steps in which the outer wrapper calls `Start` or
`Stop` of the inner one are joint steps, one conjunct for each: `StartPolling`,
`RetryStopsPolling`, `PollingRefused`, and the outer `Start`. All other steps are those of
one wrapper. The owner starts again only after a failed `Start` (`MaxStarts = 2`),
which is where `SingleRetryChain` and `FallbackCovers` are promises; the runner has no
other stop than the end of the process, so `Stop` of the outer wrapper is not
among the steps. One poll and one receive loop are in progress at a time.

### StreamApi

One connection per `Connect`. `pc[c]` is the receive goroutine; `ownerPc` the owner
inside `Start` or `Stop`. The two mutexes are derived from the pcs
(`StreamerLockFree`, `ApiLockFree`). `failed[c]` says that the stream has an error to
hand over; the select between `stopCh` and the error is a choice between `SeesStop`
and `SeesError`. `CloseAllPanics` is the second close of a channel. `MaxConns = 3`: two
old connections may fail while the third is made.

### SseStream

The chain of connections a stream makes by its reconnect timer. `pc[c]` is the main
goroutine of connection c, `timer[c]` its reconnect timer, `source[c]` what the
event source (go-sse, external) does, `live[c]` whether its context is not cancelled.
The channels to the reader are unbuffered: a send waits for `reader = "reading"` or
panics, and is muted, once they are closed. The timer's check, cancel and connect are
three steps since the code holds no lock over them. `MaxConns = 3` gives two
reconnects, so an old goroutine meets both a live successor and a cancelled one.

### FlagUpdate

`update` without a lock of its own: each storage call is one action, in the order of
the code (`RemoveIf`, `ReadCohorts`, the downloads, the puts, `ReadUsed`, `ReadStored`,
the deletes). `config[v]` is what delivery v brought; flags carry the version they
came with, a stored cohort the group type it came with, and `index` is
`groupToCohortStore`. A job per cohort stands for the loader, joined by whoever asks
while it runs; `known` remembers whether its request carried a `lastModified`, so that
it can be answered 204 for a copy that was deleted meanwhile. `CohortPoll` is the
poll of `deploymentRunner`.

How the module is used differs between deployments, and `load` says how: with
which configurations, one update at a time or two, with cohort syncing or without it,
with the cohort poll or before it starts. `MCFlagUpdate` has four loads: two flags that
share, swap and drop two cohorts, one update at a time, with and without cohort
syncing; and one flag, two updates at a time beside the poll, that swaps its cohort or
whose cohort changes its group type. With three deliveries each kind of change
follows each other kind.

### SingleFlight, CohortLoader

`SingleFlight` is what those who ask the loader rely on: one download of a cohort at a
time, joined by whoever asks meanwhile, and an end for all of them. `CohortLoader` is the
code: task objects from a `sync.Pool` that are put back when their run ends, while
waiters still hold them, so that a task may already be another cohort's when
`task.wait()` reads its `doneChan`. `chan[w]` says which channel a waiter got: it reads
it after the job it joined was started, perhaps when the task is already used
again; `joined[w]` is a history variable for the refinement. A request makes up to three
attempts after transport errors, and ends with a copy, unmodified, or an error. Two
tasks, two waiters and two cohorts let a task be reused for either cohort while a waiter
still has to read its channel.

### TrackingFilter

`shouldTrack` is one action under the filter's mutex, split by what the cache says:
`Duplicate`, `TrackNew`, `TrackExpired`. The list and the map are separate, as in the
code, and an item has its expiry. `trackedAt` and `usedSince` are history variables
for the properties. Four keys over a capacity of two let a key be evicted, come
back and evict; seven instants and a TTL of three let each key expire twice.

### FlagSort, Engine, FlagEvaluation

`FlagSort` runs `parentTraversal` with an explicit stack, one action per call, visited
parent and return. `Engine` has the pure functions of `engine.go` as operators:
lists and filter values are sets, because the engine asks which texts they hold, or for
their JSON (filter values that are nil, which the flag API does not send, would make "set
is" false). What Go's libraries make of a value (the number in a text, its version, its
place in the order, the patterns it matches, its hash, the JSON of a list, the parts of a
variant) is given by constants. A text may read as the number `NaN`, which compares with
nothing. `CohortTargeting` goes from a user to the context: which cohorts the
flags name for which group type, which of them the user and its groups are members
of, and what `UserToContext` makes of that.

`FlagEvaluation` composes them into `EvaluateV2` over one snapshot of the flags and
cohorts: sort, enrich the user, evaluate; then the server may widen the rollouts
(`RollOut`) and the same user is evaluated again. `MCFlagEvaluation` takes every graph of
three flags and a missing one with up to two dependencies each (self-dependencies
and cycles included), every order Go may visit the map in, three requests and five
users: their hashes are at and around the edges of an allocation and its
distributions, their versions and ages are numbers (NaN for one), versions, both or neither, and they
are members of cohorts of their own or of their group's type, of none, or of one under
the wrong type.

What the module takes the server to send is in named assumptions, which TLC
evaluates and the proofs use:

* `DefinitionAssumption`: segments, conditions, allocations and distributions are lists;
  the selectors of a flag look at the context or at a flag among its declared
  dependencies (the code evaluates in their order and relies on it; `Definition` has the
  dependencies as its argument for that reason); and a cohort filter is on
  `context.user.cohort_ids` or `context.groups.<type>.cohort_ids`, the two places where
  `UserToContext` puts cohorts.
* `TargetingAssumption`: no cohort id is spelled like a truth value (`matchesIs` would take
  "True" for "true"), and the caller sets no user property named `cohort_ids`, which
  would be the filters' own path.
* `ComparisonAssumption`: the users' texts, the thresholds and the preReleases of versions are
  among `Texts`, which Go orders strictly and totally; a number is NaN or stands for its
  place among the numbers; the parts of a version are naturals and a text.
* `WideningAssumption` says what the widening of a rollout is: the allocations of a flag's
  one bucketed segment grow, not into one another, and nothing else changes. With
  two bucketed segments the first, when widened, rightly takes users from the second.

### RemoteClient

One fetch, its requests with their deadlines and the sleeps between them, in ticks of
a clock; the caller may cancel its context at any time. `answers` is the history of what
the requests came to, and the loop's counter. Two keys let each client keep its
own config; the four configs have no retries, the default delays of 0, delays that grow
to the greatest one, and a first delay that exceeds it.

## Runs

| run | bounds | distinct states | shows |
|---|---|---|---|
| `fallback_retry` | 3 starts, 2 pieces of work, 3 pending | 20,303 | types; after `Stop` both updaters stay down (`StoppedMeansIdle`); a retry of main is never lost (`MainRetryPending`); main recovers (`MainRecovers`); the wrapper implements `RetryingUpdater!FairSpec` |
| `fallback_retry_both` | 1 start | (violation) | counterexample to "Main start success, stop fallback" |
| `deployment` | a failed and a successful start, 1 piece of work each | 116,852 | one retry chain; the fallback covers main; every outage has an end on its way in one of the two wrappers (`OutageIsHandled`); flags are served again and again although the stream may never return (`FlagsServed`); the inner wrapper keeps `RetryingUpdater` too |
| `stream_api` | 3 connections | 5,137 | types, reachability, no leaks, `stopCh` open, no silent death; `Start` and `Stop` return |
| `stream_api_panic` | 2 connections | (violation) | counterexample: a second close of `stopCh` |
| `sse_stream` | 3 connections | 110,743 | types; one live connection; the reader is served; a closed stream ends; errors arrive |
| `sse_stream_cancel` | 2 connections | (violation) | counterexample: a connection after `Cancel` |
| `flag_update` | 3 deliveries, 4 loads | 309,145 | one at a time: flags have their cohorts (`FlagsHaveCohorts`), the storage is what was last delivered (`StorageIsLatest`); always: what is stored is in the index (`StoredIsFound`), updates end, and with the poll lost cohorts come back (`CohortsHeal`) |
| `cohort_loader` | 2 cohorts, 2 tasks, 2 waiters, 2 versions | 102,954 | the loader implements `SingleFlight!FairSpec`; no older copy replaces a newer one |
| `tracking_filter` | 4 keys, capacity 2, TTL 3, 7 instants | 2,051 | types; list and map agree and are bounded; a recent key is remembered; duplicates do not prolong the silence |
| `flag_evaluation` | 3 flags + 1 missing, 5 users, 1 widening | 85,246 | the sort is exact and ends; variants follow from the dependencies' alone (`EvaluationIsReference`); `RolloutIsSticky`; `TargetingIsMembership`; thresholds divide the users like points of a line (`ThresholdsAreOrdered`) |
| `remote_client` | 2 keys, 4 configs, up to 3 retries | 277,156 | a fetch ends with what it earned (`OutcomeIsEarned`) and no later than its config allows (`FetchIsBounded`) |

`CHECK_DEADLOCK FALSE` stands only where the modelled system may come to rest: a stream
that has been closed, a feed that has ended, an evaluation that is over.

### Fairness

Go runs every goroutine that can run and expires every armed timer: weak fairness of
the steps of each goroutine. `sync.Mutex` hands the lock to a starving waiter, so steps
that need a lock others keep taking are strongly fair (`CloseAll`, `ReportLocks`). That
a server answers is assumed only where a property needs it and then as strong fairness
of the success (`MainAvailable`, `StartPolling` and `P!RetrySucceeds` in `Deployment`,
`JobStores`): what is tried again and again succeeds at last. In `Deployment` nothing
is assumed of the stream's server. Nothing is assumed of the owner, who need not ever
call `Start` or `Stop`; a reader of `SseStream` that is told to stop closes the stream.

Stronger than the code are assumptions that a cohort request is answered or fails. The http
client of `cohort_download_api.go:45` has no timeout, so a request that hangs for ever
keeps its waiters, the update behind them and the cohort poll waiting for ever.
`FlagUpdate` and `CohortLoader` assume that it does not. So does `StreamApi`: `Connect` holds
its lock during `onInitUpdate`, which downloads cohorts, and the weak fairness of `FirstFails`
takes it to end; `CallsReturn` depends on it. And so do `FallbackRetry` and `Deployment`, where
the `Start` of a wrapped updater is one step: `MainRecovers` and `FlagsServed` take it
to return.

`RemoteClient` states no fairness: its clock stops for deadlines and timers that are due,
so `FetchIsBounded` is a safety property.

### Disagreements between code and comments

Each counterexample run checks one sentence of the repository:

* `fallback_retry_both`: a `fallbackStart` goroutine that gets the lock after main's
  retry succeeded starts the fallback anyway, and nothing stops it.
* `stream_api_panic`: `closeAll` closes `stopCh` without looking whether `Close` has;
  the panic is in a goroutine without recover. In the trace the `Close` is that of a second
  `Start`, which begins with `stopInternal`.
* `sse_stream_cancel`: the reconnect timer connects again after `Cancel`.

More statements fail in the models and have no run of their own. Each was seen as a
counterexample when the property was checked without the condition it now has:

* Two updates in progress at a time (`go onUpdate(flags)`,
  `flag_config_stream_api.go:154`): the older one may put its flags last, and a cohort
  may be deleted that a flag put after `ReadUsed` uses. `StorageIsLatest` is about one
  update at a time; that lost cohorts return is `CohortsHeal`.
* The cohort poll beside an update: the update joins the poll's job, which is answered 204
  for a copy deleted meanwhile, and stores a flag without its cohort.
  `FlagsHaveCohorts` excludes the poll.
* `FallbackCovers` and `SingleRetryChain` with a second `Start` after a successful one:
  a retry left over from before takes main down with nobody starting the fallback.
* These two and `OutageIsHandled` in `Deployment` with `MaxWork = 2`: two pieces of main's work
  report their failures, each report starts a retry of its own, the first retry brings main back
  and stops the poller, and the second, when its turn comes, stops the healthy main, fails to
  start it and starts no poller.
* A cohort stored again under another group type stays in the index of the old one
  (`cohort_storage.go:82`): a lookup for the old type finds it, with the members
  it has now. `StoredIsFound` says only that the right entry is there.
* Two cohort filters of a segment on one group type (`flag_config_util.go:37`): the second
  replaces the ids of the first, whose members then do not match.
  `TargetingIsMembership` is about segments with one filter per group type.

Two more are plain from the text. `compareVersion` is to "fall back on string
comparison" (`engine.go:354`, `367`) where one side is no version, but `compareString` is
given a version operator it does not know, so nothing matches: a user whose version is "9"
is neither below "1.2.0" nor at or above it. `ThresholdsAreOrdered` promises nothing
there. And a fetch whose retries end with a `null` body returns neither variants nor an
error, whatever errors came before (`remote/client.go:153`, `164`).

## Proofs

All proofs are for every value of the constants, bounds included, under the named
`ASSUME` of the module. TLC evaluates those assumptions in the runs.

**FallbackRetryProofs.** `Typing` needs that handling one failure never leaves more
pending than it replaces. `StopIsFinal` and `RetryIsNeverLost` are inductive once the
types are known. `Refinement` shows `Spec => RetryingUpdater!Spec`, action by action, from
`StopIsFinal`.

The same module proves the safety of `Deployment`. `OuterIsWrapper`: every step of the
deployment is a step of the outer wrapper or leaves it alone, so all theorems about
`FallbackRetry` hold of it. `PollerRefinement`: the inner wrapper, started and stopped by the
outer one, implements `RetryingUpdater!Spec`. `OneStreamRetryChain` and `PollerCoversStream`
assume one piece of the stream's work at a time, but any number of starts: the owner starts
again only after a failure, when nothing of the first start is left, which is what
`DeploymentChain`, which relates the pending retries, main's work and `mainUp`, adds to the types. With two pieces of work the properties are false, so
that assumption stays. `OutagesAreHandled` joins both wrappers: `FallbackIsPoller` says
that the outer wrapper's view of its fallback is the inner wrapper's `isRunning`, `PollerInv`
is `RetryIsNeverLost` for the inner one, and with `PollerCoversStream` an outage of
both finds the inner wrapper retrying or about to be started.

**StreamApiProofs.** The five safety properties are inductive together with
`Connecting`: while a connection is made the api holds no channel, and a connection
nobody receives from yet was not told to stop. Without it, `Close` could reach a
connection whose goroutine does not exist.

**SseStreamProofs.** `Chain`: the timers of all connections but the last are done,
those after it do not exist, and a timer that has cancelled its connection leaves it
cancelled. `Goroutines`: who sends an error or has ended is cancelled, and only closed
channels mute a send. From these `OneLiveConnection` and `NoSilentEnd`
follow for any number of reconnects.

**TrackingFilterProofs.** `InOrder`: the keys before k in the list have all been used
since k. So when k is evicted from the back of a full list, Capacity different keys
have been used since (`EvictedIsOld`, a count of a duplicate-free list), and
`Forgotten` keeps that until k is asked for again. With `Dated` (an entry expires
one TTL after it was tracked) this gives `LeastRecentlyUsed` and `SilenceEnds`;
`Coherent` gives `MapAndList`. The lemmas on lists say what removing,
pushing and dropping the back do to a list of distinct keys.

**FlagUpdateProofs.** `StoredCohortsAreFound` is inductive together with the types of what
is stored: a job files the copy before the storage has it, and a delete takes the cohort
with its entry. It assumes only that the cohorts of a load come with types of
`Types`.

`FlagsHaveCohortsAlways` and `StorageIsLatestAlways` are about loads with one update at a time
and no poll beside it (`Calm`). Neither is inductive: that a flag is put with its cohorts
follows from what the downloads before it did, and that nothing it needs is deleted from
what was read after the puts. `CalmInv` therefore says, for each place in `update`,
what is done by then: `FlagsAreCurrent` (which flags are put), `NeededAreLoaded` (a needed
cohort is stored, failed, or still to come), `JobsAreAwaited` (jobs run only while the
current update waits for them, so none stores or is answered 204 behind its back) and
`UnusedAreDeleted` (what is doomed is what no stored flag needs, all of it). `TypeCorrect`
is proved on the way, for all loads.

**CohortLoaderProofs.** `SharedDownloads` shows `Spec => SF!Spec`: `Join` and `Launch` are
joins, `RemoveJob` lands a download, `Wake` is a return, the rest are stutters. The
invariant says that the jobs in the map and the running tasks are each other's
(`JobsRun`, `RunsAreJobs`) and that only a waiter whose job is over holds a channel of the
past (`WaitersAreSound`). The first keeps an idle task that is handed out again from being
anyone's job, the second keeps a waiter from returning early on a closed channel.
`NoOldVersions` adds that a copy on its way to the storage is no older than what is
stored (`Ages`): one task runs for a cohort at a time (`OneRunPerCohort`), so nothing
newer is stored while it runs. `Typing` adds the types of the rest.

**FlagEvaluationProofs.** Everything here is for any graphs of flags, definitions, users,
cohorts and storage, and whatever Go's libraries make of texts.

* `SortIsExactAlways`. `SortInv`: the stack is a path along dependencies without repetition,
  starting at a key that was asked for (`PathIsSound`); the parents a frame has
  visited are in the result, but for the one on the next frame (`ParentsAreVisited`), which
  is why a flag may be added when its loop ends; what was asked for is still to come, on the
  stack or in the result (`NothingIsForgotten`). `Closure` is the least set closed under
  dependencies, so "reached" needs no induction over paths: the lemmas on it say that it is
  closed, least and transitive. A parent on the path closes a cycle (`FindCycleKeeps`);
  a sorted result has none, because of two flags that reach each other one is
  before the other (`ResultIsAcyclic`). `SortTyping` gives the types.
* `EvaluationIsReferenceAlways`. `EvaluationInv`: the flags evaluated so far have the variant that
  their dependencies' results give them. A flag evaluated later does not change that:
  it is no dependency of an earlier one (from `SortInv`), and an evaluation depends only
  on the results of declared dependencies (`LooksAtDependencies`, from `SelectAgrees` up through
  segments and buckets).
* `RolloutIsStickyAlways`. `WideningInv`: `before` holds what the flags gave at the previous
  rollout, in the context of now, since the context depends on the
  conditions alone, which do not change (`ContextOfConditions`). Then a claim of an
  allocation stays the only one when allocations grow apart (`ClaimsStay`, `BucketStays`), and no
  earlier segment decides (`EvaluationStays`). The premise `HashesAreNumbers` says that hashes
  are naturals; murmur3 gives a `uint32`.
* `TargetingIsMembershipAlways`. `UserEntry` and `GroupEntry` say what the context has at the paths of
  cohort filters, `SoleFilterCounts` that a filter alone for its group type names all cohorts
  looked up for it in its segment, `MatchCohorts` what the set operators make of the list;
  `FilterIsMembership` joins them. Ids of other filters in the list do no harm: a filter looks
  only for its own.
* `ThresholdsAreOrderedAlways`. `ConditionByNumber` and `ConditionByVersion` say which relation
  a condition with one threshold asks for. `NumberOrder`, `NumbersNest` and `VersionOrder`
  say that these are strict total orders, where they apply: `VersionLess` goes through the
  parts one after the other and through `PreReleaseLess`. The invariant is that of
  `TargetingIsMembershipAlways`: the user is one of `Users` and the context is made of it,
  so every text in it is one of `Texts` (`ContextTexts`).

The least element of a set of naturals, which "first segment" and "first allocation"
need, comes from the library's `WFMin` (`LeastNatural`), not from induction.

**RemoteClientProofs.** `FetchInv` relates the clock to the history: while a request is made or a
sleep lasts, the time elapsed and what is left of the deadline or timer are within what the
answers so far allow (`TimeOf`), and no answer so far brought variants. `FetchIsBounded` alone is not
inductive, it does not know how many retries are left. The lemmas on
`TimeOf` are the arithmetic of one more request. Both properties follow for every
config, delays of 0 and a first delay beyond the greatest one included.

Every invariant and every action property a passing run checks is proved, and the safety
part of each refinement. Only model-checked is liveness, which is out of the proof
system's reach: `MainRecovers`, `FlagsServed`, `CallsReturn`, `ClosedStreamEnds`, `ErrorsArrive`,
`UpdatesEnd`, `CohortsHeal`, `SortEnds`, and the fairness in `ImplementsFairUpdater`,
`PollerKeepsPromise` and `ImplementsSingleFlight`.

Premises that are not assumptions of a module: `MaxWork <= 1` in a deployment (beyond it
the properties are false, see the disagreements above), `HasFallback` for `OutagesAreHandled` (the
polling wrapper has none and promises nothing of the kind), and `HashesAreNumbers`, which
quantifies over all texts and which TLC could not evaluate.

## Not modelled

* Within the modelled components: the wording and logging everywhere; the data of
  messages in `StreamApi` and `SseStream`; keep-alive data, which changes nothing;
  `jitter`; empty exposures, which never reach the cache; metadata and payloads of
  variants; the building of requests and the reading of their bodies.
* Evaluation beside an update. `EvaluateV2` reads the flags and then, flag by flag, the
  cohorts, so an update in between may show it a flag without its cohort. Nothing says
  that it should not, so there is no property to check. The cohorts are written
  into the caller's user: two evaluations at once of one user write one Go map, which
  the Go runtime does not survive; `FlagEvaluation` has one after the other.
* `Initialize` of the local client is the twin of the remote one's. After its panic on
  an empty key the mutex stays locked: `InitializePanics` is an action of
  `RemoteClient`, and no property promises anything to later callers.
* The cohort poll loops that further successful starts would add: one is modelled. Of its
  polls one runs at a time, while the code starts each tick's in a goroutine of its own
  (`poller.go:24`), so that a slow one overlaps the next. Polls that overlap share their jobs
  as updates and a poll do here.
* Flags in flight between two sources: a poll that is under way when the poller is stopped
  still writes its flags. Deliveries of two sources have no common order in the code, so
  "latest" has no meaning to check; within one source it is `StorageIsLatest`.
* Requests, JSON, formatting of events, the logger and the command line tool.

## Plan

Done: all components with state of their own have their module, and all safety
properties of the runs are proved.

Left: the premise `MaxWork <= 1` of the retry chain could become one about the order of
failure reports, which would admit late reports that find their updater stopped; and
the lemmas on closures and on first elements, now in `FlagEvaluationProofs`, could serve
a proof that the sort needs at most one call per dependency.
