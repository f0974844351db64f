# Formal models of cxone-sdk-golang

This directory holds TLA+ models of the CxOne Go SDK, TLC configurations that
check them on small instances, and proofs checked by TLAPS.  It documents
what is modelled, what the runs show, what is proved, and what is left out.

    tlc -workers 2 -config MCTokenCache.cfg MCTokenCache     # any run below
    tlapm TokenCacheProofs.tla                               # the proofs of a module

`PROJECT.json` is the machine-readable counterpart: components, runs, mutants,
the map from definitions to source lines, hazards, findings and theorems.

## 1. The system

The SDK turns method calls into HTTP requests against the CxOne platform.  All
requests of all goroutines go through one funnel, which takes its bearer tokens
from one shared cache.  On top of the endpoint adapters sit workflows with
caches, pools and loops of their own.

    workflows  (presets, roles, users, projects, scans, audit, migration)
        |  one method per request
    endpoint adapters (apps, projects, scans, ...)   pagination.Iterator
        |  internal.DoJSON / DoStream                      |
    request funnel  (internal/transport/executor.go)  <----+
        |  Token / Refresh            |  HTTP
    token cache (auth)            API server
        |  HTTP
    IAM service

| Component | State | Operations | Hard part | What makes it correct |
|---|---|---|---|---|
| Retry policy (`internal/retry`) | none; a shared random source | `Do`, `Sleep`, `Backoff`, `ClassifyStatus` | budgets of zero, cancellation during a sleep | never more attempts than the budget; a done context ends the sleep |
| Token cache and IAM fetch (`auth`) | `token`, `gen`, `mu`; the loop of `postForm` | `Token`, `Refresh`, `Close` | many goroutines hit a 401 with one token; the lock is held across the network | one fetch at a time; a refreshed token is new; a token is renewed only when it is stale; every call returns |
| Request funnel (`internal/transport`) | the locals of each `Do` | `Do` | 401 off the budget, retries, cancellation, ownership of bodies and timers | bounded sends; rejected tokens not sent again; nothing leaked; every call returns |
| Client (`client.go`) | `closeOnce`, the HTTP client | `New`, `Close`, accessors | `Close` with calls in flight | `Close` once, in-flight calls go on |
| Project handle (`workflows/projects/repo_config.go`) | a `sync.Once` and two fields, twice | `Configuration`, `Branches`, factories | the `Once` is overwritten while shared | one request until a failure; an answer is a value or an error |
| Preset reader (`workflows/presets`) | list and details, a mutex for each | `List`, `ByName`, `ByID`, `Detail`, `LoadAllDetails` | workers, semaphore, WaitGroup, cancellation, outsiders | bounded, no orphan, success means warm, fetched once, no deadlock |
| Role, user and application caches (`workflows/roles`, `users`, `clients`) | the catalogue, its `loaded` flag and a mutex; per role the composites and a mutex; `ASTAppIDCache`'s value and error | `List`, lookups, `Count`, `ListClientRoles`, `Composites`, `Get` | three policies for an error: dropped, kept for ever, kept beside the value | read once; a whole catalogue; one answer about composites; a failure is the call's own |
| Pagination (`pagination`, `workflows/results`) | offset, buffer, `exhausted` | `New`, `NewGraphQL`, `Next`, `Collect`, `All` | the collection changes between pages, page retries | every stable item seen once; termination |
| Waiters (`workflows/scans`, `audit`, `migration`, `reports`) | the last snapshot | `WaitUntilComplete`, `WaitForRequest`, `Handle.Wait` | deadline against last poll | a terminal state or a timeout; at most one poll after the deadline |
| Scan inspector | a snapshot | `Executing`, `Successful`, `Failed`, `Refresh` | partial scans | the verdict agrees with the engines' states |
| Scan invocation, uploads (`workflows/scans/invoker.go`) | the builder's fields, the reader it was given | `For*`, `With*`, `Start` | three requests, each may fail; the builder is used again | no scan without its source; one scan for one `Start`; no request after a configuration error |
| Scan comparison (`workflows/scans/compare.go`) | two concurrent fetches, `firstErr`, `gctx` | `Compare` | first error cancels the other; repeated identities, filters | the first error is reported; the diff is a partition |
| Get-or-create helpers (`workflows/projects`, `groups`, `users`, `clients`) | none; the platform's objects | `GetOrCreateByName`, `GetOrCreateInApplicationByName`, `GetOrCreateByUsername`, `GetOrCreateByEmail` | look-up and create race, half-done work, lost responses | no second object without a race or a lost response; a retry completes the work |
| Endpoint adapters (`internal/endpoints`, `advanced`, `internal/transport/jsonexec.go`, `streamexec.go`) | none | some 200 operations, of one request, or of two (`GetLogs`, `UploadFromReader`, `CreateAdmin`, users' `Create`) or four (`CreateSAML`) | two hosts, empty and broken bodies, failure in the middle, requests sent twice | success means all was done; failure names a cause; nothing is done twice unless an answer was lost |

The components interact by calls only.  The shared state is the token cache
(all goroutines of a client), the reader caches and project handles (all
goroutines given the handle), the objects on the platform and the random source
of the backoff.  There is no persistence: a crash leaves nothing to recover.

## 2. Modules

| Module | Models | Form |
|---|---|---|
| `Retry` | status classification, attempt budgets | operators |
| `TokenService` | what an `auth.Authenticator` promises: a register holding one token | abstract specification |
| `TokenCache` | `token_cache.go`, `fetch.go`, `oauth.go`, `apikey.go`, `Client.Close` | state machine, implements `TokenService` |
| `Executor` | `executor.go`, over `TokenService` | state machine, composed with the abstract service |
| `RepoConfig` | `repo_config.go` with `sync.Once` and `sync.Mutex` taken apart | state machine |
| `PresetReader` | `workflows/presets/reader.go` | state machine |
| `Pagination` | `pagination/iterator.go` over a collection that changes | state machine |
| `Waiter` | the waiters of `workflows/scans`, `migration`, `reports`, `audit`, and the buckets of `scans/inspector.go` | state machine |
| `LazyReader` | `roles/reader.go`, `users/reader.go`, `ASTAppIDCache` of `clients/helpers.go` | state machine |
| `Provisioning` | the get-or-create helpers against the platform | state machine |
| `ScanStart` | `scans/invoker.go` over the uploads endpoint | state machine |
| `Compare` | `scans/compare.go`: the two fetches, the diff, the suppressed findings | state machine and operators |
| `Endpoints` | every operation of `internal/endpoints` as a list of requests | operators |
| `Handles` | which operations each handle of `advanced.go` and `client.go` offers, and the host it asks | operators, extends `Endpoints` |
| `Exchange` | one call of one operation, with `DoJSON`, `DoStream`, `DoText` | state machine, extends `Handles` |
| `Shared` | one behaviour of `Executor`, `PresetReader`, `LazyReader` or `Provisioning` | composition |
| `Components` | one behaviour of `RepoConfig`, `Pagination`, `Waiter`, `ScanStart`, `Compare` or `Exchange`, and, for their liveness, of `Executor` or `PresetReader` | composition |
| `MCTokenCache`, `MCTokenCacheClose`, `MCRepoConfig` | an instance of one module each | for TLC |
| `MCShared`, `MCComponents` | instances of `Shared` and `Components`; the latter also states fairness | for TLC |
| `TokenCacheProofs`, `ExecutorProofs`, `PresetReaderProofs`, `ProvisioningProofs`, `RepoConfigProofs`, `ExchangeProofs` | the inductive invariant of one component each | proofs |
| `SharedProofs`, `ComponentsProofs` | the theorems of the compositions; the invariants of `LazyReader`, `Pagination`, `Waiter`, `ScanStart` and `Compare` | proofs |

The composition is by contract: `Executor` runs against `TokenService`, and
`TokenCache` is shown to implement `TokenService` (checked by TLC, proved by
TLAPS), so the funnel's properties hold over the real cache without multiplying
the two state spaces.

### TokenCache

A goroutine's call is a sequence of steps: `Begin*` (the call), `Token`,
`Refresh` or `Close` (the critical section under `mu`), and, when the section
needs a token, one `IAM*` step per answer of the IAM service and `BackoffEnds`
per pause.  A critical section without a fetch is one step, because nothing can
be seen of its inside; a fetch keeps `mu` and is split wherever other goroutines
run.  Tokens are numbered in the order IAM issues them, so that token 3 is not
token 2; `iam` also counts tokens whose response was lost.  `stale[c]` ranges
over every generation the cache has handed out, and `Close` may come at any
time, before or after other calls.  `closeOnce` is `sync.Once` as used by
`Client.Close`: a second closer waits for the first.

Both grant types share `postForm` and differ in the form they send, which no
property sees.  The errors are told apart only as far as `postForm` does it:
catalogue error, catalogue error wrapping the context's, bare transport error.

### Executor

`call[c]` holds the locals of one `Do`: attempt, `usedGen`, the token, the
`refreshedAfter401` flag, and three history fields used by properties.  `Do`
is entry; `GotToken` and `GotRefresh` are the returns of the Authenticator;
`Receive`, `Unauthorized`, `ReceiveAgain`, `SendFails` and `BeforeFails` are the
ways a `sendOnce` ends; `Backoff` ends a pause; `CloseBody` is the caller.
`Elsewhere` is what the rest of the program does to the register: `Client.Close`
and token responses that are lost.  `Timed` says whether the call has a timeout
context, `Intercepted` whether interceptors are registered.  Whether an error
is transient is nondeterministic, as the predicate depends on the text of the
error in the end; any context error is final.  Headers, logging, metrics and spans
are left out.

### RepoConfig

The reset overwrites a `sync.Once` in place, so the model keeps its parts: the
done flag and the mutex word (locked, woken, waiters).  Each racing access is a
step of its own: the test of `configErr`, its second read, the three stores of
the reset and the final read.  The `Once` is 12 bytes whose first two words the
reset clears; that store is one step, the finest the outcome depends on.
`Throw` is the fatal error of package sync.  The starvation mode of the mutex
(after 1 ms of waiting) is left out; it only adds ways to reach the same faults.
Requests are counted to 2.  `Branches` is the same code over the other fields.

### PresetReader

The loader, one worker per preset and any number of callers share two levels of
mutexes.  `Spawn` is one round of the `select` that takes a slot; `StopSpawning`
is its other branch, also possible when both are ready; `Record`, `Release` and
`WorkerDone` are the end of a worker in its deferred order.  The worker of preset
`p` bears the preset's name, since there is one of each.  Results of the lookups
and the order of the list are abstracted.  One `LoadAllDetails` runs at a time;
it may be called again after it returned.

### Pagination

`offset`, `exhausted` and `buffer` are the iterator's fields; `NextBuffered` and
`NextUnbuffered` are the two ways into `Next`, `PageArrives`, `PageFails` and
`SleepEnds` the rest of `fetchNextPage`.  `Collect` makes `Next` follow upon
`Next` until it has to stop; `All` does the same, and a caller who leaves the
range is one who stops calling `Next`.  The caller may go on after an error, with
another context (`Context`).  Between any two steps the platform adds an item at
either end or removes one (`AddItem`, `RemoveItem`).  `PageAt` is the endpoint: it
serves at most `MaxPage` items, by offset or by page number as the iterator is
configured for.  `Fetched` is what the fetcher makes of an answer: one without a
body, or a GraphQL answer without data, is an empty page and ends the walk
(`blanked`).  `ByCount` is what every adapter, `NewGraphQL` and the results
reader included, does to the configuration; their endpoints do not matter here.
`Retryable` is nondeterministic.  `PageRetryDelay` decides only how long
`SleepEnds` waits.

### Waiter

Four waiters share one shape.  `kind` tells them apart where they differ: a scan
or import waiter looks at the snapshot it is given before it polls, a report or
audit waiter polls first, and an audit waiter sends a keep-alive before every
other poll (`beat`).  `limited` says whether there is a deadline.  Time is
relative: `left` runs down to the deadline, `sleepLeft` to the end of the sleep,
and both run while requests are on the wire; looking at a snapshot takes no
time.  The engines of the job move on the platform on their own (`EngineMoves`),
and `Reported` is what a status request may then say, so that a snapshot is
stale as soon as it arrives.  `PartialBucket` is `partialBucket`: it sees only the
status details, which may lack an engine the scan was started with (`Absent`)
and list engines it was not (`Extra`).

A request may also be answered without a body, which `DoJSON` takes for a zero
value: the snapshot is then `Blank`, neither successful nor failed, and every
waiter sleeps and polls again.  What it polls by differs (`named`).  The id of a
scan is a field of the snapshot, and `Refresh` replaces all of it, so one blank
answer loses it; the inspector may also be made of a blank answer to begin with
(`FromScanID`, `FromScanModel`).  A report has the id its creation was answered
with, which nobody looks at; an import and an audit request have one that was
checked.  A waiter whose handle is not `named` asks for no job in particular and
sees nothing but blank snapshots, until a request fails.

### LazyReader

Three caches of one shape, told apart by `reader`.  `EnsureLoaded` is
`ensureLoaded` (and `Get`) up to the request: the mutex is taken and kept while the
catalogue is on its way; `NextPage`, `Load` and `LoadFails` are the ways a load
goes on; `Lookup` is the second critical section, in which the readers look up
what they have loaded.  `Composites` and `CompositesArrive` are the mutex of one
composite role and the request made under it, whose answer is kept whatever it
is.  `ASTAppIDCache` answers in the section it loads in and keeps the error of
a failed load (`err`) beside the value a later load stores.  An answer carries the
number of the load or request it comes from, so that an old error can be told
from a new one.  `backend` says whether the reader was built with an Executor.
Maps and lists are abstracted to the number of items they were built from.

### Provisioning

`goal` names the helper; `kind` the object the current request is about, which
is first the application and then the project in
`GetOrCreateInApplicationByName`.  `Found` and `NotFound` are the two outcomes of
the look-up; except for clients it is a pattern search with a limit, so that
`decoys` may fill the page.  `Created` is a `POST` that is answered:
applications and projects come with the record, groups and users are read back
by their `Location`, clients are looked up again.  `Conflict`, `Refused` and
`Unanswered` are the failures; in the last the platform may have created the
object, and the funnel sends again.  The platform may or may not enforce unique
names (`unique`).  `excused` and `trouble` are histories: what may explain a
duplicate, and what went wrong during a call.

### ScanStart

The setters run in any order, also between two `Start`s of one builder; `Start` is
`validate` with the tests of `start`, and `Presigned`, `PutFile`, `Created`,
`Refused`, `Unanswered` are its requests.  `Remembered` is the branch `validate`
writes into the builder although `Start` may fail afterwards.  `PutFile` goes to
the object store once, outside the funnel, and leaves the reader `spent`; net/http
knows the length of an in-memory reader and then sends what is left of it.
`ScanHasItsSource` says what such a reader comes to: a `Start` that begins with a
body already read (`reread`) starts a scan of an empty archive if the reader is in
memory and none if it is not; every other upload scan is of a whole archive.

### Compare

`Fetched`, `FetchFails` and `FetchCancelled` end one of the two goroutines;
`SetFirstErr` keeps the first error and cancels the other.  The pages of a fetch
are counted only, as `Pagination` models them.  `DiffResults` and
`GroupNotExploitable` are `diffResults` and `groupNotExploitable`, over records
of the fields they read; every pair of the lists given as `Scans` is compared.

### Endpoints, Handles and Exchange

A request is what tells operations apart once paths, queries and fields are
left out: the arguments it checks first (`needs`), its method, the statuses it
expects, what it makes of the body, and whether it goes through the funnel.  An
operation is a sequence of requests on the host that serves it (`home`), a handle
pairs operations with the base URL it was built with (`root`).  `Exchange` runs
any of them against a platform that carries the request out (`Served`), does not
(`Refused`; also an operation asked of the wrong host, or a second `DELETE`), or
does not answer (`Unanswered`), each with any status and a body that is whole,
empty, garbled or cut off.  `DoJSON`, `DoStream`, `DoText`, `ExtractID` and
`Direct` say what the answer comes to.  Retries are counted only: when an answer
is worth a retry is `Executor`'s subject.

### Shared and Components

Each behaviour runs the component named by `which`, one of `Components`; the
variables of all others are "off", and variables of one name are shared.  Each
component keeps its own `Init`, `Next`, properties and fairness (guarded by
`which`), so a run over several components says of each what a run of its own
would, and so does a theorem.  `Shared` and `Components` leave every constant
open; `SharedAssumption` and `ComponentsAssumption` are the `ConstantsOK` of
their components, which `MCShared` and `MCComponents` satisfy and TLC evaluates.
Where a component has a proof module of its own, the composition instantiates
that module, so that its lemmas can be cited of the composition.

## 3. Runs

| Run | Instance | Distinct states | Shows |
|---|---|---|---|
| `token_cache` | 3 goroutines, 2 attempts, 3 tokens | 658,000 | `SingleFetch`, `RefreshIsFresh`, `GenerationNamesToken`, `RenewedOnlyWhenStale` |
| `token_cache_service` | 2 goroutines, 2 tokens, fair | 32,000 | `ImplementsTokenService`, `CallsReturn` |
| `shared` | `Executor`: 2 calls, 3 attempts, 3 tokens, timeout, interceptors; `PresetReader`: 3 presets, 2 callers, 2 slots; `LazyReader`: 3 callers, pages of 2, up to 4 items, 2 loads; `Provisioning`: 2 callers, 2 calls each, 2 attempts, 3 objects | 810,000 | `SendBudget`, `RejectedTokenNotResent`, `UnauthorizedIsFinal`, `BodiesAccounted`, `TimerLifetime`, `OnlyRejectedTokensRenewed`; `BoundedParallelism`, `NoOrphans`, `SuccessMeansWarm`; `CatalogueWhole`, `CompositesSettled`; of both readers, `FetchedOnce`; `DuplicatesExplained`, `FailureIsOwn`; of all but `Provisioning`, `CallsAreFinite` |
| `components` | `RepoConfig`: 3 goroutines; `Pagination`: 3 items, 1 added, 2 removals; `Waiter`: 2 engines asked for and 1 not; `ScanStart`: 2 starts, 2 attempts; `Compare`: lists of up to 3 results, 2 pages; `Exchange`: every operation, 2 attempts | 1,912,000 | `SharedUntilFailure`, `SequentialRetry`; `NothingSkipped`, `NothingRepeated`; `VerdictIsFinal`, `DeadlineKept`; `ScanHasItsSource`, `StartIsOneScan`; `FirstErrorWins`, `ComparisonAddsUp`; `SuccessIsComplete`, `OutcomeExplained` |
| `calls_return` | fair; `Executor`: 1 call, 3 attempts; `PresetReader`: 2 presets, 1 caller, 1 slot; `Pagination` as above; `Waiter`: 1 engine | 49,000 | `ExecutorCallsReturn`, `PresetReaderCallsReturn`, `PaginationCollectReturns`, `WaiterWaitEnds` |

Each passing run also checks the `TypeOK` of its modules, the fair ones excepted.
Seven more runs each refute a sentence of the documentation (section 6).  Every
property of a passing run has a mutant in `PROJECT.json`: a changed definition,
kept beside the real one and marked `(mutant: ...)`, that breaks it.

Bounds.  Tokens: three are enough for a token to be issued, rejected, renewed
and renewed again while an old caller still reports the first; generations are
compared pairwise, so longer histories add no new order.  Goroutines: the
cache's conflicts are between the lock holder, a waiter and a closer, hence
three; the funnel's calls interact only through the register, hence two, and
one for its liveness, where `Elsewhere` stands for the others.

Attempts: two or three give a first, a middle and a last attempt; the budget
below 1 and the default are covered by `Configured` and `Budget`.  Presets:
three with two slots make a worker wait for a slot; one slot and two presets make
the loader wait on a worker that waits for a caller's lock.  Items: three in
pages of one and of two give full pages, a short last page and an empty one; two removals and one addition shift an offset
both ways and by a whole page.  A page budget of 1 gives a retry, one of -1 no
attempt at all.  Waiters: a poll interval of 2 and a limit of 3 make the second
sleep the one the deadline cuts short.  Bounds in guards: `MaxTokens` (when it is
reached IAM only refuses), `MaxRemovals`, and the set `Added`.  The histories
`fetches` and `late` stop counting at 2.

`LazyReader`: up to four items in pages of two give an empty page, a half page and
one or two full ones; three callers are the one who loads, one who waits and
one who comes later; two loads are a failed and a repeated one.  `Provisioning`:
two calls of each of two goroutines give every overlap and a retry after it;
three objects are an application and two projects, or a duplicate and one more,
and a second attempt is the one after a lost response.  `ScanStart`: the second
`Start` meets what the first left in the builder.  `Compare`: lists of up to two
results and one of three, in which an identity repeats, changes its severity, or
leaves the filter.  `Exchange`: a second send is the one that may do the work
twice.  `MaxLoads`, `MaxObjects`, `MaxCalls` and `MaxStarts` are bounds in guards.
The composed runs are checked without deadlock detection: goroutines may stop
calling at the bounds, a finished `Compare` or `Exchange` stops, and with
`RepoConfig` the process may die.

Symmetry is used in safety runs only, where goroutines and presets are
interchangeable: of `LazyReader`'s three
callers `MCShared` permutes two.

## 4. Fairness

Liveness is checked under the fairness the code justifies, and no more.

* A mutex is granted by strong fairness: it is free again and again, and Go's
  `sync.Mutex` hands itself to a waiter of more than 1 ms (starvation mode).
* A request ends by weak fairness: the `http.Client` is built with a timeout
  (`client.go`, 60 s by default), or the per-call timeout context ends it.  A
  client configured with a zero timeout against a silent server has no such
  guarantee.
* A backoff ends by its timer, time passes, a goroutine that can run does.
* `Collect` calls `Next` until it has to stop; whoever calls `Next` itself owes
  nothing.
* Nothing is assumed of callers: they may never call again, never cancel and
  never close a body.  IAM may refuse for ever, every page may fail, and the
  engines of a job need not move (a waiter without a limit then waits on).  Nor
  is a status request owed an answer with a body.  `WaiterWaitEnds` therefore has
  two parts: a waiter with a deadline comes back whatever it is answered; one
  without comes back once the engines are at rest, unless it finds its snapshot
  blank again and again.  For an import, an audit request or a report with an id
  that takes an empty answer to poll after poll; for a scan one is enough
  (section 6).
* `Executor` assumes that the Authenticator answers; `token_cache_service`
  shows that `TokenCache` does.

## 5. Proofs

TLAPS proves every safety invariant and every action property of the passing
runs, and that the token cache implements the token service.  A run shows a property on a small instance; the theorem says
it for every set of goroutines, presets and engines, every budget, page size,
collection, list of results and number of tokens that the assumption allows, and for every
operation of every handle.

| Theorems | Module | About | From |
|---|---|---|---|
| `TypeCorrect`, `SingleFetchHolds`, `RefreshIsFreshHolds`, `GenerationNamesTokenHolds`, `RenewedOnlyWhenStaleHolds`, `WaitsHaveEnds`, `CallsStayFinite`, `Refinement` | `TokenCacheProofs` | `TokenCache` | its own assumptions |
| `TypeCorrect` | `SharedProofs` | all of `Shared` | `SharedAssumption` |
| `SendBudgetHolds`, `RejectedTokenStaysUnsent`, `UnauthorizedMeansTwice`, `BodiesAreAccounted`, `TimerLives`, `RenewalIsJustified` | `SharedProofs` | `Executor` | |
| `ParallelismIsBounded`, `LeavesNoOrphans`, `SuccessWarmsAll`, `WaitsHaveEnds` | `SharedProofs` | `PresetReader` | |
| `CallsStayFinite` | `SharedProofs` | `Executor`, `PresetReader`, `LazyReader` | |
| `NothingFetchedTwice` | `SharedProofs` | `PresetReader`, `LazyReader` | |
| `CatalogueIsWhole`, `CompositesStaySettled` | `SharedProofs` | `LazyReader` | |
| `DuplicatesHaveCauses`, `FailuresAreOwn` | `SharedProofs` | `Provisioning` | |
| `TypeCorrect` | `ComponentsProofs` | all of `Components` | `ComponentsAssumption` |
| `OneRequestIsShared`, `FailureIsForgotten` | `ComponentsProofs` | `RepoConfig` | |
| `SkipsNothing`, `RepeatsNothing` | `ComponentsProofs` | `Pagination` | |
| `VerdictStands`, `DeadlineIsKept` | `ComponentsProofs` | `Waiter` | |
| `SourceIsThere`, `OneStartOneScan` | `ComponentsProofs` | `ScanStart` | |
| `FirstErrorIsTold`, `ReportAddsUp` | `ComponentsProofs` | `Compare` | |
| `SuccessIsWhole`, `OutcomesAreExplained` | `ComponentsProofs` | `Exchange` | |
| `LegalClient` | `ExecutorProofs` | `Executor` and `TokenService` | `ConstantsOK` |
| `ProjectsAreInApplication` | `ProvisioningProofs` | `Provisioning` | `ConstantsOK` |
| `HandlesAskTheirHosts` | `ExchangeProofs` | `Handles` | nothing |

The assumptions say no more than the code does.  The funnel's and the cache's budgets
are any integers, the attempts that other modules count are at least one; an
endpoint serves at least one item a page; a semaphore has at least one slot; the
sets that are counted (presets, the goroutines that wait for a mutex) are
finite; the results of a scan form a list, and query names have an order (they are
integers); the collection that is walked holds no item twice and none of those added
later; `Loader`, `Nobody` and `NoCaller` name none of the others; and the bounds in
guards are natural numbers.

### The argument

A behaviour of a composition is one of a single component (`OneRuns`): every step
is a step of it, or leaves its variables alone.  So the inductive invariant of
a composition is, for each component, the component's own, and each theorem is
a consequence of it.  In each proof module the invariant is a conjunction of named
parts, each action is a lemma (or a step of one), and under it stands one step per
part that the action can disturb.

None of the properties is inductive alone.  What is added, and why:

* `TokenCache`: `FetchHoldsLock` (who fetches holds the mutex, so two fetchers are
  one); `FetchIsNeeded` (while a goroutine fetches, the cache cannot answer it,
  which survives the others because they need the lock to change the cache, and
  makes the token stored at the end newer than the one reported); `Bounded` (no
  answer, stale generation or token runs ahead of `gen` and `iam`, so that a token
  issued now differs from all before); `Waits` (the mutex and `closeOnce` each belong
  to a goroutine that is still there, and a fetch backs off only with budget left).
* `Executor`: `Asked` (which generation a waiting call has reported); `Known` (no
  token or generation it holds is ahead of the register); `Budgeted` (attempts, sends and the resend after a
  401 count each other); `Ordered` (if the generation has moved since a call got
  its token, the register's token is newer than it; newer than the one it was
  denied, except while it waits for the refresh); `PastDenied` (what is sent
  after a 401 is newer than what was rejected); `BodiesAccounted`, without which
  closing a body could take `open` below zero.
* `PresetReader`: `PlacesByKind` and `AtPreset` (what workers, callers and the
  loader may be doing, and to which preset); `FetchHoldsLock`, `FetchedIfLoaded` (a
  detail on its way is still missing, and counted once when it is there);
  `WorkersReport`, `LoaderAccounts` (every preset is still to be spawned, being worked
  on, or has its outcome on record, so that a WaitGroup at zero and no error mean
  warm); `SlotsBounded`, with the semaphore equal to the number of workers
  between their slot and its release; `LocksHeld` (a mutex that is taken is held by a
  goroutine whose request is on its way).
* `LazyReader`: `LoadedByOne` (a catalogue is loaded by the one load that
  succeeded, and every place behind the first critical section has it);
  `WalkInside` (a walk never passes the end); `SettledByOne` (composites are
  settled, being asked for, or untouched, never two of these).
* `Provisioning`: `Identified` (identifiers are handed out once); `OverlapNoted`
  and `CreatesMissing` (a call that creates what is there already overlapped
  another, lost a response or met a full page, and the history says so);
  `OneOfAName`; `ApplicationFirst` (no project before its application).
* `RepoConfig`: two invariants, each under its own hypothesis.  Until a fetch fails
  (`NoFailure`) the mutex is sound (`MutexSound`: one goroutine inside, one
  woken) and a done `Once` has the configuration (`OnceSound`).  As long as no
  calls overlap (`NoOverlap`), `Found` says what the one call finds at each place of
  the reset.  `Counted` keeps the waiters a number.
* `Pagination`: `Rest` is what lies behind the offset, `Seen` what was yielded or is
  buffered.  `NothingAhead`: the two are disjoint unless an item was inserted in front;
  `NothingLost`: together they hold the collection unless something was removed
  or a page came blank.  `NoDoubles` and lemmas on ranges of sequences carry
  both over additions, removals and pages; `Asking` ties the end to an empty page.
* `Waiter`: `SnapshotStands` (what a snapshot says of an engine at rest stays
  true), `AnswerFromSnapshot`, and `LastPoll` (past the deadline there is one poll and
  no sleep).
* `ScanStart`: `Underway`, `StaysValid` (what `validate` let through still holds when the
  requests are sent), `ArchiveStored` (before the scan is posted its archive is
  whole, or empty if the reader was read before this `Start`), `OneScan`, `ErrorIsFirst`,
  `EnginesKnown`.
* `Compare`: `ErrorKept` (a cancellation comes of the caller or of an error already
  kept), `ReportFollows`, `ReportTells` (what is returned is the comparison of what
  was fetched).  That a comparison adds up is then a fact about any two lists.  A sum
  over a finite set is known by two equations, the empty sum and what one more
  element adds; `SumIsUnique` shows that they leave no choice, by the smallest
  set at which two such sums would differ.  With it the sum of the counts of
  disjoint sets is the count of their union (`CountsAddUp`), for the severities
  and for the groups alike.  The order of the groups is by rank: a group
  has as many groups before it as its place says, and no two have the same
  number (`OrderGivesPlaces`).
* `Exchange`: first the table.  `Sound` and `Leads` say what every request of
  every operation has in common (no refusal is a success but 304, a value read
  is checked before something is built on it); one lemma per family of operations and
  per handle shows it of all of them, and that each handle asks the host of its
  operations (`EntriesSound`).  Then the call: `DoneInOrder` (requests before the
  current one are done, those after it untouched, and the current one carried out only
  by sends without an answer) and `NoneBuiltOnBlank`.

Two safety properties carry what liveness rests on.  `WaitsEnd` says that whoever
waits waits for a goroutine that can go on, itself or at one remove: a loader for a
worker that waits for a preset a caller has locked, a `Close` for a `Close` behind
a fetch.  `CanGoOn` there is the guard of the goroutine's own steps, spelt out.
It follows from who holds which mutex (`Waits`, `LocksHeld`) and from the semaphore
and the WaitGroup being counts of workers.  `CallsAreFinite` gives each call a
number, `StepsLeft`, that each of its steps lowers and no step of another
goroutine changes: attempts left for a `Do` and for a fetch, presets left to spawn
for `LoadAllDetails`, items left for the walk over a catalogue.  Their proofs read the
number off place by place (`BoundIsRead`) and say where a step can take a
call (`GoesOn`, `LazyGoesOn`).

The abstract service again: `Refinement` maps each step of the cache to `Ask`, `Serve`,
`Renew`, `Refuse`, `Waste`, `Forget` or a stutter (a critical section that answers
from the cache is `Serve`, a fetch that succeeds is `Renew`, one that fails is `Refuse`,
a lost response before a backoff is `Waste`).  `LegalClient` closes the composition
from the other side: the funnel makes only the requests `TokenService` allows,
one at a time for each goroutine, and reports only generations the register has
reached.  What is proved of the
funnel over the abstract service therefore holds over the real cache.

The proofs also corrected the models.  The conditions of `DoJSON`, `Direct`
and their kin in `Exchange` were `CASE` expressions with overlapping guards, whose value TLA+
leaves open and TLC picks in order; no lemma about them went through, and they
are nested conditions now, in the order of the code.  `Compare` filtered and
sorted lists with operators of the community modules that only TLC can evaluate;
it speaks of the places of a list now, and says which group stands where and
not how it is brought there.

### Only model-checked

* Liveness (`CallsReturn` and its kin): the prover has no rule for `ENABLED`.
  `WaitsEnd` and `CallsAreFinite` are proved, that somebody can always go on and
  that nobody goes on for ever; that fairness then brings each call back is what
  TLC adds, and of `WaitsEnd` it is all a run needs to ask: a call that waits in a
  circle does not return.
* The refutations of section 6, which are counterexamples and need no proof.

## 6. Divergences found

Checked by a run that TLC refutes:

1. `fetch_exhaustion_doc`: `postForm` returns the bare transport error when its
   last attempt fails on the network; the comments say an `AuthError`.
2. `close_doc`: a `Token` after `Close` logs in again; the comment says it fails.
3. `before_error_doc`: an error of a `Before` interceptor may be retried; the
   comment says it never is.
4. `repo_config_empty_answer`: after a failed fetch a concurrent `Configuration`
   may return `(nil, nil)`; the comment calls a doubled retry the worst case.
5. `repo_config_crash`: the same reset can end the process with a fatal error of
   package sync.
6. `partial_scan_doc`: a Partial scan whose details lack one of the engines it
   was started with, the others being Completed, counts as successful; the
   comment says every originally requested engine has reported Completed.
7. `app_id_stale_error`: `ASTAppIDCache.Get` never clears the error of a failed
   lookup, so that every call after a later success returns the identifier
   with the old error; the comments say the first success is cached.

Met while reading, with no run of their own: the error of `After` is dropped
(`executor.go:386`) though `interceptor.go:101` says it replaces the outcome;
`After` is not called for the first 401, for retried statuses or for failed
sends; `Before` runs twice in an attempt that meets a 401; a failed `Refresh` leaves the
stale token cached (`auth.go:28-30`); a token fetch cancelled during its backoff
reports the last HTTP error and not the cancellation; the shared random source
is used outside its lock (`retry.go:80`); a zero `Config` pages by number though
`iterator.go:71` says by count; a negative `PageRetriesMax` ends the stream
without a request or an error; the limit of a waiter can be exceeded by the one
poll sent at the deadline, which has its own timeout.

Of the waiters: one empty answer to a poll makes `Refresh` replace the cached
scan by a zero one, its ID included (`inspector.go:100-106`; `jsonexec.go:86`), and
`scans.Get` does not check the ID, so that the next polls are of `/api/scans/`.
Their answers have neither a status nor an ID, and a `WaitUntilComplete` without
a limit goes on polling although the scan has ended, where `waiter.go:35-37` says
it polls "until the scan reaches a terminal state"; it ends when a request
fails or the caller cancels.  A report whose creation was answered without a body
(`reports.go:177-181`) is waited for in the same way.  `Waiter` models both, and
`WaitEnds` excepts them.

Of the workflows: `GetOrCreateInApplicationByName` does not put a project it
finds into the application, though `projects/helpers.go:40-43` says it ensures
so; the `GetOrCreateByName` of clients may return neither a client nor an error
when the client cannot be found again; `WithTags` panics on a refused `NewInvoker`
(`invoker.go:114`); an in-memory reader given to two `Start`s uploads an empty
archive the second time; `compare.go:81-84` says `done` is 1 of a stage while the
code counts to 4, and the callback may run in two goroutines at once
(`compare.go:171`, `183`); a finding whose severity moves across the filter
counts as new or as resolved.

Of the adapters: an empty body is a zero value without an error
(`jsonexec.go:86`), so that an answer without a body ends a walk over pages as if
it were complete; an iterator whose endpoint serves fewer items than it asks
for skips the rest (`iterator.go:228`); `GetLogs` needs the `Location` of a redirect, which the
default `http.Client` follows itself, and takes any status; `DoText` cuts at
16 MiB in silence; `UploadFromReader` checks its arguments after the presign
request; many operations do not check that an identifier is given; a `DELETE` that
is retried after a lost answer fails with 404 although it was done.

## 7. Not modelled

* `GraphQLClient.Execute`: no handle offers it; to the iterator it is one more
  fetcher.
* `WaitAndDownload` of a report is `Wait` and then `Download`, which are modelled
  apart (`Waiter`, `Exchange`).
* The client builder (`client.go`): it validates and copies; of authentication
  options that exclude each other the last one wins.
* Lengths of delays and the shared random source: no property tells delays
  apart, and a race inside `math/rand` has no outcome a model could name.
* Paths, queries and fields of endpoints, data types, formatting, logging, metrics
  and spans: no state.  Example programs and the template use the SDK and are
  not part of it.

## 8. Plan

Done: all modules of section 2, and the proofs of section 5.

What is left:

1. `ImplementsTokenService` is proved without the fairness of `TokenCache`; its
   liveness stays with TLC.
2. What a caller sees of two components at once, as theorems of contracts: the funnel's
   `UnauthorizedIsFinal` over the cache's `RefreshIsFresh`.
