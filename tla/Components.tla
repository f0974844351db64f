----------------------------- MODULE Components -----------------------------
(***************************************************************************)
(* The other components and, for their liveness, the smallest of the       *)
(* shared ones, one behaviour running one of them: which says the one, and *)
(* the variables of the others are off.  Variables of the same name are    *)
(* shared.                                                                 *)
(***************************************************************************)
EXTENDS Integers, Sequences

CONSTANTS
    Components,                 \* the components a behaviour may run
    Clients,                    \* Executor, PresetReader: its Callers
    MaxAttempts, MaxTokens,     \* Executor
    Presets, Loader, Nobody,    \* PresetReader
    MaxParallel,
    Callers,                    \* RepoConfig
    Catalogue, Added, Configs,  \* Pagination
    MaxRemovals, MaxPage,
    Requested, Extra,           \* Waiter
    Interval, MaxDuration,
    Attempts, MaxStarts,        \* ScanStart, Exchange
    Scans, Filters,             \* Compare
    EngineFilters, MaxPages

VARIABLES
    which,
    pc, ctxErr, result,                                     \* shared
    current, epoch, issued, request, reply,                 \* Executor
    call, timer, open, status, rejected,
    done, held, woken, waiters, configErr, config, got,     \* RepoConfig
    ans, crashed, fetches, failed, overlapped,
    mu, loaded, pmu, ploaded, at, todo, sem, wg, first,     \* PresetReader
    warmed,
    items, unborn, removals, inserted, blanked, cfg,        \* Pagination
    offset, exhausted, buffer, collecting, attempt, yielded, last,
    kind, limited, engine, named, seen, beat, left,         \* Waiter
    sleepLeft, late, answered,
    given, project, client, engines, source, inMemory,      \* ScanStart
    spent, step, tries, outcome, panicked, starts, sent,
    lost, reread, archives, scans,
    options, fetch, pages, found, firstErr, cancelled,      \* Compare
    told, report,
    entry, lacks, nth, waiting, sends, applied, silent,     \* Exchange
    blank, moot, trouble, end

EX == INSTANCE Executor WITH
    Callers <- Clients, Timed <- FALSE, Intercepted <- TRUE
PR == INSTANCE PresetReader WITH Callers <- Clients
RC == INSTANCE RepoConfigProofs
PG == INSTANCE Pagination
WT == INSTANCE Waiter
SS == INSTANCE ScanStart
CM == INSTANCE Compare
XC == INSTANCE ExchangeProofs

ASSUME ComponentsAssumption ==
    /\ Components \subseteq {"executor", "repo_config", "preset_reader", "pagination",
                             "waiter", "scan_start", "compare", "exchange"}
    /\ EX!ConstantsOK /\ PR!ConstantsOK
    /\ RC!ConstantsOK /\ PG!ConstantsOK /\ WT!ConstantsOK
    /\ SS!ConstantsOK /\ CM!ConstantsOK /\ XC!ConstantsOK

-----------------------------------------------------------------------------

Off == "off"

exVars == <<current, epoch, issued, request, reply, call, timer, open,
            status, rejected>>
rcVars == <<done, held, woken, waiters, configErr, config, got, ans,
            crashed, fetches, failed, overlapped>>
prVars == <<mu, loaded, pmu, ploaded, at, todo, sem, wg, first, warmed>>
pgVars == <<items, unborn, removals, inserted, blanked, cfg, offset, exhausted,
            buffer, collecting, attempt, yielded, last>>
wtVars == <<kind, limited, engine, named, seen, beat, left, sleepLeft, late,
            answered>>
ssVars == <<given, project, client, engines, source, inMemory, spent, step,
            tries, outcome, panicked, starts, sent, lost, reread, archives,
            scans>>
cmVars == <<options, fetch, pages, found, firstErr, cancelled, told, report>>
xcVars == <<entry, lacks, nth, waiting, sends, applied, silent, blank, moot,
            trouble, end>>
\* The components without a goroutine to schedule.
calls == <<ssVars, cmVars, xcVars>>
vars == <<which, pc, ctxErr, result, exVars, rcVars, prVars, pgVars, wtVars, calls>>

ExecutorOff ==
    /\ current = Off /\ epoch = Off /\ issued = Off /\ request = Off
    /\ reply = Off /\ call = Off /\ timer = Off /\ open = Off
    /\ status = Off /\ rejected = Off
RepoConfigOff ==
    /\ done = Off /\ held = Off /\ woken = Off /\ waiters = Off
    /\ configErr = Off /\ config = Off /\ got = Off /\ ans = Off
    /\ crashed = Off /\ fetches = Off /\ failed = Off /\ overlapped = Off
PresetReaderOff ==
    /\ mu = Off /\ loaded = Off /\ pmu = Off /\ ploaded = Off /\ at = Off
    /\ todo = Off /\ sem = Off /\ wg = Off /\ first = Off /\ warmed = Off
PaginationOff ==
    /\ items = Off /\ unborn = Off /\ removals = Off /\ inserted = Off
    /\ blanked = Off
    /\ cfg = Off /\ offset = Off /\ exhausted = Off /\ buffer = Off
    /\ collecting = Off /\ attempt = Off /\ yielded = Off /\ last = Off
WaiterOff ==
    /\ kind = Off /\ limited = Off /\ engine = Off /\ named = Off /\ seen = Off
    /\ beat = Off /\ left = Off /\ sleepLeft = Off /\ late = Off
    /\ answered = Off
ScanStartOff ==
    /\ given = Off /\ project = Off /\ client = Off /\ engines = Off
    /\ source = Off /\ inMemory = Off /\ spent = Off /\ step = Off
    /\ tries = Off /\ outcome = Off /\ panicked = Off /\ starts = Off
    /\ sent = Off /\ lost = Off /\ reread = Off /\ archives = Off
    /\ scans = Off
CompareOff ==
    /\ options = Off /\ fetch = Off /\ pages = Off /\ found = Off
    /\ firstErr = Off /\ cancelled = Off /\ told = Off /\ report = Off
ExchangeOff ==
    /\ entry = Off /\ lacks = Off /\ nth = Off /\ waiting = Off
    /\ sends = Off /\ applied = Off /\ silent = Off /\ blank = Off
    /\ moot = Off /\ trouble = Off /\ end = Off
CallsOff == ScanStartOff /\ CompareOff /\ ExchangeOff
GoroutinesOff ==
    /\ ExecutorOff /\ RepoConfigOff /\ PresetReaderOff /\ PaginationOff
    /\ WaiterOff /\ pc = Off /\ result = Off

Init ==
    /\ which \in Components
    /\ \/ /\ which = "executor" /\ EX!Init /\ CallsOff
          /\ RepoConfigOff /\ PresetReaderOff /\ PaginationOff /\ WaiterOff
       \/ /\ which = "repo_config" /\ RC!Init /\ ctxErr = Off /\ result = Off /\ CallsOff
          /\ ExecutorOff /\ PresetReaderOff /\ PaginationOff /\ WaiterOff
       \/ /\ which = "preset_reader" /\ PR!Init /\ CallsOff
          /\ ExecutorOff /\ RepoConfigOff /\ PaginationOff /\ WaiterOff
       \/ /\ which = "pagination" /\ PG!Init /\ result = Off /\ CallsOff
          /\ ExecutorOff /\ RepoConfigOff /\ PresetReaderOff /\ WaiterOff
       \/ /\ which = "waiter" /\ WT!Init /\ CallsOff
          /\ ExecutorOff /\ RepoConfigOff /\ PresetReaderOff /\ PaginationOff
       \/ /\ which = "scan_start" /\ SS!Init /\ ctxErr = Off
          /\ GoroutinesOff /\ CompareOff /\ ExchangeOff
       \/ /\ which = "compare" /\ CM!Init
          /\ GoroutinesOff /\ ScanStartOff /\ ExchangeOff
       \/ /\ which = "exchange" /\ XC!Init /\ ctxErr = Off
          /\ GoroutinesOff /\ ScanStartOff /\ CompareOff

goroutines == <<pc, result, exVars, rcVars, prVars, pgVars, wtVars>>

Next ==
    \/ /\ which = "executor" /\ EX!Next
       /\ UNCHANGED <<which, rcVars, prVars, pgVars, wtVars, calls>>
    \/ /\ which = "repo_config" /\ RC!Next
       /\ UNCHANGED <<which, ctxErr, result, exVars, prVars, pgVars, wtVars, calls>>
    \/ /\ which = "preset_reader" /\ PR!Next
       /\ UNCHANGED <<which, exVars, rcVars, pgVars, wtVars, calls>>
    \/ /\ which = "pagination" /\ PG!Next
       /\ UNCHANGED <<which, result, exVars, rcVars, prVars, wtVars, calls>>
    \/ /\ which = "waiter" /\ WT!Next
       /\ UNCHANGED <<which, exVars, rcVars, prVars, pgVars, calls>>
    \/ /\ which = "scan_start" /\ SS!Next
       /\ UNCHANGED <<which, ctxErr, goroutines, cmVars, xcVars>>
    \/ /\ which = "compare" /\ CM!Next
       /\ UNCHANGED <<which, goroutines, ssVars, xcVars>>
    \/ /\ which = "exchange" /\ XC!Next
       /\ UNCHANGED <<which, ctxErr, goroutines, ssVars, cmVars>>

Spec == Init /\ [][Next]_vars

-----------------------------------------------------------------------------
(* The properties of the components, each of its own.                      *)

\* The variables of each component have their types.
TypeOK ==
    /\ which = "repo_config" => RC!TypeOK
    /\ which = "pagination" => PG!TypeOK
    /\ which = "waiter" => WT!TypeOK
    /\ which = "scan_start" => SS!TypeOK
    /\ which = "compare" => CM!TypeOK
    /\ which = "exchange" => XC!TypeOK

\* Until a fetch fails, all goroutines share one request for a configuration.
SharedUntilFailure == which = "repo_config" => RC!SharedUntilFailure

\* Calls for a configuration that do not overlap never suffer from a failure
\* of an earlier one.
SequentialRetry == which = "repo_config" => RC!SequentialRetry

\* An iterator skips nothing while nothing is removed.
NothingSkipped == which = "pagination" => PG!NothingSkipped

\* An iterator repeats nothing while nothing is added in front.
NothingRepeated == which = "pagination" => PG!NothingRepeated

\* What a waiter calls successful stays so, and what it calls failed is at rest.
VerdictIsFinal == which = "waiter" => WT!VerdictIsFinal

\* A waiter polls at most once past its deadline, and has looked at the job past
\* it when it times out.
DeadlineKept == which = "waiter" => WT!DeadlineKept

\* A scan is started on a source that is there: an archive its Start stored, whole
\* unless its body had been read before, or a place in the repository.
ScanHasItsSource == which = "scan_start" => SS!ScanHasItsSource

\* A Start sends nothing or creates one scan, unless it lost a response.
StartIsOneScan == which = "scan_start" => SS!StartIsOneScan

\* The error of one fetch is never hidden by the cancellation of the other.
FirstErrorWins == which = "compare" => CM!FirstErrorWins

\* A comparison accounts for every finding once.
ComparisonAddsUp == which = "compare" => CM!ComparisonAddsUp

\* A call that succeeds has done all it was asked for.
SuccessIsComplete == which = "exchange" => XC!SuccessIsComplete

\* A call fails for what its caller or the platform did, and repeats an effect
\* only when an answer was lost.
OutcomeExplained == which = "exchange" => XC!OutcomeExplained

\* A scan waiter that reports success has seen every engine completed.
WaiterPartialNeedsEveryEngine == which = "waiter" => WT!PartialNeedsEveryEngine
=============================================================================
