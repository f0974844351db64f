------------------------------- MODULE Shared -------------------------------
(***************************************************************************)
(* The components that goroutines share: the request funnel, the preset    *)
(* reader, the lazy caches, and the get-or-create helpers with the         *)
(* platform.  Each behaviour runs the one named by which, with the         *)
(* variables of the others off; variables of the same name are shared.     *)
(* The instances whose name ends in Proofs also prove the component right. *)
(***************************************************************************)
EXTENDS Integers

CONSTANTS
    Components,     \* the components a behaviour may run
    Callers, Third,             \* goroutines, and one more
    MaxAttempts, MaxTokens,     \* Executor
    Timed, Intercepted,
    Presets, Loader, Nobody,    \* PresetReader
    MaxParallel,
    PageSize, MaxItems,         \* LazyReader
    MaxLoads,
    Attempts, Limit,            \* Provisioning
    MaxObjects, MaxCalls

VARIABLES
    which,
    pc, ctxErr, result, mu, loaded,                         \* shared
    current, epoch, issued, request, reply, call, timer,    \* Executor
    open, status, rejected,
    pmu, ploaded, at, todo, sem, wg, first, warmed,         \* PresetReader
    reader, backend, total, items, err, emu, settled, op,   \* LazyReader
    load, read, answer, loads, wins, asks,
    goal, unique, decoys, objects, kind, tries, app, made,  \* Provisioning
    calls, excused, trouble

\* The goroutines that share a lazy reader.
Users == Callers \cup {Third}

EX == INSTANCE ExecutorProofs
PR == INSTANCE PresetReaderProofs
LR == INSTANCE LazyReader WITH Callers <- Users
PV == INSTANCE ProvisioningProofs

ASSUME SharedAssumption ==
    /\ Components \subseteq {"executor", "preset_reader", "lazy_reader", "provisioning"}
    /\ EX!ConstantsOK /\ PR!ConstantsOK /\ LR!ConstantsOK /\ PV!ConstantsOK

-----------------------------------------------------------------------------

Off == "off"

exVars == <<current, epoch, issued, request, reply, call, timer, open,
            status, rejected>>
prVars == <<pmu, ploaded, at, todo, sem, wg, first, warmed>>
lrVars == <<reader, backend, total, items, err, emu, settled, op, load, read,
            answer, loads, wins, asks>>
pvVars == <<goal, unique, decoys, objects, kind, tries, app, made, calls,
            excused, trouble>>
vars == <<which, pc, ctxErr, result, mu, loaded, exVars, prVars, lrVars, pvVars>>

ExecutorOff ==
    /\ current = Off /\ epoch = Off /\ issued = Off /\ request = Off
    /\ reply = Off /\ call = Off /\ timer = Off /\ open = Off
    /\ status = Off /\ rejected = Off
PresetReaderOff ==
    /\ pmu = Off /\ ploaded = Off /\ at = Off /\ todo = Off /\ sem = Off
    /\ wg = Off /\ first = Off /\ warmed = Off
LazyReaderOff ==
    /\ reader = Off /\ backend = Off /\ total = Off /\ items = Off /\ err = Off
    /\ emu = Off /\ settled = Off /\ op = Off /\ load = Off /\ read = Off
    /\ answer = Off /\ loads = Off /\ wins = Off /\ asks = Off
ProvisioningOff ==
    /\ goal = Off /\ unique = Off /\ decoys = Off /\ objects = Off
    /\ kind = Off /\ tries = Off /\ app = Off /\ made = Off /\ calls = Off
    /\ excused = Off /\ trouble = Off
MutexOff == mu = Off /\ loaded = Off

Init ==
    /\ which \in Components
    /\ \/ /\ which = "executor" /\ EX!Init /\ MutexOff
          /\ PresetReaderOff /\ LazyReaderOff /\ ProvisioningOff
       \/ /\ which = "preset_reader" /\ PR!Init
          /\ ExecutorOff /\ LazyReaderOff /\ ProvisioningOff
       \/ /\ which = "lazy_reader" /\ LR!Init /\ ctxErr = Off /\ result = Off
          /\ ExecutorOff /\ PresetReaderOff /\ ProvisioningOff
       \/ /\ which = "provisioning" /\ PV!Init /\ ctxErr = Off /\ MutexOff
          /\ ExecutorOff /\ PresetReaderOff /\ LazyReaderOff

Next ==
    \/ /\ which = "executor" /\ EX!Next
       /\ UNCHANGED <<which, mu, loaded, prVars, lrVars, pvVars>>
    \/ /\ which = "preset_reader" /\ PR!Next
       /\ UNCHANGED <<which, exVars, lrVars, pvVars>>
    \/ /\ which = "lazy_reader" /\ LR!Next
       /\ UNCHANGED <<which, ctxErr, result, exVars, prVars, pvVars>>
    \/ /\ which = "provisioning" /\ PV!Next
       /\ UNCHANGED <<which, ctxErr, mu, loaded, exVars, prVars, lrVars>>

Spec == Init /\ [][Next]_vars

-----------------------------------------------------------------------------
(* The properties of the components, each of its own.                      *)

\* The variables of each component have their types.
TypeOK ==
    /\ which = "executor" => EX!TypeOK
    /\ which = "preset_reader" => PR!TypeOK
    /\ which = "lazy_reader" => LR!TypeOK
    /\ which = "provisioning" => PV!TypeOK

\* A Do sends no more requests than its budget and one refresh allow
\* (executor.go:146-239).
SendBudget == which = "executor" => EX!SendBudget

\* No request carries a token this call was answered 401 to.
RejectedTokenNotResent == which = "executor" => EX!RejectedTokenNotResent

\* A 401 that reaches the caller came after a refresh (executor.go:183-196).
UnauthorizedIsFinal == which = "executor" => EX!UnauthorizedIsFinal

\* Only the body of the response that is returned stays open.
BodiesAccounted == which = "executor" => EX!BodiesAccounted

\* The timeout of a call ends with the call or with the body it returned.
TimerLifetime == which = "executor" => EX!TimerLifetime

\* A cached token is renewed only when the API server has rejected it.
OnlyRejectedTokensRenewed ==
    [][which = "executor" /\ current # 0 /\ current' # 0 /\ current' # current
           => epoch \in rejected]_vars

\* No call goes round for ever: the retry loop of a Do, the spawning of
\* LoadAllDetails and the walk over a catalogue use up a bound at each of
\* their steps, and what other goroutines do never raises it.
CallsAreFinite ==
    [][/\ which = "executor" => EX!UsesUpSteps
       /\ which = "preset_reader" => PR!UsesUpSteps
       /\ which = "lazy_reader" => LR!UsesUpSteps]_vars

\* An error of a Before interceptor ends the call at once.
BeforeErrorAborts == which = "executor" => EX!BeforeErrorAborts

\* No more workers ask for details than there are slots (reader.go:169).
BoundedParallelism == which = "preset_reader" => PR!BoundedParallelism

\* LoadAllDetails returns when its workers have ended.
NoOrphans == which = "preset_reader" => PR!NoOrphans

\* When LoadAllDetails succeeds every preset has its details.
SuccessMeansWarm == which = "preset_reader" => PR!SuccessMeansWarm

\* Nobody who uses the preset reader waits in a circle, or for a goroutine that is
\* gone.
WaitsEnd == which = "preset_reader" => PR!WaitsEnd

\* What a reader has fetched with success, the details of a preset, a catalogue or a
\* role's composites, is not fetched again, whoever shares the reader.
FetchedOnce ==
    /\ which = "preset_reader" => PR!FetchedOnce
    /\ which = "lazy_reader" => LR!AskedOnce

\* A reader serves from the whole catalogue.
CatalogueWhole == which = "lazy_reader" => LR!CatalogueWhole

\* The first answer about a role's composites is everybody's.
CompositesSettled == which = "lazy_reader" => LR!CompositesSettled

\* A call to ASTAppID never fails with the error of an earlier lookup.
LoadErrorIsOwn == which = "lazy_reader" => LR!LoadErrorIsOwn

\* Two objects of a name come only of overlapping calls, lost responses and
\* full pages; and a project made for an application is in it.
DuplicatesExplained ==
    which = "provisioning" => PV!DuplicatesExplained /\ PV!CreatedInApplication

\* What an earlier call left half done does not make a later one fail.
FailureIsOwn == which = "provisioning" => PV!FailureIsOwn
=============================================================================
