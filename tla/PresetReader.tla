---------------------------- MODULE PresetReader ----------------------------
(***************************************************************************)
(* workflows/presets/reader.go: the two-level preset cache.  Level 1 (the  *)
(* list of presets) and level 2 (one detail per preset) are each filled    *)
(* under their own mutex, held across the request.  LoadAllDetails warms   *)
(* level 2 with one goroutine per preset, a channel semaphore bounding how *)
(* many run, while other goroutines call List, ByID and Detail.            *)
(*                                                                         *)
(* The order of the list and the lookup tables are abstracted: a lookup    *)
(* is a second, separate critical section after the load.                  *)
(***************************************************************************)
EXTENDS Integers, FiniteSets

CONSTANTS
    Presets,        \* the catalogue; also names the worker of each preset
    Callers,        \* goroutines using the reader and its presets
    Loader,         \* the goroutine that runs LoadAllDetails
    Nobody,         \* holder of a free mutex; no preset
    MaxParallel     \* maxParallel

\* What an instance of this module must satisfy.
ConstantsOK ==
    /\ Presets \cap Callers = {}
    /\ Loader \notin Presets \cup Callers
    /\ Nobody \notin Presets \cup Callers \cup {Loader}
    /\ IsFiniteSet(Presets)
    /\ MaxParallel \in Nat \ {0}

Goroutines == Presets \cup Callers \cup {Loader}

VARIABLES
    mu, loaded,         \* PresetReader.mu, loaded
    pmu, ploaded,       \* pmu[p], ploaded[p]: Preset.mu, loaded of preset p
    pc,                 \* pc[g]: where goroutine g is
    at,                 \* at[g]: the preset whose Detail g runs
    ctxErr,             \* the context of LoadAllDetails is done
    todo,               \* presets LoadAllDetails has not spawned a worker for
    sem,                \* tokens in the semaphore channel
    wg,                 \* counter of the WaitGroup
    first,              \* the preset whose error came first, or Nobody
    result,             \* what LoadAllDetails returned last
    warmed              \* history: number of details fetched, per preset

level1 == <<mu, loaded>>
level2 == <<pmu, ploaded, warmed>>
pool == <<todo, sem, wg, first>>
vars == <<level1, level2, pc, at, ctxErr, pool, result>>

Init ==
    /\ mu = Nobody /\ loaded = FALSE
    /\ pmu = [p \in Presets |-> Nobody]
    /\ ploaded = [p \in Presets |-> FALSE]
    /\ pc = [g \in Goroutines |-> "idle"]
    /\ at = [g \in Goroutines |-> Nobody]
    /\ ctxErr = FALSE
    /\ todo = {} /\ sem = 0 /\ wg = 0 /\ first = Nobody
    /\ result = "none"
    /\ warmed = [p \in Presets |-> 0]

Goto(g, from, to) ==
    /\ pc[g] = from
    /\ pc' = [pc EXCEPT ![g] = to]

-----------------------------------------------------------------------------
(* Level 1: List, ByName, ByID.                                            *)

\* Where a goroutine goes on once it has the list, or failed to get it.
AfterList(g) == IF g = Loader THEN "spawn" ELSE "idle"

BeginList(c) ==
    /\ Goto(c, "idle", "lock1")
    /\ UNCHANGED <<level1, level2, at, ctxErr, pool, result>>

\* ensureLoaded, up to its request.
EnsureLoaded(g) ==
    /\ mu = Nobody
    /\ \/ loaded /\ Goto(g, "lock1", "read1") /\ UNCHANGED mu
       \/ ~loaded /\ Goto(g, "lock1", "fetch1") /\ mu' = g
    /\ UNCHANGED <<loaded, level2, at, ctxErr, pool, result>>

\* ListPresets answers: the tables are built, or nothing is kept.
Listed(g) ==
    /\ mu' = Nobody
    /\ \/ /\ Goto(g, "fetch1", "read1")
          /\ loaded' = TRUE
          /\ UNCHANGED result
       \/ /\ Goto(g, "fetch1", "idle")
          /\ result' = IF g = Loader THEN "error" ELSE result
          /\ UNCHANGED loaded
    /\ UNCHANGED <<level2, at, ctxErr, pool>>

\* The second critical section: the list is copied, or a preset looked up.
Lookup(g) ==
    /\ mu = Nobody
    /\ Goto(g, "read1", AfterList(g))
    /\ todo' = IF g = Loader THEN Presets ELSE todo
    /\ UNCHANGED <<level1, level2, at, ctxErr, sem, wg, first, result>>

-----------------------------------------------------------------------------
(* Level 2: Preset.Detail.  A worker goes on to report its outcome.        *)

AfterDetail(g, ok) ==
    IF g \notin Presets THEN "idle" ELSE IF ok THEN "release" ELSE "record"

\* A caller that has been handed preset p asks for its detail.
BeginDetail(c, p) ==
    /\ loaded
    /\ Goto(c, "idle", "lock2")
    /\ at' = [at EXCEPT ![c] = p]
    /\ UNCHANGED <<level1, level2, ctxErr, pool, result>>

\* (mutant: the request is made with the lock dropped)
DetailUnlocked(g) ==
    /\ pc[g] = "lock2"
    /\ pmu[at[g]] = Nobody
    /\ \/ ploaded[at[g]] /\ Goto(g, "lock2", AfterDetail(g, TRUE))
       \/ ~ploaded[at[g]] /\ Goto(g, "lock2", "fetch2")
    /\ UNCHANGED <<level1, pmu, ploaded, warmed, at, ctxErr, pool, result>>

\* Preset.Detail, up to its request; loadErr is never set while loaded is.
Detail(g) ==
    /\ pc[g] = "lock2"
    /\ pmu[at[g]] = Nobody
    /\ \/ ploaded[at[g]] /\ Goto(g, "lock2", AfterDetail(g, TRUE)) /\ UNCHANGED pmu
       \/ /\ ~ploaded[at[g]]
          /\ Goto(g, "lock2", "fetch2")
          /\ pmu' = [pmu EXCEPT ![at[g]] = g]
    /\ UNCHANGED <<level1, ploaded, warmed, at, ctxErr, pool, result>>

\* (mutant: no deferred unlock when the request fails)
DetailedLocked(g) ==
    /\ pc[g] = "fetch2"
    /\ \E ok \in BOOLEAN :
          /\ Goto(g, "fetch2", AfterDetail(g, ok))
          /\ ploaded' = [ploaded EXCEPT ![at[g]] = ok]
          /\ pmu' = IF ok THEN [pmu EXCEPT ![at[g]] = Nobody] ELSE pmu
          /\ warmed' = [warmed EXCEPT ![at[g]] = @ + IF ok THEN 1 ELSE 0]
    /\ UNCHANGED <<level1, at, ctxErr, pool, result>>

\* GetPreset answers, well or badly.
Detailed(g) ==
    /\ pc[g] = "fetch2"
    /\ \E ok \in BOOLEAN :
          /\ Goto(g, "fetch2", AfterDetail(g, ok))
          /\ ploaded' = [ploaded EXCEPT ![at[g]] = ok]
          /\ warmed' = [warmed EXCEPT ![at[g]] = @ + IF ok THEN 1 ELSE 0]
    /\ pmu' = [pmu EXCEPT ![at[g]] = Nobody]
    /\ UNCHANGED <<level1, at, ctxErr, pool, result>>

-----------------------------------------------------------------------------
(* LoadAllDetails.                                                         *)

BeginLoad ==
    /\ Goto(Loader, "idle", "lock1")
    /\ ctxErr' = FALSE
    /\ first' = Nobody
    /\ result' = "none"
    /\ UNCHANGED <<level1, level2, at, todo, sem, wg>>

\* (mutant: the semaphore is taken by the worker, not before the worker)
SpawnUnbounded(p) ==
    /\ pc[Loader] = "spawn"
    /\ p \in todo
    /\ todo' = todo \ {p}
    /\ sem' = sem + 1
    /\ wg' = wg + 1
    /\ pc' = [pc EXCEPT ![p] = "lock2"]
    /\ at' = [at EXCEPT ![p] = p]
    /\ UNCHANGED <<level1, level2, ctxErr, first, result>>

\* A slot of the semaphore is taken and the worker of p started.
Spawn(p) ==
    /\ pc[Loader] = "spawn"
    /\ p \in todo
    /\ sem < MaxParallel
    /\ todo' = todo \ {p}
    /\ sem' = sem + 1
    /\ wg' = wg + 1
    /\ pc' = [pc EXCEPT ![p] = "lock2"]
    /\ at' = [at EXCEPT ![p] = p]
    /\ UNCHANGED <<level1, level2, ctxErr, first, result>>

\* Every worker has been started.
AllSpawned ==
    /\ todo = {}
    /\ Goto(Loader, "spawn", "wait")
    /\ UNCHANGED <<level1, level2, at, ctxErr, pool, result>>

\* The select finds the context done, possibly with a slot free as well.
StopSpawning ==
    /\ ctxErr /\ todo # {}
    /\ Goto(Loader, "spawn", "waitctx")
    /\ UNCHANGED <<level1, level2, at, ctxErr, pool, result>>

\* (mutant: the error is compared and not stored)
RecordDropped(p) ==
    /\ Goto(p, "record", "release")
    /\ UNCHANGED <<level1, level2, at, ctxErr, pool, result>>

\* A worker whose Detail failed keeps the error, if it is the first.
Record(p) ==
    /\ Goto(p, "record", "release")
    /\ first' = IF first = Nobody THEN p ELSE first
    /\ UNCHANGED <<level1, level2, at, ctxErr, todo, sem, wg, result>>

\* Its deferred calls: the slot is given back, then the WaitGroup told.
Release(p) ==
    /\ Goto(p, "release", "done")
    /\ sem' = sem - 1
    /\ UNCHANGED <<level1, level2, at, ctxErr, todo, wg, first, result>>

WorkerDone(p) ==
    /\ Goto(p, "done", "idle")
    /\ wg' = wg - 1
    /\ at' = [at EXCEPT ![p] = Nobody]
    /\ UNCHANGED <<level1, level2, ctxErr, todo, sem, first, result>>

\* (mutant: a done context ends LoadAllDetails at once)
LoadedHastily ==
    /\ \/ /\ wg = 0
          /\ Goto(Loader, "wait", "idle")
          /\ result' = IF first # Nobody THEN "error" ELSE IF ctxErr THEN "ctx" ELSE "ok"
       \/ Goto(Loader, "waitctx", "idle") /\ result' = "ctx"
    /\ todo' = {}
    /\ UNCHANGED <<level1, level2, at, ctxErr, sem, wg, first>>

\* wg.Wait returns, and so does LoadAllDetails.
Loaded ==
    /\ wg = 0
    /\ \/ /\ Goto(Loader, "wait", "idle")
          /\ result' = IF first # Nobody THEN "error" ELSE IF ctxErr THEN "ctx" ELSE "ok"
       \/ Goto(Loader, "waitctx", "idle") /\ result' = "ctx"
    /\ todo' = {}
    /\ UNCHANGED <<level1, level2, at, ctxErr, sem, wg, first>>

ContextDone ==
    /\ pc[Loader] # "idle" /\ ~ctxErr
    /\ ctxErr' = TRUE
    /\ UNCHANGED <<level1, level2, pc, at, pool, result>>

-----------------------------------------------------------------------------

LockStep(g) == EnsureLoaded(g) \/ Lookup(g) \/ Detail(g)
Network(g) == Listed(g) \/ Detailed(g)
WorkerStep(p) == Record(p) \/ Release(p) \/ WorkerDone(p)
LoaderStep == (\E p \in Presets : Spawn(p)) \/ AllSpawned \/ StopSpawning \/ Loaded

Next ==
    \/ \E c \in Callers : BeginList(c) \/ \E p \in Presets : BeginDetail(c, p)
    \/ \E g \in Goroutines : LockStep(g) \/ Network(g)
    \/ \E p \in Presets : WorkerStep(p)
    \/ BeginLoad \/ LoaderStep \/ ContextDone

Spec == Init /\ [][Next]_vars

\* A mutex is not withheld from a waiter for ever; requests end by the HTTP
\* client's timeout; goroutines that can run do.
Fairness ==
    /\ \A g \in Goroutines : SF_vars(LockStep(g))
    /\ \A c \in Callers : WF_vars(Network(c))
    /\ \A p \in Presets : WF_vars(Network(p) \/ WorkerStep(p))
    /\ WF_vars(Network(Loader) \/ LoaderStep)

FairSpec == Spec /\ Fairness

-----------------------------------------------------------------------------
(* Properties.                                                             *)

Working(p) == pc[p] # "idle"

\* Every variable has its type; the semaphore and the WaitGroup count the
\* workers.
TypeOK ==
    /\ mu \in Goroutines \cup {Nobody} /\ loaded \in BOOLEAN
    /\ pmu \in [Presets -> Goroutines \cup {Nobody}]
    /\ ploaded \in [Presets -> BOOLEAN]
    /\ pc \in [Goroutines -> {"idle", "lock1", "fetch1", "read1", "lock2", "fetch2",
                              "record", "release", "done", "spawn", "wait", "waitctx"}]
    /\ at \in [Goroutines -> Presets \cup {Nobody}]
    /\ ctxErr \in BOOLEAN
    /\ todo \subseteq Presets
    /\ sem = Cardinality({p \in Presets : Working(p) /\ pc[p] # "done"})
    /\ wg = Cardinality({p \in Presets : Working(p)})
    /\ first \in Presets \cup {Nobody}
    /\ result \in {"none", "ok", "error", "ctx"}
    /\ warmed \in [Presets -> Nat]

\* Never more than MaxParallel workers ask the platform for details at a time
\* (reader.go:153-155).
BoundedParallelism ==
    Cardinality({p \in Presets : pc[p] \in {"lock2", "fetch2", "record"}}) <= MaxParallel

\* LoadAllDetails leaves no goroutine behind, whichever way it returns: a
\* worker that outlived it would run on a dead context or into the next call.
NoOrphans == pc[Loader] = "idle" => \A p \in Presets : ~Working(p)

\* LoadAllDetails reports success only when every preset is warm, also when
\* workers fail at the same time, when other goroutines fetch the details
\* first, or when the context ends midway.
SuccessMeansWarm == result = "ok" => \A p \in Presets : ploaded[p]

\* A detail that has been fetched is never fetched again, by workers and
\* callers in any interleaving (reader.go:220-224).
FetchedOnce == \A p \in Presets : warmed[p] <= 1

\* What a goroutine waits for is free: a mutex, a slot of the semaphore, or the
\* WaitGroup.
CanGoOn(g) ==
    /\ pc[g] # "idle"
    /\ pc[g] \in {"lock1", "read1"} => mu = Nobody
    /\ pc[g] = "lock2" => pmu[at[g]] = Nobody
    /\ pc[g] = "spawn" => todo = {} \/ sem < MaxParallel \/ ctxErr
    /\ pc[g] \in {"wait", "waitctx"} => wg = 0

\* Those on whom a goroutine waits: the holder of the mutex, or the workers.
WaitsFor(g) ==
    {h \in Goroutines :
        \/ pc[g] \in {"lock1", "read1"} /\ mu = h
        \/ pc[g] = "lock2" /\ pmu[at[g]] = h
        \/ pc[g] \in {"spawn", "wait", "waitctx"} /\ h \in Presets /\ Working(h)}

\* Nobody waits in a circle, or for a goroutine that is gone: LoadAllDetails may
\* wait for a slot that a worker holds who waits for a preset that another
\* goroutine has locked, but that one can go on, whatever failed before.
WaitsEnd ==
    \A g \in Goroutines : pc[g] # "idle" =>
        \/ CanGoOn(g)
        \/ \E h \in WaitsFor(g) : CanGoOn(h) \/ \E k \in WaitsFor(h) : CanGoOn(k)

\* A bound for the steps that an operation still makes itself.
StepsLeft(g) ==
    CASE pc[g] = "idle" -> 0
      [] pc[g] \in {"wait", "waitctx", "done"} -> 1
      [] pc[g] = "release" -> 2
      [] pc[g] = "record" -> 3
      [] pc[g] = "fetch2" -> 4
      [] pc[g] = "lock2" -> 5
      [] pc[g] = "spawn" -> 2 + Cardinality(todo)
      [] pc[g] = "read1" -> 3 + Cardinality(Presets)
      [] pc[g] = "fetch1" -> 4 + Cardinality(Presets)
      [] pc[g] = "lock1" -> 5 + Cardinality(Presets)

\* Whether g makes the step; the loader stays where it is while it spawns.
Moves(g) == pc'[g] # pc[g] \/ (g = Loader /\ todo' # todo)

\* Every step of an operation uses up some of what is left of it, and no step of
\* another goroutine gives any of it back.
UsesUpSteps ==
    \A g \in Goroutines : pc[g] # "idle" =>
        IF Moves(g) THEN StepsLeft(g)' \in 0 .. StepsLeft(g) - 1
        ELSE StepsLeft(g)' = StepsLeft(g)

\* Every operation returns: nobody waits for ever for a mutex, a slot or the
\* WaitGroup.
CallsReturn == \A g \in Goroutines : pc[g] # "idle" ~> pc[g] = "idle"
=============================================================================
