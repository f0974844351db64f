------------------------- MODULE PresetReaderProofs -------------------------
(***************************************************************************)
(* What the two-level preset cache and LoadAllDetails guarantee for every  *)
(* catalogue, every set of goroutines and every width of the semaphore.    *)
(* The inductive invariant IInv says where each kind of goroutine may be,  *)
(* which detail a goroutine holds the lock of, and, preset by preset, how  *)
(* far LoadAllDetails has come: not spawned, at work, warm, or failed with *)
(* an error on record.                                                     *)
(***************************************************************************)
EXTENDS PresetReader, FiniteSetTheorems, TLAPS

\* The goroutines that hold a slot of the semaphore, and those that the
\* WaitGroup waits for.
Active == {p \in Presets : Working(p) /\ pc[p] # "done"}
Workers == {p \in Presets : Working(p)}

\* Only workers report outcomes, only LoadAllDetails spawns and waits, and no
\* worker fetches the list.
PlacesByKind ==
    /\ \A p \in Presets :
          pc[p] \in {"idle", "lock2", "fetch2", "record", "release", "done"}
    /\ \A c \in Callers :
          pc[c] \in {"idle", "lock1", "fetch1", "read1", "lock2", "fetch2"}
    /\ pc[Loader] \in {"idle", "lock1", "fetch1", "read1", "spawn", "wait", "waitctx"}

\* A worker works for its own preset, and whoever runs Detail runs it on some.
AtPreset ==
    /\ \A p \in Presets : Working(p) => at[p] = p
    /\ \A g \in Goroutines : pc[g] \in {"lock2", "fetch2"} => at[g] \in Presets

\* A detail on its way is still needed, and its preset locked by whoever asked.
FetchHoldsLock ==
    \A g \in Goroutines :
        pc[g] = "fetch2" => pmu[at[g]] = g /\ ~ploaded[at[g]]

\* Whoever holds a mutex has a request on its way, and will give it back.
LocksHeld ==
    /\ \A g \in Goroutines : pc[g] = "fetch1" <=> mu = g
    /\ \A p \in Presets : pmu[p] # Nobody => pc[pmu[p]] = "fetch2" /\ at[pmu[p]] = p

\* A detail that is there was fetched once, any other never.
FetchedIfLoaded == \A p \in Presets : warmed[p] = IF ploaded[p] THEN 1 ELSE 0

\* Some outcome of p is on record: its detail, or an error.
Settled(p) == ploaded[p] \/ first # Nobody

\* A worker that has nothing left to report has reported.
WorkersReport ==
    \A p \in Presets : pc[p] \in {"release", "done"} => Settled(p)

\* Workers run only while LoadAllDetails spawns or waits; those still to be
\* spawned do not run, and until the context ends all others run or are settled.
LoaderAccounts ==
    /\ pc[Loader] \notin {"spawn", "wait", "waitctx"} =>
          \A p \in Presets : ~Working(p)
    /\ \A p \in todo : pc[Loader] \in {"spawn", "wait", "waitctx"} => ~Working(p)
    /\ pc[Loader] = "wait" => todo = {}
    /\ pc[Loader] \in {"spawn", "wait"} =>
          \A p \in Presets \ todo : Working(p) \/ Settled(p)

\* The types, and the counters.
Types ==
    /\ mu \in Goroutines \cup {Nobody} /\ loaded \in BOOLEAN
    /\ pmu \in [Presets -> Goroutines \cup {Nobody}]
    /\ ploaded \in [Presets -> BOOLEAN]
    /\ pc \in [Goroutines -> {"idle", "lock1", "fetch1", "read1", "lock2", "fetch2",
                              "record", "release", "done", "spawn", "wait", "waitctx"}]
    /\ at \in [Goroutines -> Presets \cup {Nobody}]
    /\ ctxErr \in BOOLEAN
    /\ todo \subseteq Presets
    /\ first \in Presets \cup {Nobody}
    /\ result \in {"none", "ok", "error", "ctx"}
    /\ warmed \in [Presets -> Nat]
Counted == sem = Cardinality(Active) /\ wg = Cardinality(Workers)

\* The semaphore is never over its width.
SlotsBounded == sem <= MaxParallel

Safe ==
    /\ PlacesByKind /\ AtPreset /\ FetchHoldsLock /\ LocksHeld /\ FetchedIfLoaded
    /\ WorkersReport /\ LoaderAccounts /\ SlotsBounded /\ SuccessMeansWarm

IInv == TypeOK /\ Safe

-----------------------------------------------------------------------------
(* The counters.                                                           *)

\* TypeOK is both.
LEMMA TypeParts == (TypeOK <=> Types /\ Counted) /\ (TypeOK' <=> Types' /\ Counted')
BY DEF TypeOK, Types, Counted, Active, Workers

\* What is counted is finite.
LEMMA WorkersFinite ==
    ASSUME ConstantsOK
    PROVE  /\ IsFiniteSet(Active) /\ IsFiniteSet(Workers)
           /\ Cardinality(Active) \in Nat /\ Cardinality(Workers) \in Nat
<1>1. IsFiniteSet(Presets)
    BY DEF ConstantsOK
<1>2. Active \in SUBSET Presets /\ Workers \in SUBSET Presets
    BY DEF Active, Workers
<1> QED
    BY <1>1, <1>2, FS_Subset, FS_CardinalityType

\* Where a worker is between taking its slot and giving it back.
AtWork == {"lock2", "fetch2", "record", "release"}

\* A goroutine that is no worker moves, or a worker stays at work.
KeepsCounts(g) ==
    /\ \E to : /\ pc' = [pc EXCEPT ![g] = to]
               /\ g \notin Presets \/ (pc[g] \in AtWork /\ to \in AtWork)
    /\ UNCHANGED <<sem, wg>>

\* That changes neither count.
LEMMA CountsKept ==
    ASSUME Types, Counted, NEW g \in Goroutines, KeepsCounts(g)
    PROVE  Counted'
<1>1. PICK to : /\ pc' = [pc EXCEPT ![g] = to]
                /\ g \notin Presets \/ (pc[g] \in AtWork /\ to \in AtWork)
    BY DEF KeepsCounts
<1>2. Active' = Active /\ Workers' = Workers
    BY <1>1 DEF Active, Workers, Working, AtWork, Types, Goroutines
<1> QED
    BY <1>2 DEF Counted, KeepsCounts

\* A step after which every goroutine is where it was changes neither count.
LEMMA CountsStill ==
    ASSUME Counted, UNCHANGED <<pc, sem, wg>>
    PROVE  Counted'
BY DEF Counted, Active, Workers, Working

\* A worker that starts is counted twice: its slot and itself.
LEMMA CountsSpawned ==
    ASSUME ConstantsOK, Types, Counted, NEW p \in Presets, pc[p] = "idle",
           pc' = [pc EXCEPT ![p] = "lock2"], sem' = sem + 1, wg' = wg + 1
    PROVE  Counted'
<1>1. Active' = Active \cup {p} /\ p \notin Active
    BY DEF Active, Working, Types, Goroutines
<1>2. Workers' = Workers \cup {p} /\ p \notin Workers
    BY DEF Workers, Working, Types, Goroutines
<1> QED
    BY <1>1, <1>2, WorkersFinite, FS_AddElement DEF Counted

\* A worker gives its slot back first.
LEMMA CountsReleased ==
    ASSUME ConstantsOK, Types, Counted, NEW p \in Presets, pc[p] = "release",
           pc' = [pc EXCEPT ![p] = "done"], sem' = sem - 1, wg' = wg
    PROVE  Counted'
<1>1. Active' = Active \ {p} /\ p \in Active
    BY DEF Active, Working, Types, Goroutines
<1>2. Workers' = Workers
    BY DEF Workers, Working, Types, Goroutines
<1> QED
    BY <1>1, <1>2, WorkersFinite, FS_RemoveElement DEF Counted

\* And is not waited for afterwards.
LEMMA CountsDone ==
    ASSUME ConstantsOK, Types, Counted, NEW p \in Presets, pc[p] = "done",
           pc' = [pc EXCEPT ![p] = "idle"], sem' = sem, wg' = wg - 1
    PROVE  Counted'
<1>1. Workers' = Workers \ {p} /\ p \in Workers
    BY DEF Workers, Working, Types, Goroutines
<1>2. Active' = Active
    BY DEF Active, Working, Types, Goroutines
<1> QED
    BY <1>1, <1>2, WorkersFinite, FS_RemoveElement DEF Counted

\* wg.Wait returns only when no worker is left.
LEMMA NobodyWaitedFor ==
    ASSUME ConstantsOK, Counted, wg = 0
    PROVE  \A p \in Presets : ~Working(p)
<1>1. Workers = {}
    BY WorkersFinite, FS_EmptySet DEF Counted
<1> QED
    BY <1>1 DEF Workers

-----------------------------------------------------------------------------
(* The inductive invariant.                                                *)

\* Every step keeps the types; at says which preset is written.
LEMMA NextType ==
    ASSUME Types, AtPreset, [Next]_vars
    PROVE  Types'
<1> USE DEF Types, Goroutines, Goto, level1, level2, pool
<1>1. ASSUME NEW c \in Callers, BeginList(c) PROVE Types'
    BY <1>1 DEF BeginList
<1>2. ASSUME NEW c \in Callers, NEW p \in Presets, BeginDetail(c, p) PROVE Types'
    BY <1>2 DEF BeginDetail
<1>3. ASSUME NEW g \in Goroutines, EnsureLoaded(g) PROVE Types'
    BY <1>3 DEF EnsureLoaded
<1>4. ASSUME NEW g \in Goroutines, Lookup(g) PROVE Types'
    BY <1>4 DEF Lookup, AfterList
<1>5. ASSUME NEW g \in Goroutines, Detail(g) PROVE Types'
    BY <1>5 DEF Detail, AfterDetail
<1>6. ASSUME NEW g \in Goroutines, Listed(g) PROVE Types'
    BY <1>6 DEF Listed
<1>7. ASSUME NEW g \in Goroutines, Detailed(g) PROVE Types'
    BY <1>7 DEF Detailed, AfterDetail, AtPreset
<1>8. ASSUME NEW p \in Presets, Record(p) PROVE Types'
    BY <1>8 DEF Record
<1>9. ASSUME NEW p \in Presets, Release(p) PROVE Types'
    BY <1>9 DEF Release
<1>10. ASSUME NEW p \in Presets, WorkerDone(p) PROVE Types'
    BY <1>10 DEF WorkerDone
<1>11. ASSUME BeginLoad PROVE Types'
    BY <1>11 DEF BeginLoad
<1>12. ASSUME NEW p \in Presets, Spawn(p) PROVE Types'
    BY <1>12 DEF Spawn
<1>13. ASSUME AllSpawned PROVE Types'
    BY <1>13 DEF AllSpawned
<1>14. ASSUME StopSpawning PROVE Types'
    BY <1>14 DEF StopSpawning
<1>15. ASSUME Loaded PROVE Types'
    BY <1>15 DEF Loaded
<1>16. ASSUME ContextDone PROVE Types'
    BY <1>16 DEF ContextDone
<1>17. CASE UNCHANGED vars
    BY <1>17 DEF vars
<1> QED
    BY <1>1, <1>2, <1>3, <1>4, <1>5, <1>6, <1>7, <1>8, <1>9, <1>10, <1>11, <1>12, <1>13,
       <1>14, <1>15, <1>16, <1>17
       DEF Next, LockStep, Network, WorkerStep, LoaderStep

\* Every step keeps the counters, and the semaphore within its width.
LEMMA NextCounts ==
    ASSUME ConstantsOK, Types, Counted, Safe, [Next]_vars
    PROVE  Counted' /\ SlotsBounded'
<1>1. sem \in Nat /\ sem <= MaxParallel /\ MaxParallel \in Nat
    BY WorkersFinite DEF Counted, Safe, SlotsBounded, ConstantsOK
<1>2. /\ Presets \cap Callers = {} /\ Loader \notin Presets
      /\ Loader \in Goroutines /\ Callers \subseteq Goroutines
    BY DEF ConstantsOK, Goroutines
<1>3. ASSUME NEW c \in Callers,
             BeginList(c) \/ \E p \in Presets : BeginDetail(c, p)
      PROVE  KeepsCounts(c)
    BY <1>2, <1>3 DEF BeginList, BeginDetail, Goto, pool, KeepsCounts
<1>4. ASSUME NEW g \in Goroutines, EnsureLoaded(g) \/ Lookup(g) \/ Listed(g)
      PROVE  KeepsCounts(g)
  <2>1. g \notin Presets
    BY <1>4 DEF EnsureLoaded, Lookup, Listed, Goto, Safe, PlacesByKind
  <2> QED
    BY <1>4, <2>1 DEF EnsureLoaded, Lookup, Listed, Goto, pool, KeepsCounts
<1>5. ASSUME NEW g \in Goroutines, Detail(g) \/ Detailed(g)
      PROVE  KeepsCounts(g)
    BY <1>5 DEF Detail, Detailed, AfterDetail, Goto, pool, KeepsCounts, AtWork
<1>6. ASSUME NEW p \in Presets, Record(p) PROVE KeepsCounts(p)
    BY <1>6 DEF Record, Goto, KeepsCounts, AtWork
<1>7. ASSUME BeginLoad \/ AllSpawned \/ StopSpawning \/ Loaded
      PROVE  KeepsCounts(Loader)
    BY <1>2, <1>7 DEF BeginLoad, AllSpawned, StopSpawning, Loaded, Goto, pool,
        KeepsCounts
<1>8. ASSUME NEW g \in Goroutines, KeepsCounts(g) PROVE Counted' /\ SlotsBounded'
    BY <1>1, <1>8, CountsKept DEF KeepsCounts, SlotsBounded
<1>9. ASSUME NEW p \in Presets, Spawn(p) PROVE Counted' /\ SlotsBounded'
  <2>1. pc[p] = "idle"
    BY <1>9 DEF Spawn, Safe, LoaderAccounts, Working
  <2>2. Counted'
    BY <1>9, <2>1, CountsSpawned DEF Spawn
  <2> QED
    BY <1>1, <1>9, <2>2 DEF Spawn, SlotsBounded
<1>10. ASSUME NEW p \in Presets, Release(p) PROVE Counted' /\ SlotsBounded'
  <2>1. Counted'
    BY <1>10, CountsReleased DEF Release, Goto
  <2> QED
    BY <1>1, <1>10, <2>1 DEF Release, SlotsBounded
<1>11. ASSUME NEW p \in Presets, WorkerDone(p) PROVE Counted' /\ SlotsBounded'
  <2>1. Counted'
    BY <1>11, CountsDone DEF WorkerDone, Goto
  <2> QED
    BY <1>1, <1>11, <2>1 DEF WorkerDone, SlotsBounded
<1>12. CASE ContextDone \/ UNCHANGED vars
    BY <1>1, <1>12, CountsStill DEF ContextDone, vars, pool, SlotsBounded
<1>13. Presets \subseteq Goroutines
    BY DEF Goroutines
<1> QED
    BY <1>2, <1>3, <1>4, <1>5, <1>6, <1>7, <1>8, <1>9, <1>10, <1>11, <1>12,
       <1>13 DEF Next, LockStep, Network, WorkerStep, LoaderStep

\* Every step leaves every goroutine where its kind may be, at a preset when it
\* runs Detail.
LEMMA NextPlaces ==
    ASSUME ConstantsOK, Types, Safe, [Next]_vars
    PROVE  PlacesByKind' /\ AtPreset'
<1> USE DEF ConstantsOK, Goto, level1, level2, pool, Goroutines, Safe, Types,
        PlacesByKind, AtPreset, Working
<1>1. ASSUME NEW c \in Callers, BeginList(c) PROVE PlacesByKind' /\ AtPreset'
    BY <1>1 DEF BeginList
<1>2. ASSUME NEW c \in Callers, NEW p \in Presets, BeginDetail(c, p)
      PROVE  PlacesByKind' /\ AtPreset'
    BY <1>2 DEF BeginDetail
<1>3. ASSUME NEW g \in Goroutines, EnsureLoaded(g) PROVE PlacesByKind' /\ AtPreset'
    BY <1>3 DEF EnsureLoaded
<1>4. ASSUME NEW g \in Goroutines, Lookup(g) PROVE PlacesByKind' /\ AtPreset'
    BY <1>4 DEF Lookup, AfterList
<1>5. ASSUME NEW g \in Goroutines, Detail(g) PROVE PlacesByKind' /\ AtPreset'
    BY <1>5 DEF Detail, AfterDetail
<1>6. ASSUME NEW g \in Goroutines, Listed(g) PROVE PlacesByKind' /\ AtPreset'
    BY <1>6 DEF Listed
<1>7. ASSUME NEW g \in Goroutines, Detailed(g) PROVE PlacesByKind' /\ AtPreset'
    BY <1>7 DEF Detailed, AfterDetail
<1>8. ASSUME NEW p \in Presets, Record(p) PROVE PlacesByKind' /\ AtPreset'
    BY <1>8 DEF Record
<1>9. ASSUME NEW p \in Presets, Release(p) PROVE PlacesByKind' /\ AtPreset'
    BY <1>9 DEF Release
<1>10. ASSUME NEW p \in Presets, WorkerDone(p) PROVE PlacesByKind' /\ AtPreset'
    BY <1>10 DEF WorkerDone
<1>11. ASSUME BeginLoad PROVE PlacesByKind' /\ AtPreset'
    BY <1>11 DEF BeginLoad
<1>12. ASSUME NEW p \in Presets, Spawn(p) PROVE PlacesByKind' /\ AtPreset'
    BY <1>12 DEF Spawn, LoaderAccounts
<1>13. ASSUME AllSpawned PROVE PlacesByKind' /\ AtPreset'
    BY <1>13 DEF AllSpawned
<1>14. ASSUME StopSpawning PROVE PlacesByKind' /\ AtPreset'
    BY <1>14 DEF StopSpawning
<1>15. ASSUME Loaded PROVE PlacesByKind' /\ AtPreset'
    BY <1>15 DEF Loaded
<1>16. ASSUME ContextDone PROVE PlacesByKind' /\ AtPreset'
    BY <1>16 DEF ContextDone
<1>17. CASE UNCHANGED vars
    BY <1>17 DEF vars
<1> QED
    BY <1>1, <1>2, <1>3, <1>4, <1>5, <1>6, <1>7, <1>8, <1>9, <1>10, <1>11, <1>12, <1>13,
       <1>14, <1>15, <1>16, <1>17
       DEF Next, LockStep, Network, WorkerStep, LoaderStep

\* Every step leaves the lock of a detail with the goroutine that fetches it,
\* and counts a detail fetched when it arrives.
LEMMA NextLocks ==
    ASSUME ConstantsOK, Types, Safe, [Next]_vars
    PROVE  FetchHoldsLock' /\ FetchedIfLoaded'
<1> USE DEF ConstantsOK, Goto, level1, level2, pool, Goroutines, Safe, Types,
        FetchHoldsLock, FetchedIfLoaded
<1>1. ASSUME NEW c \in Callers, BeginList(c) PROVE FetchHoldsLock' /\ FetchedIfLoaded'
    BY <1>1 DEF BeginList
<1>2. ASSUME NEW c \in Callers, NEW p \in Presets, BeginDetail(c, p)
      PROVE  FetchHoldsLock' /\ FetchedIfLoaded'
    BY <1>2 DEF BeginDetail
<1>3. ASSUME NEW g \in Goroutines, EnsureLoaded(g) PROVE FetchHoldsLock' /\ FetchedIfLoaded'
    BY <1>3 DEF EnsureLoaded
<1>4. ASSUME NEW g \in Goroutines, Lookup(g) PROVE FetchHoldsLock' /\ FetchedIfLoaded'
    BY <1>4 DEF Lookup, AfterList
<1>5. ASSUME NEW g \in Goroutines, Detail(g) PROVE FetchHoldsLock' /\ FetchedIfLoaded'
    BY <1>5 DEF Detail, AfterDetail, AtPreset
<1>6. ASSUME NEW g \in Goroutines, Listed(g) PROVE FetchHoldsLock' /\ FetchedIfLoaded'
    BY <1>6 DEF Listed
<1>7. ASSUME NEW g \in Goroutines, Detailed(g) PROVE FetchHoldsLock' /\ FetchedIfLoaded'
    BY <1>7 DEF Detailed, AfterDetail, AtPreset
<1>8. ASSUME NEW p \in Presets, Record(p) PROVE FetchHoldsLock' /\ FetchedIfLoaded'
    BY <1>8 DEF Record
<1>9. ASSUME NEW p \in Presets, Release(p) PROVE FetchHoldsLock' /\ FetchedIfLoaded'
    BY <1>9 DEF Release
<1>10. ASSUME NEW p \in Presets, WorkerDone(p) PROVE FetchHoldsLock' /\ FetchedIfLoaded'
    BY <1>10 DEF WorkerDone
<1>11. ASSUME BeginLoad PROVE FetchHoldsLock' /\ FetchedIfLoaded'
    BY <1>11 DEF BeginLoad
<1>12. ASSUME NEW p \in Presets, Spawn(p) PROVE FetchHoldsLock' /\ FetchedIfLoaded'
    BY <1>12 DEF Spawn
<1>13. ASSUME AllSpawned PROVE FetchHoldsLock' /\ FetchedIfLoaded'
    BY <1>13 DEF AllSpawned
<1>14. ASSUME StopSpawning PROVE FetchHoldsLock' /\ FetchedIfLoaded'
    BY <1>14 DEF StopSpawning
<1>15. ASSUME Loaded PROVE FetchHoldsLock' /\ FetchedIfLoaded'
    BY <1>15 DEF Loaded
<1>16. ASSUME ContextDone PROVE FetchHoldsLock' /\ FetchedIfLoaded'
    BY <1>16 DEF ContextDone
<1>17. CASE UNCHANGED vars
    BY <1>17 DEF vars
<1> QED
    BY <1>1, <1>2, <1>3, <1>4, <1>5, <1>6, <1>7, <1>8, <1>9, <1>10, <1>11, <1>12, <1>13,
       <1>14, <1>15, <1>16, <1>17
       DEF Next, LockStep, Network, WorkerStep, LoaderStep

\* Every step leaves each mutex with the goroutine whose request it guards.
LEMMA NextHeld ==
    ASSUME ConstantsOK, Types, Safe, [Next]_vars
    PROVE  LocksHeld'
<1> USE DEF ConstantsOK, Goto, level1, level2, pool, Goroutines, Safe, Types,
        LocksHeld
<1>1. ASSUME NEW c \in Callers, BeginList(c) PROVE LocksHeld'
    BY <1>1 DEF BeginList
<1>2. ASSUME NEW c \in Callers, NEW p \in Presets, BeginDetail(c, p) PROVE LocksHeld'
    BY <1>2 DEF BeginDetail
<1>3. ASSUME NEW g \in Goroutines, EnsureLoaded(g) PROVE LocksHeld'
    BY <1>3 DEF EnsureLoaded
<1>4. ASSUME NEW g \in Goroutines, Lookup(g) PROVE LocksHeld'
    BY <1>4 DEF Lookup, AfterList
<1>5. ASSUME NEW g \in Goroutines, Detail(g) PROVE LocksHeld'
    BY <1>5 DEF Detail, AfterDetail, AtPreset
<1>6. ASSUME NEW g \in Goroutines, Listed(g) PROVE LocksHeld'
    BY <1>6 DEF Listed
<1>7. ASSUME NEW g \in Goroutines, Detailed(g) PROVE LocksHeld'
    BY <1>7 DEF Detailed, AfterDetail, AtPreset
<1>8. ASSUME NEW p \in Presets, Record(p) PROVE LocksHeld'
    BY <1>8 DEF Record
<1>9. ASSUME NEW p \in Presets, Release(p) PROVE LocksHeld'
    BY <1>9 DEF Release
<1>10. ASSUME NEW p \in Presets, WorkerDone(p) PROVE LocksHeld'
    BY <1>10 DEF WorkerDone
<1>11. ASSUME BeginLoad PROVE LocksHeld'
    BY <1>11 DEF BeginLoad
<1>12. ASSUME NEW p \in Presets, Spawn(p) PROVE LocksHeld'
    BY <1>12 DEF Spawn, LoaderAccounts, Working
<1>13. ASSUME AllSpawned PROVE LocksHeld'
    BY <1>13 DEF AllSpawned
<1>14. ASSUME StopSpawning PROVE LocksHeld'
    BY <1>14 DEF StopSpawning
<1>15. ASSUME Loaded PROVE LocksHeld'
    BY <1>15 DEF Loaded
<1>16. ASSUME ContextDone PROVE LocksHeld'
    BY <1>16 DEF ContextDone
<1>17. CASE UNCHANGED vars
    BY <1>17 DEF vars
<1> QED
    BY <1>1, <1>2, <1>3, <1>4, <1>5, <1>6, <1>7, <1>8, <1>9, <1>10, <1>11, <1>12, <1>13,
       <1>14, <1>15, <1>16, <1>17
       DEF Next, LockStep, Network, WorkerStep, LoaderStep

\* Every step keeps the accounts of LoadAllDetails, and its success true.
LEMMA NextAccounts ==
    ASSUME ConstantsOK, Types, Counted, Safe, [Next]_vars
    PROVE  WorkersReport' /\ LoaderAccounts' /\ SuccessMeansWarm'
<1> USE DEF ConstantsOK, Goto, level1, level2, pool, Goroutines, Safe, Types,
        PlacesByKind, AtPreset, Working, FetchHoldsLock, Settled, WorkersReport,
        LoaderAccounts, SuccessMeansWarm
<1>1. ASSUME NEW c \in Callers, BeginList(c)
      PROVE  WorkersReport' /\ LoaderAccounts' /\ SuccessMeansWarm'
    BY <1>1 DEF BeginList
<1>2. ASSUME NEW c \in Callers, NEW p \in Presets, BeginDetail(c, p)
      PROVE  WorkersReport' /\ LoaderAccounts' /\ SuccessMeansWarm'
    BY <1>2 DEF BeginDetail
<1>3. ASSUME NEW g \in Goroutines, EnsureLoaded(g)
      PROVE  WorkersReport' /\ LoaderAccounts' /\ SuccessMeansWarm'
    BY <1>3 DEF EnsureLoaded
<1>4. ASSUME NEW g \in Goroutines, Lookup(g)
      PROVE  WorkersReport' /\ LoaderAccounts' /\ SuccessMeansWarm'
    BY <1>4 DEF Lookup, AfterList
<1>5. ASSUME NEW g \in Goroutines, Detail(g)
      PROVE  WorkersReport' /\ LoaderAccounts' /\ SuccessMeansWarm'
    BY <1>5 DEF Detail, AfterDetail
<1>6. ASSUME NEW g \in Goroutines, Listed(g)
      PROVE  WorkersReport' /\ LoaderAccounts' /\ SuccessMeansWarm'
    BY <1>6 DEF Listed
<1>7. ASSUME NEW g \in Goroutines, Detailed(g)
      PROVE  WorkersReport' /\ LoaderAccounts' /\ SuccessMeansWarm'
    BY <1>7 DEF Detailed, AfterDetail
<1>8. ASSUME NEW p \in Presets, Record(p)
      PROVE  WorkersReport' /\ LoaderAccounts' /\ SuccessMeansWarm'
    BY <1>8 DEF Record
<1>9. ASSUME NEW p \in Presets, Release(p)
      PROVE  WorkersReport' /\ LoaderAccounts' /\ SuccessMeansWarm'
    BY <1>9 DEF Release
<1>10. ASSUME NEW p \in Presets, WorkerDone(p)
       PROVE  WorkersReport' /\ LoaderAccounts' /\ SuccessMeansWarm'
    BY <1>10 DEF WorkerDone
<1>11. ASSUME BeginLoad PROVE WorkersReport' /\ LoaderAccounts' /\ SuccessMeansWarm'
    BY <1>11 DEF BeginLoad
<1>12. ASSUME NEW p \in Presets, Spawn(p)
       PROVE  WorkersReport' /\ LoaderAccounts' /\ SuccessMeansWarm'
    BY <1>12 DEF Spawn
<1>13. ASSUME AllSpawned PROVE WorkersReport' /\ LoaderAccounts' /\ SuccessMeansWarm'
    BY <1>13 DEF AllSpawned
<1>14. ASSUME StopSpawning PROVE WorkersReport' /\ LoaderAccounts' /\ SuccessMeansWarm'
    BY <1>14 DEF StopSpawning
<1>15. ASSUME Loaded PROVE WorkersReport' /\ LoaderAccounts' /\ SuccessMeansWarm'
  <2>1. \A p \in Presets : ~Working(p)
    BY <1>15, NobodyWaitedFor DEF Loaded
  <2> QED
    BY <1>15, <2>1 DEF Loaded
<1>16. ASSUME ContextDone PROVE WorkersReport' /\ LoaderAccounts' /\ SuccessMeansWarm'
    BY <1>16 DEF ContextDone
<1>17. CASE UNCHANGED vars
    BY <1>17 DEF vars
<1> QED
    BY <1>1, <1>2, <1>3, <1>4, <1>5, <1>6, <1>7, <1>8, <1>9, <1>10, <1>11, <1>12, <1>13,
       <1>14, <1>15, <1>16, <1>17
       DEF Next, LockStep, Network, WorkerStep, LoaderStep

\* The invariant holds at first: nothing runs and nothing is loaded.
LEMMA InitInv == ConstantsOK /\ Init => IInv
<1> SUFFICES ASSUME ConstantsOK, Init PROVE IInv
    OBVIOUS
<1>1. Types
    BY DEF Init, Types, Goroutines
<1>2. Counted
  <2>1. Active = {} /\ Workers = {}
    BY DEF Init, Active, Workers, Working, Goroutines
  <2> QED
    BY <2>1, FS_EmptySet DEF Init, Counted
<1>3. PlacesByKind /\ AtPreset /\ WorkersReport /\ LoaderAccounts
    BY DEF Init, Goroutines, PlacesByKind, AtPreset, WorkersReport, LoaderAccounts,
        Working
<1>4. FetchHoldsLock /\ FetchedIfLoaded /\ SlotsBounded /\ SuccessMeansWarm
    BY DEF Init, ConstantsOK, FetchHoldsLock, FetchedIfLoaded, SlotsBounded,
        SuccessMeansWarm
<1>5. LocksHeld
    BY DEF Init, ConstantsOK, Goroutines, LocksHeld
<1> QED
    BY <1>1, <1>2, <1>3, <1>4, <1>5, TypeParts DEF IInv, Safe

\* Every step preserves the invariant.
LEMMA NextInv == ConstantsOK /\ IInv /\ [Next]_vars => IInv'
<1> SUFFICES ASSUME ConstantsOK, IInv, [Next]_vars PROVE IInv'
    OBVIOUS
<1>1. Types /\ Counted /\ Safe /\ AtPreset
    BY TypeParts DEF IInv, Safe
<1>2. Types' /\ Counted' /\ SlotsBounded'
    BY <1>1, NextType, NextCounts
<1>3. PlacesByKind' /\ AtPreset' /\ FetchHoldsLock' /\ FetchedIfLoaded'
    BY <1>1, NextPlaces, NextLocks
<1>4. WorkersReport' /\ LoaderAccounts' /\ SuccessMeansWarm'
    BY <1>1, NextAccounts
<1>5. LocksHeld'
    BY <1>1, NextHeld
<1> QED
    BY <1>2, <1>3, <1>4, <1>5, TypeParts DEF IInv, Safe

\* The inductive invariant holds in every reachable state.
LEMMA Invariance == ASSUME ConstantsOK PROVE Spec => []IInv
BY InitInv, NextInv, PTL DEF Spec

-----------------------------------------------------------------------------
(* Waiting, and how long it can take.                                      *)

\* Who asks for a detail has it to itself, or waits for one who can go on.
LEMMA DetailIsFreeOrComing ==
    ASSUME ConstantsOK, Types, Safe, NEW g \in Goroutines, pc[g] = "lock2"
    PROVE  CanGoOn(g) \/ \E h \in WaitsFor(g) : CanGoOn(h)
<1>1. at[g] \in Presets
    BY DEF Safe, AtPreset
<1>2. CASE pmu[at[g]] = Nobody
    BY <1>2 DEF CanGoOn
<1>3. CASE pmu[at[g]] # Nobody
  <2> DEFINE h == pmu[at[g]]
  <2>1. h \in Goroutines /\ pc[h] = "fetch2"
    BY <1>1, <1>3 DEF Types, Safe, LocksHeld
  <2>2. h \in WaitsFor(g) /\ CanGoOn(h)
    BY <2>1 DEF WaitsFor, CanGoOn
  <2> QED
    BY <2>2
<1> QED
    BY <1>2, <1>3

\* So does who needs the list.
LEMMA ListIsFreeOrComing ==
    ASSUME ConstantsOK, Types, Safe, NEW g \in Goroutines, pc[g] \in {"lock1", "read1"}
    PROVE  CanGoOn(g) \/ \E h \in WaitsFor(g) : CanGoOn(h)
<1>1. CASE mu = Nobody
    BY <1>1 DEF CanGoOn
<1>2. CASE mu # Nobody
  <2>1. mu \in Goroutines /\ pc[mu] = "fetch1"
    BY <1>2 DEF Types, Safe, LocksHeld
  <2>2. mu \in WaitsFor(g) /\ CanGoOn(mu)
    BY <2>1 DEF WaitsFor, CanGoOn
  <2> QED
    BY <2>2
<1> QED
    BY <1>1, <1>2

\* A worker goes on, or waits for one who can.
LEMMA WorkerGoesOn ==
    ASSUME ConstantsOK, Types, Safe, NEW p \in Presets, Working(p)
    PROVE  CanGoOn(p) \/ \E h \in WaitsFor(p) : CanGoOn(h)
<1>1. p \in Goroutines
    BY DEF Goroutines
<1>2. pc[p] \in {"lock2", "fetch2", "record", "release", "done"}
    BY DEF Safe, PlacesByKind, Working
<1>3. CASE pc[p] = "lock2"
    BY <1>1, <1>3, DetailIsFreeOrComing
<1>4. CASE pc[p] # "lock2"
    BY <1>2, <1>4 DEF CanGoOn
<1> QED
    BY <1>3, <1>4

\* LoadAllDetails is held up by a worker only.
LEMMA HeldUpByWorker ==
    ASSUME ConstantsOK, Types, Counted, Safe, ~CanGoOn(Loader),
           pc[Loader] \in {"spawn", "wait", "waitctx"}
    PROVE  \E p \in Presets : Working(p)
<1>1. CASE pc[Loader] = "spawn"
  <2>1. ~(sem < MaxParallel)
    BY <1>1 DEF CanGoOn
  <2>2. Cardinality(Active) # 0
    BY <2>1, WorkersFinite DEF Counted, ConstantsOK
  <2>3. Active # {}
    BY <2>2, FS_EmptySet
  <2> QED
    BY <2>3 DEF Active
<1>2. CASE pc[Loader] \in {"wait", "waitctx"}
  <2>1. wg # 0
    BY <1>2 DEF CanGoOn
  <2>2. Workers # {}
    BY <2>1, FS_EmptySet DEF Counted
  <2> QED
    BY <2>2 DEF Workers
<1> QED
    BY <1>1, <1>2

\* Nobody waits in a circle.
LEMMA NoCircle == ConstantsOK /\ IInv => WaitsEnd
<1> SUFFICES ASSUME ConstantsOK, IInv, NEW g \in Goroutines, pc[g] # "idle"
             PROVE  \/ CanGoOn(g)
                    \/ \E h \in WaitsFor(g) :
                          CanGoOn(h) \/ \E k \in WaitsFor(h) : CanGoOn(k)
    BY DEF WaitsEnd
<1>1. Types /\ Counted /\ Safe
    BY TypeParts DEF IInv
<1>2. CASE pc[g] \in {"lock1", "read1"}
    BY <1>1, <1>2, ListIsFreeOrComing
<1>3. CASE pc[g] = "lock2"
    BY <1>1, <1>3, DetailIsFreeOrComing
<1>4. CASE pc[g] \in {"spawn", "wait", "waitctx"} /\ ~CanGoOn(g)
  <2>1. g = Loader
    BY <1>1, <1>4 DEF Safe, PlacesByKind, Goroutines
  <2>2. PICK p \in Presets : Working(p)
    BY <1>1, <1>4, <2>1, HeldUpByWorker
  <2>3. p \in WaitsFor(g)
    BY <1>4, <2>2 DEF WaitsFor, Goroutines
  <2> QED
    BY <1>1, <2>2, <2>3, WorkerGoesOn
<1>5. CASE pc[g] \in {"fetch1", "fetch2", "record", "release", "done"}
    BY <1>5 DEF CanGoOn
<1> QED
    BY <1>1, <1>2, <1>3, <1>4, <1>5 DEF Types

\* What is left to spawn is counted.
LEMMA TodoCounted ==
    ASSUME ConstantsOK, Types
    PROVE  /\ Cardinality(Presets) \in Nat /\ Cardinality(todo) \in Nat
           /\ IsFiniteSet(todo) /\ Cardinality(todo) <= Cardinality(Presets)
<1>1. IsFiniteSet(Presets) /\ todo \in SUBSET Presets
    BY DEF ConstantsOK, Types
<1> QED
    BY <1>1, FS_Subset, FS_CardinalityType

\* The bound of a goroutine that does not move stays.
LEMMA StillBound ==
    ASSUME Types, Safe, NEW g \in Goroutines, ~Moves(g)
    PROVE  StepsLeft(g)' = StepsLeft(g)
<1>1. pc'[g] = pc[g] /\ (pc[g] = "spawn" => todo' = todo)
    BY DEF Moves, Safe, PlacesByKind, Goroutines
<1> QED
    BY <1>1 DEF StepsLeft

\* The bound at each place of a goroutine.
BoundRead(g) ==
    LET n == Cardinality(Presets)
    IN  /\ pc[g] = "idle" => StepsLeft(g) = 0
        /\ pc[g] \in {"wait", "waitctx", "done"} => StepsLeft(g) = 1
        /\ pc[g] = "release" => StepsLeft(g) = 2
        /\ pc[g] = "record" => StepsLeft(g) = 3
        /\ pc[g] = "fetch2" => StepsLeft(g) = 4
        /\ pc[g] = "lock2" => StepsLeft(g) = 5
        /\ pc[g] = "spawn" => StepsLeft(g) = 2 + Cardinality(todo)
        /\ pc[g] = "read1" => StepsLeft(g) = 3 + n
        /\ pc[g] = "fetch1" => StepsLeft(g) = 4 + n
        /\ pc[g] = "lock1" => StepsLeft(g) = 5 + n

\* Which its definition says by cases.
LEMMA BoundIsRead == ASSUME NEW g PROVE BoundRead(g) /\ BoundRead(g)'
BY Zenon DEF StepsLeft, BoundRead

\* Every step of an operation uses up some of its bound.
LEMMA StepsUsed == ConstantsOK /\ IInv /\ [Next]_vars => UsesUpSteps
<1> SUFFICES ASSUME ConstantsOK, IInv, [Next]_vars,
                    NEW g \in Goroutines, pc[g] # "idle", Moves(g)
             PROVE  StepsLeft(g)' \in 0 .. StepsLeft(g) - 1
  <2>1. IInv => Types /\ Safe
    BY TypeParts DEF IInv
  <2> QED
    BY <2>1, StillBound DEF UsesUpSteps
<1>1. Types /\ Safe /\ AtPreset
    BY TypeParts DEF IInv, Safe
<1> DEFINE n == Cardinality(Presets)
           k == Cardinality(todo)
<1>3. n \in Nat /\ k \in Nat /\ k <= n /\ IsFiniteSet(todo)
    BY <1>1, TodoCounted
<1>4. BoundRead(g) /\ BoundRead(g)'
    BY BoundIsRead
<1>5. ASSUME NEW c \in Callers,
             BeginList(c) \/ \E p \in Presets : BeginDetail(c, p)
      PROVE  FALSE
    BY <1>1, <1>5 DEF BeginList, BeginDetail, Goto, pool, Moves, Types, Goroutines
<1>6. ASSUME NEW h \in Goroutines, EnsureLoaded(h)
      PROVE  StepsLeft(g)' \in 0 .. StepsLeft(g) - 1
  <2>1. g = h /\ pc[g] = "lock1" /\ pc'[g] \in {"read1", "fetch1"}
    BY <1>1, <1>6 DEF EnsureLoaded, Goto, pool, Moves, Types
  <2> QED
    BY <1>3, <1>4, <2>1 DEF BoundRead
<1>7. ASSUME NEW h \in Goroutines, Listed(h)
      PROVE  StepsLeft(g)' \in 0 .. StepsLeft(g) - 1
  <2>1. g = h /\ pc[g] = "fetch1" /\ pc'[g] \in {"read1", "idle"}
    BY <1>1, <1>7 DEF Listed, Goto, pool, Moves, Types
  <2> QED
    BY <1>3, <1>4, <2>1 DEF BoundRead
<1>8. ASSUME NEW h \in Goroutines, Lookup(h)
      PROVE  StepsLeft(g)' \in 0 .. StepsLeft(g) - 1
  <2>1. /\ g = h /\ pc[g] = "read1"
        /\ \/ pc'[g] = "spawn" /\ todo' = Presets
           \/ pc'[g] = "idle"
    BY <1>1, <1>8 DEF Lookup, AfterList, Goto, Moves, Types
  <2> QED
    BY <1>3, <1>4, <2>1 DEF BoundRead
<1>9. ASSUME NEW h \in Goroutines, Detail(h)
      PROVE  StepsLeft(g)' \in 0 .. StepsLeft(g) - 1
  <2>1. g = h /\ pc[g] = "lock2" /\ pc'[g] \in {"idle", "release", "fetch2"}
    BY <1>1, <1>9 DEF Detail, AfterDetail, Goto, pool, Moves, Types
  <2> QED
    BY <1>4, <2>1 DEF BoundRead
<1>10. ASSUME NEW h \in Goroutines, Detailed(h)
      PROVE  StepsLeft(g)' \in 0 .. StepsLeft(g) - 1
  <2>1. g = h /\ pc[g] = "fetch2" /\ pc'[g] \in {"idle", "record", "release"}
    BY <1>1, <1>10 DEF Detailed, AfterDetail, Goto, pool, Moves, Types
  <2> QED
    BY <1>4, <2>1 DEF BoundRead
<1>11. ASSUME NEW p \in Presets, WorkerStep(p)
       PROVE  StepsLeft(g)' \in 0 .. StepsLeft(g) - 1
  <2>1. /\ g = p
        /\ \/ pc[g] = "record" /\ pc'[g] = "release"
           \/ pc[g] = "release" /\ pc'[g] = "done"
           \/ pc[g] = "done" /\ pc'[g] = "idle"
    BY <1>1, <1>11 DEF WorkerStep, Record, Release, WorkerDone, Goto, pool, Moves,
        Types, Goroutines
  <2> QED
    BY <1>4, <2>1 DEF BoundRead
<1>12. ASSUME NEW p \in Presets, Spawn(p)
       PROVE  StepsLeft(g)' \in 0 .. StepsLeft(g) - 1
  <2>1. pc[p] = "idle" /\ g # p /\ p \in todo /\ todo' = todo \ {p}
    BY <1>1, <1>12 DEF Spawn, Safe, LoaderAccounts, Working
  <2>2. g = Loader /\ pc[g] = "spawn" /\ pc'[g] = "spawn"
    BY <1>1, <1>12, <2>1 DEF Spawn, Moves, Types, Goroutines
  <2>3. Cardinality(todo') = k - 1
    BY <1>3, <2>1, FS_RemoveElement
  <2>4. k # 0
    BY <1>3, <2>1, FS_EmptySet
  <2> QED
    BY <1>3, <1>4, <2>2, <2>3, <2>4 DEF BoundRead
<1>13. CASE AllSpawned \/ StopSpawning \/ Loaded
  <2>1. /\ g = Loader
        /\ \/ pc[g] = "spawn" /\ pc'[g] \in {"wait", "waitctx"}
           \/ pc[g] \in {"wait", "waitctx"} /\ pc'[g] = "idle"
    BY <1>1, <1>13 DEF AllSpawned, StopSpawning, Loaded, Goto, pool, Moves, Types,
        Goroutines
  <2> QED
    BY <1>3, <1>4, <2>1 DEF BoundRead
<1>14. CASE BeginLoad \/ ContextDone \/ UNCHANGED vars
    BY <1>1, <1>14 DEF BeginLoad, ContextDone, Goto, pool, vars, Moves, Types,
        Goroutines
<1> QED
    BY <1>5, <1>6, <1>7, <1>8, <1>9, <1>10, <1>11, <1>12, <1>13, <1>14
       DEF Next, LockStep, Network, LoaderStep

\* What the invariant says of the single properties.
LEMMA Consequences ==
    ConstantsOK /\ IInv =>
        /\ TypeOK /\ BoundedParallelism /\ NoOrphans /\ SuccessMeansWarm
        /\ FetchedOnce /\ WaitsEnd
<1> SUFFICES ASSUME ConstantsOK, IInv
             PROVE  BoundedParallelism /\ NoOrphans /\ SuccessMeansWarm /\ FetchedOnce
    BY NoCircle DEF IInv
<1>1. BoundedParallelism
  <2> DEFINE asking == {p \in Presets : pc[p] \in {"lock2", "fetch2", "record"}}
  <2> SUFFICES Cardinality(asking) <= MaxParallel
      BY DEF BoundedParallelism
  <2>1. asking \in SUBSET Active
    BY DEF Active, Working
  <2>2. Cardinality(asking) <= Cardinality(Active) /\ Cardinality(asking) \in Nat
    BY <2>1, WorkersFinite, FS_Subset, FS_CardinalityType
  <2>3. Cardinality(Active) <= MaxParallel /\ Cardinality(Active) \in Nat
    BY WorkersFinite, TypeParts DEF IInv, Safe, Counted, SlotsBounded
  <2> HIDE DEF asking
  <2> QED
    BY <2>2, <2>3 DEF ConstantsOK
<1>2. NoOrphans
    BY DEF IInv, Safe, LoaderAccounts, NoOrphans
<1>3. SuccessMeansWarm
    BY DEF IInv, Safe
<1>4. FetchedOnce
    BY DEF IInv, Safe, FetchedIfLoaded, FetchedOnce
<1> QED
    BY <1>1, <1>2, <1>3, <1>4

-----------------------------------------------------------------------------
(* What follows.                                                           *)

\* Type correctness, and the counters: the semaphore holds one token per worker
\* that has not released it, and the WaitGroup counts the workers.
THEOREM TypeCorrect == ASSUME ConstantsOK PROVE Spec => []TypeOK
BY Consequences, Invariance, PTL

\* The semaphore does bound how many details are asked for at a time.
THEOREM ParallelismIsBounded ==
    ASSUME ConstantsOK PROVE Spec => []BoundedParallelism
BY Consequences, Invariance, PTL

\* However LoadAllDetails returns, no worker outlives it.
THEOREM LeavesNoOrphans == ASSUME ConstantsOK PROVE Spec => []NoOrphans
BY Consequences, Invariance, PTL

\* When LoadAllDetails reports success every preset is warm, and stays so.
THEOREM SuccessWarmsAll == ASSUME ConstantsOK PROVE Spec => []SuccessMeansWarm
BY Consequences, Invariance, PTL

\* No detail is fetched twice, whoever asks for it at the same time.
THEOREM DetailFetchedOnce == ASSUME ConstantsOK PROVE Spec => []FetchedOnce
BY Consequences, Invariance, PTL

\* Whoever waits, waits for someone who can go on, at most at one remove.
THEOREM WaitsHaveEnds == ASSUME ConstantsOK PROVE Spec => []WaitsEnd
BY Consequences, Invariance, PTL

\* Every operation has a bound for its own steps.
THEOREM OperationsAreFinite == ASSUME ConstantsOK PROVE Spec => [][UsesUpSteps]_vars
<1>1. IInv /\ [Next]_vars => [UsesUpSteps]_vars
    BY StepsUsed
<1> QED
    BY <1>1, Invariance, PTL DEF Spec
=============================================================================
