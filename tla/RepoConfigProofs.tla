-------------------------- MODULE RepoConfigProofs --------------------------
(***************************************************************************)
(* What the lazily fetched configuration guarantees for every number of    *)
(* goroutines.  The inductive invariant IInv describes the Once and its    *)
(* mutex twice: as package sync keeps them, until a fetch has failed and a *)
(* goroutine may overwrite them; and, for as long as no two calls overlap, *)
(* by the place of the one call in progress.                               *)
(***************************************************************************)
EXTENDS RepoConfig, FiniteSetTheorems, TLAPS

\* The places of a goroutine that holds the mutex, and of one that starts over.
Inside == {"locked", "fetch", "unlock"}
Resetting == {"capture", "resetOnce", "resetErr", "resetConfig"}

Asleep == {c \in Callers : pc[c] = "asleep"}

\* The mutex is held by the one goroutine inside it, and the woken mark is there
\* for the one goroutine that expects it.
MutexSound ==
    /\ \A c \in Callers : pc[c] \in Inside => held
    /\ \A c, d \in Callers : pc[c] \in Inside /\ pc[d] \in Inside => c = d
    /\ \A c \in Callers : pc[c] = "awake" => woken
    /\ \A c, d \in Callers : pc[c] = "awake" /\ pc[d] = "awake" => c = d

\* Whoever is past the Once finds it done, with the configuration; and while it
\* is not done, the request that was sent is on its way.
OnceSound ==
    /\ done => config
    /\ \A c \in Callers : pc[c] \in {"unlock", "check", "read"} => done
    /\ fetches # 0 /\ ~done => \E c \in Callers : pc[c] = "fetch"

\* Until a fetch fails.
NoFailure ==
    ~failed =>
        /\ MutexSound /\ OnceSound /\ fetches <= 1
        /\ ~crashed /\ ~configErr
        /\ \A c \in Callers : pc[c] \notin Resetting /\ ans[c] \in {"none", "config"}

\* What the one call in progress finds at each of its places.
Found(c) ==
    CASE pc[c] = "idle"   -> TRUE
      [] pc[c] = "slow"   -> ~held /\ ~done /\ ~configErr /\ ~config
      [] pc[c] = "locked" -> held /\ ~done /\ ~configErr /\ ~config
      [] pc[c] = "fetch"  -> held /\ ~done
      [] pc[c] = "unlock" -> held /\ done /\ (config <=> ~configErr)
      [] pc[c] = "check"  -> ~held /\ done /\ (config <=> ~configErr)
      [] pc[c] = "capture" -> ~held /\ configErr /\ ~config
      [] pc[c] = "resetOnce" -> ~held /\ got[c] /\ ~config
      [] pc[c] = "resetErr" -> ~held /\ ~done /\ got[c] /\ ~config
      [] pc[c] = "resetConfig" -> ~held /\ ~done /\ got[c] /\ ~config /\ ~configErr
      [] pc[c] = "read" -> ~held /\ done /\ config /\ ~configErr
      [] OTHER -> FALSE

\* As long as no two calls overlap.
NoOverlap ==
    ~overlapped =>
        /\ ~crashed
        /\ \A c \in Callers : ans[c] # "nil" /\ Found(c)
        /\ \A c, d \in Callers : c = d \/ pc[c] = "idle" \/ pc[d] = "idle"
        /\ (\A c \in Callers : pc[c] = "idle") => ~held /\ (done <=> config) /\ ~configErr

Counted == waiters \in Nat

IInv == TypeOK /\ Counted /\ NoFailure /\ NoOverlap

-----------------------------------------------------------------------------

\* The sleepers can be counted, and one that lies down or is woken is one.
LEMMA SleepersCounted ==
    ASSUME ConstantsOK, TypeOK
    PROVE  /\ IsFiniteSet(Asleep) /\ Cardinality(Asleep) \in Nat
           /\ waiters <= Cardinality(Asleep)
           /\ \A c \in Callers \ Asleep :
                 Cardinality(Asleep \cup {c}) = Cardinality(Asleep) + 1
           /\ \A c \in Asleep : Cardinality(Asleep \ {c}) = Cardinality(Asleep) - 1
<1>1. IsFiniteSet(Asleep) /\ Cardinality(Asleep) \in Nat
    BY FS_Subset, FS_CardinalityType DEF Asleep, ConstantsOK
<1> QED
    BY <1>1, FS_AddElement, FS_RemoveElement DEF TypeOK, Asleep

\* A step that puts nobody to sleep and wakes nobody leaves the sleepers alone.
LEMMA SameSleepers ==
    ASSUME TypeOK, NEW c \in Callers, NEW q \in Pcs \ {"asleep"}, pc[c] # "asleep",
           pc' = [pc EXCEPT ![c] = q]
    PROVE  Asleep' = Asleep /\ pc' \in [Callers -> Pcs]
BY DEF TypeOK, Asleep

\* The flags are flags.
LEMMA Flags ==
    ASSUME TypeOK
    PROVE  /\ done \in BOOLEAN /\ held \in BOOLEAN /\ woken \in BOOLEAN
           /\ configErr \in BOOLEAN /\ config \in BOOLEAN /\ crashed \in BOOLEAN
           /\ failed \in BOOLEAN /\ overlapped \in BOOLEAN
BY DEF TypeOK

\* The mutex counts no more waiters than sleep, whatever it is overwritten with.
LEMMA SleepersStep ==
    ASSUME ConstantsOK, TypeOK, Counted, NEW c \in Callers, Configuration(c) \/ Step(c)
    PROVE  /\ pc' \in [Callers -> Pcs]
           /\ waiters' \in Nat /\ waiters' <= Cardinality(Asleep')
<1> USE DEF Counted, once, fields, history, Goto, Return
<1>1. CASE UNCHANGED <<pc, waiters>>
    BY <1>1, SleepersCounted DEF TypeOK, Asleep
<1>2. CASE waiters' \in {0, waiters} /\ \E q \in Pcs \ {"asleep"} :
              pc[c] # "asleep" /\ pc' = [pc EXCEPT ![c] = q]
  <2>1. PICK q \in Pcs \ {"asleep"} : pc[c] # "asleep" /\ pc' = [pc EXCEPT ![c] = q]
    BY <1>2
  <2>2. Asleep' = Asleep /\ pc' \in [Callers -> Pcs]
    BY <2>1, SameSleepers
  <2> QED
    BY <1>2, <2>2, SleepersCounted
<1>3. CASE /\ pc' = [pc EXCEPT ![c] = "asleep"] /\ pc[c] # "asleep"
           /\ waiters' = waiters + 1
  <2>1. Asleep' = Asleep \cup {c} /\ c \notin Asleep /\ pc' \in [Callers -> Pcs]
    BY <1>3 DEF TypeOK, Asleep, Pcs
  <2> QED
    BY <1>3, <2>1, SleepersCounted
<1>4. CASE \E w \in Callers :
              /\ pc[c] = "unlock" /\ pc[w] = "asleep"
              /\ pc' = [pc EXCEPT ![c] = "check", ![w] = "awake"]
              /\ waiters > 0 /\ waiters' = waiters - 1
  <2>1. PICK w \in Callers :
           /\ pc[c] = "unlock" /\ pc[w] = "asleep"
           /\ pc' = [pc EXCEPT ![c] = "check", ![w] = "awake"]
           /\ waiters > 0 /\ waiters' = waiters - 1
    BY <1>4
  <2>2. Asleep' = Asleep \ {w} /\ w \in Asleep /\ pc' \in [Callers -> Pcs]
    BY <2>1 DEF TypeOK, Asleep, Pcs
  <2> QED
    BY <2>1, <2>2, SleepersCounted
<1>5. CASE Lock(c)
    BY <1>2, <1>3, <1>5 DEF Lock, Pcs
<1>6. CASE Wake(c)
    BY <1>1, <1>2, <1>3, <1>6 DEF Wake, Throw, Pcs
<1>7. CASE Unlock(c)
    BY <1>1, <1>2, <1>4, <1>7 DEF Unlock, Throw, Pcs
<1>8. CASE Configuration(c) \/ DoSlow(c) \/ FetchEnds(c) \/ CheckErr(c)
    BY <1>2, <1>8 DEF Configuration, DoSlow, FetchEnds, CheckErr, Pcs
<1>9. CASE \/ Capture(c) \/ ResetOnce(c) \/ ResetErr(c) \/ ResetConfig(c)
           \/ ReadConfig(c)
    BY <1>2, <1>9 DEF Capture, ResetOnce, ResetErr, ResetConfig, ReadConfig, Pcs
<1> QED
    BY <1>5, <1>6, <1>7, <1>8, <1>9 DEF Step

\* An error is never kept beside a configuration.
LEMMA FieldsStep ==
    ASSUME TypeOK, NEW c \in Callers, Configuration(c) \/ Step(c)
    PROVE  /\ done' \in BOOLEAN /\ held' \in BOOLEAN /\ woken' \in BOOLEAN
           /\ configErr' \in BOOLEAN /\ config' \in BOOLEAN /\ crashed' \in BOOLEAN
           /\ failed' \in BOOLEAN /\ overlapped' \in BOOLEAN
           /\ got' \in [Callers -> BOOLEAN]
           /\ ans' \in [Callers -> {"none", "config", "error", "nil"}]
           /\ fetches' \in 0 .. 2
           /\ ~(configErr' /\ config')
<1> USE Flags DEF once, fields, history, Goto, Return
<1>1. CASE Lock(c)
    BY <1>1 DEF Lock, TypeOK
<1>2. CASE Wake(c)
  <2>1. UNCHANGED <<done, configErr, config, failed, overlapped, got, ans, fetches>>
    BY <1>2 DEF Wake, Throw
  <2>2. held' \in BOOLEAN /\ woken' \in BOOLEAN /\ crashed' \in BOOLEAN
    BY <1>2 DEF Wake, Throw
  <2> QED
    BY <2>1, <2>2 DEF TypeOK
<1>3. CASE Unlock(c)
  <2>1. UNCHANGED <<done, configErr, config, failed, overlapped, got, ans, fetches>>
    BY <1>3 DEF Unlock, Throw
  <2>2. held' \in BOOLEAN /\ woken' \in BOOLEAN /\ crashed' \in BOOLEAN
    BY <1>3 DEF Unlock, Throw
  <2> QED
    BY <2>1, <2>2 DEF TypeOK
<1>4. CASE Configuration(c)
    BY <1>4 DEF Configuration, TypeOK
<1>5. CASE DoSlow(c)
    BY <1>5 DEF DoSlow, TypeOK
<1>6. CASE FetchEnds(c)
    BY <1>6 DEF FetchEnds, TypeOK
<1>7. CASE CheckErr(c)
    BY <1>7 DEF CheckErr, TypeOK
<1>8. CASE Capture(c)
    BY <1>8 DEF Capture, TypeOK
<1>9. CASE ResetOnce(c)
    BY <1>9 DEF ResetOnce, TypeOK
<1>10. CASE ResetErr(c)
    BY <1>10 DEF ResetErr, TypeOK
<1>11. CASE ResetConfig(c)
    BY <1>11 DEF ResetConfig, TypeOK
<1>12. CASE ReadConfig(c)
    BY <1>12 DEF ReadConfig, TypeOK
<1> QED
    BY <1>1, <1>2, <1>3, <1>4, <1>5, <1>6, <1>7, <1>8, <1>9, <1>10, <1>11, <1>12 DEF Step

\* Every step keeps the types and the count of sleepers.
LEMMA TypeStep ==
    ASSUME ConstantsOK, TypeOK, Counted, NEW c \in Callers, Configuration(c) \/ Step(c)
    PROVE  TypeOK' /\ Counted'
BY SleepersStep, FieldsStep DEF TypeOK, Counted, Asleep

-----------------------------------------------------------------------------
(* Until a fetch fails.                                                    *)

\* Who moves goes where it says, and nobody else moves.
LEMMA Moves ==
    ASSUME TypeOK, NEW c \in Callers, NEW q, pc' = [pc EXCEPT ![c] = q]
    PROVE  pc'[c] = q /\ \A d \in Callers \ {c} : pc'[d] = pc[d]
BY DEF TypeOK

\* As long as no fetch has failed, a step that does not fail leaves the Once and
\* the mutex as package sync keeps them.
LEMMA NoFailureStep ==
    ASSUME TypeOK, Counted, NoFailure, NEW c \in Callers, Configuration(c) \/ Step(c)
    PROVE  NoFailure'
<1> SUFFICES ASSUME ~failed'
             PROVE  /\ MutexSound' /\ OnceSound' /\ fetches' <= 1
                    /\ ~crashed' /\ ~configErr'
                    /\ \A d \in Callers : pc'[d] \notin Resetting
                                          /\ ans'[d] \in {"none", "config"}
    BY DEF NoFailure
<1> USE Flags DEF once, fields, history, Goto, Return, Inside, Resetting
<1>0. ~failed
    BY DEF Configuration, Step, Lock, Wake, Unlock, DoSlow, FetchEnds, CheckErr,
        Capture, ResetOnce, ResetErr, ResetConfig, ReadConfig, Throw
<1>a. /\ MutexSound /\ OnceSound /\ fetches <= 1
      /\ ~crashed /\ ~configErr
      /\ \A d \in Callers : pc[d] \notin Resetting /\ ans[d] \in {"none", "config"}
    BY <1>0 DEF NoFailure
<1> USE <1>0, <1>a
<1>1. CASE Configuration(c)
    BY <1>1, Moves DEF Configuration, TypeOK, MutexSound, OnceSound
<1>2. CASE Lock(c)
    BY <1>2, Moves DEF Lock, TypeOK, MutexSound, OnceSound
<1>3. CASE Wake(c)
    BY <1>3, Moves DEF Wake, TypeOK, MutexSound, OnceSound, Throw
<1>4. CASE Unlock(c)
    BY <1>4, Moves DEF Unlock, TypeOK, MutexSound, OnceSound, Throw
<1>5. CASE DoSlow(c)
    BY <1>5, Moves DEF DoSlow, TypeOK, MutexSound, OnceSound
<1>6. CASE FetchEnds(c)
    BY <1>6, Moves DEF FetchEnds, TypeOK, MutexSound, OnceSound
<1>7. CASE CheckErr(c)
    BY <1>7, Moves DEF CheckErr, TypeOK, MutexSound, OnceSound
<1>8. CASE Capture(c)
    BY <1>8, Moves DEF Capture, TypeOK, MutexSound, OnceSound
<1>9. CASE ResetOnce(c)
    BY <1>9, Moves DEF ResetOnce, TypeOK, MutexSound, OnceSound
<1>10. CASE ResetErr(c)
    BY <1>10, Moves DEF ResetErr, TypeOK, MutexSound, OnceSound
<1>11. CASE ResetConfig(c)
    BY <1>11, Moves DEF ResetConfig, TypeOK, MutexSound, OnceSound
<1>12. CASE ReadConfig(c)
    BY <1>12, Moves DEF ReadConfig, TypeOK, MutexSound, OnceSound
<1> QED
    BY <1>1, <1>2, <1>3, <1>4, <1>5, <1>6, <1>7, <1>8, <1>9, <1>10, <1>11, <1>12 DEF Step

-----------------------------------------------------------------------------
(* As long as no two calls overlap.                                        *)

\* A call that runs alone finds the configuration or its own failure.
LEMMA NoOverlapStep ==
    ASSUME TypeOK, Counted, NoOverlap, NEW c \in Callers, Configuration(c) \/ Step(c)
    PROVE  NoOverlap'
<1> SUFFICES ASSUME ~overlapped'
             PROVE  /\ ~crashed'
                    /\ \A d \in Callers : ans'[d] # "nil" /\ Found(d)'
                    /\ \A d, e \in Callers : d = e \/ pc'[d] = "idle" \/ pc'[e] = "idle"
                    /\ (\A d \in Callers : pc'[d] = "idle") =>
                          ~held' /\ (done' <=> config') /\ ~configErr'
    BY DEF NoOverlap
<1> USE Flags DEF once, fields, history, Goto, Return
<1>0. ~overlapped
    BY DEF Configuration, Step, Lock, Wake, Unlock, DoSlow, FetchEnds, CheckErr,
        Capture, ResetOnce, ResetErr, ResetConfig, ReadConfig, Throw
<1>a. /\ ~crashed
      /\ \A d \in Callers : ans[d] # "nil" /\ Found(d)
      /\ \A d, e \in Callers : d = e \/ pc[d] = "idle" \/ pc[e] = "idle"
      /\ (\A d \in Callers : pc[d] = "idle") => ~held /\ (done <=> config) /\ ~configErr
    BY <1>0 DEF NoOverlap
<1>b. \A d \in Callers \ {c} : pc[d] = "idle" /\ pc'[d] = pc[d]
  <2>1. CASE Configuration(c)
    BY <2>1, Moves DEF Configuration
  <2>2. CASE Step(c)
    <3>1. pc[c] # "idle"
      BY <2>2 DEF Step, Lock, Wake, Unlock, DoSlow, FetchEnds, CheckErr, Capture,
          ResetOnce, ResetErr, ResetConfig, ReadConfig
    <3>2. \A d \in Callers \ {c} : pc[d] = "idle"
      BY <1>a, <3>1
    <3>3. pc' = pc \/ \E q \in Pcs : pc' = [pc EXCEPT ![c] = q]
      BY <2>2, <3>1, <3>2 DEF Step, Lock, Wake, Unlock, DoSlow, FetchEnds, CheckErr,
          Capture, ResetOnce, ResetErr, ResetConfig, ReadConfig, Throw, Pcs
    <3> QED
      BY <3>2, <3>3, Moves
  <2> QED
    BY <2>1, <2>2
<1> USE <1>0, <1>a
<1>1. CASE Configuration(c)
    BY <1>1, <1>b, Moves DEF Configuration, TypeOK, Found
<1>2. CASE Lock(c)
    BY <1>2, <1>b, Moves DEF Lock, TypeOK, Found
<1>3. CASE Wake(c)
    BY <1>3, <1>b, Moves DEF Wake, TypeOK, Found, Throw
<1>4. CASE Unlock(c)
    BY <1>4, <1>b, Moves DEF Unlock, TypeOK, Found, Throw
<1>5. CASE DoSlow(c)
    BY <1>5, <1>b, Moves DEF DoSlow, TypeOK, Found
<1>6. CASE FetchEnds(c)
    BY <1>6, <1>b, Moves DEF FetchEnds, TypeOK, Found
<1>7. CASE CheckErr(c)
    BY <1>7, <1>b, Moves DEF CheckErr, TypeOK, Found
<1>8. CASE Capture(c)
    BY <1>8, <1>b, Moves DEF Capture, TypeOK, Found
<1>9. CASE ResetOnce(c)
    BY <1>9, <1>b, Moves DEF ResetOnce, TypeOK, Found
<1>10. CASE ResetErr(c)
    BY <1>10, <1>b, Moves DEF ResetErr, TypeOK, Found
<1>11. CASE ResetConfig(c)
    BY <1>11, <1>b, Moves DEF ResetConfig, TypeOK, Found
<1>12. CASE ReadConfig(c)
    BY <1>12, <1>b, Moves DEF ReadConfig, TypeOK, Found
<1> QED
    BY <1>1, <1>2, <1>3, <1>4, <1>5, <1>6, <1>7, <1>8, <1>9, <1>10, <1>11, <1>12 DEF Step

-----------------------------------------------------------------------------
(* The invariant, and what follows from it.                                *)

\* No call has begun.
LEMMA InitInv == ConstantsOK /\ Init => IInv
<1> SUFFICES ASSUME ConstantsOK, Init PROVE IInv
    OBVIOUS
<1>1. TypeOK /\ Counted
  <2>1. {c \in Callers : pc[c] = "asleep"} = {}
    BY DEF Init
  <2>2. Cardinality({c \in Callers : pc[c] = "asleep"}) = 0
    BY <2>1, FS_EmptySet
  <2>3. {done, held, woken, configErr, config, crashed, failed, overlapped} \subseteq BOOLEAN
    BY DEF Init
  <2> QED
    BY <2>2, <2>3 DEF Init, TypeOK, Counted, Pcs
<1>2. NoFailure /\ NoOverlap
    BY DEF Init, NoFailure, NoOverlap, MutexSound, OnceSound, Inside, Resetting, Found
<1> QED
    BY <1>1, <1>2 DEF IInv

\* Every step preserves the invariant.
LEMMA NextInv == ConstantsOK /\ IInv /\ [Next]_vars => IInv'
<1> SUFFICES ASSUME ConstantsOK, IInv, [Next]_vars PROVE IInv'
    OBVIOUS
<1>1. CASE Next
    BY <1>1, TypeStep, NoFailureStep, NoOverlapStep DEF Next, IInv
<1>2. CASE UNCHANGED vars
  <2>1. UNCHANGED <<done, held, woken, waiters, configErr, config, pc, got, ans,
                    crashed, fetches, failed, overlapped>>
    BY <1>2 DEF vars, once, fields, history
  <2>2. TypeOK' /\ Counted'
    BY <2>1 DEF IInv, TypeOK, Counted
  <2>3. NoFailure' /\ NoOverlap'
    BY <2>1 DEF IInv, NoFailure, NoOverlap, MutexSound, OnceSound, Found
  <2> QED
    BY <2>2, <2>3 DEF IInv
<1> QED
    BY <1>1, <1>2

\* The inductive invariant holds in every reachable state.
LEMMA Invariance == ASSUME ConstantsOK PROVE Spec => []IInv
BY InitInv, NextInv, PTL DEF Spec

\* What the invariant says of the single properties.
LEMMA Consequences ==
    IInv => TypeOK /\ SharedUntilFailure /\ SequentialRetry
BY DEF IInv, NoFailure, NoOverlap, SharedUntilFailure, SequentialRetry

\* Type correctness of the shared configuration: the mutex word never counts
\* more waiters than sleep, although the Once is overwritten under them, and an
\* error is never kept beside a configuration.
THEOREM TypeCorrect == ASSUME ConstantsOK PROVE Spec => []TypeOK
BY Consequences, Invariance, PTL

\* However many goroutines ask at once, and however they interleave: until a
\* fetch fails they share one request, all get the configuration, and package
\* sync finds nothing wrong (repo_config.go:45-47, 142-144).
THEOREM OneRequestIsShared == ASSUME ConstantsOK PROVE Spec => []SharedUntilFailure
BY Consequences, Invariance, PTL

\* A goroutine alone on the handle, at each of its calls, gets the configuration
\* or the error of its own fetch, never the trace of an earlier failure
\* (repo_config.go:159-161).
THEOREM FailureIsForgotten == ASSUME ConstantsOK PROVE Spec => []SequentialRetry
BY Consequences, Invariance, PTL
=============================================================================
