----------------------------- MODULE RepoConfig -----------------------------
(***************************************************************************)
(* workflows/projects/repo_config.go: the lazily fetched configuration of  *)
(* a ProjectRepoConfig handle shared by goroutines.  A sync.Once guards    *)
(* the fetch; a failed fetch is forgotten by overwriting the Once, the     *)
(* error and the configuration in place, with no lock held.                *)
(*                                                                         *)
(* Because the Once is overwritten while others may be inside it, its      *)
(* parts are state here: the done flag and the mutex word (locked, woken,  *)
(* number of waiters), as package sync defines them without the starvation *)
(* mode.  done and the mutex word are adjacent 32-bit words that the reset *)
(* clears with one store.  Every other racing access is a step of its own. *)
(* Branches and resetBranchesOnce are the same code over other fields.     *)
(***************************************************************************)
EXTENDS Naturals, FiniteSets

CONSTANT Callers        \* goroutines sharing the handle

\* What an instance of this module must satisfy.
ConstantsOK == IsFiniteSet(Callers)

VARIABLES
    done, held, woken, waiters,     \* configOnce
    configErr,  \* whether p.configErr is set
    config,     \* whether p.config is set
    pc,         \* pc[c]: where goroutine c is
    got,        \* got[c]: whether the error it captured is set
    ans,        \* ans[c]: what its last Configuration returned
    crashed,    \* package sync has thrown: the process is gone
    fetches,    \* history: requests sent, counted up to 2
    failed,     \* history: some fetch has failed
    overlapped  \* history: two calls have been in progress at a time

once == <<done, held, woken, waiters>>
fields == <<configErr, config>>
history == <<fetches, failed, overlapped>>
vars == <<once, fields, pc, got, ans, crashed, history>>

Pcs == {"idle", "slow", "asleep", "awake", "locked", "fetch", "unlock",
        "check", "capture", "resetOnce", "resetErr", "resetConfig", "read"}

Init ==
    /\ done = FALSE /\ held = FALSE /\ woken = FALSE /\ waiters = 0
    /\ configErr = FALSE /\ config = FALSE
    /\ pc = [c \in Callers |-> "idle"]
    /\ got = [c \in Callers |-> FALSE]
    /\ ans = [c \in Callers |-> "none"]
    /\ crashed = FALSE
    /\ fetches = 0 /\ failed = FALSE /\ overlapped = FALSE

\* Goroutine c of a living process goes from p to q.
Goto(c, p, q) ==
    /\ ~crashed
    /\ pc[c] = p
    /\ pc' = [pc EXCEPT ![c] = q]

\* The call at p ends and returns a.
Return(c, p, a) ==
    /\ Goto(c, p, "idle")
    /\ ans' = [ans EXCEPT ![c] = a]
    /\ got' = [got EXCEPT ![c] = FALSE]

-----------------------------------------------------------------------------
(* sync.Once and sync.Mutex (external).                                    *)

\* The process dies of a fault package sync detects.
Throw ==
    /\ crashed' = TRUE
    /\ UNCHANGED <<once, fields, pc, got, ans, history>>

\* Mutex.Lock in Once.doSlow: a free mutex is taken, also ahead of waiters.
Lock(c) ==
    /\ \/ /\ ~held
          /\ Goto(c, "slow", "locked")
          /\ held' = TRUE
          /\ UNCHANGED waiters
       \/ /\ held
          /\ Goto(c, "slow", "asleep")
          /\ waiters' = waiters + 1
          /\ UNCHANGED held
    /\ UNCHANGED <<done, woken, fields, got, ans, crashed, history>>

\* A waiter that was woken expects the woken mark its waker left.
Wake(c) ==
    /\ pc[c] = "awake"
    /\ ~crashed
    /\ \/ ~woken /\ Throw
       \/ /\ woken
          /\ \/ /\ ~held
                /\ Goto(c, "awake", "locked")
                /\ held' = TRUE
                /\ UNCHANGED waiters
             \/ /\ held
                /\ Goto(c, "awake", "asleep")
                /\ waiters' = waiters + 1
                /\ UNCHANGED held
          /\ woken' = FALSE
          /\ UNCHANGED <<done, fields, got, ans, crashed, history>>

\* Mutex.Unlock: unlocking a free mutex is a fault; otherwise one waiter, if
\* the word counts any and none is awake yet, is woken.
Unlock(c) ==
    /\ pc[c] = "unlock"
    /\ ~crashed
    /\ \/ ~held /\ Throw
       \/ /\ held
          /\ held' = FALSE
          /\ \/ /\ waiters > 0 /\ ~woken
                /\ \E w \in Callers :
                      /\ pc[w] = "asleep"
                      /\ pc' = [pc EXCEPT ![c] = "check", ![w] = "awake"]
                /\ waiters' = waiters - 1
                /\ woken' = TRUE
             \/ /\ waiters = 0 \/ woken
                /\ Goto(c, "unlock", "check")
                /\ UNCHANGED <<waiters, woken>>
          /\ UNCHANGED <<done, fields, got, ans, crashed, history>>

-----------------------------------------------------------------------------
(* Configuration.                                                          *)

\* Entry: the fast path of Once.Do.
Configuration(c) ==
    /\ Goto(c, "idle", IF done THEN "check" ELSE "slow")
    /\ overlapped' = (overlapped \/ \E d \in Callers : pc[d] # "idle")
    /\ ans' = [ans EXCEPT ![c] = "none"]
    /\ UNCHANGED <<once, fields, got, crashed, fetches, failed>>

\* doSlow looks at done again; the first goroutine sends the request.
DoSlow(c) ==
    /\ \/ /\ done
          /\ Goto(c, "locked", "unlock")
          /\ UNCHANGED fetches
       \/ /\ ~done
          /\ Goto(c, "locked", "fetch")
          /\ fetches' = IF fetches < 2 THEN fetches + 1 ELSE fetches
    /\ UNCHANGED <<once, fields, got, ans, crashed, failed, overlapped>>

\* (mutant: a success leaves the error of an earlier failure)
FetchEndsKeepingError(c) ==
    /\ Goto(c, "fetch", "unlock")
    /\ \E ok \in BOOLEAN :
          /\ config' = ok
          /\ configErr' = (configErr \/ ~ok)
          /\ failed' = (failed \/ ~ok)
    /\ done' = TRUE
    /\ UNCHANGED <<held, woken, waiters, got, ans, crashed, fetches, overlapped>>

\* The request ends: both fields are set, then the Once is done.
FetchEnds(c) ==
    /\ Goto(c, "fetch", "unlock")
    /\ \E ok \in BOOLEAN :
          /\ config' = ok
          /\ configErr' = ~ok
          /\ failed' = (failed \/ ~ok)
    /\ done' = TRUE
    /\ UNCHANGED <<held, woken, waiters, got, ans, crashed, fetches, overlapped>>

\* (mutant: every call starts over)
CheckErrAlwaysResetting(c) ==
    /\ Goto(c, "check", "capture")
    /\ UNCHANGED <<once, fields, got, ans, crashed, history>>

\* The test of configErr, without the lock.
CheckErr(c) ==
    /\ Goto(c, "check", IF configErr THEN "capture" ELSE "read")
    /\ UNCHANGED <<once, fields, got, ans, crashed, history>>

\* The error is read a second time, to be returned.
Capture(c) ==
    /\ Goto(c, "capture", "resetOnce")
    /\ got' = [got EXCEPT ![c] = configErr]
    /\ UNCHANGED <<once, fields, ans, crashed, history>>

\* (mutant: the Once is left done)
ResetOnceNever(c) ==
    /\ Goto(c, "resetOnce", "resetErr")
    /\ UNCHANGED <<once, fields, got, ans, crashed, history>>

\* resetConfigOnce: the Once is overwritten, whoever is inside it...
ResetOnce(c) ==
    /\ Goto(c, "resetOnce", "resetErr")
    /\ done' = FALSE /\ held' = FALSE /\ woken' = FALSE /\ waiters' = 0
    /\ UNCHANGED <<fields, got, ans, crashed, history>>

\* ... then the error...
ResetErr(c) ==
    /\ Goto(c, "resetErr", "resetConfig")
    /\ configErr' = FALSE
    /\ UNCHANGED <<once, config, got, ans, crashed, history>>

\* ... and the configuration; the captured error is returned.
ResetConfig(c) ==
    /\ Return(c, "resetConfig", IF got[c] THEN "error" ELSE "nil")
    /\ config' = FALSE
    /\ UNCHANGED <<once, configErr, crashed, history>>

ReadConfig(c) ==
    /\ Return(c, "read", IF config THEN "config" ELSE "nil")
    /\ UNCHANGED <<once, fields, crashed, history>>

Step(c) ==
    Lock(c) \/ Wake(c) \/ Unlock(c) \/ DoSlow(c) \/ FetchEnds(c)
        \/ CheckErr(c) \/ Capture(c) \/ ResetOnce(c) \/ ResetErr(c)
        \/ ResetConfig(c) \/ ReadConfig(c)

Next == \E c \in Callers : Configuration(c) \/ Step(c)

Spec == Init /\ [][Next]_vars

-----------------------------------------------------------------------------
(* Properties.                                                             *)

\* Every variable has its type; the mutex word never counts more waiters than
\* sleep, and an error is never kept beside a configuration.
TypeOK ==
    /\ {done, held, woken, configErr, config, crashed, failed, overlapped} \subseteq BOOLEAN
    /\ pc \in [Callers -> Pcs]
    /\ got \in [Callers -> BOOLEAN]
    /\ ans \in [Callers -> {"none", "config", "error", "nil"}]
    /\ fetches \in 0..2
    /\ waiters <= Cardinality({c \in Callers : pc[c] = "asleep"})
    /\ ~(configErr /\ config)

\* Until a fetch fails, all goroutines share a single request, every one of
\* them gets the configuration and the Once stays sound, however they
\* interleave (repo_config.go:45-47, 142-144).
SharedUntilFailure ==
    ~failed =>
        /\ fetches <= 1
        /\ ~crashed
        /\ \A c \in Callers : ans[c] \in {"none", "config"}

\* Calls that never overlap get the configuration or the error of their own
\* fetch, and a failure does not poison the handle: between calls the Once is
\* done exactly when a configuration is there to be returned
\* (repo_config.go:159-161).
SequentialRetry ==
    ~overlapped =>
        /\ ~crashed
        /\ \A c \in Callers : ans[c] # "nil"
        /\ (\A c \in Callers : pc[c] = "idle") => (done <=> config) /\ ~configErr

\* repo_config.go:163-165 says that after a failure the worst case is a
\* doubled retry: a call without an error still returns the configuration.
NoEmptyAnswer == \A c \in Callers : ans[c] # "nil"

\* By the same comment the reset never takes the process down.
NoCrash == ~crashed
=============================================================================
