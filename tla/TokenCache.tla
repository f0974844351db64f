----------------------------- MODULE TokenCache -----------------------------
(***************************************************************************)
(* auth: the generation-tracked token cache (token_cache.go) wrapped       *)
(* around the IAM token fetch (fetch.go, oauth.go, apikey.go), as          *)
(* goroutines use it.  c.mu is held across the whole fetch, retries and    *)
(* backoff included, and waiting for it does not watch the caller's        *)
(* context.  Client.Close reaches the cache through closeOnce.             *)
(*                                                                         *)
(* A critical section without a fetch in it is one step; a fetch is split  *)
(* where other goroutines can run: while a request is on the wire and      *)
(* during the backoff between two attempts.                                *)
(***************************************************************************)
EXTENDS Retry, Integers

CONSTANTS
    Callers,        \* goroutines
    NoCaller,       \* the value of mu when it is unlocked
    AuthAttempts,   \* auth.Config.RetryPolicy.MaxAttempts (0: not set)
    MaxTokens       \* bound: IAM issues at most this many tokens

ASSUME CallersAssumption == NoCaller \notin Callers
ASSUME BudgetAssumption == AuthAttempts \in Int
ASSUME MaxTokensAssumption == MaxTokens \in Nat

VARIABLES
    mu,         \* holder of cached.mu
    token,      \* cached.token: 0 is "", t > 0 the t-th token IAM issued
    gen,        \* cached.gen
    iam,        \* tokens issued by the IAM service so far (external)
    closeOnce,  \* Client.closeOnce: "unused", "running", "done"
    pc,         \* pc[c]: where goroutine c is
    op,         \* op[c]: the operation it runs, or ran last
    stale,      \* stale[c]: the staleGen argument of a Refresh
    attempt,    \* attempt[c]: attempt counter of its retry.Do
    lastErr,    \* lastErr[c]: lastHTTPErr of its postForm
    ctxErr,     \* ctxErr[c]: its context is done
    ans         \* ans[c]: what its last Token or Refresh returned

cacheVars == <<token, gen>>
callVars  == <<op, stale>>
fetchVars == <<attempt, lastErr>>
vars == <<mu, token, gen, iam, closeOnce, pc, op, stale, attempt, lastErr,
          ctxErr, ans>>

Ops == {"token", "refresh", "close"}
\* "once": in closeOnce.Do; "lock": in mu.Lock; "sent": token request on the
\* wire; "backoff": in retry.Sleep between two attempts.
Pcs == {"idle", "once", "lock", "sent", "backoff"}
\* How a failed call names its cause: an AuthError, an AuthError wrapping the
\* context's error, or the bare transport error.
Errs == {"none", "auth", "authctx", "transport"}

Failure(e) == [err |-> e, token |-> 0, gen |-> 0]
NoAnswer == Failure("auth")
Success(t, g) == [err |-> "none", token |-> t, gen |-> g]

Init ==
    /\ mu = NoCaller
    /\ token = 0
    /\ gen = 0
    /\ iam = 0
    /\ closeOnce = "unused"
    /\ pc = [c \in Callers |-> "idle"]
    /\ op = [c \in Callers |-> "token"]
    /\ stale = [c \in Callers |-> 0]
    /\ attempt = [c \in Callers |-> 1]
    /\ lastErr = [c \in Callers |-> "none"]
    /\ ctxErr = [c \in Callers |-> FALSE]
    /\ ans = [c \in Callers |-> NoAnswer]

-----------------------------------------------------------------------------
(* Calls and contexts.                                                     *)

Begin(c, o, g) ==
    /\ pc[c] = "idle"
    /\ op' = [op EXCEPT ![c] = o]
    /\ stale' = [stale EXCEPT ![c] = g]
    /\ UNCHANGED <<mu, cacheVars, iam, closeOnce, fetchVars, ctxErr>>

BeginToken(c) ==
    /\ Begin(c, "token", 0)
    /\ pc' = [pc EXCEPT ![c] = "lock"]
    /\ ans' = [ans EXCEPT ![c] = NoAnswer]

BeginRefresh(c, g) ==
    /\ Begin(c, "refresh", g)
    /\ pc' = [pc EXCEPT ![c] = "lock"]
    /\ ans' = [ans EXCEPT ![c] = NoAnswer]

BeginClose(c) ==
    /\ Begin(c, "close", 0)
    /\ pc' = [pc EXCEPT ![c] = "once"]
    /\ UNCHANGED ans

\* The context of the call in progress is cancelled or its deadline passes.
ContextDone(c) ==
    /\ pc[c] # "idle"
    /\ ~ctxErr[c]
    /\ ctxErr' = [ctxErr EXCEPT ![c] = TRUE]
    /\ UNCHANGED <<mu, cacheVars, iam, closeOnce, pc, callVars, fetchVars, ans>>

-----------------------------------------------------------------------------
(* Critical sections.                                                      *)

\* The call ends with answer a; its context and its retry loop go with it.
Return(c, a) ==
    /\ pc' = [pc EXCEPT ![c] = "idle"]
    /\ ans' = [ans EXCEPT ![c] = a]
    /\ ctxErr' = [ctxErr EXCEPT ![c] = FALSE]
    /\ attempt' = [attempt EXCEPT ![c] = 1]
    /\ lastErr' = [lastErr EXCEPT ![c] = "none"]

\* (mutant: the lock is not held across the fetch)
FetchUnlocked(c) ==
    /\ pc' = [pc EXCEPT ![c] = "sent"]
    /\ UNCHANGED <<mu, fetchVars, ctxErr, ans>>

\* fetchLocked entered with mu just taken: retry.Do looks at the context
\* before its first attempt, then the request goes out.
FetchLocked(c) ==
    \/ /\ ctxErr[c]
       /\ Return(c, Failure("authctx"))
       /\ UNCHANGED mu
    \/ /\ ~ctxErr[c]
       /\ mu' = c
       /\ pc' = [pc EXCEPT ![c] = "sent"]
       /\ UNCHANGED <<fetchVars, ctxErr, ans>>

\* cached.Token
Token(c) ==
    /\ pc[c] = "lock" /\ op[c] = "token" /\ mu = NoCaller
    /\ \/ token # 0 /\ Return(c, Success(token, gen)) /\ UNCHANGED mu
       \/ token = 0 /\ FetchLocked(c)
    /\ UNCHANGED <<cacheVars, iam, closeOnce, callVars>>

\* (mutants of the staleness test: off by one, either way)
AdvancedTwice(c) == token # 0 /\ gen > stale[c] + 1
AdvancedOrEqual(c) == token # 0 /\ gen >= stale[c]

\* The cache has advanced past the generation c reports.
Advanced(c) == token # 0 /\ gen > stale[c]

\* cached.Refresh
Refresh(c) ==
    /\ pc[c] = "lock" /\ op[c] = "refresh" /\ mu = NoCaller
    /\ \/ Advanced(c) /\ Return(c, Success(token, gen)) /\ UNCHANGED mu
       \/ ~Advanced(c) /\ FetchLocked(c)
    /\ UNCHANGED <<cacheVars, iam, closeOnce, callVars>>

\* Client.Close: the first caller runs the body of closeOnce, the others
\* return once it is done.
EnterOnce(c) ==
    /\ pc[c] = "once"
    /\ \/ /\ closeOnce = "unused"
          /\ closeOnce' = "running"
          /\ pc' = [pc EXCEPT ![c] = "lock"]
          /\ UNCHANGED <<fetchVars, ctxErr, ans>>
       \/ /\ closeOnce = "done"
          /\ Return(c, ans[c])
          /\ UNCHANGED closeOnce
    /\ UNCHANGED <<mu, cacheVars, iam, callVars>>

\* (mutant: Close resets the generation with the token)
CloseResettingGeneration(c) ==
    /\ pc[c] = "lock" /\ op[c] = "close" /\ mu = NoCaller
    /\ token' = 0
    /\ gen' = 0
    /\ closeOnce' = "done"
    /\ Return(c, ans[c])
    /\ UNCHANGED <<mu, iam, callVars>>

\* cached.Close
Close(c) ==
    /\ pc[c] = "lock" /\ op[c] = "close" /\ mu = NoCaller
    /\ token' = 0
    /\ closeOnce' = "done"
    /\ Return(c, ans[c])
    /\ UNCHANGED <<mu, gen, iam, callVars>>

-----------------------------------------------------------------------------
(* The fetch, run with mu held.                                            *)

\* postForm takes the default policy when none is set.
FetchAttempts == Configured(AuthAttempts)

\* (mutant: the error of retry.Do is returned as it is)
PostFormErrorUnwrapped(e, last) == e

\* The error postForm gives back for the error retry.Do ended with: an
\* AuthError as it is, else the last HTTP error when there was one, else the
\* context's error wrapped.
PostFormError(e, last) ==
    CASE e = "auth"    -> "auth"
      [] last # "none" -> last
      [] OTHER         -> "authctx"

\* (mutant: no deferred unlock on the error path)
FetchFailsLocked(c, e, last) ==
    /\ Return(c, Failure(PostFormError(e, last)))
    /\ UNCHANGED mu

\* The fetch fails: nothing is stored and mu is released.
FetchFails(c, e, last) ==
    /\ Return(c, Failure(PostFormError(e, last)))
    /\ mu' = NoCaller

\* A retryable failure: one more round if the budget allows.
RetryOrFail(c, e) ==
    \/ /\ MayRetry(attempt[c], FetchAttempts)
       /\ pc' = [pc EXCEPT ![c] = "backoff"]
       /\ lastErr' = [lastErr EXCEPT ![c] = e]
       /\ UNCHANGED <<mu, attempt, ctxErr, ans>>
    \/ /\ ~MayRetry(attempt[c], FetchAttempts)
       /\ FetchFails(c, e, e)

\* (mutant: the generation only counts replacements of a cached token)
IAMGrantsCountingReplacements(c) ==
    /\ pc[c] = "sent"
    /\ iam < MaxTokens
    /\ iam' = iam + 1
    /\ token' = iam'
    /\ gen' = IF token = 0 THEN gen ELSE gen + 1
    /\ Return(c, Success(token', gen'))
    /\ mu' = NoCaller
    /\ UNCHANGED <<closeOnce, callVars>>

\* IAM answers 2xx with an access token, stored with the next generation.
IAMGrants(c) ==
    /\ pc[c] = "sent"
    /\ iam < MaxTokens
    /\ iam' = iam + 1
    /\ token' = iam'
    /\ gen' = gen + 1
    /\ Return(c, Success(token', gen'))
    /\ mu' = NoCaller
    /\ UNCHANGED <<closeOnce, callVars>>

\* IAM answers 500, 502, 503 or 504.
IAMUnavailable(c) ==
    /\ pc[c] = "sent"
    /\ RetryOrFail(c, "auth")
    /\ UNCHANGED <<cacheVars, iam, closeOnce, callVars>>

\* A transient transport error; IAM may have issued the token all the same.
IAMUnreachable(c) ==
    /\ pc[c] = "sent"
    /\ iam' \in {iam, iam + 1}
    /\ iam' <= MaxTokens
    /\ RetryOrFail(c, "transport")
    /\ UNCHANGED <<cacheVars, closeOnce, callVars>>

\* Any other status, an unreadable or malformed body, a missing
\* access_token, a transport error that is not transient.
IAMDenies(c) ==
    /\ pc[c] = "sent"
    /\ FetchFails(c, "auth", lastErr[c])
    /\ UNCHANGED <<cacheVars, iam, closeOnce, callVars>>

\* The HTTP client gives up: the context is done, or its own timeout passed.
SendAborted(c) ==
    /\ pc[c] = "sent"
    /\ FetchFails(c, "ctx", lastErr[c])
    /\ UNCHANGED <<cacheVars, iam, closeOnce, callVars>>

BackoffEnds(c) ==
    /\ pc[c] = "backoff"
    /\ \/ /\ ctxErr[c]
          /\ FetchFails(c, "ctx", lastErr[c])
       \/ /\ ~ctxErr[c]
          /\ attempt' = [attempt EXCEPT ![c] = @ + 1]
          /\ pc' = [pc EXCEPT ![c] = "sent"]
          /\ UNCHANGED <<mu, lastErr, ctxErr, ans>>
    /\ UNCHANGED <<cacheVars, iam, closeOnce, callVars>>

Network(c) ==
    IAMGrants(c) \/ IAMUnavailable(c) \/ IAMUnreachable(c) \/ IAMDenies(c)
        \/ SendAborted(c)

\* A step of the code of a call in progress.
CallStep(c) ==
    Token(c) \/ Refresh(c) \/ EnterOnce(c) \/ Close(c) \/ Network(c)
        \/ BackoffEnds(c)

\* What goroutines may ask of the cache: a stale generation is one the cache
\* has handed out (0: none).
Invoke(c) ==
    \/ BeginToken(c)
    \/ \E g \in 0..gen : BeginRefresh(c, g)
    \/ BeginClose(c)

Next ==
    \E c \in Callers :
        Invoke(c) \/ CallStep(c) \/ ContextDone(c)

Spec == Init /\ [][Next]_vars

\* sync.Mutex hands the lock to the longest waiter once it has waited 1ms, so
\* a goroutine cannot be overtaken for ever; the HTTP client's timeout and
\* the backoff timer end every wait of a fetch.
Fairness ==
    \A c \in Callers :
        /\ SF_vars(Token(c)) /\ SF_vars(Refresh(c)) /\ SF_vars(Close(c))
        /\ WF_vars(EnterOnce(c))
        /\ WF_vars(Network(c)) /\ WF_vars(BackoffEnds(c))

FairSpec == Spec /\ Fairness

-----------------------------------------------------------------------------
(* Properties.                                                             *)

Answers == [err : Errs, token : Nat, gen : Nat]

\* Every variable has its type.
TypeOK ==
    /\ mu \in Callers \cup {NoCaller}
    /\ token \in Nat /\ gen \in Nat /\ iam \in Nat
    /\ closeOnce \in {"unused", "running", "done"}
    /\ pc \in [Callers -> Pcs]
    /\ op \in [Callers -> Ops]
    /\ stale \in [Callers -> Nat]
    /\ attempt \in [Callers -> Nat \ {0}]
    /\ lastErr \in [Callers -> Errs]
    /\ ctxErr \in [Callers -> BOOLEAN]
    /\ ans \in [Callers -> Answers]

Fetching(c) == pc[c] \in {"sent", "backoff"}
Answered(c, o) == pc[c] = "idle" /\ op[c] = o /\ ans[c].err = "none"

\* At most one goroutine is inside a token fetch, retries and backoff
\* included: the IAM endpoint never sees two requests of one client at a time
\* (token_cache.go:19-23).
SingleFetch ==
    \A c, d \in Callers : Fetching(c) /\ Fetching(d) => c = d

\* A Refresh(staleGen) that succeeds hands back a token newer than the one the
\* caller saw rejected, whoever fetched it and whatever happened to the cache
\* between the 401 and the call, Close included (auth.go:46-50).
RefreshIsFresh ==
    \A c \in Callers : Answered(c, "refresh") => ans[c].gen > stale[c]

\* A generation names one token: two goroutines holding answers of the same
\* generation hold the same token, and answers of different generations
\* differ in the token.  Comparing generations in Refresh is only sound if
\* this holds across failed fetches, Close and re-fetches.
GenerationNamesToken ==
    /\ \A c, d \in Callers :
          ans[c].err = "none" /\ ans[d].err = "none" =>
              (ans[c].gen = ans[d].gen <=> ans[c].token = ans[d].token)
    /\ \A c \in Callers :
          ans[c].err = "none" /\ token # 0 =>
              (ans[c].gen = gen <=> ans[c].token = token)

\* A cached token is replaced by another only on behalf of a caller that
\* reports the current generation as stale: of the goroutines that met a 401
\* with one token, a single one renews it (auth.go:31-39).
RenewedOnlyWhenStale ==
    [][token # 0 /\ token' # 0 /\ token' # token =>
          \E c \in Callers :
              Fetching(c) /\ op[c] = "refresh" /\ stale[c] >= gen]_vars

\* Every call to Token, Refresh or Close returns, also when the fetches of
\* the goroutines ahead of it in the lock's queue keep failing.
CallsReturn == \A c \in Callers : pc[c] # "idle" ~> pc[c] = "idle"

\* What a goroutine waits for is free: the mutex, or the end of closeOnce.
CanGoOn(c) ==
    /\ pc[c] # "idle"
    /\ pc[c] = "lock" => mu = NoCaller
    /\ pc[c] = "once" => closeOnce # "running"

\* Those on whom a goroutine waits: the holder of the mutex, or who runs Close.
WaitsFor(c) ==
    {d \in Callers : \/ pc[c] = "lock" /\ mu = d
                     \/ pc[c] = "once" /\ op[d] = "close" /\ pc[d] = "lock"}

\* No call waits in a circle, or for a goroutine that is gone, whether or not the
\* fetches before it failed: it can go on, or who it waits for can, or, for a
\* Close behind another Close behind a fetch, who that one waits for.
WaitsEnd ==
    \A c \in Callers : pc[c] # "idle" =>
        \/ CanGoOn(c)
        \/ \E d \in WaitsFor(c) : CanGoOn(d) \/ \E e \in WaitsFor(d) : CanGoOn(e)

\* A bound for the steps that a call still makes.
StepsLeft(c) ==
    CASE pc[c] = "idle" -> 0
      [] pc[c] = "once" -> 4 + 2 * (Budget(FetchAttempts) - attempt[c])
      [] pc[c] = "lock" -> 3 + 2 * (Budget(FetchAttempts) - attempt[c])
      [] pc[c] = "sent" -> 2 + 2 * (Budget(FetchAttempts) - attempt[c])
      [] pc[c] = "backoff" -> 1 + 2 * (Budget(FetchAttempts) - attempt[c])

\* No call goes round for ever, whatever IAM answers: each step of a call uses up
\* some of what is left of it, and nothing that others do gives any of it back.
CallsAreFinite ==
    [][\A c \in Callers : pc[c] # "idle" =>
          IF pc'[c] = pc[c] THEN StepsLeft(c)' = StepsLeft(c)
          ELSE StepsLeft(c)' \in 0 .. StepsLeft(c) - 1]_vars

\* What the abstract register sees of a call in progress and of an answer.
AbstractRequest ==
    [c \in Callers |->
        IF pc[c] = "idle" \/ op[c] = "close" THEN -2
        ELSE IF op[c] = "token" THEN -1 ELSE stale[c]]

AbstractReply ==
    [c \in Callers |-> [token |-> ans[c].token, gen |-> ans[c].gen]]

TS == INSTANCE TokenService WITH
    current <- token, epoch <- gen, issued <- iam,
    request <- AbstractRequest, reply <- AbstractReply

\* The cache with its mutex and its retry loop does what an Authenticator
\* promises (TokenService): every answer is either the register's token, newer
\* than what the caller reported, or a token never issued before.
ImplementsTokenService == TS!Spec

\* fetch.go:36 says that on exhaustion postForm returns an AuthError.
ExhaustionIsAuthError ==
    \A c \in Callers : ans[c].err # "transport"
=============================================================================
