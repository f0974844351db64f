------------------------------ MODULE Executor ------------------------------
(***************************************************************************)
(* internal/transport/executor.go: the request funnel.  Goroutines run     *)
(* Executor.Do concurrently against one Authenticator, taken here by what  *)
(* it promises (TokenService, which TokenCache implements).  One call is   *)
(* the retry loop of retry.Do around: get a token, send, on a first 401    *)
(* refresh the token and send again off the budget, classify the status.   *)
(* The API server, the network, the caller's context and the interceptors  *)
(* are nondeterministic.                                                   *)
(***************************************************************************)
EXTENDS Retry, Integers

CONSTANTS
    Callers,        \* goroutines
    MaxAttempts,    \* Config.RetryPolicy.MaxAttempts (0: not set)
    MaxTokens,      \* bound: IAM issues at most this many tokens
    Timed,          \* whether a timeout applies to the calls
    Intercepted     \* whether interceptors are registered

\* What an instance of this module must satisfy.
ConstantsOK ==
    /\ MaxAttempts \in Int /\ MaxTokens \in Nat
    /\ Timed \in BOOLEAN /\ Intercepted \in BOOLEAN

VARIABLES
    current, epoch, issued, request, reply,    \* TokenService
    pc,         \* pc[c]: where the call of goroutine c is
    call,       \* call[c]: the locals of its Do, and their history (below)
    ctxErr,     \* ctxErr[c]: the (derived) context is done
    timer,      \* timer[c]: the per-call timeout context
    open,       \* open[c]: response bodies of the call not yet closed
    result,     \* result[c]: what Do returned, last
    status,     \* status[c]: the status of the Response it returned
    rejected    \* history: generations the API server answered 401 to

Auth == INSTANCE TokenService

authVars == <<current, epoch, issued, request, reply>>
ctxVars == <<ctxErr, timer>>
vars == <<authVars, pc, call, ctxVars, open, result, status, rejected>>

\* The locals of a Do in progress: the attempt of retry.Do, usedGen, the token
\* sent last or about to be sent, refreshedAfter401; and as history the number
\* of calls of sendOnce, the token answered 401 (0: none) and whether a Before
\* of this attempt returned an error.
Locals == [attempt : Nat, usedGen : Nat, tok : Nat, refreshed : BOOLEAN,
           sends : Nat, denied : Nat, vetoed : BOOLEAN]
Fresh == [attempt |-> 1, usedGen |-> 0, tok |-> 0, refreshed |-> FALSE,
          sends |-> 0, denied |-> 0, vetoed |-> FALSE]

\* "token", "refresh": inside the Authenticator; "send", "resend": in
\* sendOnce; "backoff": in retry.Sleep; "body": the caller has the Response
\* and has not closed its Body.
Pcs == {"idle", "token", "send", "refresh", "resend", "backoff", "body"}

\* One status of each class the funnel distinguishes.
Statuses == {200, 401, 404, 503}

\* What Do returns: nothing yet, a Response, or an error of the catalogue.
Results == {"none", "response", "config", "comm", "auth"}

Init ==
    /\ Auth!Init
    /\ pc = [c \in Callers |-> "idle"]
    /\ call = [c \in Callers |-> Fresh]
    /\ ctxErr = [c \in Callers |-> FALSE]
    /\ timer = [c \in Callers |-> "none"]
    /\ open = [c \in Callers |-> 0]
    /\ result = [c \in Callers |-> "none"]
    /\ status = [c \in Callers |-> 0]
    /\ rejected = {}

-----------------------------------------------------------------------------
(* Pieces of Do.                                                           *)

Goto(c, p) == pc' = [pc EXCEPT ![c] = p]

\* cancelTimeout: releases the timeout context, if the call has one.
CancelTimeout(c) ==
    timer' = [timer EXCEPT ![c] = IF @ = "armed" THEN "released" ELSE @]

\* (mutant: an error path returns without cancelTimeout)
FailKeepingTimer(c, err) ==
    /\ Goto(c, "idle")
    /\ result' = [result EXCEPT ![c] = err]
    /\ call' = [call EXCEPT ![c] = Fresh]
    /\ ctxErr' = [ctxErr EXCEPT ![c] = FALSE]
    /\ UNCHANGED <<timer, status>>

\* Do returns an error; its locals and its context go out of scope.
Fail(c, err) ==
    /\ Goto(c, "idle")
    /\ result' = [result EXCEPT ![c] = err]
    /\ call' = [call EXCEPT ![c] = Fresh]
    /\ ctxErr' = [ctxErr EXCEPT ![c] = FALSE]
    /\ CancelTimeout(c)
    /\ UNCHANGED status

\* Do goes on at p with locals l.
Continue(c, p, l) ==
    /\ Goto(c, p)
    /\ call' = [call EXCEPT ![c] = l]
    /\ UNCHANGED <<ctxVars, result, status>>

\* The budget: NewExecutor takes the default policy when none is set.
ConfiguredAttempts == Configured(MaxAttempts)

\* The retry loop after a retryable failure: sleep, or give up.
Retry(c, l) ==
    \/ MayRetry(l.attempt, ConfiguredAttempts) /\ Continue(c, "backoff", l)
    \/ ~MayRetry(l.attempt, ConfiguredAttempts) /\ Fail(c, "comm")

\* The locals once sendOnce has been called.
Sent(c) == [call[c] EXCEPT !.sends = @ + 1]

\* (mutant: the body is consumed and not closed)
DrainOpen(n) == n

\* drain: a body among n open ones is consumed and closed.
Drain(n) == n - 1

\* The Authenticator answers.
Answer(c) ==
    /\ Auth!Serve(c) \/ Auth!Renew(c) \/ Auth!Refuse(c)
    /\ issued' <= MaxTokens

-----------------------------------------------------------------------------
(* The steps of Do.                                                        *)

\* A call that is refused before anything is set up: a nil request, no
\* method, no URL.
RejectRequest(c) ==
    /\ pc[c] = "idle"
    /\ result' = [result EXCEPT ![c] = "config"]
    /\ UNCHANGED <<authVars, pc, call, ctxVars, open, status, rejected>>

\* Entry fails: the request body cannot be read, or the context is done.
CannotStart(c) ==
    /\ pc[c] = "idle"
    /\ result' = [result EXCEPT ![c] = "comm"]
    /\ timer' = [timer EXCEPT ![c] = IF Timed THEN "released" ELSE "none"]
    /\ UNCHANGED <<authVars, pc, call, ctxErr, open, status, rejected>>

\* Entry: the timeout context is derived, the body buffered, and the first
\* attempt asks for a token.
Do(c) ==
    /\ pc[c] = "idle"
    /\ timer' = [timer EXCEPT ![c] = IF Timed THEN "armed" ELSE "none"]
    /\ result' = [result EXCEPT ![c] = "none"]
    /\ Goto(c, "token")
    /\ Auth!Ask(c, -1)
    /\ UNCHANGED <<call, ctxErr, open, status, rejected>>

\* Authenticator.Token returns.
GotToken(c) ==
    /\ pc[c] = "token"
    /\ Answer(c)
    /\ \/ /\ reply'[c].token # 0
          /\ Continue(c, "send", [call[c] EXCEPT !.usedGen = reply'[c].gen,
                                                 !.tok = reply'[c].token])
       \/ /\ reply'[c].token = 0
          /\ \E err \in {"auth", "comm"} : Fail(c, err)
    /\ UNCHANGED <<open, rejected>>

\* sendOnce fails in the HTTP exchange: a transient error is retried, any
\* other, the context's among them, is final.
SendFails(c) ==
    /\ pc[c] \in {"send", "resend"}
    /\ Retry(c, Sent(c)) \/ Fail(c, "comm")
    /\ UNCHANGED <<authVars, open, rejected>>

\* A Before interceptor returns an error: nothing is sent, and the error is
\* classified (by its text, in the end) like one of the HTTP exchange.
BeforeFails(c) ==
    /\ Intercepted
    /\ pc[c] \in {"send", "resend"}
    /\ Retry(c, [Sent(c) EXCEPT !.vetoed = TRUE]) \/ Fail(c, "comm")
    /\ UNCHANGED <<authVars, open, rejected>>

\* A response with status s, among n open bodies, is classified: success and
\* final statuses go to the caller with their body, the others are drained.
Classified(c, s, n) ==
    \/ /\ ClassifyStatus(s) # "retry"
       /\ Goto(c, "body")
       /\ call' = [call EXCEPT ![c] = Sent(c)]
       /\ result' = [result EXCEPT ![c] = "response"]
       /\ status' = [status EXCEPT ![c] = s]
       /\ open' = [open EXCEPT ![c] = n]
       /\ UNCHANGED ctxVars
    \/ /\ ClassifyStatus(s) = "retry"
       /\ open' = [open EXCEPT ![c] = Drain(n)]
       /\ Retry(c, Sent(c))

\* The API server answers 401 to the token of generation g, or something else.
Rejects(s, g) == rejected' = IF s = 401 THEN rejected \cup {g} ELSE rejected

\* (mutant: the first 401 is not told from the other statuses)
ReceiveAny(c) ==
    /\ pc[c] = "send"
    /\ \E s \in Statuses :
          /\ Classified(c, s, open[c] + 1)
          /\ Rejects(s, call[c].usedGen)
    /\ UNCHANGED authVars

\* A response to the first send of an attempt, other than a first 401.
Receive(c) ==
    /\ pc[c] = "send"
    /\ \E s \in Statuses :
          /\ ~(s = 401 /\ ~call[c].refreshed)
          /\ Classified(c, s, open[c] + 1)
          /\ Rejects(s, call[c].usedGen)
    /\ UNCHANGED authVars

\* (mutants of the first 401: any 401; Token in the place of Refresh; the
\* cache's generation reported in the place of the rejected one)
UnauthorizedAsking(c, g) ==
    /\ pc[c] = "send"
    /\ open' = [open EXCEPT ![c] = Drain(@ + 1)]
    /\ Rejects(401, call[c].usedGen)
    /\ Auth!Ask(c, g)
    /\ Continue(c, "refresh", [Sent(c) EXCEPT !.refreshed = TRUE,
                                              !.denied = call[c].tok])
UnauthorizedEveryTime(c) == UnauthorizedAsking(c, call[c].usedGen)
UnauthorizedRereading(c) == ~call[c].refreshed /\ UnauthorizedAsking(c, -1)
UnauthorizedForcing(c) == ~call[c].refreshed /\ UnauthorizedAsking(c, epoch)

\* The first 401 of the call: the body is drained and a refresh requested,
\* reporting the generation of the rejected token.
Unauthorized(c) ==
    /\ pc[c] = "send"
    /\ ~call[c].refreshed
    /\ open' = [open EXCEPT ![c] = Drain(@ + 1)]
    /\ Rejects(401, call[c].usedGen)
    /\ Auth!Ask(c, call[c].usedGen)
    /\ Continue(c, "refresh", [Sent(c) EXCEPT !.refreshed = TRUE,
                                              !.denied = call[c].tok])

\* Authenticator.Refresh returns; the generation it returns is not kept.
GotRefresh(c) ==
    /\ pc[c] = "refresh"
    /\ Answer(c)
    /\ \/ /\ reply'[c].token # 0
          /\ Continue(c, "resend", [call[c] EXCEPT !.tok = reply'[c].token])
       \/ /\ reply'[c].token = 0
          /\ \E err \in {"auth", "comm"} : Fail(c, err)
    /\ UNCHANGED <<open, rejected>>

\* The off-budget send is answered; a second 401 is final.
ReceiveAgain(c) ==
    /\ pc[c] = "resend"
    /\ \E s \in Statuses :
          /\ Classified(c, s, open[c] + 1)
          /\ Rejects(s, reply[c].gen)
    /\ UNCHANGED authVars

\* (mutant: the attempt after a backoff is not counted)
BackoffUncounted(c) ==
    /\ pc[c] = "backoff"
    /\ \/ /\ ctxErr[c]
          /\ Fail(c, "comm")
          /\ UNCHANGED authVars
       \/ /\ ~ctxErr[c]
          /\ Auth!Ask(c, -1)
          /\ Continue(c, "token", [call[c] EXCEPT !.vetoed = FALSE])
    /\ UNCHANGED <<open, rejected>>

\* (mutant: the timer is stopped and the context not looked at)
BackoffUnwoken(c) ==
    /\ pc[c] = "backoff"
    /\ ~ctxErr[c]
    /\ Auth!Ask(c, -1)
    /\ Continue(c, "token", [call[c] EXCEPT !.attempt = @ + 1, !.vetoed = FALSE])
    /\ UNCHANGED <<open, rejected>>

\* The backoff ends, by its timer or by the context.
Backoff(c) ==
    /\ pc[c] = "backoff"
    /\ \/ /\ ctxErr[c]
          /\ Fail(c, "comm")
          /\ UNCHANGED authVars
       \/ /\ ~ctxErr[c]
          /\ Auth!Ask(c, -1)
          /\ Continue(c, "token", [call[c] EXCEPT !.attempt = @ + 1, !.vetoed = FALSE])
    /\ UNCHANGED <<open, rejected>>

\* (mutant: the body is closed by Do and by the caller)
CloseBodyTwice(c) ==
    /\ pc[c] = "body"
    /\ open' = [open EXCEPT ![c] = @ - 2]
    /\ CancelTimeout(c)
    /\ Goto(c, "idle")
    /\ call' = [call EXCEPT ![c] = Fresh]
    /\ status' = [status EXCEPT ![c] = 0]
    /\ ctxErr' = [ctxErr EXCEPT ![c] = FALSE]
    /\ UNCHANGED <<authVars, result, rejected>>

\* The caller closes the Body of the Response it got.
CloseBody(c) ==
    /\ pc[c] = "body"
    /\ open' = [open EXCEPT ![c] = @ - 1]
    /\ CancelTimeout(c)
    /\ Goto(c, "idle")
    /\ call' = [call EXCEPT ![c] = Fresh]
    /\ status' = [status EXCEPT ![c] = 0]
    /\ ctxErr' = [ctxErr EXCEPT ![c] = FALSE]
    /\ UNCHANGED <<authVars, result, rejected>>

\* The caller cancels, or the per-call timeout passes.
ContextDone(c) ==
    /\ pc[c] # "idle"
    /\ ~ctxErr[c]
    /\ ctxErr' = [ctxErr EXCEPT ![c] = TRUE]
    /\ UNCHANGED <<authVars, pc, call, timer, open, result, status, rejected>>

\* Client.Close in some other goroutine (in-flight calls go on), or a token
\* response of the IAM service that is lost.
Elsewhere ==
    /\ \/ current # 0 /\ Auth!Forget
       \/ issued < MaxTokens /\ Auth!Waste
    /\ UNCHANGED <<pc, call, ctxVars, open, result, status, rejected>>

DoStep(c) ==
    GotToken(c) \/ SendFails(c) \/ BeforeFails(c) \/ Receive(c)
        \/ Unauthorized(c) \/ GotRefresh(c)
        \/ ReceiveAgain(c) \/ Backoff(c)

Next ==
    \/ \E c \in Callers :
          RejectRequest(c) \/ CannotStart(c) \/ Do(c) \/ DoStep(c)
              \/ CloseBody(c) \/ ContextDone(c)
    \/ Elsewhere

Spec == Init /\ [][Next]_vars

\* The Authenticator answers (TokenCache!CallsReturn), the HTTP client's
\* timeout ends every send and the timer every backoff.
Fairness == \A c \in Callers : WF_vars(DoStep(c))

FairSpec == Spec /\ Fairness

-----------------------------------------------------------------------------
(* Properties.                                                             *)

\* Every variable has its type.
TypeOK ==
    /\ current \in Nat /\ epoch \in Nat /\ issued \in Nat
    /\ request \in [Callers -> Int]
    /\ reply \in [Callers -> [token : Nat, gen : Nat]]
    /\ pc \in [Callers -> Pcs]
    /\ call \in [Callers -> Locals]
    /\ ctxErr \in [Callers -> BOOLEAN]
    /\ timer \in [Callers -> {"none", "armed", "released"}]
    /\ open \in [Callers -> Nat]
    /\ result \in [Callers -> Results]
    /\ status \in [Callers -> {0} \cup Statuses]
    /\ rejected \in SUBSET Nat

\* However 401s, 5xx and transport errors interleave, one Do puts at most
\* MaxAttempts requests on the wire, plus one after a 401: the 401 refresh is
\* off the budget but happens once per call, not once per attempt
\* (executor.go:66-75).
SendBudget ==
    \A c \in Callers :
        /\ call[c].attempt <= Budget(ConfiguredAttempts)
        /\ call[c].sends <= call[c].attempt + IF call[c].refreshed THEN 1 ELSE 0

\* Once a token has been answered 401, the call never sends it again, nor an
\* older one, whatever the other goroutines and Client.Close do to the cache
\* between the refresh and the later attempts, each of which reads the cache
\* anew.
RejectedTokenNotResent ==
    \A c \in Callers :
        pc[c] \in {"send", "resend"} => call[c].tok > call[c].denied

\* A 401 reaches the caller only after a refresh, and then the API server has
\* rejected two different tokens.
UnauthorizedIsFinal ==
    \A c \in Callers :
        pc[c] = "body" /\ status[c] = 401 => call[c].denied > 0 /\ call[c].tok > call[c].denied

\* Response bodies are neither leaked nor closed under the caller: none is
\* open while a call has none to read, one while the caller holds a Response.
BodiesAccounted ==
    \A c \in Callers : open[c] = IF pc[c] = "body" THEN 1 ELSE 0

\* The per-call timeout context lives exactly as long as it is needed: it is
\* not cancelled while the call runs or its body is read, and never outlives
\* the call (executor.go:97-104, 263-270).
TimerLifetime ==
    \A c \in Callers :
        timer[c] # "none" => (timer[c] = "armed" <=> pc[c] # "idle")

\* A token in the cache is thrown away for another only after the API server
\* has answered 401 to it: calls that met a 401 with an older token reuse it.
OnlyRejectedTokensRenewed ==
    [][current # 0 /\ current' # 0 /\ current' # current => epoch \in rejected]_vars

InDo(c) == pc[c] \notin {"idle", "body"}

\* A bound for the steps that a Do still makes, six for an attempt.
StepsLeft(c) ==
    IF ~InDo(c) THEN 0
    ELSE 6 * (Budget(ConfiguredAttempts) - call[c].attempt) +
         CASE pc[c] = "token" -> 5
           [] pc[c] = "send" -> 4
           [] pc[c] = "refresh" -> 3
           [] pc[c] = "resend" -> 2
           [] pc[c] = "backoff" -> 1

\* Every step of a Do uses up some of what is left of it, and no step of another
\* goroutine, or of the context, gives any of it back.
UsesUpSteps ==
    \A c \in Callers : InDo(c) =>
        IF pc'[c] = pc[c] THEN StepsLeft(c)' = StepsLeft(c)
        ELSE StepsLeft(c)' \in 0 .. StepsLeft(c) - 1

\* Every Do returns, with a Response or an error.
CallsReturn == \A c \in Callers : InDo(c) ~> ~InDo(c)

\* interceptor.go:96-97 says that an error from Before aborts the request and
\* reaches the caller without a retry.
BeforeErrorAborts ==
    \A c \in Callers : call[c].vetoed => pc[c] # "backoff"
=============================================================================
