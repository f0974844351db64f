-------------------------- MODULE TokenCacheProofs --------------------------
(***************************************************************************)
(* What TokenCache guarantees for every set of callers and every retry     *)
(* budget.  The inductive invariant IInv says who may be fetching (the     *)
(* holder of mu), why (the cache has nothing for it) and how the tokens    *)
(* and generations handed out relate to the cached ones; the properties    *)
(* and the refinement of TokenService follow from it.                      *)
(***************************************************************************)
EXTENDS TokenCache, TLAPS

\* Only the holder of mu fetches, and only for Token or Refresh.
FetchHoldsLock ==
    \A c \in Callers :
        /\ Fetching(c) => mu = c /\ op[c] \in {"token", "refresh"}
        /\ pc[c] = "once" => op[c] = "close"

\* A fetch in progress is still needed: nobody filled the cache meanwhile.
FetchIsNeeded ==
    \A c \in Callers :
        Fetching(c) =>
            /\ op[c] = "token" => token = 0
            /\ op[c] = "refresh" => ~Advanced(c)

\* Nothing handed out or reported is ahead of the cache's counters.
Bounded ==
    /\ token <= iam
    /\ \A c \in Callers :
          /\ stale[c] <= gen
          /\ ans[c].gen <= gen
          /\ ans[c].token <= iam

\* What the invariant says beyond the types.
Safe == FetchHoldsLock /\ FetchIsNeeded /\ Bounded
            /\ GenerationNamesToken /\ RefreshIsFresh

IInv == TypeOK /\ Safe

-----------------------------------------------------------------------------
(* Type correctness.                                                       *)

\* What postForm reports is an error, and one of those listed.
LEMMA PostFormErrorType ==
    ASSUME NEW e \in {"auth", "transport", "ctx"}, NEW last \in Errs,
           e = "transport" => last # "none"
    PROVE  PostFormError(e, last) \in Errs \ {"none"}
BY DEF PostFormError, Errs

\* Answers built by the operations are answers.
LEMMA AnswerType ==
    /\ \A e \in Errs : Failure(e) \in Answers
    /\ \A t, g \in Nat : Success(t, g) \in Answers
BY DEF Failure, Success, Answers, Errs

\* The state is well-typed: Init establishes it.
LEMMA InitType == Init => TypeOK
<1> SUFFICES ASSUME Init PROVE TypeOK
    OBVIOUS
<1>1. ans \in [Callers -> Answers]
    BY DEF Init, NoAnswer, Failure, Answers, Errs
<1> QED
    BY <1>1 DEF Init, TypeOK, Pcs, Ops, Errs

\* Ending a call keeps the types.
LEMMA ReturnType ==
    ASSUME TypeOK, NEW c \in Callers, NEW a \in Answers, Return(c, a)
    PROVE  /\ pc' \in [Callers -> Pcs]
           /\ attempt' \in [Callers -> Nat \ {0}]
           /\ lastErr' \in [Callers -> Errs]
           /\ ctxErr' \in [Callers -> BOOLEAN]
           /\ ans' \in [Callers -> Answers]
BY DEF Return, TypeOK, Pcs, Errs

\* A failing fetch keeps the types.
LEMMA FetchFailsType ==
    ASSUME TypeOK, NEW c \in Callers,
           NEW e \in {"auth", "transport", "ctx"}, NEW last \in Errs,
           e = "transport" => last # "none",
           FetchFails(c, e, last)
    PROVE  /\ mu' \in Callers \cup {NoCaller}
           /\ pc' \in [Callers -> Pcs]
           /\ attempt' \in [Callers -> Nat \ {0}]
           /\ lastErr' \in [Callers -> Errs]
           /\ ctxErr' \in [Callers -> BOOLEAN]
           /\ ans' \in [Callers -> Answers]
<1>1. Failure(PostFormError(e, last)) \in Answers
    BY PostFormErrorType, AnswerType
<1> QED
    BY <1>1 DEF FetchFails, Return, TypeOK, Pcs, Errs

\* So does a retryable failure.
LEMMA RetryOrFailType ==
    ASSUME TypeOK, NEW c \in Callers, NEW e \in {"auth", "transport"},
           RetryOrFail(c, e)
    PROVE  /\ mu' \in Callers \cup {NoCaller}
           /\ pc' \in [Callers -> Pcs]
           /\ attempt' \in [Callers -> Nat \ {0}]
           /\ lastErr' \in [Callers -> Errs]
           /\ ctxErr' \in [Callers -> BOOLEAN]
           /\ ans' \in [Callers -> Answers]
<1>1. CASE FetchFails(c, e, e)
    BY <1>1, FetchFailsType DEF Errs
<1>2. CASE ~FetchFails(c, e, e)
    BY <1>2 DEF RetryOrFail, TypeOK, Pcs, Errs
<1> QED
    BY <1>1, <1>2

\* So does entering the fetch.
LEMMA FetchLockedType ==
    ASSUME TypeOK, NEW c \in Callers, FetchLocked(c)
    PROVE  /\ mu' \in Callers \cup {NoCaller}
           /\ pc' \in [Callers -> Pcs]
           /\ attempt' \in [Callers -> Nat \ {0}]
           /\ lastErr' \in [Callers -> Errs]
           /\ ctxErr' \in [Callers -> BOOLEAN]
           /\ ans' \in [Callers -> Answers]
<1>1. CASE ctxErr[c]
  <2>1. Failure("authctx") \in Answers
    BY AnswerType DEF Errs
  <2>2. Return(c, Failure("authctx")) /\ UNCHANGED mu
    BY <1>1 DEF FetchLocked
  <2> QED
    BY <2>1, <2>2, ReturnType DEF TypeOK
<1>2. CASE ~ctxErr[c]
    BY <1>2 DEF FetchLocked, fetchVars, TypeOK, Pcs
<1> QED
    BY <1>1, <1>2

\* The state stays well-typed: every step preserves it.
LEMMA NextType == TypeOK /\ [Next]_vars => TypeOK'
<1> SUFFICES ASSUME TypeOK, [Next]_vars PROVE TypeOK'
    OBVIOUS
<1> USE DEF TypeOK
<1>1. ASSUME NEW c \in Callers, Invoke(c) PROVE TypeOK'
  <2>1. NoAnswer \in Answers
    BY AnswerType DEF NoAnswer, Errs
  <2> QED
    BY <1>1, <2>1 DEF Invoke, BeginToken, BeginRefresh, BeginClose, Begin,
        cacheVars, fetchVars, Pcs, Ops
<1>2. ASSUME NEW c \in Callers, ContextDone(c) PROVE TypeOK'
    BY <1>2 DEF ContextDone, cacheVars, fetchVars, callVars
<1>3. ASSUME NEW c \in Callers, Token(c) PROVE TypeOK'
  <2>1. CASE token = 0
    BY <1>3, <2>1, FetchLockedType DEF Token, cacheVars, callVars
  <2>2. CASE token # 0
    <3>1. Success(token, gen) \in Answers
      BY AnswerType
    <3>2. Return(c, Success(token, gen)) /\ UNCHANGED mu
      BY <1>3, <2>2 DEF Token
    <3> QED
      BY <1>3, <3>1, <3>2, ReturnType DEF Token, cacheVars, callVars
  <2> QED
    BY <2>1, <2>2
<1>4. ASSUME NEW c \in Callers, Refresh(c) PROVE TypeOK'
  <2>1. CASE ~Advanced(c)
    BY <1>4, <2>1, FetchLockedType DEF Refresh, cacheVars, callVars
  <2>2. CASE Advanced(c)
    <3>1. Success(token, gen) \in Answers
      BY AnswerType
    <3>2. Return(c, Success(token, gen)) /\ UNCHANGED mu
      BY <1>4, <2>2 DEF Refresh
    <3> QED
      BY <1>4, <3>1, <3>2, ReturnType DEF Refresh, cacheVars, callVars
  <2> QED
    BY <2>1, <2>2
<1>5. ASSUME NEW c \in Callers, EnterOnce(c) PROVE TypeOK'
  <2>1. CASE closeOnce = "unused"
    BY <1>5, <2>1 DEF EnterOnce, cacheVars, callVars, fetchVars, Pcs
  <2>2. CASE closeOnce = "done"
    <3>1. Return(c, ans[c])
      BY <1>5, <2>2 DEF EnterOnce
    <3> QED
      BY <1>5, <3>1, ReturnType DEF EnterOnce, cacheVars, callVars
  <2> QED
    BY <1>5, <2>1, <2>2 DEF EnterOnce
<1>6. ASSUME NEW c \in Callers, Close(c) PROVE TypeOK'
    BY <1>6 DEF Close, Return, callVars, Pcs, Errs
<1>7. ASSUME NEW c \in Callers, IAMGrants(c) PROVE TypeOK'
  <2>1. /\ iam' \in Nat /\ token' \in Nat /\ gen' \in Nat
    BY <1>7 DEF IAMGrants
  <2>2. Success(token', gen') \in Answers
    BY <2>1, AnswerType
  <2> QED
    BY <1>7, <2>1, <2>2 DEF IAMGrants, Return, callVars, Pcs, Errs
<1>8. ASSUME NEW c \in Callers, IAMUnavailable(c) PROVE TypeOK'
    BY <1>8, RetryOrFailType DEF IAMUnavailable, cacheVars, callVars
<1>9. ASSUME NEW c \in Callers, IAMUnreachable(c) PROVE TypeOK'
    BY <1>9, RetryOrFailType DEF IAMUnreachable, cacheVars, callVars
<1>10. ASSUME NEW c \in Callers, IAMDenies(c) PROVE TypeOK'
    BY <1>10, FetchFailsType DEF IAMDenies, cacheVars, callVars
<1>11. ASSUME NEW c \in Callers, SendAborted(c) PROVE TypeOK'
    BY <1>11, FetchFailsType DEF SendAborted, cacheVars, callVars
<1>12. ASSUME NEW c \in Callers, BackoffEnds(c) PROVE TypeOK'
  <2>1. CASE ctxErr[c]
    BY <1>12, <2>1, FetchFailsType DEF BackoffEnds, cacheVars, callVars
  <2>2. CASE ~ctxErr[c]
    BY <1>12, <2>2 DEF BackoffEnds, cacheVars, callVars, Pcs
  <2> QED
    BY <2>1, <2>2
<1>13. CASE UNCHANGED vars
    BY <1>13 DEF vars
<1> QED
    BY <1>1, <1>2, <1>3, <1>4, <1>5, <1>6, <1>7, <1>8, <1>9, <1>10, <1>11,
       <1>12, <1>13 DEF Next, CallStep, Network

\* Type correctness of the token cache.
THEOREM TypeCorrect == Spec => []TypeOK
BY InitType, NextType, PTL DEF Spec

-----------------------------------------------------------------------------
(* The inductive invariant.                                                *)

\* A failing fetch, or a call refused before its fetch began, keeps the
\* invariant: it stores nothing and answers with an error.
LEMMA FailureSafe ==
    ASSUME TypeOK, Safe, NEW c \in Callers, NEW e \in Errs \ {"none"},
           pc[c] \in {"lock", "sent", "backoff"},
           \/ Fetching(c) /\ mu' = NoCaller
           \/ mu = NoCaller /\ mu' = NoCaller,
           Return(c, Failure(e)),
           iam' \in Nat, iam' >= iam, UNCHANGED <<token, gen, op, stale>>
    PROVE  Safe'
<1> USE DEF Safe, TypeOK, Return, Failure, Fetching
<1>1. \A d \in Callers : d # c => ~Fetching(d)
    BY CallersAssumption DEF FetchHoldsLock
<1>2. FetchHoldsLock'
    BY <1>1 DEF FetchHoldsLock
<1>3. FetchIsNeeded'
    BY <1>1 DEF FetchIsNeeded, Advanced
<1>4. Bounded'
    BY DEF Bounded, Answers
<1>5. GenerationNamesToken'
    BY DEF GenerationNamesToken, Answers
<1>6. RefreshIsFresh'
    BY DEF RefreshIsFresh, Answered, Answers
<1> QED
    BY <1>2, <1>3, <1>4, <1>5, <1>6

\* So does a fetch that goes on: the same goroutine holds the lock.
LEMMA FetchingSafe ==
    ASSUME TypeOK, Safe, NEW c \in Callers, NEW p \in {"sent", "backoff"},
           op[c] \in {"token", "refresh"},
           op[c] = "token" => token = 0,
           op[c] = "refresh" => ~Advanced(c),
           mu = NoCaller \/ mu = c,
           mu' = c,
           pc' = [pc EXCEPT ![c] = p],
           iam' \in Nat, iam' >= iam, UNCHANGED <<token, gen, op, stale, ans>>
    PROVE  Safe'
<1> USE DEF Safe, TypeOK, Fetching
<1>1. \A d \in Callers : d # c => ~Fetching(d)
    BY CallersAssumption DEF FetchHoldsLock
<1>2. FetchHoldsLock'
    BY <1>1 DEF FetchHoldsLock
<1>3. FetchIsNeeded'
    BY <1>1 DEF FetchIsNeeded, Advanced
<1>4. Bounded'
    BY DEF Bounded, Answers
<1>5. GenerationNamesToken'
    BY DEF GenerationNamesToken
<1>6. RefreshIsFresh'
    BY DEF RefreshIsFresh, Answered
<1> QED
    BY <1>2, <1>3, <1>4, <1>5, <1>6

\* So does an answer from the cache: the pair handed out is the cached one,
\* and it is newer than what a Refresh reported.
LEMMA ServedSafe ==
    ASSUME TypeOK, Safe, NEW c \in Callers,
           pc[c] = "lock", token # 0,
           op[c] = "refresh" => Advanced(c),
           Return(c, Success(token, gen)),
           UNCHANGED <<mu, token, gen, iam, op, stale>>
    PROVE  Safe'
<1> USE DEF Safe, TypeOK, Return, Success, Fetching
<1>1. FetchHoldsLock'
    BY DEF FetchHoldsLock
<1>2. FetchIsNeeded'
    BY DEF FetchIsNeeded, Advanced
<1>3. Bounded'
    BY DEF Bounded, Answers
<1>4. GenerationNamesToken'
  <2>1. ASSUME NEW d \in Callers PROVE ans'[d] = IF d = c THEN Success(token, gen) ELSE ans[d]
    OBVIOUS
  <2> QED
    BY <2>1 DEF GenerationNamesToken, Answers
<1>5. RefreshIsFresh'
    BY DEF RefreshIsFresh, Answered, Advanced, Answers
<1> QED
    BY <1>1, <1>2, <1>3, <1>4, <1>5

\* So does a granted token: it is new, and so is its generation, so that no
\* answer given before can be confused with it.
LEMMA GrantedSafe ==
    ASSUME TypeOK, Safe, NEW c \in Callers, IAMGrants(c)
    PROVE  Safe'
<1> USE DEF Safe, TypeOK, Fetching
<1>1. /\ iam' = iam + 1 /\ token' = iam + 1 /\ gen' = gen + 1
      /\ mu' = NoCaller /\ UNCHANGED <<op, stale>>
      /\ pc' = [pc EXCEPT ![c] = "idle"]
      /\ ans' = [ans EXCEPT ![c] = [err |-> "none", token |-> iam + 1,
                                    gen |-> gen + 1]]
    BY DEF IAMGrants, Return, Success, callVars
<1>2. \A d \in Callers : d # c => ~Fetching(d)
    BY CallersAssumption DEF FetchHoldsLock, IAMGrants
<1>3. FetchHoldsLock'
    BY <1>1, <1>2 DEF FetchHoldsLock
<1>4. FetchIsNeeded'
    BY <1>1, <1>2 DEF FetchIsNeeded, Advanced
<1>5. Bounded'
    BY <1>1 DEF Bounded, Answers
<1>6. GenerationNamesToken'
  <2>1. ASSUME NEW d \in Callers, d # c
        PROVE  ans'[d] = ans[d] /\ ans[d].gen < gen' /\ ans[d].token < token'
    <3>1. ans[d].gen \in Nat /\ ans[d].token \in Nat
      BY DEF Answers
    <3>2. ans[d].gen <= gen /\ ans[d].token <= iam
      BY DEF Bounded
    <3>3. ans'[d] = ans[d]
      BY <1>1, <2>1
    <3> QED
      BY <1>1, <3>1, <3>2, <3>3
  <2>2. ans'[c].gen = gen' /\ ans'[c].token = token'
    BY <1>1
  <2> QED
    BY <2>1, <2>2, <1>1 DEF GenerationNamesToken, Answers
<1>7. RefreshIsFresh'
    BY <1>1 DEF RefreshIsFresh, Answered, Bounded, Answers
<1> QED
    BY <1>3, <1>4, <1>5, <1>6, <1>7

\* The invariant holds initially.
LEMMA InitSafe == Init => Safe
<1> SUFFICES ASSUME Init PROVE Safe
    OBVIOUS
<1> QED
    BY DEF Init, Safe, FetchHoldsLock, FetchIsNeeded, Fetching, Bounded,
        GenerationNamesToken, RefreshIsFresh, Answered, NoAnswer, Failure

\* Beginning a call keeps it.
LEMMA InvokeSafe ==
    ASSUME TypeOK, Safe, NEW c \in Callers, Invoke(c)
    PROVE  Safe'
<1> USE DEF Safe, TypeOK, Fetching, Begin, cacheVars
<1>1. /\ pc[c] = "idle"
      /\ UNCHANGED <<mu, token, gen, iam>>
      /\ pc' \in {[pc EXCEPT ![c] = "lock"], [pc EXCEPT ![c] = "once"]}
      /\ pc'[c] = "once" => op'[c] = "close"
      /\ \A d \in Callers : d # c => /\ op'[d] = op[d]
                                     /\ stale'[d] = stale[d]
                                     /\ ans'[d] = ans[d]
                                     /\ pc'[d] = pc[d]
      /\ stale'[c] \in 0..gen
      /\ ans'[c] = ans[c] \/ ans'[c] = Failure("auth")
    BY DEF Invoke, BeginToken, BeginRefresh, BeginClose, NoAnswer
<1>2. pc'[c] \in {"lock", "once"}
    BY <1>1
<1>3. FetchHoldsLock'
    BY <1>1, <1>2 DEF FetchHoldsLock
<1>4. FetchIsNeeded'
    BY <1>1, <1>2 DEF FetchIsNeeded, Advanced
<1>5. Bounded'
  <2>1. ans'[c].gen <= gen /\ ans'[c].token <= iam
    BY <1>1 DEF Bounded, Failure
  <2> QED
    BY <1>1, <2>1 DEF Bounded
<1>6. GenerationNamesToken'
  <2>1. \A d \in Callers : ans'[d].err = "none" => ans'[d] = ans[d]
    BY <1>1 DEF Failure
  <2> QED
    BY <1>1, <2>1 DEF GenerationNamesToken
<1>7. RefreshIsFresh'
    BY <1>1, <1>2 DEF RefreshIsFresh, Answered
<1> QED
    BY <1>3, <1>4, <1>5, <1>6, <1>7

\* Client.Close keeps it: emptying the cache never makes a fetch in progress
\* needless, since no fetch is in progress while cached.Close holds mu.
LEMMA CloseSafe ==
    ASSUME TypeOK, Safe, NEW c \in Callers, EnterOnce(c) \/ Close(c)
    PROVE  Safe'
<1> USE DEF Safe, TypeOK, Fetching, Return
<1>1. /\ UNCHANGED <<mu, gen, iam, op, stale>>
      /\ token' \in {0, token}
      /\ pc' \in {[pc EXCEPT ![c] = "lock"], [pc EXCEPT ![c] = "idle"]}
      /\ ans' = ans
      /\ op[c] = "close"
    BY DEF EnterOnce, Close, cacheVars, callVars, FetchHoldsLock
<1>2. \A d \in Callers : d # c => pc'[d] = pc[d]
    BY <1>1
<1>3. pc'[c] \in {"lock", "idle"}
    BY <1>1
<1>4. FetchHoldsLock'
    BY <1>1, <1>2, <1>3 DEF FetchHoldsLock
<1>5. FetchIsNeeded'
    BY <1>1, <1>2, <1>3 DEF FetchIsNeeded, Advanced
<1>6. Bounded'
    BY <1>1 DEF Bounded
<1>7. GenerationNamesToken'
    BY <1>1 DEF GenerationNamesToken
<1>8. RefreshIsFresh'
    BY <1>1, <1>2 DEF RefreshIsFresh, Answered
<1> QED
    BY <1>4, <1>5, <1>6, <1>7, <1>8

\* A failing or retried fetch, as the network steps use it.
LEMMA NetworkFailureSafe ==
    ASSUME TypeOK, Safe, NEW c \in Callers, pc[c] \in {"sent", "backoff"},
           NEW e \in {"auth", "transport", "ctx"}, NEW last \in Errs,
           e = "transport" => last # "none",
           FetchFails(c, e, last),
           iam' \in Nat, iam' >= iam, UNCHANGED <<token, gen, op, stale>>
    PROVE  Safe'
<1>1. PostFormError(e, last) \in Errs \ {"none"}
    BY PostFormErrorType
<1>2. /\ Return(c, Failure(PostFormError(e, last)))
      /\ Fetching(c) /\ mu' = NoCaller
    BY DEF FetchFails, Fetching
<1> QED
    BY <1>1, <1>2, FailureSafe

\* A retryable failure, with or without budget left, keeps it.
LEMMA RetrySafe ==
    ASSUME TypeOK, Safe, NEW c \in Callers, pc[c] = "sent",
           NEW e \in {"auth", "transport"}, RetryOrFail(c, e),
           iam' \in Nat, iam' >= iam, UNCHANGED <<token, gen, op, stale>>
    PROVE  Safe'
<1>1. CASE FetchFails(c, e, e)
    BY <1>1, NetworkFailureSafe DEF Errs
<1>2. CASE ~FetchFails(c, e, e)
  <2>1. /\ pc' = [pc EXCEPT ![c] = "backoff"]
        /\ UNCHANGED <<mu, ans>>
    BY <1>2 DEF RetryOrFail
  <2>2. /\ mu = c
        /\ op[c] \in {"token", "refresh"}
        /\ op[c] = "token" => token = 0
        /\ op[c] = "refresh" => ~Advanced(c)
    BY DEF Safe, FetchHoldsLock, FetchIsNeeded, Fetching
  <2> QED
    BY <2>1, <2>2, FetchingSafe
<1> QED
    BY <1>1, <1>2

\* Entering the fetch keeps it, for a caller the cache cannot answer.
LEMMA FetchLockedSafe ==
    ASSUME TypeOK, Safe, NEW c \in Callers, pc[c] = "lock", mu = NoCaller,
           op[c] \in {"token", "refresh"},
           op[c] = "token" => token = 0,
           op[c] = "refresh" => ~Advanced(c),
           FetchLocked(c), UNCHANGED <<token, gen, iam, op, stale>>
    PROVE  Safe'
<1>1. CASE ctxErr[c]
  <2>1. Return(c, Failure("authctx")) /\ mu' = NoCaller
    BY <1>1 DEF FetchLocked
  <2> QED
    BY <2>1, FailureSafe DEF Errs, TypeOK
<1>2. CASE ~ctxErr[c]
  <2>1. /\ pc' = [pc EXCEPT ![c] = "sent"]
        /\ mu' = c
        /\ UNCHANGED ans
    BY <1>2 DEF FetchLocked
  <2>2. iam' \in Nat /\ iam' >= iam
    BY DEF TypeOK
  <2> QED
    BY <2>1, <2>2, FetchingSafe
<1> QED
    BY <1>1, <1>2

\* Every step keeps the invariant.
LEMMA NextSafe == TypeOK /\ Safe /\ [Next]_vars => Safe'
<1> SUFFICES ASSUME TypeOK, Safe, [Next]_vars PROVE Safe'
    OBVIOUS
<1>t. iam \in Nat /\ iam >= iam
    BY DEF TypeOK
<1>1. ASSUME NEW c \in Callers, Invoke(c) PROVE Safe'
    BY <1>1, InvokeSafe
<1>2. ASSUME NEW c \in Callers, ContextDone(c) PROVE Safe'
    BY <1>2 DEF ContextDone, cacheVars, callVars, Safe, FetchHoldsLock,
        FetchIsNeeded, Fetching, Advanced, Bounded, GenerationNamesToken,
        RefreshIsFresh, Answered
<1>3. ASSUME NEW c \in Callers, Token(c) PROVE Safe'
  <2>1. /\ pc[c] = "lock" /\ op[c] = "token" /\ mu = NoCaller
        /\ UNCHANGED <<token, gen, iam, op, stale>>
        /\ \/ token # 0 /\ Return(c, Success(token, gen)) /\ UNCHANGED mu
           \/ token = 0 /\ FetchLocked(c)
    BY <1>3 DEF Token, cacheVars, callVars
  <2> QED
    BY <2>1, ServedSafe, FetchLockedSafe
<1>4. ASSUME NEW c \in Callers, Refresh(c) PROVE Safe'
  <2>1. /\ pc[c] = "lock" /\ op[c] = "refresh" /\ mu = NoCaller
        /\ UNCHANGED <<token, gen, iam, op, stale>>
        /\ \/ Advanced(c) /\ Return(c, Success(token, gen)) /\ UNCHANGED mu
           \/ ~Advanced(c) /\ FetchLocked(c)
    BY <1>4 DEF Refresh, cacheVars, callVars
  <2>2. Advanced(c) => token # 0
    BY DEF Advanced
  <2> QED
    BY <2>1, <2>2, ServedSafe, FetchLockedSafe
<1>5. ASSUME NEW c \in Callers, EnterOnce(c) \/ Close(c) PROVE Safe'
    BY <1>5, CloseSafe
<1>6. ASSUME NEW c \in Callers, IAMGrants(c) PROVE Safe'
    BY <1>6, GrantedSafe
<1>7. ASSUME NEW c \in Callers, IAMUnavailable(c) PROVE Safe'
    BY <1>7, <1>t, RetrySafe DEF IAMUnavailable, cacheVars, callVars
<1>8. ASSUME NEW c \in Callers, IAMUnreachable(c) PROVE Safe'
  <2>1. iam' \in Nat /\ iam' >= iam
    BY <1>8, <1>t DEF IAMUnreachable
  <2> QED
    BY <1>8, <2>1, RetrySafe DEF IAMUnreachable, cacheVars, callVars
<1>9. ASSUME NEW c \in Callers, IAMDenies(c) \/ SendAborted(c) PROVE Safe'
  <2>1. lastErr[c] \in Errs
    BY DEF TypeOK
  <2>2. /\ pc[c] = "sent" /\ UNCHANGED <<token, gen, iam, op, stale>>
        /\ \/ FetchFails(c, "auth", lastErr[c])
           \/ FetchFails(c, "ctx", lastErr[c])
    BY <1>9 DEF IAMDenies, SendAborted, cacheVars, callVars
  <2> QED
    BY <2>1, <2>2, <1>t, NetworkFailureSafe
<1>10. ASSUME NEW c \in Callers, BackoffEnds(c) PROVE Safe'
  <2>1. pc[c] = "backoff" /\ UNCHANGED <<token, gen, iam, op, stale>>
    BY <1>10 DEF BackoffEnds, cacheVars, callVars
  <2>2. CASE ctxErr[c]
    <3>1. FetchFails(c, "ctx", lastErr[c]) /\ lastErr[c] \in Errs
      BY <1>10, <2>2 DEF BackoffEnds, TypeOK
    <3> QED
      BY <2>1, <3>1, <1>t, NetworkFailureSafe
  <2>3. CASE ~ctxErr[c]
    <3>1. /\ pc' = [pc EXCEPT ![c] = "sent"]
          /\ UNCHANGED <<mu, ans>>
      BY <1>10, <2>3 DEF BackoffEnds
    <3>2. /\ mu = c
          /\ op[c] \in {"token", "refresh"}
          /\ op[c] = "token" => token = 0
          /\ op[c] = "refresh" => ~Advanced(c)
      BY <2>1 DEF Safe, FetchHoldsLock, FetchIsNeeded, Fetching
    <3> QED
      BY <2>1, <3>1, <3>2, <1>t, FetchingSafe
  <2> QED
    BY <2>2, <2>3
<1>11. CASE UNCHANGED vars
    BY <1>11 DEF vars, Safe, FetchHoldsLock, FetchIsNeeded, Fetching, Advanced,
        Bounded, GenerationNamesToken, RefreshIsFresh, Answered
<1> QED
    BY <1>1, <1>2, <1>3, <1>4, <1>5, <1>6, <1>7, <1>8, <1>9, <1>10, <1>11
       DEF Next, CallStep, Network

\* The inductive invariant holds in every reachable state.
THEOREM Invariance == Spec => []IInv
<1>1. Init => IInv
    BY InitType, InitSafe DEF IInv
<1>2. IInv /\ [Next]_vars => IInv'
    BY NextType, NextSafe DEF IInv
<1> QED
    BY <1>1, <1>2, PTL DEF Spec

\* Whatever the goroutines, the IAM endpoint never serves two fetches of one
\* client at a time.
THEOREM SingleFetchHolds == Spec => []SingleFetch
<1>1. IInv => SingleFetch
    BY DEF IInv, Safe, FetchHoldsLock, SingleFetch
<1> QED
    BY <1>1, Invariance, PTL

\* A successful Refresh always hands back a token newer than the rejected one.
THEOREM RefreshIsFreshHolds == Spec => []RefreshIsFresh
<1>1. IInv => RefreshIsFresh
    BY DEF IInv, Safe
<1> QED
    BY <1>1, Invariance, PTL

\* Generations and tokens always correspond one to one.
THEOREM GenerationNamesTokenHolds == Spec => []GenerationNamesToken
<1>1. IInv => GenerationNamesToken
    BY DEF IInv, Safe
<1> QED
    BY <1>1, Invariance, PTL

-----------------------------------------------------------------------------
(* Waiting, and how long it can take.                                      *)

\* The mutex is held by a goroutine that fetches, closeOnce by one that waits for
\* the mutex; a fetch is within its budget, and waits for another round only if
\* the budget has one.
Waits ==
    /\ mu # NoCaller => Fetching(mu)
    /\ closeOnce = "running" => \E c \in Callers : pc[c] = "lock" /\ op[c] = "close"
    /\ \A c \in Callers :
          /\ attempt[c] <= Budget(FetchAttempts)
          /\ pc[c] = "backoff" => attempt[c] < Budget(FetchAttempts)

\* The budget allows at least one attempt.
LEMMA BudgetPositive == Budget(FetchAttempts) \in Nat /\ 1 <= Budget(FetchAttempts)
BY BudgetAssumption DEF Budget, FetchAttempts, Configured, DefaultAttempts

\* A call that returns leaves the others where they are.
LEMMA ReturnWaits ==
    ASSUME TypeOK, Waits, NEW c \in Callers, NEW a, Return(c, a), UNCHANGED op,
           \/ Fetching(c) /\ mu = c /\ mu' = NoCaller
           \/ mu = NoCaller /\ mu' = NoCaller,
           \/ closeOnce' = "done"
           \/ UNCHANGED closeOnce /\ ~(pc[c] = "lock" /\ op[c] = "close")
    PROVE  Waits'
<1> USE DEF TypeOK, Return, Fetching, Waits
<1>1. mu' = NoCaller
    OBVIOUS
<1>2. (closeOnce = "running")' =>
          \E d \in Callers : (pc[d] = "lock" /\ op[d] = "close")'
    OBVIOUS
<1>3. \A d \in Callers :
          /\ attempt'[d] <= Budget(FetchAttempts)
          /\ pc'[d] = "backoff" => attempt'[d] < Budget(FetchAttempts)
    BY BudgetPositive
<1> QED
    BY <1>1, <1>2, <1>3

\* A call that goes on, or begins to fetch, keeps its place in the order.
LEMMA FetchWaits ==
    ASSUME TypeOK, Waits, NEW c \in Callers, NEW p \in {"sent", "backoff"},
           pc' = [pc EXCEPT ![c] = p], mu' = c, UNCHANGED <<op, closeOnce>>,
           ~(pc[c] = "lock" /\ op[c] = "close"),
           attempt' \in {attempt, [attempt EXCEPT ![c] = @ + 1]},
           attempt'[c] <= Budget(FetchAttempts),
           p = "backoff" => attempt'[c] < Budget(FetchAttempts)
    PROVE  Waits'
<1> USE DEF TypeOK, Fetching, Waits
<1>1. Fetching(mu)'
    OBVIOUS
<1>2. (closeOnce = "running")' =>
          \E d \in Callers : (pc[d] = "lock" /\ op[d] = "close")'
    OBVIOUS
<1>3. \A d \in Callers :
          /\ attempt'[d] <= Budget(FetchAttempts)
          /\ pc'[d] = "backoff" => attempt'[d] < Budget(FetchAttempts)
    OBVIOUS
<1> QED
    BY <1>1, <1>2, <1>3

\* So does entering the fetch.
LEMMA FetchLockedWaits ==
    ASSUME TypeOK, Waits, NEW c \in Callers, pc[c] = "lock", op[c] # "close",
           mu = NoCaller, FetchLocked(c), UNCHANGED <<op, closeOnce>>
    PROVE  Waits'
<1>1. CASE ctxErr[c]
  <2>1. Return(c, Failure("authctx")) /\ mu' = NoCaller
    BY <1>1 DEF FetchLocked
  <2> QED
    BY <2>1, ReturnWaits
<1>2. CASE ~ctxErr[c]
  <2>1. /\ pc' = [pc EXCEPT ![c] = "sent"] /\ mu' = c
        /\ attempt' = attempt /\ attempt'[c] <= Budget(FetchAttempts)
    BY <1>2 DEF FetchLocked, fetchVars, Waits
  <2> QED
    BY <2>1, FetchWaits
<1> QED
    BY <1>1, <1>2

\* And a retryable failure.
LEMMA RetryWaits ==
    ASSUME TypeOK, Safe, Waits, NEW c \in Callers, pc[c] = "sent",
           NEW e \in {"auth", "transport"}, RetryOrFail(c, e),
           UNCHANGED <<op, closeOnce>>
    PROVE  Waits'
<1>1. mu = c /\ Fetching(c)
    BY DEF Safe, FetchHoldsLock, Fetching
<1>2. CASE FetchFails(c, e, e)
    BY <1>1, <1>2, ReturnWaits DEF FetchFails
<1>3. CASE ~FetchFails(c, e, e)
  <2>1. /\ pc' = [pc EXCEPT ![c] = "backoff"] /\ mu' = c /\ attempt' = attempt
        /\ attempt'[c] < Budget(FetchAttempts)
    BY <1>1, <1>3 DEF RetryOrFail, MayRetry
  <2>2. attempt'[c] <= Budget(FetchAttempts)
    BY <2>1 DEF Waits
  <2> QED
    BY <2>1, <2>2, FetchWaits
<1> QED
    BY <1>2, <1>3

\* Every step keeps the order of those who wait.
LEMMA NextWaits == TypeOK /\ Safe /\ Waits /\ [Next]_vars => Waits'
<1> SUFFICES ASSUME TypeOK, Safe, Waits, [Next]_vars PROVE Waits'
    OBVIOUS
<1>1. ASSUME NEW c \in Callers, Invoke(c) PROVE Waits'
  <2>1. /\ pc[c] = "idle" /\ UNCHANGED <<mu, closeOnce, attempt>>
        /\ \E p \in {"lock", "once"} : pc' = [pc EXCEPT ![c] = p]
        /\ \A d \in Callers : d # c => op'[d] = op[d]
    BY <1>1 DEF Invoke, BeginToken, BeginRefresh, BeginClose, Begin, fetchVars, TypeOK
  <2>2. mu # c
    BY <2>1, CallersAssumption DEF Waits, Fetching
  <2> QED
    BY <2>1, <2>2 DEF Waits, Fetching, TypeOK
<1>2. ASSUME NEW c \in Callers, ContextDone(c) PROVE Waits'
    BY <1>2 DEF ContextDone, callVars, fetchVars, Waits, Fetching
<1>3. ASSUME NEW c \in Callers, Token(c) PROVE Waits'
  <2>1. /\ pc[c] = "lock" /\ op[c] = "token" /\ mu = NoCaller
        /\ UNCHANGED <<op, closeOnce>>
        /\ \/ Return(c, Success(token, gen)) /\ UNCHANGED mu
           \/ FetchLocked(c)
    BY <1>3 DEF Token, callVars
  <2> QED
    BY <2>1, ReturnWaits, FetchLockedWaits
<1>4. ASSUME NEW c \in Callers, Refresh(c) PROVE Waits'
  <2>1. /\ pc[c] = "lock" /\ op[c] = "refresh" /\ mu = NoCaller
        /\ UNCHANGED <<op, closeOnce>>
        /\ \/ Return(c, Success(token, gen)) /\ UNCHANGED mu
           \/ FetchLocked(c)
    BY <1>4 DEF Refresh, callVars
  <2> QED
    BY <2>1, ReturnWaits, FetchLockedWaits
<1>5. ASSUME NEW c \in Callers, EnterOnce(c) PROVE Waits'
  <2>1. pc[c] = "once" /\ op[c] = "close" /\ UNCHANGED <<mu, op>>
    BY <1>5 DEF EnterOnce, callVars, Safe, FetchHoldsLock
  <2>2. mu # c
    BY <2>1, CallersAssumption DEF Waits, Fetching
  <2>3. \A d \in Callers : d # c => pc'[d] = pc[d] /\ attempt'[d] = attempt[d]
    BY <1>5 DEF EnterOnce, Return, fetchVars, TypeOK
  <2>4. CASE closeOnce = "unused"
    <3>1. pc'[c] = "lock" /\ attempt' = attempt
      BY <1>5, <2>4 DEF EnterOnce, fetchVars, TypeOK
    <3> QED
      BY <2>1, <2>2, <2>3, <3>1 DEF Waits, Fetching, TypeOK
  <2>5. CASE closeOnce # "unused"
    <3>1. pc'[c] = "idle" /\ attempt'[c] = 1 /\ closeOnce' = "done"
      BY <1>5, <2>5 DEF EnterOnce, Return, TypeOK
    <3> QED
      BY <2>1, <2>2, <2>3, <3>1, BudgetPositive DEF Waits, Fetching, TypeOK
  <2> QED
    BY <2>4, <2>5
<1>6. ASSUME NEW c \in Callers, Close(c) PROVE Waits'
    BY <1>6, ReturnWaits DEF Close, callVars
<1>7. ASSUME NEW c \in Callers, Network(c) PROVE Waits'
  <2>1. pc[c] = "sent" /\ UNCHANGED <<op, closeOnce>>
    BY <1>7 DEF Network, IAMGrants, IAMUnavailable, IAMUnreachable, IAMDenies,
        SendAborted, callVars
  <2>2. mu = c /\ Fetching(c)
    BY <2>1 DEF Safe, FetchHoldsLock, Fetching
  <2>3. CASE IAMUnavailable(c) \/ IAMUnreachable(c)
    BY <2>1, <2>3, RetryWaits DEF IAMUnavailable, IAMUnreachable
  <2>4. CASE IAMGrants(c) \/ IAMDenies(c) \/ SendAborted(c)
    <3>1. mu' = NoCaller /\ \E a : Return(c, a)
      BY <2>4 DEF IAMGrants, IAMDenies, SendAborted, FetchFails
    <3> QED
      BY <2>1, <2>2, <3>1, ReturnWaits
  <2> QED
    BY <1>7, <2>3, <2>4 DEF Network
<1>8. ASSUME NEW c \in Callers, BackoffEnds(c) PROVE Waits'
  <2>1. pc[c] = "backoff" /\ UNCHANGED <<op, closeOnce>>
    BY <1>8 DEF BackoffEnds, callVars
  <2>2. mu = c /\ Fetching(c)
    BY <2>1 DEF Safe, FetchHoldsLock, Fetching
  <2>3. CASE ctxErr[c]
    BY <1>8, <2>1, <2>2, <2>3, ReturnWaits DEF BackoffEnds, FetchFails
  <2>4. CASE ~ctxErr[c]
    <3>1. /\ pc' = [pc EXCEPT ![c] = "sent"] /\ mu' = c
          /\ attempt' = [attempt EXCEPT ![c] = @ + 1]
      BY <1>8, <2>2, <2>4 DEF BackoffEnds
    <3>2. attempt'[c] = attempt[c] + 1 /\ attempt[c] < Budget(FetchAttempts)
          /\ attempt[c] \in Nat
      BY <2>1, <3>1 DEF Waits, TypeOK
    <3>3. attempt'[c] <= Budget(FetchAttempts)
      BY <3>2, BudgetPositive
    <3> QED
      BY <2>1, <3>1, <3>3, FetchWaits
  <2> QED
    BY <2>3, <2>4
<1>9. CASE UNCHANGED vars
    BY <1>9 DEF vars, Waits, Fetching
<1> QED
    BY <1>1, <1>2, <1>3, <1>4, <1>5, <1>6, <1>7, <1>8, <1>9 DEF Next, CallStep

\* Which holds in every reachable state.
LEMMA WaitsInvariance == Spec => [](IInv /\ Waits)
<1>1. Init => IInv /\ Waits
  <2>1. Init => Waits
    BY BudgetPositive DEF Init, Waits
  <2> QED
    BY <2>1, InitType, InitSafe DEF IInv
<1>2. IInv /\ Waits /\ [Next]_vars => IInv' /\ Waits'
    BY NextType, NextSafe, NextWaits DEF IInv
<1> QED
    BY <1>1, <1>2, PTL DEF Spec

\* Who waits for the mutex goes on, or the goroutine that fetches does.
LEMMA LockIsFreeOrComing ==
    ASSUME TypeOK, Waits, NEW c \in Callers, pc[c] = "lock"
    PROVE  CanGoOn(c) \/ \E d \in WaitsFor(c) : CanGoOn(d)
<1>1. CASE mu = NoCaller
    BY <1>1 DEF CanGoOn
<1>2. CASE mu # NoCaller
  <2>1. mu \in Callers /\ pc[mu] \in {"sent", "backoff"}
    BY <1>2 DEF TypeOK, Waits, Fetching
  <2>2. mu \in WaitsFor(c) /\ CanGoOn(mu)
    BY <2>1 DEF WaitsFor, CanGoOn
  <2> QED
    BY <2>2
<1> QED
    BY <1>1, <1>2

\* For every set of goroutines, whatever IAM answers and however Token, Refresh and
\* Close interleave, there is always one that can go on.
THEOREM WaitsHaveEnds == Spec => []WaitsEnd
<1>1. IInv /\ Waits => WaitsEnd
  <2> SUFFICES ASSUME IInv, Waits, NEW c \in Callers, pc[c] # "idle"
               PROVE  \/ CanGoOn(c)
                      \/ \E d \in WaitsFor(c) :
                            CanGoOn(d) \/ \E e \in WaitsFor(d) : CanGoOn(e)
      BY DEF WaitsEnd
  <2>1. CASE pc[c] = "lock"
    BY <2>1, LockIsFreeOrComing DEF IInv
  <2>2. CASE pc[c] = "once" /\ closeOnce = "running"
    <3>1. PICK d \in Callers : pc[d] = "lock" /\ op[d] = "close"
      BY <2>2 DEF Waits
    <3>2. d \in WaitsFor(c)
      BY <2>2, <3>1 DEF WaitsFor
    <3> QED
      BY <3>1, <3>2, LockIsFreeOrComing DEF IInv
  <2>3. CASE pc[c] \in {"sent", "backoff"} \/ (pc[c] = "once" /\ closeOnce # "running")
    BY <2>3 DEF CanGoOn
  <2> QED
    BY <2>1, <2>2, <2>3 DEF IInv, TypeOK, Pcs
<1> QED
    BY <1>1, WaitsInvariance, PTL

\* The bound at each place of a call.
BoundRead(c) ==
    LET rest == Budget(FetchAttempts) - attempt[c]
    IN  /\ pc[c] = "idle" => StepsLeft(c) = 0
        /\ pc[c] = "once" => StepsLeft(c) = 4 + 2 * rest
        /\ pc[c] = "lock" => StepsLeft(c) = 3 + 2 * rest
        /\ pc[c] = "sent" => StepsLeft(c) = 2 + 2 * rest
        /\ pc[c] = "backoff" => StepsLeft(c) = 1 + 2 * rest

\* Which its definition says by cases.
LEMMA BoundIsRead == ASSUME NEW c PROVE BoundRead(c) /\ BoundRead(c)'
BY Zenon DEF StepsLeft, BoundRead

\* Where a step takes the goroutine that makes it.
GoesOn(c) ==
    \/ pc[c] = "once" /\ pc'[c] = "lock" /\ attempt'[c] = attempt[c]
    \/ pc[c] = "lock" /\ pc'[c] = "sent" /\ attempt'[c] = attempt[c]
    \/ pc[c] = "sent" /\ pc'[c] = "backoff" /\ attempt'[c] = attempt[c]
    \/ pc[c] = "backoff" /\ pc'[c] = "sent" /\ attempt'[c] = attempt[c] + 1
    \/ pc'[c] = "idle"

\* And where it leaves the others.
StaysPut(c) == pc'[c] = pc[c] /\ attempt'[c] = attempt[c]

\* A goroutine that returns is idle.
LEMMA ReturnMoves ==
    ASSUME TypeOK, NEW c \in Callers, NEW a, Return(c, a)
    PROVE  pc'[c] = "idle" /\ \A d \in Callers : d # c => StaysPut(d)
BY DEF TypeOK, Return, StaysPut

\* A step of one call moves that call along, and no other.
LEMMA OneMoves ==
    ASSUME TypeOK, NEW c \in Callers, CallStep(c)
    PROVE  GoesOn(c) /\ \A d \in Callers : d # c => StaysPut(d)
<1>1. CASE \E a : Return(c, a)
    BY <1>1, ReturnMoves DEF GoesOn
<1>2. CASE ~\E a : Return(c, a)
  <2>1. CASE Token(c) \/ Refresh(c)
    BY <1>2, <2>1 DEF Token, Refresh, FetchLocked, fetchVars, TypeOK, GoesOn, StaysPut
  <2>2. CASE EnterOnce(c)
    BY <1>2, <2>2 DEF EnterOnce, fetchVars, TypeOK, GoesOn, StaysPut
  <2>3. CASE Close(c)
    BY <1>2, <2>3 DEF Close
  <2>4. CASE Network(c)
    BY <1>2, <2>4 DEF Network, IAMGrants, IAMUnavailable, IAMUnreachable, IAMDenies,
        SendAborted, RetryOrFail, FetchFails, TypeOK, GoesOn, StaysPut
  <2>5. CASE BackoffEnds(c)
    BY <1>2, <2>5 DEF BackoffEnds, FetchFails, TypeOK, GoesOn, StaysPut
  <2> QED
    BY <2>1, <2>2, <2>3, <2>4, <2>5 DEF CallStep
<1> QED
    BY <1>1, <1>2

\* For every budget a call makes a bounded number of steps: no answer of IAM, and
\* nothing that other goroutines do, lets it go round for ever.
THEOREM CallsStayFinite == Spec => CallsAreFinite
<1>1. ASSUME IInv, Waits, Waits', [Next]_vars, NEW c \in Callers, pc[c] # "idle"
      PROVE  IF pc'[c] = pc[c] THEN StepsLeft(c)' = StepsLeft(c)
             ELSE StepsLeft(c)' \in 0 .. StepsLeft(c) - 1
  <2>1. BoundRead(c) /\ BoundRead(c)'
    BY BoundIsRead
  <2>2. /\ pc[c] \in Pcs /\ attempt[c] \in Nat
        /\ Budget(FetchAttempts) \in Nat /\ attempt[c] <= Budget(FetchAttempts)
        /\ pc[c] = "backoff" => attempt[c] < Budget(FetchAttempts)
    BY <1>1, BudgetPositive DEF IInv, TypeOK, Waits
  <2>3. StaysPut(c) \/ GoesOn(c)
    <3>1. CASE \E d \in Callers : Invoke(d) \/ ContextDone(d)
      BY <1>1, <3>1 DEF Invoke, BeginToken, BeginRefresh, BeginClose, Begin,
          ContextDone, fetchVars, IInv, TypeOK, StaysPut
    <3>2. CASE \E d \in Callers : CallStep(d)
      BY <1>1, <3>2, OneMoves DEF IInv
    <3>3. CASE UNCHANGED vars
      BY <3>3 DEF vars, StaysPut
    <3> QED
      BY <1>1, <3>1, <3>2, <3>3 DEF Next
  <2>4. CASE StaysPut(c)
    BY <2>1, <2>2, <2>4 DEF StaysPut, BoundRead, Pcs
  <2>5. CASE GoesOn(c)
    BY <1>1, <2>1, <2>2, <2>5 DEF GoesOn, BoundRead, Pcs
  <2> QED
    BY <2>3, <2>4, <2>5
<1>2. IInv /\ Waits /\ (Waits)' /\ [Next]_vars =>
          [\A c \in Callers : pc[c] # "idle" =>
              IF pc'[c] = pc[c] THEN StepsLeft(c)' = StepsLeft(c)
              ELSE StepsLeft(c)' \in 0 .. StepsLeft(c) - 1]_vars
    BY <1>1
<1> QED
    BY <1>2, WaitsInvariance, PTL DEF Spec, CallsAreFinite

-----------------------------------------------------------------------------
(* Action property and refinement.                                         *)

\* A cached token is only ever replaced for a caller that found it stale.
THEOREM RenewedOnlyWhenStaleHolds == Spec => RenewedOnlyWhenStale
<1>1. ASSUME IInv, [Next]_vars, token # 0, token' # 0, token' # token
      PROVE  \E c \in Callers :
                Fetching(c) /\ op[c] = "refresh" /\ stale[c] >= gen
  <2>1. PICK c \in Callers : IAMGrants(c)
    BY <1>1 DEF Next, vars, CallStep, Network, Invoke, BeginToken,
        BeginRefresh, BeginClose, Begin, ContextDone, Token, Refresh,
        EnterOnce, Close, IAMUnavailable, IAMUnreachable, IAMDenies,
        SendAborted, BackoffEnds, cacheVars
  <2>2. Fetching(c)
    BY <2>1 DEF IAMGrants, Fetching
  <2>3. op[c] = "refresh" /\ ~Advanced(c)
    BY <1>1, <2>2 DEF IInv, Safe, FetchHoldsLock, FetchIsNeeded
  <2>4. gen \in Nat /\ stale[c] \in Nat
    BY <1>1 DEF IInv, TypeOK
  <2> QED
    BY <1>1, <2>2, <2>3, <2>4 DEF Advanced
<1> QED
    BY <1>1, Invariance, PTL DEF Spec, RenewedOnlyWhenStale

\* Initial states map to initial states.
LEMMA InitRefines == Init => TS!Init
<1> SUFFICES ASSUME Init PROVE TS!Init
    OBVIOUS
<1>1. AbstractRequest = [c \in Callers |-> -2]
    BY DEF Init, AbstractRequest
<1>2. AbstractReply = [c \in Callers |-> [token |-> 0, gen |-> 0]]
    BY DEF Init, AbstractReply, NoAnswer, Failure
<1> QED
    BY <1>1, <1>2 DEF Init, TS!Init, TS!Quiet, TS!Refusal

\* Ending a Token or Refresh is the abstract end of that call.
LEMMA ReturnMaps ==
    ASSUME TypeOK, NEW c \in Callers, op[c] # "close", NEW a,
           Return(c, a), UNCHANGED <<op, stale>>
    PROVE  TS!Finish(c, [token |-> a.token, gen |-> a.gen])
<1>1. AbstractRequest' = [AbstractRequest EXCEPT ![c] = -2]
    BY DEF AbstractRequest, Return, TypeOK
<1>2. AbstractReply' =
        [AbstractReply EXCEPT ![c] = [token |-> a.token, gen |-> a.gen]]
    BY DEF AbstractReply, Return, TypeOK
<1> QED
    BY <1>1, <1>2 DEF TS!Finish, TS!Quiet

\* A call in progress is an outstanding request, servable exactly when the
\* cache can answer it.
LEMMA RequestMaps ==
    ASSUME TypeOK, NEW c \in Callers, pc[c] # "idle",
           op[c] \in {"token", "refresh"}
    PROVE  /\ AbstractRequest[c] # -2
           /\ TS!Servable(AbstractRequest[c]) <=>
                 \/ op[c] = "token" /\ token # 0
                 \/ op[c] = "refresh" /\ Advanced(c)
<1>1. AbstractRequest[c] = IF op[c] = "token" THEN -1 ELSE stale[c]
    BY DEF AbstractRequest
<1>2. stale[c] \in Nat /\ gen \in Nat
    BY DEF TypeOK
<1> QED
    BY <1>1, <1>2 DEF TS!Servable, Advanced

\* A call refused is the abstract refusal.
LEMMA FailureRefines ==
    ASSUME TypeOK, NEW c \in Callers, pc[c] # "idle",
           \/ op[c] = "token" /\ token = 0
           \/ op[c] = "refresh" /\ ~Advanced(c),
           NEW e, Return(c, Failure(e)),
           iam' \in {iam, iam + 1}, UNCHANGED <<token, gen, op, stale>>
    PROVE  TS!Refuse(c)
<1>1. TS!Finish(c, [token |-> 0, gen |-> 0])
    BY ReturnMaps DEF Failure
<1>2. AbstractRequest[c] # -2 /\ ~TS!Servable(AbstractRequest[c])
    BY RequestMaps
<1> QED
    BY <1>1, <1>2 DEF TS!Refuse, TS!Quiet, TS!Refusal

\* A call that goes on fetching is an unchanged request; the IAM service may
\* have issued a token that got lost.
LEMMA FetchingRefines ==
    ASSUME TypeOK, NEW c \in Callers, pc[c] # "idle",
           NEW p \in {"sent", "backoff"}, pc' = [pc EXCEPT ![c] = p],
           iam' \in {iam, iam + 1}, UNCHANGED <<token, gen, op, stale, ans>>
    PROVE  [TS!Waste]_(TS!svars)
<1>1. AbstractRequest' = AbstractRequest
    BY DEF AbstractRequest, TypeOK
<1>2. AbstractReply' = AbstractReply
    BY DEF AbstractReply
<1> QED
    BY <1>1, <1>2 DEF TS!Waste, TS!svars

\* Beginning a call asks the register.
LEMMA InvokeRefines ==
    ASSUME TypeOK, NEW c \in Callers, Invoke(c)
    PROVE  [TS!Next]_(TS!svars)
<1>1. CASE BeginToken(c)
  <2>1. AbstractRequest' = [AbstractRequest EXCEPT ![c] = -1]
    BY <1>1 DEF BeginToken, Begin, AbstractRequest, TypeOK
  <2>2. AbstractReply' = [AbstractReply EXCEPT ![c] = [token |-> 0, gen |-> 0]]
    BY <1>1 DEF BeginToken, AbstractReply, NoAnswer, Failure, TypeOK
  <2>3. AbstractRequest[c] = -2
    BY <1>1 DEF BeginToken, Begin, AbstractRequest
  <2>4. TS!Ask(c, -1)
    BY <1>1, <2>1, <2>2, <2>3
       DEF TS!Ask, TS!Quiet, TS!Refusal, BeginToken, Begin, cacheVars
  <2>5. -1 \in -1..gen
    BY DEF TypeOK
  <2> QED
    BY <2>4, <2>5 DEF TS!Next
<1>2. ASSUME NEW g \in 0..gen, BeginRefresh(c, g) PROVE [TS!Next]_(TS!svars)
  <2>1. AbstractRequest' = [AbstractRequest EXCEPT ![c] = g]
    BY <1>2 DEF BeginRefresh, Begin, AbstractRequest, TypeOK
  <2>2. AbstractReply' = [AbstractReply EXCEPT ![c] = [token |-> 0, gen |-> 0]]
    BY <1>2 DEF BeginRefresh, AbstractReply, NoAnswer, Failure, TypeOK
  <2>3. AbstractRequest[c] = -2
    BY <1>2 DEF BeginRefresh, Begin, AbstractRequest
  <2>4. TS!Ask(c, g)
    BY <1>2, <2>1, <2>2, <2>3
       DEF TS!Ask, TS!Quiet, TS!Refusal, BeginRefresh, Begin, cacheVars
  <2>5. g \in -1..gen
    BY DEF TypeOK
  <2> QED
    BY <2>4, <2>5 DEF TS!Next
<1>3. CASE BeginClose(c)
  <2>1. AbstractRequest' = AbstractRequest
    BY <1>3 DEF BeginClose, Begin, AbstractRequest, TypeOK
  <2>2. AbstractReply' = AbstractReply
    BY <1>3 DEF BeginClose, AbstractReply
  <2> QED
    BY <1>3, <2>1, <2>2 DEF TS!svars, BeginClose, Begin, cacheVars
<1> QED
    BY <1>1, <1>2, <1>3 DEF Invoke

\* Answering from the cache is the abstract service of a request.
LEMMA ServedRefines ==
    ASSUME TypeOK, NEW c \in Callers, pc[c] # "idle",
           \/ op[c] = "token" /\ token # 0
           \/ op[c] = "refresh" /\ Advanced(c),
           Return(c, Success(token, gen)),
           UNCHANGED <<token, gen, iam, op, stale>>
    PROVE  TS!Serve(c)
<1>1. TS!Finish(c, [token |-> token, gen |-> gen])
    BY ReturnMaps DEF Success
<1>2. AbstractRequest[c] # -2 /\ TS!Servable(AbstractRequest[c])
    BY RequestMaps
<1> QED
    BY <1>1, <1>2 DEF TS!Serve, TS!Quiet

\* Storing a granted token is the abstract renewal: mu kept the reason for
\* the fetch true until now.
LEMMA GrantedRefines ==
    ASSUME IInv, NEW c \in Callers, IAMGrants(c)
    PROVE  TS!Renew(c)
<1>1. /\ pc[c] # "idle" /\ op[c] # "close"
      /\ \/ op[c] = "token" /\ token = 0
         \/ op[c] = "refresh" /\ ~Advanced(c)
    BY DEF IAMGrants, IInv, Safe, FetchHoldsLock, FetchIsNeeded, Fetching
<1>2. AbstractRequest[c] # -2 /\ ~TS!Servable(AbstractRequest[c])
    BY <1>1, RequestMaps DEF IInv
<1>3. /\ Return(c, Success(token', gen')) /\ UNCHANGED <<op, stale>>
      /\ iam' = iam + 1 /\ token' = iam' /\ gen' = gen + 1
    BY DEF IAMGrants, callVars
<1>4. TS!Finish(c, [token |-> token', gen |-> gen'])
    BY <1>1, <1>3, ReturnMaps DEF Success, IInv
<1> QED
    BY <1>2, <1>3, <1>4 DEF TS!Renew, TS!Quiet

\* Closing the cache forgets the token; waiting for closeOnce is invisible.
LEMMA CloseRefines ==
    ASSUME IInv, NEW c \in Callers, EnterOnce(c) \/ Close(c)
    PROVE  [TS!Forget]_(TS!svars)
<1>1. /\ op[c] = "close"
      /\ UNCHANGED <<gen, iam, op, stale, ans>>
      /\ \A d \in Callers : d # c => pc'[d] = pc[d]
      /\ token' = 0 \/ token' = token
    BY DEF EnterOnce, Close, Return, cacheVars, callVars, IInv, Safe,
        FetchHoldsLock, TypeOK
<1>2. AbstractRequest' = AbstractRequest
    BY <1>1 DEF AbstractRequest
<1>3. AbstractReply' = AbstractReply
    BY <1>1 DEF AbstractReply
<1> QED
    BY <1>1, <1>2, <1>3 DEF TS!Forget, TS!svars

\* A step of a fetch that does not succeed is a refusal or goes on.
LEMMA FetchStepRefines ==
    ASSUME IInv, NEW c \in Callers,
           IAMUnavailable(c) \/ IAMUnreachable(c) \/ IAMDenies(c)
               \/ SendAborted(c) \/ BackoffEnds(c)
    PROVE  TS!Refuse(c) \/ [TS!Waste]_(TS!svars)
<1>1. /\ pc[c] # "idle" /\ op[c] # "close"
      /\ \/ op[c] = "token" /\ token = 0
         \/ op[c] = "refresh" /\ ~Advanced(c)
    BY DEF IAMUnavailable, IAMUnreachable, IAMDenies, SendAborted,
        BackoffEnds, IInv, Safe, FetchHoldsLock, FetchIsNeeded, Fetching
<1>2. UNCHANGED <<token, gen, op, stale>> /\ iam' \in {iam, iam + 1}
    BY DEF IAMUnavailable, IAMUnreachable, IAMDenies, SendAborted,
        BackoffEnds, cacheVars, callVars
<1>3. \/ \E e : Return(c, Failure(e))
      \/ \E p \in {"sent", "backoff"} :
            pc' = [pc EXCEPT ![c] = p] /\ UNCHANGED ans
    BY DEF IAMUnavailable, IAMUnreachable, IAMDenies, SendAborted,
        BackoffEnds, RetryOrFail, FetchFails
<1> QED
    BY <1>1, <1>2, <1>3, FailureRefines, FetchingRefines DEF IInv

\* Taking the lock either answers at once or starts a fetch.
LEMMA LockStepRefines ==
    ASSUME IInv, NEW c \in Callers, Token(c) \/ Refresh(c)
    PROVE  TS!Serve(c) \/ TS!Refuse(c) \/ [TS!Waste]_(TS!svars)
<1>1. pc[c] = "lock" /\ UNCHANGED <<token, gen, iam, op, stale>>
    BY DEF Token, Refresh, cacheVars, callVars
<1>2. \/ /\ \/ op[c] = "token" /\ token # 0
            \/ op[c] = "refresh" /\ Advanced(c)
         /\ Return(c, Success(token, gen))
      \/ /\ \/ op[c] = "token" /\ token = 0
            \/ op[c] = "refresh" /\ ~Advanced(c)
         /\ FetchLocked(c)
    BY DEF Token, Refresh
<1>3. FetchLocked(c) =>
         \/ Return(c, Failure("authctx"))
         \/ pc' = [pc EXCEPT ![c] = "sent"] /\ UNCHANGED ans
    BY DEF FetchLocked
<1> QED
    BY <1>1, <1>2, <1>3, ServedRefines, FailureRefines, FetchingRefines
       DEF IInv

\* Every step of the cache is a step of the register, or invisible.
LEMMA NextRefines == IInv /\ [Next]_vars => [TS!Next]_(TS!svars)
<1> SUFFICES ASSUME IInv, [Next]_vars PROVE [TS!Next]_(TS!svars)
    OBVIOUS
<1>1. ASSUME NEW c \in Callers, Invoke(c) PROVE [TS!Next]_(TS!svars)
    BY <1>1, InvokeRefines DEF IInv
<1>2. ASSUME NEW c \in Callers, ContextDone(c) PROVE [TS!Next]_(TS!svars)
    BY <1>2 DEF ContextDone, cacheVars, callVars, TS!svars, AbstractRequest,
        AbstractReply
<1>3. ASSUME NEW c \in Callers, Token(c) \/ Refresh(c)
      PROVE  [TS!Next]_(TS!svars)
    BY <1>3, LockStepRefines DEF TS!Next
<1>4. ASSUME NEW c \in Callers, EnterOnce(c) \/ Close(c)
      PROVE  [TS!Next]_(TS!svars)
    BY <1>4, CloseRefines DEF TS!Next
<1>5. ASSUME NEW c \in Callers, IAMGrants(c) PROVE [TS!Next]_(TS!svars)
    BY <1>5, GrantedRefines DEF TS!Next
<1>6. ASSUME NEW c \in Callers,
             IAMUnavailable(c) \/ IAMUnreachable(c) \/ IAMDenies(c)
                 \/ SendAborted(c) \/ BackoffEnds(c)
      PROVE  [TS!Next]_(TS!svars)
    BY <1>6, FetchStepRefines DEF TS!Next
<1>7. CASE UNCHANGED vars
    BY <1>7 DEF vars, TS!svars, AbstractRequest, AbstractReply
<1> QED
    BY <1>1, <1>2, <1>3, <1>4, <1>5, <1>6, <1>7 DEF Next, CallStep, Network

\* The mutex-protected cache implements the atomic token register.
THEOREM Refinement == Spec => ImplementsTokenService
<1>1. Spec => TS!Init
    BY InitRefines DEF Spec
<1>2. IInv /\ [Next]_vars => [TS!Next]_(TS!svars)
    BY NextRefines
<1> QED
    BY <1>1, <1>2, Invariance, PTL DEF Spec, ImplementsTokenService, TS!Spec
=============================================================================
