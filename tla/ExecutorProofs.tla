--------------------------- MODULE ExecutorProofs ---------------------------
(***************************************************************************)
(* What the request funnel guarantees for every set of goroutines, every   *)
(* retry budget and every number of tokens.  The inductive invariant IInv  *)
(* says, for each call, what it has asked the Authenticator, how much of   *)
(* its budget it has used, and how the tokens it holds or was denied       *)
(* compare with the one in the cache, which other goroutines move.         *)
(***************************************************************************)
EXTENDS Executor, TLAPS

\* A call waits for the Authenticator in two places, and there reports no
\* generation (Token), or the one its rejected token came with (Refresh).
Asked(c) ==
    /\ pc[c] = "token" => request[c] = -1
    /\ pc[c] = "refresh" => request[c] = call[c].usedGen
    /\ pc[c] \notin {"token", "refresh"} => request[c] = -2

\* What remains of the budget: strictly less is sent before a send, and a
\* backoff is entered only with an attempt left.
Budgeted(c) ==
    LET l == call[c]
        extra == IF l.refreshed THEN 1 ELSE 0
    IN  /\ 1 <= l.attempt /\ l.attempt <= Budget(ConfiguredAttempts)
        /\ l.sends <= l.attempt + extra
        /\ pc[c] \in {"token", "send"} => l.sends < l.attempt + extra
        /\ pc[c] \in {"refresh", "resend"} => l.refreshed /\ l.sends <= l.attempt
        /\ pc[c] = "backoff" => l.attempt < Budget(ConfiguredAttempts)
        /\ pc[c] = "idle" => l = Fresh

\* Nothing a call holds is ahead of the cache's counters.
Known(c) ==
    /\ call[c].usedGen <= epoch
    /\ call[c].tok <= issued
    /\ call[c].denied <= issued

\* The cache holds a token newer than t.
Newer(t) == current # 0 => current > t

\* How the cached token compares with those of a call: newer than the one it
\* sent, if the generation moved; newer than the one it was denied, except
\* while it waits for the refresh that the generation of the rejected token
\* asks for.
Ordered(c) ==
    LET l == call[c]
    IN  /\ l.refreshed <=> l.denied > 0
        /\ pc[c] \in {"send", "resend", "refresh"} => l.tok > 0
        /\ pc[c] \in {"send", "refresh"} /\ epoch > l.usedGen => Newer(l.tok)
        /\ pc[c] = "refresh" => l.denied = l.tok /\ l.usedGen \in rejected
        /\ pc[c] # "refresh" => Newer(l.denied)

\* The cache holds no token that was not issued.
CachedWasIssued == current <= issued

\* The two promises about a rejected token, for one call.
PastDenied(c) ==
    /\ pc[c] \in {"send", "resend"} => call[c].tok > call[c].denied
    /\ pc[c] = "body" /\ status[c] = 401 =>
          call[c].denied > 0 /\ call[c].tok > call[c].denied

CallSafe(c) == Asked(c) /\ Budgeted(c) /\ Known(c) /\ Ordered(c) /\ PastDenied(c)

Safe == CachedWasIssued /\ \A c \in Callers : CallSafe(c)

IInv == TypeOK /\ BodiesAccounted /\ TimerLifetime /\ Safe

-----------------------------------------------------------------------------
(* Type correctness.  Closing a body keeps open[c] a natural number only   *)
(* because one is open, so BodiesAccounted is proved along.                *)

\* The budget allows at least one attempt, and retry.Do never exceeds it.
LEMMA BudgetPositive ==
    ASSUME ConstantsOK
    PROVE  Budget(ConfiguredAttempts) \in Nat /\ 1 <= Budget(ConfiguredAttempts)
BY DEF ConstantsOK, Budget, ConfiguredAttempts, Configured, DefaultAttempts

\* The variables that Fail, Continue and Retry assign have their types.
CallTyped ==
    /\ pc \in [Callers -> Pcs]
    /\ call \in [Callers -> Locals]
    /\ ctxErr \in [Callers -> BOOLEAN]
    /\ timer \in [Callers -> {"none", "armed", "released"}]
    /\ result \in [Callers -> Results]
    /\ status \in [Callers -> {0} \cup Statuses]

\* The locals of a call about to begin are locals.
LEMMA FreshType == Fresh \in Locals
BY DEF Fresh, Locals

\* Ending a call with an error keeps the types.
LEMMA FailType ==
    ASSUME CallTyped, NEW c \in Callers, NEW err \in Results, Fail(c, err)
    PROVE  CallTyped'
BY FreshType DEF Fail, Goto, CancelTimeout, CallTyped, Pcs

\* So does going on with other locals.
LEMMA ContinueType ==
    ASSUME CallTyped, NEW c \in Callers, NEW p \in Pcs, NEW l \in Locals,
           Continue(c, p, l)
    PROVE  CallTyped'
BY DEF Continue, Goto, ctxVars, CallTyped

\* So does a retryable failure.
LEMMA RetryType ==
    ASSUME CallTyped, NEW c \in Callers, NEW l \in Locals, Retry(c, l)
    PROVE  CallTyped'
<1>1. "backoff" \in Pcs /\ "comm" \in Results
    BY DEF Pcs, Results
<1> QED
    BY <1>1, FailType, ContinueType DEF Retry

\* The locals after a send are locals.
LEMMA SentType ==
    ASSUME CallTyped, NEW c \in Callers
    PROVE  /\ Sent(c) \in Locals
           /\ [Sent(c) EXCEPT !.vetoed = TRUE] \in Locals
           /\ [Sent(c) EXCEPT !.refreshed = TRUE, !.denied = call[c].tok] \in Locals
<1>1. call[c] \in Locals
    BY DEF CallTyped
<1>2. Sent(c) \in Locals
    BY <1>1 DEF Sent, Locals
<1>3. call[c].tok \in Nat
    BY <1>1 DEF Locals
<1> QED
    BY <1>2, <1>3 DEF Locals

\* What the Authenticator's answers keep well-typed.
AuthTyped ==
    /\ current \in Nat /\ epoch \in Nat /\ issued \in Nat
    /\ request \in [Callers -> Int]
    /\ reply \in [Callers -> [token : Nat, gen : Nat]]

\* A question to the Authenticator keeps the types.
LEMMA AskType ==
    ASSUME AuthTyped, NEW c \in Callers, NEW g \in Int, Auth!Ask(c, g)
    PROVE  AuthTyped'
BY DEF Auth!Ask, Auth!Refusal, AuthTyped

\* So does its answer.
LEMMA AnswerType ==
    ASSUME AuthTyped, NEW c \in Callers, Answer(c)
    PROVE  AuthTyped'
<1>1. CASE Auth!Serve(c)
    BY <1>1 DEF Auth!Serve, Auth!Finish, Auth!Quiet, AuthTyped
<1>2. CASE Auth!Renew(c)
    BY <1>2 DEF Auth!Renew, Auth!Finish, Auth!Quiet, AuthTyped
<1>3. CASE Auth!Refuse(c)
    BY <1>3 DEF Auth!Refuse, Auth!Finish, Auth!Quiet, Auth!Refusal, AuthTyped
<1> QED
    BY <1>1, <1>2, <1>3 DEF Answer

\* The state as its four parts, before and after a step.
LEMMA TypeParts ==
    /\ TypeOK <=> /\ CallTyped /\ AuthTyped
                  /\ open \in [Callers -> Nat]
                  /\ rejected \in SUBSET Nat
    /\ TypeOK' <=> /\ CallTyped' /\ AuthTyped'
                   /\ open' \in [Callers -> Nat]
                   /\ rejected' \in SUBSET Nat
BY DEF TypeOK, CallTyped, AuthTyped

Typed == TypeOK /\ BodiesAccounted

\* The state is well-typed at first, and no body is open.
LEMMA InitType == Init => Typed
<1> SUFFICES ASSUME Init PROVE Typed
    OBVIOUS
<1>1. CallTyped
    BY FreshType DEF Init, CallTyped, Pcs, Results
<1>2. AuthTyped
    BY DEF Init, Auth!Init, Auth!Quiet, Auth!Refusal, AuthTyped
<1> QED
    BY <1>1, <1>2, TypeParts DEF Init, Typed, BodiesAccounted

\* A send that is classified keeps the types and accounts for its body.
LEMMA ClassifiedType ==
    ASSUME Typed, NEW c \in Callers, NEW s \in Statuses, NEW g \in Nat,
           pc[c] \in {"send", "resend"}, Classified(c, s, open[c] + 1),
           Rejects(s, g), UNCHANGED authVars
    PROVE  Typed'
<1>1. CallTyped /\ AuthTyped /\ open \in [Callers -> Nat] /\ open[c] = 0
    BY TypeParts DEF Typed, BodiesAccounted
<1>2. AuthTyped'
    BY <1>1 DEF AuthTyped, authVars
<1>3. rejected' \in SUBSET Nat
  <2>1. rejected \in SUBSET Nat
    BY TypeParts DEF Typed
  <2> QED
    BY <2>1 DEF Rejects
<1>4. Sent(c) \in Locals
    BY <1>1, SentType
<1>5. CASE ClassifyStatus(s) # "retry"
  <2>1. /\ Goto(c, "body")
        /\ call' = [call EXCEPT ![c] = Sent(c)]
        /\ result' = [result EXCEPT ![c] = "response"]
        /\ status' = [status EXCEPT ![c] = s]
        /\ open' = [open EXCEPT ![c] = open[c] + 1]
        /\ ctxErr' = ctxErr /\ timer' = timer
    BY <1>5 DEF Classified, ctxVars
  <2>2. CallTyped'
    BY <1>1, <1>4, <2>1 DEF Goto, CallTyped, Pcs, Results
  <2>3. open' \in [Callers -> Nat] /\ BodiesAccounted'
    BY <1>1, <2>1 DEF Goto, Typed, BodiesAccounted, CallTyped
  <2> QED
    BY <1>2, <1>3, <2>2, <2>3, TypeParts DEF Typed
<1>6. CASE ClassifyStatus(s) = "retry"
  <2>1. Retry(c, Sent(c)) /\ open' = [open EXCEPT ![c] = Drain(open[c] + 1)]
    BY <1>6 DEF Classified
  <2>2. CallTyped'
    BY <1>1, <1>4, <2>1, RetryType
  <2>3. open' = open
    BY <1>1, <2>1 DEF Drain
  <2>4. BodiesAccounted'
    BY <1>1, <2>1, <2>3 DEF Retry, Fail, Continue, Goto, Typed,
        BodiesAccounted, CallTyped
  <2> QED
    BY <1>1, <1>2, <1>3, <2>2, <2>3, <2>4, TypeParts DEF Typed
<1> QED
    BY <1>5, <1>6

\* Failing, or waiting to try again, opens and closes nothing.
LEMMA NoBodyMoves ==
    ASSUME Typed, NEW c \in Callers, NEW p \in Pcs \ {"body"},
           pc[c] # "body", pc' = [pc EXCEPT ![c] = p], open' = open
    PROVE  BodiesAccounted' /\ open' \in [Callers -> Nat]
BY DEF Typed, TypeOK, BodiesAccounted

\* The goroutine that the Authenticator answers goes on, or fails.
LEMMA AnsweredType ==
    ASSUME Typed, NEW c \in Callers, pc[c] \in {"token", "refresh"},
           Answer(c), UNCHANGED <<open, rejected>>,
           \/ \E p \in {"send", "resend"}, l \in Locals : Continue(c, p, l)
           \/ \E err \in {"auth", "comm"} : Fail(c, err)
    PROVE  Typed'
<1>1. CallTyped /\ AuthTyped /\ rejected \in SUBSET Nat
    BY TypeParts DEF Typed
<1>2. AuthTyped'
    BY <1>1, AnswerType
<1>3. CallTyped' /\ \E p \in Pcs \ {"body"} : pc' = [pc EXCEPT ![c] = p]
  <2>1. CASE \E p \in {"send", "resend"}, l \in Locals : Continue(c, p, l)
    BY <1>1, <2>1, ContinueType DEF Continue, Goto, Pcs
  <2>2. CASE \E err \in {"auth", "comm"} : Fail(c, err)
    BY <1>1, <2>2, FailType DEF Fail, Goto, Pcs, Results
  <2> QED
    BY <2>1, <2>2
<1>4. BodiesAccounted' /\ open' \in [Callers -> Nat]
    BY <1>3, NoBodyMoves
<1> QED
    BY <1>1, <1>2, <1>3, <1>4, TypeParts DEF Typed

\* So does one whose send failed: it waits to try again, or fails.
LEMMA NotSentType ==
    ASSUME Typed, NEW c \in Callers, pc[c] \in {"send", "resend"},
           NEW l \in Locals, Retry(c, l) \/ Fail(c, "comm"),
           UNCHANGED <<authVars, open, rejected>>
    PROVE  Typed'
<1>1. CallTyped /\ AuthTyped /\ rejected \in SUBSET Nat
    BY TypeParts DEF Typed
<1>2. AuthTyped'
    BY <1>1 DEF AuthTyped, authVars
<1>3. CallTyped'
    BY <1>1, RetryType, FailType DEF Results
<1>4. \E p \in Pcs \ {"body"} : pc' = [pc EXCEPT ![c] = p]
    BY DEF Retry, Fail, Continue, Goto, Pcs
<1>5. BodiesAccounted' /\ open' \in [Callers -> Nat]
    BY <1>4, NoBodyMoves
<1> QED
    BY <1>1, <1>2, <1>3, <1>5, TypeParts DEF Typed

\* A call that asks the Authenticator opens and closes nothing.
LEMMA AskingType ==
    ASSUME Typed, NEW c \in Callers, NEW p \in {"token", "refresh"},
           NEW g \in Int, pc[c] # "body",
           pc' = [pc EXCEPT ![c] = p], CallTyped', Auth!Ask(c, g),
           open' = open, rejected' \in SUBSET Nat
    PROVE  Typed'
<1>1. AuthTyped'
    BY AskType, TypeParts DEF Typed
<1>2. BodiesAccounted' /\ open' \in [Callers -> Nat]
    BY NoBodyMoves DEF Pcs
<1> QED
    BY <1>1, <1>2, TypeParts DEF Typed

\* The state stays well-typed, and its bodies accounted for.
LEMMA NextType == Typed /\ [Next]_vars => Typed'
<1> SUFFICES ASSUME Typed, [Next]_vars PROVE Typed'
    OBVIOUS
<1>1. /\ CallTyped /\ AuthTyped /\ open \in [Callers -> Nat]
      /\ rejected \in SUBSET Nat
    BY TypeParts DEF Typed
<1>2. ASSUME NEW c \in Callers, RejectRequest(c) \/ CannotStart(c)
      PROVE  Typed'
  <2>1. CallTyped'
    BY <1>1, <1>2 DEF RejectRequest, CannotStart, ctxVars, CallTyped, Results
  <2>2. /\ UNCHANGED <<authVars, pc, open, rejected>>
    BY <1>2 DEF RejectRequest, CannotStart
  <2>3. AuthTyped' /\ BodiesAccounted'
    BY <1>1, <2>2 DEF authVars, AuthTyped, Typed, BodiesAccounted
  <2> QED
    BY <1>1, <2>1, <2>2, <2>3, TypeParts DEF Typed
<1>3. ASSUME NEW c \in Callers, Do(c) PROVE Typed'
  <2>1. CallTyped'
    BY <1>1, <1>3 DEF Do, Goto, CallTyped, Pcs, Results
  <2>2. /\ pc[c] # "body" /\ pc' = [pc EXCEPT ![c] = "token"]
        /\ Auth!Ask(c, -1) /\ UNCHANGED <<open, rejected>>
    BY <1>3 DEF Do, Goto
  <2>3. -1 \in Int
    OBVIOUS
  <2> QED
    BY <1>1, <2>1, <2>2, <2>3, AskingType
<1>4. ASSUME NEW c \in Callers, GotToken(c) \/ GotRefresh(c) PROVE Typed'
  <2>1. AuthTyped' /\ call[c] \in Locals
    BY <1>1, <1>4, AnswerType DEF GotToken, GotRefresh, CallTyped
  <2>2. reply'[c].token \in Nat /\ reply'[c].gen \in Nat
    BY <2>1 DEF AuthTyped
  <2>3. /\ [call[c] EXCEPT !.usedGen = reply'[c].gen, !.tok = reply'[c].token]
            \in Locals
        /\ [call[c] EXCEPT !.tok = reply'[c].token] \in Locals
    BY <2>1, <2>2 DEF Locals
  <2> QED
    BY <1>4, <2>3, AnsweredType DEF GotToken, GotRefresh
<1>5. ASSUME NEW c \in Callers, SendFails(c) \/ BeforeFails(c) PROVE Typed'
    BY <1>1, <1>5, SentType, NotSentType DEF SendFails, BeforeFails
<1>6. ASSUME NEW c \in Callers, Receive(c) \/ ReceiveAgain(c) PROVE Typed'
  <2>1. call[c] \in Locals /\ reply[c] \in [token : Nat, gen : Nat]
    BY <1>1 DEF CallTyped, AuthTyped
  <2>2. call[c].usedGen \in Nat /\ reply[c].gen \in Nat
    BY <2>1 DEF Locals
  <2> QED
    BY <1>6, <2>2, ClassifiedType DEF Receive, ReceiveAgain
<1>7. ASSUME NEW c \in Callers, Unauthorized(c) PROVE Typed'
  <2>1. call[c] \in Locals /\ open[c] \in Nat
    BY <1>1 DEF CallTyped
  <2>2. call[c].usedGen \in Nat
    BY <2>1 DEF Locals
  <2>3. CallTyped'
    BY <1>1, <1>7, SentType, ContinueType DEF Unauthorized, Pcs
  <2>4. open' = open
    BY <1>1, <1>7, <2>1 DEF Unauthorized, Drain
  <2>5. rejected' \in SUBSET Nat
    BY <1>1, <1>7, <2>2 DEF Unauthorized, Rejects
  <2>6. /\ pc[c] # "body" /\ pc' = [pc EXCEPT ![c] = "refresh"]
        /\ Auth!Ask(c, call[c].usedGen)
    BY <1>7 DEF Unauthorized, Continue, Goto
  <2>7. call[c].usedGen \in Int
    BY <2>2
  <2> QED
    BY <2>3, <2>4, <2>5, <2>6, <2>7, AskingType
<1>8. ASSUME NEW c \in Callers, Backoff(c) PROVE Typed'
  <2>1. CASE ctxErr[c]
    <3>1. Fail(c, "comm") /\ UNCHANGED <<authVars, open, rejected>>
      BY <1>8, <2>1 DEF Backoff
    <3>2. CallTyped'
      BY <1>1, <3>1, FailType DEF Results
    <3>3. AuthTyped'
      BY <1>1, <3>1 DEF AuthTyped, authVars
    <3>4. BodiesAccounted' /\ open' \in [Callers -> Nat]
      BY <1>8, <3>1, NoBodyMoves DEF Backoff, Fail, Goto, Pcs
    <3> QED
      BY <1>1, <3>1, <3>2, <3>3, <3>4, TypeParts DEF Typed
  <2>2. CASE ~ctxErr[c]
    <3>1. /\ Auth!Ask(c, -1) /\ UNCHANGED <<open, rejected>>
          /\ Continue(c, "token",
                 [call[c] EXCEPT !.attempt = @ + 1, !.vetoed = FALSE])
      BY <1>8, <2>2 DEF Backoff
    <3>2. call[c] \in Locals
      BY <1>1 DEF CallTyped
    <3>3. [call[c] EXCEPT !.attempt = @ + 1, !.vetoed = FALSE] \in Locals
      <4>1. call[c].attempt + 1 \in Nat
        BY <3>2 DEF Locals
      <4> QED
        BY <3>2, <4>1 DEF Locals
    <3>4. CallTyped'
      BY <1>1, <3>1, <3>3, ContinueType DEF Pcs
    <3>5. pc[c] # "body" /\ pc' = [pc EXCEPT ![c] = "token"]
      BY <1>8, <3>1 DEF Backoff, Continue, Goto
    <3>6. -1 \in Int
      OBVIOUS
    <3> QED
      BY <1>1, <3>1, <3>4, <3>5, <3>6, AskingType
  <2> QED
    BY <2>1, <2>2
<1>9. ASSUME NEW c \in Callers, CloseBody(c) PROVE Typed'
  <2>1. CallTyped'
    BY <1>1, <1>9, FreshType DEF CloseBody, CancelTimeout, Goto, CallTyped, Pcs
  <2>2. AuthTyped' /\ rejected' = rejected
    BY <1>1, <1>9 DEF CloseBody, authVars, AuthTyped
  <2>3. open[c] = 1
    BY <1>9 DEF CloseBody, Typed, BodiesAccounted
  <2>4. open' = [open EXCEPT ![c] = 0] /\ pc' = [pc EXCEPT ![c] = "idle"]
    BY <1>9, <2>3 DEF CloseBody, Goto
  <2>5. open' \in [Callers -> Nat] /\ BodiesAccounted'
    BY <1>1, <2>4 DEF Typed, BodiesAccounted, CallTyped
  <2> QED
    BY <1>1, <2>1, <2>2, <2>5, TypeParts DEF Typed
<1>10. ASSUME NEW c \in Callers, ContextDone(c) PROVE Typed'
  <2>1. CallTyped' /\ UNCHANGED <<authVars, pc, open, rejected>>
    BY <1>1, <1>10 DEF ContextDone, CallTyped
  <2>2. AuthTyped' /\ BodiesAccounted'
    BY <1>1, <2>1 DEF authVars, AuthTyped, Typed, BodiesAccounted
  <2> QED
    BY <1>1, <2>1, <2>2, TypeParts DEF Typed
<1>11. CASE Elsewhere
  <2>1. AuthTyped' /\ UNCHANGED <<pc, call, ctxVars, open, result, status, rejected>>
    BY <1>1, <1>11 DEF Elsewhere, Auth!Forget, Auth!Waste, AuthTyped
  <2>2. CallTyped' /\ BodiesAccounted'
    BY <1>1, <2>1 DEF ctxVars, CallTyped, Typed, BodiesAccounted
  <2> QED
    BY <1>1, <2>1, <2>2, TypeParts DEF Typed
<1>12. CASE UNCHANGED vars
  <2>1. CallTyped' /\ AuthTyped' /\ BodiesAccounted' /\ open' = open
        /\ rejected' = rejected
    BY <1>1, <1>12 DEF vars, authVars, ctxVars, CallTyped, AuthTyped, Typed,
        BodiesAccounted
  <2> QED
    BY <1>1, <2>1, TypeParts DEF Typed
<1> QED
    BY <1>2, <1>3, <1>4, <1>5, <1>6, <1>7, <1>8, <1>9, <1>10, <1>11, <1>12
       DEF Next, DoStep

\* Type correctness of the request funnel.
THEOREM TypeCorrect == Spec => []TypeOK
<1>1. Spec => []Typed
    BY InitType, NextType, PTL DEF Spec
<1> QED
    BY <1>1, PTL DEF Typed

\* A response body is open exactly while a caller holds the Response: Do
\* neither leaks one nor closes it under its caller.
THEOREM BodiesAreAccounted == Spec => []BodiesAccounted
<1>1. Spec => []Typed
    BY InitType, NextType, PTL DEF Spec
<1> QED
    BY <1>1, PTL DEF Typed

-----------------------------------------------------------------------------
(* The inductive invariant.                                                *)

\* How the register moves while a call looks away: its counters only grow,
\* and another token in it is one never issued before.
RegisterMoves ==
    /\ epoch' >= epoch /\ issued' >= issued
    /\ CachedWasIssued'
    /\ \/ current' = 0
       \/ current' = current /\ epoch' = epoch
       \/ current' > issued

\* What a step of one goroutine leaves alone of the call of another.
Undisturbed(d) ==
    /\ pc'[d] = pc[d] /\ call'[d] = call[d]
    /\ request'[d] = request[d] /\ status'[d] = status[d]

\* A call keeps its part of the invariant while others take steps.
LEMMA OthersKeep ==
    ASSUME TypeOK, TypeOK', Safe, NEW d \in Callers,
           RegisterMoves, rejected \subseteq rejected', Undisturbed(d)
    PROVE  CallSafe(d)'
<1>1. /\ call[d] \in [attempt : Nat, usedGen : Nat, tok : Nat,
                      refreshed : BOOLEAN, sends : Nat, denied : Nat,
                      vetoed : BOOLEAN]
      /\ current \in Nat /\ epoch \in Nat /\ issued \in Nat
      /\ current' \in Nat /\ epoch' \in Nat /\ issued' \in Nat
    BY DEF TypeOK, Locals
<1>2. CallSafe(d)
    BY DEF Safe
<1>3. Asked(d)' /\ Budgeted(d)' /\ PastDenied(d)'
    BY <1>2 DEF Undisturbed, CallSafe, Asked, Budgeted, PastDenied, Fresh
<1>4. Known(d)'
    BY <1>1, <1>2 DEF Undisturbed, CallSafe, Known, RegisterMoves
<1>5. Ordered(d)'
    BY <1>1, <1>2 DEF Undisturbed, CallSafe, Known, Ordered, Newer, RegisterMoves
<1> QED
    BY <1>3, <1>4, <1>5 DEF CallSafe

\* So a step of c preserves the invariant if it does c's own part.
LEMMA OwnPartSuffices ==
    ASSUME TypeOK, TypeOK', Safe, NEW c \in Callers,
           RegisterMoves, rejected \subseteq rejected',
           \A d \in Callers \ {c} : Undisturbed(d),
           CallSafe(c)'
    PROVE  Safe'
BY OthersKeep DEF Safe, RegisterMoves

\* Every answer of the Authenticator moves its register in that way, and
\* answers with a token only from a register that moved past the reported
\* generation, or with a new one.
LEMMA AnswerMoves ==
    ASSUME TypeOK, Safe, NEW c \in Callers, Answer(c)
    PROVE  /\ RegisterMoves
           /\ request' = [request EXCEPT ![c] = -2]
           /\ reply'[c].token # 0 =>
                 /\ reply'[c].token = current' /\ reply'[c].gen = epoch'
                 /\ current' > 0
                 /\ \/ current' = current /\ epoch' = epoch /\ epoch > request[c]
                    \/ current' > issued
<1> USE DEF TypeOK, Safe, CachedWasIssued
<1>1. CASE Auth!Serve(c)
    BY <1>1 DEF Auth!Serve, Auth!Finish, Auth!Servable, Auth!Quiet, RegisterMoves
<1>2. CASE Auth!Renew(c)
    BY <1>2 DEF Auth!Renew, Auth!Finish, Auth!Quiet, RegisterMoves
<1>3. CASE Auth!Refuse(c)
    BY <1>3 DEF Auth!Refuse, Auth!Finish, Auth!Refusal, Auth!Quiet, RegisterMoves
<1> QED
    BY <1>1, <1>2, <1>3 DEF Answer

\* A step that leaves the register alone moves it in that way, too.
LEMMA StillMoves ==
    ASSUME TypeOK, Safe, UNCHANGED <<current, epoch, issued>>
    PROVE  RegisterMoves
BY DEF TypeOK, Safe, CachedWasIssued, RegisterMoves

\* A question to the Authenticator leaves the register alone.
LEMMA AskStill ==
    ASSUME TypeOK, NEW c \in Callers, NEW g, Auth!Ask(c, g)
    PROVE  UNCHANGED <<current, epoch, issued>> /\ request' = [request EXCEPT ![c] = g]
BY DEF Auth!Ask

\* The locals after a send.
LEMMA SentFields ==
    ASSUME TypeOK, NEW c \in Callers
    PROVE  /\ Sent(c).attempt = call[c].attempt
           /\ Sent(c).sends = call[c].sends + 1
           /\ Sent(c).usedGen = call[c].usedGen
           /\ Sent(c).tok = call[c].tok
           /\ Sent(c).refreshed = call[c].refreshed
           /\ Sent(c).denied = call[c].denied
<1>1. call[c] \in Locals
    BY DEF TypeOK
<1> QED
    BY <1>1 DEF Sent, Locals

\* A call that has ended holds nothing the invariant restricts.
LEMMA EndedSafe ==
    ASSUME ConstantsOK, TypeOK', NEW c \in Callers,
           pc'[c] = "idle", call'[c] = Fresh, request'[c] = -2
    PROVE  CallSafe(c)'
<1>1. /\ Fresh.attempt = 1 /\ Fresh.sends = 0 /\ Fresh.refreshed = FALSE
      /\ Fresh.usedGen = 0 /\ Fresh.tok = 0 /\ Fresh.denied = 0
    BY DEF Fresh
<1>2. current' \in Nat /\ epoch' \in Nat /\ issued' \in Nat
    BY DEF TypeOK
<1> QED
    BY <1>1, <1>2, BudgetPositive DEF CallSafe, Asked, Budgeted, Known, Ordered,
       Newer, PastDenied

\* A call that has sent and goes on, to a backoff or to its caller, keeps the
\* invariant: the budget had room for the send.
LEMMA SentSafe ==
    ASSUME TypeOK, TypeOK', Safe, NEW c \in Callers,
           pc[c] \in {"send", "resend"}, pc'[c] \in {"backoff", "body"},
           call'[c].attempt = call[c].attempt,
           call'[c].sends = call[c].sends + 1,
           call'[c].usedGen = call[c].usedGen,
           call'[c].tok = call[c].tok,
           call'[c].refreshed = call[c].refreshed,
           call'[c].denied = call[c].denied,
           pc'[c] = "backoff" => call[c].attempt < Budget(ConfiguredAttempts),
           pc'[c] = "body" /\ status'[c] = 401 => call[c].refreshed,
           UNCHANGED <<current, epoch, issued, request>>
    PROVE  CallSafe(c)'
<1>1. call[c] \in [attempt : Nat, usedGen : Nat, tok : Nat,
                   refreshed : BOOLEAN, sends : Nat, denied : Nat,
                   vetoed : BOOLEAN]
      /\ current \in Nat
    BY DEF TypeOK, Locals
<1>2. CallSafe(c)
    BY DEF Safe
<1>3. Asked(c)' /\ Known(c)'
    BY <1>2 DEF CallSafe, Asked, Known
<1>4. Budgeted(c)'
    BY <1>1, <1>2 DEF CallSafe, Budgeted
<1>5. Ordered(c)' /\ PastDenied(c)'
    BY <1>1, <1>2 DEF CallSafe, Ordered, Newer, PastDenied
<1> QED
    BY <1>3, <1>4, <1>5 DEF CallSafe

\* A send that failed, to be tried again or not, keeps the invariant.
LEMMA RetrySafe ==
    ASSUME ConstantsOK, TypeOK, TypeOK', Safe, NEW c \in Callers,
           pc[c] \in {"send", "resend"}, NEW l,
           l.attempt = call[c].attempt, l.sends = call[c].sends + 1,
           l.usedGen = call[c].usedGen, l.tok = call[c].tok,
           l.refreshed = call[c].refreshed, l.denied = call[c].denied,
           Retry(c, l) \/ Fail(c, "comm"),
           UNCHANGED authVars, rejected \subseteq rejected'
    PROVE  Safe'
<1>1. UNCHANGED <<current, epoch, issued, request>>
    BY DEF authVars
<1>2. \A d \in Callers \ {c} : Undisturbed(d)
    BY <1>1 DEF Retry, Continue, Fail, Goto, Undisturbed, TypeOK
<1>3. CASE Fail(c, "comm")
  <2>1. pc'[c] = "idle" /\ call'[c] = Fresh /\ request'[c] = -2
    BY <1>1, <1>3 DEF Fail, Goto, TypeOK, Safe, CallSafe, Asked
  <2> QED
    BY <1>1, <1>2, <2>1, EndedSafe, StillMoves, OwnPartSuffices
<1>4. CASE ~Fail(c, "comm")
  <2>1. /\ l.attempt < Budget(ConfiguredAttempts)
        /\ pc'[c] = "backoff" /\ call'[c] = l
    BY <1>4 DEF Retry, MayRetry, Continue, Goto, TypeOK
  <2>2. CallSafe(c)'
    BY <1>1, <2>1, SentSafe
  <2> QED
    BY <1>1, <1>2, <2>2, StillMoves, OwnPartSuffices
<1> QED
    BY <1>3, <1>4

\* So does the classification of a response: a 401 goes to the caller only
\* after a refresh.
LEMMA ClassifiedSafe ==
    ASSUME ConstantsOK, TypeOK, TypeOK', Safe, NEW c \in Callers,
           pc[c] \in {"send", "resend"}, NEW s \in Statuses, NEW n, NEW g,
           Classified(c, s, n), Rejects(s, g),
           s = 401 => call[c].refreshed,
           UNCHANGED authVars
    PROVE  Safe'
<1>1. UNCHANGED <<current, epoch, issued, request>> /\ rejected \subseteq rejected'
    BY DEF authVars, Rejects
<1>2. CASE ClassifyStatus(s) # "retry"
  <2>1. pc'[c] = "body" /\ call'[c] = Sent(c) /\ status'[c] = s
    BY <1>2 DEF Classified, Goto, TypeOK
  <2>2. \A d \in Callers \ {c} : Undisturbed(d)
    BY <1>1, <1>2 DEF Classified, Goto, Undisturbed, TypeOK
  <2>3. CallSafe(c)'
    BY <1>1, <2>1, SentFields, SentSafe
  <2> QED
    BY <1>1, <2>2, <2>3, StillMoves, OwnPartSuffices
<1>3. CASE ClassifyStatus(s) = "retry"
    BY <1>1, <1>3, SentFields, RetrySafe DEF Classified
<1> QED
    BY <1>2, <1>3

\* A call asks for a token only between attempts: first, or with budget left.
LEMMA AskTokenSafe ==
    ASSUME ConstantsOK, TypeOK, TypeOK', Safe, NEW c \in Callers,
           pc[c] = "idle" \/ pc[c] = "backoff",
           Auth!Ask(c, -1), pc' = [pc EXCEPT ![c] = "token"],
           \A d \in Callers \ {c} : call'[d] = call[d],
           call'[c].attempt =
               IF pc[c] = "backoff" THEN call[c].attempt + 1 ELSE call[c].attempt,
           call'[c].sends = call[c].sends,
           call'[c].usedGen = call[c].usedGen,
           call'[c].tok = call[c].tok,
           call'[c].refreshed = call[c].refreshed,
           call'[c].denied = call[c].denied,
           UNCHANGED <<status, rejected>>
    PROVE  Safe'
<1>1. UNCHANGED <<current, epoch, issued>> /\ request' = [request EXCEPT ![c] = -1]
    BY AskStill
<1>2. /\ call[c] \in [attempt : Nat, usedGen : Nat, tok : Nat,
                      refreshed : BOOLEAN, sends : Nat, denied : Nat,
                      vetoed : BOOLEAN]
      /\ pc'[c] = "token" /\ request'[c] = -1
    BY <1>1 DEF TypeOK, Locals
<1>3. CallSafe(c)
    BY DEF Safe
<1>4. Budgeted(c)'
  <2>1. CASE pc[c] = "idle"
    BY <1>2, <1>3, <2>1 DEF CallSafe, Budgeted, Fresh
  <2>2. CASE pc[c] = "backoff"
    BY <1>2, <1>3, <2>2, BudgetPositive DEF CallSafe, Budgeted
  <2> QED
    BY <2>1, <2>2
<1>5. Asked(c)' /\ Known(c)' /\ Ordered(c)' /\ PastDenied(c)'
    BY <1>1, <1>2, <1>3 DEF CallSafe, Asked, Known, Ordered, Newer, PastDenied
<1>6. \A d \in Callers \ {c} : Undisturbed(d)
    BY <1>1 DEF Undisturbed, TypeOK
<1> QED
    BY <1>1, <1>4, <1>5, <1>6, StillMoves, OwnPartSuffices DEF CallSafe

\* The token a call is answered with is newer than the one it was denied,
\* whether it asked anew or for a refresh.
LEMMA AnsweredSafe ==
    ASSUME ConstantsOK, TypeOK, TypeOK', Safe, NEW c \in Callers,
           GotToken(c) \/ GotRefresh(c)
    PROVE  Safe'
<1>1. /\ Answer(c) /\ rejected' = rejected
      /\ pc[c] = "token" \/ pc[c] = "refresh"
    BY DEF GotToken, GotRefresh
<1>2. /\ call[c] \in [attempt : Nat, usedGen : Nat, tok : Nat,
                      refreshed : BOOLEAN, sends : Nat, denied : Nat,
                      vetoed : BOOLEAN]
      /\ current \in Nat /\ epoch \in Nat /\ issued \in Nat
      /\ current' \in Nat /\ epoch' \in Nat /\ issued' \in Nat
    BY DEF TypeOK, Locals
<1>3. CallSafe(c) /\ current <= issued
    BY DEF Safe, CachedWasIssued
<1>4. RegisterMoves /\ request' = [request EXCEPT ![c] = -2]
    BY <1>1, AnswerMoves
<1>5. \A d \in Callers \ {c} : Undisturbed(d)
    BY <1>4 DEF GotToken, GotRefresh, Continue, Fail, Goto, Undisturbed, TypeOK
<1>6. CASE reply'[c].token = 0
  <2>1. pc'[c] = "idle" /\ call'[c] = Fresh
    BY <1>6 DEF GotToken, GotRefresh, Fail, Goto, TypeOK
  <2> QED
    BY <1>1, <1>4, <1>5, <2>1, EndedSafe, OwnPartSuffices DEF TypeOK
<1>7. CASE reply'[c].token # 0
  <2>1. /\ reply'[c].token = current' /\ reply'[c].gen = epoch' /\ current' > 0
        /\ \/ current' = current /\ epoch' = epoch /\ epoch > request[c]
           \/ current' > issued
    BY <1>1, <1>7, AnswerMoves
  <2>2. /\ pc'[c] = IF pc[c] = "token" THEN "send" ELSE "resend"
        /\ request'[c] = -2
    BY <1>4, <1>7 DEF GotToken, GotRefresh, Continue, Goto, TypeOK
  <2>3. /\ call'[c].attempt = call[c].attempt /\ call'[c].sends = call[c].sends
        /\ call'[c].refreshed = call[c].refreshed
        /\ call'[c].denied = call[c].denied
        /\ call'[c].tok = current'
        /\ call'[c].usedGen = IF pc[c] = "token" THEN epoch' ELSE call[c].usedGen
    <3>1. CASE pc[c] = "token"
      <4>1. call'[c] = [call[c] EXCEPT !.usedGen = reply'[c].gen,
                                       !.tok = reply'[c].token]
        BY <1>7, <3>1 DEF GotToken, GotRefresh, Continue, TypeOK
      <4> QED
        BY <1>2, <2>1, <3>1, <4>1
    <3>2. CASE pc[c] = "refresh"
      <4>1. call'[c] = [call[c] EXCEPT !.tok = reply'[c].token]
        BY <1>7, <3>2 DEF GotToken, GotRefresh, Continue, TypeOK
      <4> QED
        BY <1>2, <2>1, <3>2, <4>1
    <3> QED
      BY <1>1, <3>1, <3>2
  <2>4. current' > call[c].denied
    BY <1>1, <1>2, <1>3, <2>1 DEF CallSafe, Asked, Known, Ordered, Newer
  <2>5. Asked(c)' /\ Known(c)'
    BY <1>2, <1>3, <1>4, <2>2, <2>3
       DEF CallSafe, Asked, Known, RegisterMoves, CachedWasIssued
  <2>6. Budgeted(c)'
    BY <1>1, <1>2, <1>3, <2>2, <2>3 DEF CallSafe, Budgeted
  <2>7. Ordered(c)' /\ PastDenied(c)'
    BY <1>1, <1>2, <1>3, <2>1, <2>2, <2>3, <2>4
       DEF CallSafe, Ordered, Newer, PastDenied
  <2> QED
    BY <1>1, <1>4, <1>5, <2>5, <2>6, <2>7, OwnPartSuffices DEF CallSafe
<1> QED
    BY <1>6, <1>7

\* The first 401 of a call reports the generation of the token it rejects,
\* which the cache cannot hold any more once its generation has moved.
LEMMA UnauthorizedSafe ==
    ASSUME TypeOK, TypeOK', Safe, NEW c \in Callers, Unauthorized(c)
    PROVE  Safe'
<1>1. /\ call[c] \in [attempt : Nat, usedGen : Nat, tok : Nat,
                      refreshed : BOOLEAN, sends : Nat, denied : Nat,
                      vetoed : BOOLEAN]
      /\ current \in Nat
    BY DEF TypeOK, Locals
<1>2. CallSafe(c)
    BY DEF Safe
<1>3. /\ UNCHANGED <<current, epoch, issued, status>>
      /\ request' = [request EXCEPT ![c] = call[c].usedGen]
      /\ rejected \subseteq rejected' /\ call[c].usedGen \in rejected'
    BY AskStill DEF Unauthorized, Continue, Rejects
<1>4. /\ pc[c] = "send" /\ ~call[c].refreshed
      /\ pc'[c] = "refresh" /\ request'[c] = call[c].usedGen
      /\ call'[c] = [Sent(c) EXCEPT !.refreshed = TRUE, !.denied = call[c].tok]
    BY <1>3 DEF Unauthorized, Continue, Goto, TypeOK
<1>5. /\ call'[c].attempt = call[c].attempt
      /\ call'[c].sends = call[c].sends + 1
      /\ call'[c].usedGen = call[c].usedGen
      /\ call'[c].tok = call[c].tok
      /\ call'[c].refreshed = TRUE
      /\ call'[c].denied = call[c].tok
    BY <1>1, <1>4 DEF Sent
<1>6. \A d \in Callers \ {c} : Undisturbed(d)
    BY <1>3 DEF Unauthorized, Continue, Goto, Undisturbed, TypeOK
<1>7. Asked(c)' /\ Known(c)'
    BY <1>2, <1>3, <1>4, <1>5 DEF CallSafe, Asked, Known
<1>8. Budgeted(c)'
    BY <1>1, <1>2, <1>4, <1>5 DEF CallSafe, Budgeted
<1>9. Ordered(c)' /\ PastDenied(c)'
    BY <1>1, <1>2, <1>3, <1>4, <1>5 DEF CallSafe, Ordered, Newer, PastDenied
<1> QED
    BY <1>3, <1>6, <1>7, <1>8, <1>9, StillMoves, OwnPartSuffices DEF CallSafe

\* Nothing is asked, counted or held at first.
LEMMA InitSafe == ConstantsOK /\ Init => Safe
<1> SUFFICES ASSUME ConstantsOK, Init PROVE Safe
    OBVIOUS
<1>1. CachedWasIssued
    BY DEF Init, Auth!Init, CachedWasIssued
<1>2. ASSUME NEW c \in Callers PROVE CallSafe(c)
  <2>1. /\ pc[c] = "idle" /\ call[c] = Fresh /\ request[c] = -2
        /\ current = 0 /\ epoch = 0 /\ issued = 0
    BY DEF Init, Auth!Init, Auth!Quiet
  <2>2. /\ Fresh.attempt = 1 /\ Fresh.sends = 0 /\ Fresh.refreshed = FALSE
        /\ Fresh.usedGen = 0 /\ Fresh.tok = 0 /\ Fresh.denied = 0
    BY DEF Fresh
  <2> QED
    BY <2>1, <2>2, BudgetPositive DEF CallSafe, Asked, Budgeted, Known, Ordered,
       Newer, PastDenied
<1> QED
    BY <1>1, <1>2 DEF Safe

\* Every step preserves the invariant.
LEMMA NextSafe ==
    ASSUME ConstantsOK, TypeOK, TypeOK', Safe, [Next]_vars
    PROVE  Safe'
<1>1. ASSUME NEW c \in Callers,
             RejectRequest(c) \/ CannotStart(c) \/ ContextDone(c)
      PROVE  Safe'
  <2>1. UNCHANGED <<current, epoch, issued, request, pc, call, status, rejected>>
    BY <1>1 DEF RejectRequest, CannotStart, ContextDone, authVars
  <2> QED
    BY <2>1, StillMoves, OthersKeep DEF Safe, Undisturbed, RegisterMoves
<1>2. ASSUME NEW c \in Callers, Do(c) PROVE Safe'
    BY <1>2, AskTokenSafe DEF Do, Goto
<1>3. ASSUME NEW c \in Callers, GotToken(c) \/ GotRefresh(c) PROVE Safe'
    BY <1>3, AnsweredSafe
<1>4. ASSUME NEW c \in Callers, SendFails(c) PROVE Safe'
    BY <1>4, SentFields, RetrySafe DEF SendFails
<1>5. ASSUME NEW c \in Callers, BeforeFails(c) PROVE Safe'
  <2> DEFINE l == [Sent(c) EXCEPT !.vetoed = TRUE]
  <2>1. Sent(c) \in Locals
    BY SentType, TypeParts
  <2>2. /\ l.attempt = Sent(c).attempt /\ l.sends = Sent(c).sends
        /\ l.usedGen = Sent(c).usedGen /\ l.tok = Sent(c).tok
        /\ l.refreshed = Sent(c).refreshed /\ l.denied = Sent(c).denied
    BY <2>1 DEF Locals
  <2>3. /\ pc[c] \in {"send", "resend"}
        /\ Retry(c, l) \/ Fail(c, "comm")
        /\ UNCHANGED authVars /\ rejected \subseteq rejected'
    BY <1>5 DEF BeforeFails
  <2> HIDE DEF l
  <2> QED
    BY <2>2, <2>3, SentFields, RetrySafe
<1>6. ASSUME NEW c \in Callers, Receive(c) PROVE Safe'
  <2>1. PICK s \in Statuses :
          /\ ~(s = 401 /\ ~call[c].refreshed)
          /\ Classified(c, s, open[c] + 1)
          /\ Rejects(s, call[c].usedGen)
    BY <1>6 DEF Receive
  <2> QED
    BY <1>6, <2>1, ClassifiedSafe DEF Receive
<1>7. ASSUME NEW c \in Callers, ReceiveAgain(c) PROVE Safe'
  <2>1. PICK s \in Statuses :
          Classified(c, s, open[c] + 1) /\ Rejects(s, reply[c].gen)
    BY <1>7 DEF ReceiveAgain
  <2>2. call[c].refreshed
    BY <1>7 DEF ReceiveAgain, Safe, CallSafe, Budgeted
  <2> QED
    BY <1>7, <2>1, <2>2, ClassifiedSafe DEF ReceiveAgain
<1>8. ASSUME NEW c \in Callers, Unauthorized(c) PROVE Safe'
    BY <1>8, UnauthorizedSafe
<1>9. ASSUME NEW c \in Callers, Backoff(c) PROVE Safe'
  <2>1. CASE ctxErr[c]
    <3>1. Fail(c, "comm") /\ UNCHANGED <<authVars, rejected>> /\ pc[c] = "backoff"
      BY <1>9, <2>1 DEF Backoff
    <3>2. UNCHANGED <<current, epoch, issued, request>>
      BY <3>1 DEF authVars
    <3>3. pc'[c] = "idle" /\ call'[c] = Fresh /\ request'[c] = -2
      BY <3>1, <3>2 DEF Fail, Goto, TypeOK, Safe, CallSafe, Asked
    <3>4. \A d \in Callers \ {c} : Undisturbed(d)
      BY <3>1, <3>2 DEF Fail, Goto, Undisturbed, TypeOK
    <3> QED
      BY <3>1, <3>2, <3>3, <3>4, EndedSafe, StillMoves, OwnPartSuffices
  <2>2. CASE ~ctxErr[c]
    <3>1. /\ pc[c] = "backoff" /\ Auth!Ask(c, -1) /\ UNCHANGED <<status, rejected>>
          /\ pc' = [pc EXCEPT ![c] = "token"]
          /\ call' = [call EXCEPT ![c] =
                [call[c] EXCEPT !.attempt = @ + 1, !.vetoed = FALSE]]
      BY <1>9, <2>2 DEF Backoff, Continue, Goto
    <3>2. call[c] \in [attempt : Nat, usedGen : Nat, tok : Nat,
                       refreshed : BOOLEAN, sends : Nat, denied : Nat,
                       vetoed : BOOLEAN]
      BY DEF TypeOK, Locals
    <3>3. /\ call'[c] = [call[c] EXCEPT !.attempt = @ + 1, !.vetoed = FALSE]
          /\ \A d \in Callers \ {c} : call'[d] = call[d]
      BY <3>1 DEF TypeOK
    <3>4. /\ call'[c].attempt = call[c].attempt + 1
          /\ call'[c].sends = call[c].sends
          /\ call'[c].usedGen = call[c].usedGen
          /\ call'[c].tok = call[c].tok
          /\ call'[c].refreshed = call[c].refreshed
          /\ call'[c].denied = call[c].denied
      BY <3>2, <3>3
    <3> QED
      BY <3>1, <3>3, <3>4, AskTokenSafe
  <2> QED
    BY <2>1, <2>2
<1>10. ASSUME NEW c \in Callers, CloseBody(c) PROVE Safe'
  <2>1. UNCHANGED <<current, epoch, issued, request, rejected>> /\ pc[c] = "body"
    BY <1>10 DEF CloseBody, authVars
  <2>2. pc'[c] = "idle" /\ call'[c] = Fresh /\ request'[c] = -2
    BY <1>10, <2>1 DEF CloseBody, Goto, TypeOK, Safe, CallSafe, Asked
  <2>3. \A d \in Callers \ {c} : Undisturbed(d)
    BY <1>10, <2>1 DEF CloseBody, Goto, Undisturbed, TypeOK
  <2> QED
    BY <2>1, <2>2, <2>3, EndedSafe, StillMoves, OwnPartSuffices
<1>11. CASE Elsewhere
  <2>1. UNCHANGED <<request, pc, call, status, rejected>>
    BY <1>11 DEF Elsewhere, Auth!Forget, Auth!Waste
  <2>2. RegisterMoves
    BY <1>11 DEF Elsewhere, Auth!Forget, Auth!Waste, RegisterMoves,
        CachedWasIssued, Safe, TypeOK
  <2> QED
    BY <2>1, <2>2, OthersKeep DEF Safe, Undisturbed, RegisterMoves
<1>12. CASE UNCHANGED vars
  <2>1. UNCHANGED <<current, epoch, issued, request, pc, call, status, rejected>>
    BY <1>12 DEF vars, authVars
  <2> QED
    BY <2>1, StillMoves, OthersKeep DEF Safe, Undisturbed, RegisterMoves
<1> QED
    BY <1>1, <1>2, <1>3, <1>4, <1>5, <1>6, <1>7, <1>8, <1>9, <1>10, <1>11,
       <1>12 DEF Next, DoStep

\* The timeout context of a call is armed exactly while the call runs or its
\* body is read: a step arms it or releases it along with the place of c.
LEMMA TimerStep ==
    ASSUME TypeOK, TimerLifetime, [Next]_vars
    PROVE  TimerLifetime'
<1> USE DEF TypeOK, TimerLifetime
<1>1. ASSUME NEW c \in Callers, NEW err, Fail(c, err), pc[c] # "idle"
      PROVE  TimerLifetime'
    BY <1>1 DEF Fail, Goto, CancelTimeout
<1>2. ASSUME NEW c \in Callers, NEW p \in Pcs \ {"idle"}, NEW l,
             Continue(c, p, l), pc[c] # "idle"
      PROVE  TimerLifetime'
    BY <1>2 DEF Continue, Goto, ctxVars
<1>3. ASSUME NEW c \in Callers, NEW l, Retry(c, l), pc[c] # "idle"
      PROVE  TimerLifetime'
    BY <1>1, <1>2, <1>3 DEF Retry, Pcs
<1>4. ASSUME NEW c \in Callers, RejectRequest(c) \/ CannotStart(c) \/ Do(c)
      PROVE  TimerLifetime'
    BY <1>4 DEF RejectRequest, CannotStart, Do, Goto, ctxVars
<1>5. ASSUME NEW c \in Callers, GotToken(c) \/ GotRefresh(c) \/ Unauthorized(c)
      PROVE  TimerLifetime'
    BY <1>1, <1>2, <1>5 DEF GotToken, GotRefresh, Unauthorized, Pcs
<1>6. ASSUME NEW c \in Callers, SendFails(c) \/ BeforeFails(c)
      PROVE  TimerLifetime'
    BY <1>1, <1>3, <1>6 DEF SendFails, BeforeFails
<1>7. ASSUME NEW c \in Callers, Receive(c) \/ ReceiveAgain(c)
      PROVE  TimerLifetime'
  <2>1. PICK s \in Statuses : Classified(c, s, open[c] + 1) /\ pc[c] # "idle"
    BY <1>7 DEF Receive, ReceiveAgain
  <2> QED
    BY <1>3, <2>1 DEF Classified, Goto, ctxVars
<1>8. ASSUME NEW c \in Callers, Backoff(c) PROVE TimerLifetime'
    BY <1>1, <1>2, <1>8 DEF Backoff, Pcs
<1>9. ASSUME NEW c \in Callers, CloseBody(c) \/ ContextDone(c)
      PROVE  TimerLifetime'
    BY <1>9 DEF CloseBody, ContextDone, Goto, CancelTimeout
<1>10. CASE Elsewhere \/ UNCHANGED vars
    BY <1>10 DEF Elsewhere, ctxVars, vars
<1> QED
    BY <1>4, <1>5, <1>6, <1>7, <1>8, <1>9, <1>10 DEF Next, DoStep

\* Nothing was asked and nothing was sent.
LEMMA InitInv == ConstantsOK /\ Init => IInv
<1> SUFFICES ASSUME ConstantsOK, Init PROVE IInv
    OBVIOUS
<1>1. TimerLifetime
    BY DEF Init, TimerLifetime
<1> QED
    BY <1>1, InitType, InitSafe DEF Typed, IInv

\* Every step of a request, of a refresh and of the clock keeps the invariant.
LEMMA NextInv == ConstantsOK /\ IInv /\ [Next]_vars => IInv'
<1>1. IInv => Typed /\ TimerLifetime /\ Safe
    BY DEF IInv, Typed
<1>2. Typed /\ [Next]_vars => TypeOK /\ TypeOK' /\ BodiesAccounted'
    BY NextType DEF Typed
<1> QED
    BY <1>1, <1>2, TimerStep, NextSafe DEF IInv

\* The inductive invariant holds in every reachable state.
LEMMA Invariance == ASSUME ConstantsOK PROVE Spec => []IInv
BY InitInv, NextInv, PTL DEF Spec

\* What it says of the single properties.
LEMMA Consequences ==
    IInv => /\ TypeOK /\ SendBudget /\ RejectedTokenNotResent
            /\ UnauthorizedIsFinal /\ BodiesAccounted /\ TimerLifetime
<1> SUFFICES ASSUME IInv
             PROVE  SendBudget /\ RejectedTokenNotResent /\ UnauthorizedIsFinal
    BY DEF IInv
<1>1. SendBudget
    BY DEF IInv, Safe, CallSafe, Budgeted, SendBudget
<1>2. RejectedTokenNotResent
    BY DEF IInv, Safe, CallSafe, PastDenied, RejectedTokenNotResent
<1>3. UnauthorizedIsFinal
    BY DEF IInv, Safe, CallSafe, PastDenied, UnauthorizedIsFinal
<1> QED
    BY <1>1, <1>2, <1>3

-----------------------------------------------------------------------------
(* How long a Do can take.                                                 *)

\* The bound at each place of a call.
BoundRead(c) ==
    LET rest == 6 * (Budget(ConfiguredAttempts) - call[c].attempt)
    IN  /\ pc[c] \in {"idle", "body"} => StepsLeft(c) = 0
        /\ pc[c] = "token" => StepsLeft(c) = rest + 5
        /\ pc[c] = "send" => StepsLeft(c) = rest + 4
        /\ pc[c] = "refresh" => StepsLeft(c) = rest + 3
        /\ pc[c] = "resend" => StepsLeft(c) = rest + 2
        /\ pc[c] = "backoff" => StepsLeft(c) = rest + 1

\* Which its definition says by cases.
LEMMA BoundIsRead == ASSUME NEW c PROVE BoundRead(c) /\ BoundRead(c)'
BY Zenon DEF StepsLeft, BoundRead, InDo

\* Where a step takes the call that makes it.
GoesOn(c) ==
    \/ pc'[c] \in {"idle", "body"}
    \/ /\ call'[c].attempt = call[c].attempt
       /\ \/ pc[c] = "token" /\ pc'[c] = "send"
          \/ pc[c] = "send" /\ pc'[c] \in {"refresh", "backoff"}
          \/ pc[c] = "refresh" /\ pc'[c] = "resend"
          \/ pc[c] = "resend" /\ pc'[c] = "backoff"
    \/ pc[c] = "backoff" /\ pc'[c] = "token" /\ call'[c].attempt = call[c].attempt + 1

\* And where it leaves the others.
StaysPut(c) == pc'[c] = pc[c] /\ call'[c] = call[c]

\* A step of one call moves that call along, and no other.
LEMMA OneMoves ==
    ASSUME TypeOK, NEW c \in Callers, DoStep(c)
    PROVE  GoesOn(c) /\ \A d \in Callers : d # c => StaysPut(d)
<1>1. call[c] \in Locals /\ Sent(c).attempt = call[c].attempt
      /\ pc \in [Callers -> Pcs] /\ call \in [Callers -> Locals]
    BY SentFields DEF TypeOK
<1>2. Sent(c) \in Locals
    BY <1>1, SentType, TypeParts
<1>3. ASSUME NEW err, Fail(c, err)
      PROVE  GoesOn(c) /\ \A d \in Callers : d # c => StaysPut(d)
    BY <1>1, <1>3 DEF Fail, Goto, GoesOn, StaysPut
<1>4. ASSUME NEW l, l.attempt = call[c].attempt, pc[c] \in {"send", "resend"},
             Retry(c, l)
      PROVE  GoesOn(c) /\ \A d \in Callers : d # c => StaysPut(d)
  <2>1. CASE Fail(c, "comm")
    BY <1>3, <2>1
  <2>2. CASE Continue(c, "backoff", l)
    BY <1>1, <1>4, <2>2 DEF Continue, Goto, GoesOn, StaysPut
  <2> QED
    BY <1>4, <2>1, <2>2 DEF Retry
<1>5. ASSUME NEW s \in Statuses, NEW n, Classified(c, s, n), pc[c] \in {"send", "resend"}
      PROVE  GoesOn(c) /\ \A d \in Callers : d # c => StaysPut(d)
  <2>1. CASE Retry(c, Sent(c))
    BY <1>1, <1>4, <1>5, <2>1
  <2>2. CASE ~Retry(c, Sent(c))
    <3>1. Goto(c, "body") /\ call' = [call EXCEPT ![c] = Sent(c)]
      BY <1>5, <2>2 DEF Classified
    <3> QED
      BY <1>1, <3>1 DEF Goto, GoesOn, StaysPut
  <2> QED
    BY <2>1, <2>2
<1>6. CASE GotToken(c)
  <2>1. CASE \E err : Fail(c, err)
    BY <1>3, <2>1
  <2>2. CASE ~\E err : Fail(c, err)
    BY <1>1, <1>6, <2>2 DEF GotToken, Continue, Goto, GoesOn, StaysPut, Locals
  <2> QED
    BY <2>1, <2>2
<1>7. CASE GotRefresh(c)
  <2>1. CASE \E err : Fail(c, err)
    BY <1>3, <2>1
  <2>2. CASE ~\E err : Fail(c, err)
    BY <1>1, <1>7, <2>2 DEF GotRefresh, Continue, Goto, GoesOn, StaysPut, Locals
  <2> QED
    BY <2>1, <2>2
<1>8. CASE SendFails(c)
    BY <1>1, <1>3, <1>4, <1>8 DEF SendFails
<1>9. CASE BeforeFails(c)
  <2>1. [Sent(c) EXCEPT !.vetoed = TRUE].attempt = call[c].attempt
    BY <1>1, <1>2 DEF Locals
  <2> QED
    BY <1>3, <1>4, <1>9, <2>1 DEF BeforeFails
<1>10. CASE Receive(c) \/ ReceiveAgain(c)
    BY <1>5, <1>10 DEF Receive, ReceiveAgain
<1>11. CASE Unauthorized(c)
  <2>1. [Sent(c) EXCEPT !.refreshed = TRUE, !.denied = call[c].tok].attempt = call[c].attempt
    BY <1>1, <1>2 DEF Locals
  <2> QED
    BY <1>1, <1>11, <2>1 DEF Unauthorized, Continue, Goto, GoesOn, StaysPut
<1>12. CASE Backoff(c)
  <2>1. [call[c] EXCEPT !.attempt = @ + 1, !.vetoed = FALSE].attempt = call[c].attempt + 1
    BY <1>1 DEF Locals
  <2>2. CASE Fail(c, "comm")
    BY <1>3, <2>2
  <2>3. CASE ~Fail(c, "comm")
    BY <1>1, <1>12, <2>1, <2>3 DEF Backoff, Continue, Goto, GoesOn, StaysPut
  <2> QED
    BY <2>2, <2>3
<1> QED
    BY <1>6, <1>7, <1>8, <1>9, <1>10, <1>11, <1>12 DEF DoStep

\* Every step of a Do uses up some of its bound, whatever the budget.
LEMMA StepsUsed == ConstantsOK /\ IInv /\ IInv' /\ [Next]_vars => UsesUpSteps
<1> SUFFICES ASSUME ConstantsOK, IInv, IInv', [Next]_vars, NEW c \in Callers, InDo(c)
             PROVE  IF pc'[c] = pc[c] THEN StepsLeft(c)' = StepsLeft(c)
                    ELSE StepsLeft(c)' \in 0 .. StepsLeft(c) - 1
    BY DEF UsesUpSteps
<1> DEFINE budget == Budget(ConfiguredAttempts)
<1>1. BoundRead(c) /\ BoundRead(c)'
    BY BoundIsRead
<1>2. /\ pc[c] \in Pcs \ {"idle", "body"} /\ call[c].attempt \in Nat
      /\ call'[c].attempt \in Nat
      /\ budget \in Nat /\ call[c].attempt <= budget /\ call'[c].attempt <= budget
    BY BudgetPositive DEF IInv, TypeOK, Locals, InDo, Safe, CallSafe, Budgeted
<1>3. StaysPut(c) \/ GoesOn(c)
  <2>1. CASE \E d \in Callers : RejectRequest(d) \/ CannotStart(d) \/ Do(d)
                                  \/ CloseBody(d) \/ ContextDone(d)
    BY <2>1 DEF RejectRequest, CannotStart, Do, CloseBody, ContextDone, Goto, InDo,
        IInv, TypeOK, StaysPut
  <2>2. CASE \E d \in Callers : DoStep(d)
    BY <2>2, OneMoves DEF IInv
  <2>3. CASE Elsewhere \/ UNCHANGED vars
    BY <2>3 DEF Elsewhere, vars, StaysPut
  <2> QED
    BY <2>1, <2>2, <2>3 DEF Next
<1>4. CASE StaysPut(c)
    BY <1>1, <1>2, <1>4 DEF StaysPut, BoundRead, Pcs
<1>5. CASE GoesOn(c)
    BY <1>1, <1>2, <1>5 DEF GoesOn, BoundRead, Pcs
<1> QED
    BY <1>3, <1>4, <1>5

-----------------------------------------------------------------------------
(* What follows.                                                           *)

\* One Do puts at most MaxAttempts requests on the wire, plus one after a
\* 401, whatever comes back and whatever other goroutines do.
THEOREM SendBudgetHolds == ASSUME ConstantsOK PROVE Spec => []SendBudget
BY Consequences, Invariance, PTL

\* A token the API server answered 401 to is never sent again by the same
\* call, nor is an older one, although later attempts read the cache anew.
THEOREM RejectedTokenStaysUnsent ==
    ASSUME ConstantsOK PROVE Spec => []RejectedTokenNotResent
BY Consequences, Invariance, PTL

\* A 401 in the hands of the caller means two tokens were rejected.
THEOREM UnauthorizedMeansTwice ==
    ASSUME ConstantsOK PROVE Spec => []UnauthorizedIsFinal
BY Consequences, Invariance, PTL

\* A token is replaced only by a Refresh that reports its generation, which
\* the caller knows only from a response of 401 to that token.
LEMMA RenewalStep ==
    IInv /\ [Next]_vars =>
        [current # 0 /\ current' # 0 /\ current' # current => epoch \in rejected]_vars
<1> SUFFICES ASSUME IInv, Next, current # 0, current' # 0, current' # current
             PROVE  epoch \in rejected
    OBVIOUS
<1>1. ASSUME NEW c \in Callers, GotToken(c) \/ GotRefresh(c)
      PROVE  epoch \in rejected
  <2>1. /\ pc[c] = "token" \/ pc[c] = "refresh"
        /\ Auth!Renew(c)
    BY <1>1 DEF GotToken, GotRefresh, Answer, Auth!Serve, Auth!Refuse
  <2>2. epoch <= request[c]
    BY <2>1 DEF Auth!Renew, Auth!Servable, IInv, TypeOK
  <2>3. Asked(c) /\ Known(c) /\ Ordered(c)
    BY DEF IInv, Safe, CallSafe
  <2>4. /\ call[c] \in [attempt : Nat, usedGen : Nat, tok : Nat,
                       refreshed : BOOLEAN, sends : Nat, denied : Nat,
                       vetoed : BOOLEAN]
        /\ epoch \in Nat
    BY DEF IInv, TypeOK, Locals
  <2>5. pc[c] = "refresh" /\ epoch = call[c].usedGen
    BY <2>1, <2>2, <2>3, <2>4 DEF Asked, Known
  <2> QED
    BY <2>3, <2>5 DEF Ordered
<1>2. ASSUME NEW c \in Callers,
             \/ RejectRequest(c) \/ CannotStart(c) \/ SendFails(c)
             \/ BeforeFails(c) \/ Receive(c) \/ ReceiveAgain(c)
             \/ CloseBody(c) \/ ContextDone(c)
      PROVE  FALSE
    BY <1>2 DEF RejectRequest, CannotStart, SendFails, BeforeFails, Receive,
        ReceiveAgain, CloseBody, ContextDone, authVars
<1>3. ASSUME NEW c \in Callers, Do(c) \/ Unauthorized(c) \/ Backoff(c)
      PROVE  FALSE
    BY <1>3 DEF Do, Unauthorized, Backoff, Auth!Ask, authVars
<1>4. CASE Elsewhere
    BY <1>4 DEF Elsewhere, Auth!Forget, Auth!Waste
<1> QED
    BY <1>1, <1>2, <1>3, <1>4 DEF Next, DoStep

\* A cached token makes room for another only after the API server rejected
\* it: among the goroutines that met a 401 with the same token one renews it,
\* and the ones that met it with an older token are served the cached one.
THEOREM RenewalIsJustified ==
    ASSUME ConstantsOK PROVE Spec => OnlyRejectedTokensRenewed
BY RenewalStep, Invariance, PTL DEF Spec, OnlyRejectedTokensRenewed

\* For every budget a Do makes a bounded number of steps, six for an attempt: no
\* answer, and nothing that other goroutines do, lets it go round for ever.
THEOREM DoIsFinite == ASSUME ConstantsOK PROVE Spec => [][UsesUpSteps]_vars
<1>1. IInv /\ IInv' /\ [Next]_vars => [UsesUpSteps]_vars
    BY StepsUsed
<1> QED
    BY <1>1, Invariance, PTL DEF Spec

\* The per-call timeout neither fires early by the funnel's own doing nor
\* outlives its call: every error path releases it.
THEOREM TimerLives == Spec => []TimerLifetime
<1>1. Init => TimerLifetime
    BY DEF Init, TimerLifetime
<1>2. TypeOK /\ TimerLifetime /\ [Next]_vars => TimerLifetime'
    BY TimerStep
<1> QED
    BY <1>1, <1>2, TypeCorrect, PTL DEF Spec

\* The funnel is a legal client of the Authenticator: a goroutine has one
\* request outstanding at most, and reports as stale only a generation that
\* the register has reached.  TokenCache implements TokenService for such
\* clients.
THEOREM LegalClient == ASSUME ConstantsOK PROVE Spec => Auth!Spec
<1>1. IInv /\ [Next]_vars => [Auth!Next]_(Auth!svars)
  <2> SUFFICES ASSUME IInv, [Next]_vars PROVE [Auth!Next]_(Auth!svars)
      OBVIOUS
  <2>1. ASSUME NEW c \in Callers, Do(c) \/ Backoff(c)
        PROVE  [Auth!Next]_(Auth!svars)
    <3>1. Auth!Ask(c, -1) \/ UNCHANGED authVars
      BY <2>1 DEF Do, Backoff
    <3>2. -1 \in -1..epoch
      BY DEF IInv, TypeOK
    <3> QED
      BY <3>1, <3>2 DEF Auth!Next, Auth!svars, authVars
  <2>2. ASSUME NEW c \in Callers, Unauthorized(c)
        PROVE  [Auth!Next]_(Auth!svars)
    <3>1. call[c] \in Locals /\ epoch \in Nat /\ call[c].usedGen <= epoch
      BY DEF IInv, TypeOK, Safe, CallSafe, Known
    <3>2. call[c].usedGen \in -1..epoch
      BY <3>1 DEF Locals
    <3> QED
      BY <2>2, <3>2 DEF Unauthorized, Auth!Next
  <2>3. ASSUME NEW c \in Callers, GotToken(c) \/ GotRefresh(c)
        PROVE  [Auth!Next]_(Auth!svars)
      BY <2>3 DEF GotToken, GotRefresh, Answer, Auth!Next
  <2>4. ASSUME NEW c \in Callers,
               \/ RejectRequest(c) \/ CannotStart(c) \/ SendFails(c)
               \/ BeforeFails(c) \/ Receive(c) \/ ReceiveAgain(c)
               \/ CloseBody(c) \/ ContextDone(c)
        PROVE  [Auth!Next]_(Auth!svars)
      BY <2>4 DEF RejectRequest, CannotStart, SendFails, BeforeFails, Receive,
          ReceiveAgain, CloseBody, ContextDone, authVars, Auth!svars
  <2>5. CASE Elsewhere \/ UNCHANGED vars
      BY <2>5 DEF Elsewhere, vars, authVars, Auth!Next, Auth!svars
  <2> QED
      BY <2>1, <2>2, <2>3, <2>4, <2>5 DEF Next, DoStep
<1>2. Init => Auth!Init
    BY DEF Init
<1> QED
    BY <1>1, <1>2, Invariance, PTL DEF Spec, Auth!Spec
=============================================================================
