------------------------------- MODULE Waiter -------------------------------
(***************************************************************************)
(* The waiters: workflows/scans/waiter.go with the buckets of inspector.go *)
(* (kind "scan"), workflows/migration/waiter.go ("import"), Handle.Wait of *)
(* workflows/reports/reports.go ("report") and workflows/audit/waiter.go   *)
(* ("audit").  A waiter looks at a snapshot of the job, sleeps until the   *)
(* next poll or its deadline, whichever is first, and polls again; the     *)
(* last two poll before they look.  The job runs on the platform, split    *)
(* into engines (external).  An answer may also be empty: the snapshot is  *)
(* then blank, and with it a scan inspector loses the id it polls by.      *)
(*                                                                         *)
(* Time is relative: what is left until the deadline and of the sleep.     *)
(* Looking at a snapshot takes no time.                                    *)
(***************************************************************************)
EXTENDS Integers

CONSTANTS
    Requested,      \* the engines the job was started with
    Extra,          \* engines the platform reports on its own account
    Interval,       \* PollInterval
    MaxDuration     \* the time allowed, for a waiter that has a limit

Engines == Requested \cup Extra

\* What the constants have to be.
ConstantsOK ==
    /\ Requested \cap Extra = {}
    /\ Interval \in Nat \ {0} /\ MaxDuration \in Nat \ {0}

VARIABLES
    kind, limited,      \* the waiter, and whether it has a deadline
    engine,     \* engine[e]: what engine e is doing on the platform
    named,      \* whether the handle has the id of the job
    seen,       \* the last snapshot, what the waiter looks at
    pc,         \* "idle", "look", "sleep", "alive" (keep-alive request on the
                \* wire), "poll" (status request on the wire)
    beat,       \* keepAliveCounter, modulo 2
    left,       \* time left until the deadline
    sleepLeft,  \* time left of the sleep
    ctxErr,     \* the caller's context is done
    result,     \* what the last wait returned
    late,       \* history: polls of this wait sent past the deadline, up to 2
    answered    \* history: the last look of this wait came past the deadline

options == <<kind, limited>>
handle == <<named, seen>>
clock == <<left, sleepLeft>>
history == <<late, answered>>
vars == <<options, engine, handle, pc, beat, clock, ctxErr, result, history>>

Kinds == {"scan", "import", "report", "audit"}

-----------------------------------------------------------------------------
(* Snapshots and what the inspectors make of them.                         *)

\* "Absent": the job's status has no entry for the engine (yet).  "Odd": a
\* status the SDK does not know.
Executing == {"Queued", "Running"}
AtRest == {"Completed", "Failed", "Canceled", "Odd"}
EngineStates == {"Absent"} \cup Executing \cup AtRest

\* What the platform may report when its engines are in the states s: an
\* overall status, and for scans alone the states of the engines.  Partial is
\* a status of scans, on the way or at the end, and of imports at their end.
Reported(s) ==
    LET is == {s[e] : e \in Requested}
        overall ==
            IF is = {"Completed"} THEN {"Completed"}
            ELSE IF is \subseteq AtRest
              THEN {"Failed", "Canceled"}
                      \cup (IF kind \in {"scan", "import"} THEN {"Partial"} ELSE {})
            ELSE IF kind = "scan" /\ is \cap AtRest # {} THEN {"Running", "Partial"}
            ELSE {"Queued", "Running"}
        details == IF kind = "scan" THEN s ELSE [e \in Engines |-> "Absent"]
    IN  {[status |-> o, details |-> details] : o \in overall}

\* What an expected answer without a body decodes to: no status and no details.
Blank == [status |-> "", details |-> [e \in Engines |-> "Absent"]]

\* The entries that count: those of the requested engines, or all of them when
\* the scan carries no list of engines.
Relevant(d) ==
    {e \in Engines : d[e] # "Absent" /\ (Requested = {} \/ e \in Requested)}

\* (mutant: an unknown status is no failure)
PartialBucketLenient(d) ==
    LET is == {d[e] : e \in Relevant(d)}
    IN  IF is \cap Executing # {} THEN "executing"
        ELSE IF is = {} \/ is \cap {"Failed", "Canceled"} # {} THEN "failed"
        ELSE "successful"

PartialBucket(d) ==
    LET is == {d[e] : e \in Relevant(d)}
    IN  IF is = {} THEN "failed"
        ELSE IF is \cap Executing # {} THEN "executing"
        ELSE IF is = {"Completed"} THEN "successful"
        ELSE "failed"

\* (mutant: a canceled job is not over)
VerdictUncanceled(snapshot) ==
    CASE snapshot.status = "Completed" -> "successful"
      [] snapshot.status = "Failed"    -> "failed"
      [] snapshot.status = "Partial"   ->
            IF kind = "scan" THEN PartialBucket(snapshot.details) ELSE "successful"
      [] OTHER                         -> "executing"

\* Successful, Failed, or neither, as of a blank snapshot; a partial import counts
\* as completed.
Verdict(snapshot) ==
    CASE snapshot.status = "Completed"              -> "successful"
      [] snapshot.status \in {"Failed", "Canceled"} -> "failed"
      [] snapshot.status = "Partial" ->
            IF kind = "scan" THEN PartialBucket(snapshot.details) ELSE "successful"
      [] OTHER                                      -> "executing"

\* A scan's id is part of its snapshot, and that of a report comes from an answer
\* nobody looks at; the other two are checked before a request is sent.
Init ==
    /\ kind \in Kinds /\ limited \in BOOLEAN
    /\ engine \in [Engines -> {"Absent", "Queued"}]
    /\ seen \in Reported(engine) \cup {Blank}
    /\ named \in CASE kind = "scan"   -> {seen # Blank}
                   [] kind = "report" -> BOOLEAN
                   [] OTHER           -> {TRUE}
    /\ pc = "idle"
    /\ beat = 0
    /\ left = 0 /\ sleepLeft = 0
    /\ ctxErr = FALSE
    /\ result = "none"
    /\ late = 0 /\ answered = FALSE

-----------------------------------------------------------------------------
(* The platform (external) and time.                                       *)

EngineMoves ==
    /\ \E e \in Engines :
          \E s \in CASE engine[e] = "Absent"  -> {"Queued"}
                     [] engine[e] = "Queued"  -> {"Running", "Canceled"}
                     [] engine[e] = "Running" -> AtRest
                     [] OTHER                 -> {} :
              engine' = [engine EXCEPT ![e] = s]
    /\ UNCHANGED <<options, handle, pc, beat, clock, ctxErr, result, history>>

Less(t) == IF t > 0 THEN t - 1 ELSE 0

Tick ==
    /\ pc \in {"sleep", "alive", "poll"}
    /\ left' = Less(left)
    /\ sleepLeft' = Less(sleepLeft)
    /\ clock' # clock
    /\ UNCHANGED <<options, engine, handle, pc, beat, ctxErr, result, history>>

ContextDone ==
    /\ pc # "idle" /\ ~ctxErr
    /\ ctxErr' = TRUE
    /\ UNCHANGED <<options, engine, handle, pc, beat, clock, result, history>>

-----------------------------------------------------------------------------
(* The waiter.                                                             *)

Past == limited /\ left = 0

\* A status request is sent.
SendPoll ==
    /\ pc' = "poll"
    /\ late' = IF Past /\ late < 2 THEN late + 1 ELSE late

\* A wait begins, on an inspector whose snapshot may be old.
Wait ==
    /\ pc = "idle"
    /\ left' = IF limited THEN MaxDuration ELSE 0
    /\ result' = "none"
    /\ late' = 0 /\ answered' = FALSE
    /\ beat' = 0
    /\ pc' = IF kind \in {"scan", "import"} THEN "look" ELSE "poll"
    /\ UNCHANGED <<options, engine, handle, sleepLeft, ctxErr>>

Return(r) ==
    /\ pc' = "idle"
    /\ result' = r
    /\ ctxErr' = FALSE
    /\ sleepLeft' = 0

\* sleepUntil: the poll interval, or what is left until the deadline.
SleepUntil == IF limited /\ left < Interval THEN left ELSE Interval

\* (mutant: the deadline is not looked at)
LookUntimed ==
    /\ pc = "look"
    /\ \/ Verdict(seen) = "successful" /\ Return("ok")
       \/ Verdict(seen) = "failed" /\ Return("failed")
       \/ /\ Verdict(seen) = "executing"
          /\ pc' = "sleep"
          /\ sleepLeft' = SleepUntil
          /\ UNCHANGED <<result, ctxErr>>
    /\ UNCHANGED <<options, engine, handle, beat, left, history>>

\* The snapshot is looked at; if the job is still executing, the waiter
\* sleeps, or stops at its deadline.
Look ==
    /\ pc = "look"
    /\ \/ Verdict(seen) = "successful" /\ Return("ok")
       \/ Verdict(seen) = "failed" /\ Return("failed")
       \/ Verdict(seen) = "executing" /\ Past /\ Return("timeout")
       \/ /\ Verdict(seen) = "executing" /\ ~Past
          /\ pc' = "sleep"
          /\ sleepLeft' = SleepUntil
          /\ UNCHANGED <<result, ctxErr>>
    /\ UNCHANGED <<options, engine, handle, beat, left, history>>

\* (mutant: a sleep that reaches the deadline ends the wait)
SleepEndsGivingUp ==
    /\ pc = "sleep" /\ sleepLeft = 0
    /\ \/ Past /\ Return("timeout") /\ UNCHANGED late
       \/ ~Past /\ SendPoll /\ UNCHANGED <<sleepLeft, result, ctxErr>>
    /\ UNCHANGED <<options, engine, handle, left, answered, beat>>

\* The timer or the context ends the sleep; an audit request sends a
\* keep-alive before every other poll.
SleepEnds ==
    /\ pc = "sleep"
    /\ \/ /\ ctxErr
          /\ Return("ctx")
          /\ UNCHANGED <<beat, late>>
       \/ /\ sleepLeft = 0
          /\ beat' = IF kind = "audit" THEN 1 - beat ELSE beat
          /\ IF kind = "audit" /\ beat = 1
               THEN pc' = "alive" /\ UNCHANGED late
               ELSE SendPoll
          /\ UNCHANGED <<sleepLeft, result, ctxErr>>
    /\ UNCHANGED <<options, engine, handle, left, answered>>

\* The keep-alive is over; its outcome is ignored.
KeptAlive ==
    /\ pc = "alive"
    /\ SendPoll
    /\ UNCHANGED <<options, engine, handle, beat, clock, ctxErr, result, answered>>

\* The status arrives and replaces the snapshot, the id of a scan included.  Asked
\* for no job in particular, the platform has no status to tell.
Refreshed ==
    /\ pc = "poll"
    /\ seen' \in {Blank} \cup IF named THEN Reported(engine) ELSE {}
    /\ named' = (named /\ (kind = "scan" => seen' # Blank))
    /\ answered' = Past
    /\ pc' = "look"
    /\ UNCHANGED <<options, engine, beat, clock, ctxErr, result, late>>

\* The request fails, for good or because the context is done.
PollFails ==
    /\ pc = "poll"
    /\ Return("error")
    /\ UNCHANGED <<options, engine, handle, beat, left, history>>

Step == Look \/ SleepEnds \/ KeptAlive \/ Refreshed \/ PollFails

Next == Wait \/ Step \/ EngineMoves \/ Tick \/ ContextDone

Spec == Init /\ [][Next]_vars

\* Requests end by the HTTP client's timeout, sleeps by their timer, and time
\* passes.
Fairness == WF_vars(Step) /\ WF_vars(Tick)

FairSpec == Spec /\ Fairness

-----------------------------------------------------------------------------
(* Properties.                                                             *)

\* Every variable has its type.
TypeOK ==
    /\ {limited, named} \subseteq BOOLEAN /\ kind \in Kinds
    /\ engine \in [Engines -> EngineStates]
    /\ seen.details \in [Engines -> EngineStates]
    /\ pc \in {"idle", "look", "sleep", "alive", "poll"}
    /\ beat \in 0..1
    /\ left \in 0..MaxDuration /\ sleepLeft \in 0..Interval
    /\ ctxErr \in BOOLEAN /\ answered \in BOOLEAN
    /\ result \in {"none", "ok", "failed", "timeout", "ctx", "error"}
    /\ late \in 0..2

\* A scan whose engines were all accounted for and that the waiter called
\* successful has every requested engine completed, for good: no later report
\* of the platform contradicts the answer.
SuccessIsFinal ==
    result = "ok" /\ kind = "scan" /\ (\A e \in Requested : seen.details[e] # "Absent")
        => \A e \in Requested : engine[e] = "Completed"

\* A scan the waiter calls failed has no requested engine at work that had
\* been accounted for.
FailureIsFinal ==
    result = "failed" /\ kind = "scan" /\ (\A e \in Requested : seen.details[e] # "Absent")
        => \A e \in Requested : engine[e] \in AtRest

\* A waiter polls at most once past its deadline, however slow its requests
\* are.
OneLatePoll == late <= 1

\* A waiter that gives up has looked at the job after its deadline: a job that
\* ended in time is not reported as timed out because the last sleep was cut
\* short.
TimeoutAfterLastLook == result = "timeout" => answered

\* An answer of a waiter is final, and a deadline is kept.
VerdictIsFinal == SuccessIsFinal /\ FailureIsFinal
DeadlineKept == OneLatePoll /\ TimeoutAfterLastLook

Waiting == pc # "idle"
EnginesAtRest == \A e \in Requested : engine[e] \in AtRest

\* A waiter with a deadline comes back, whatever is answered.  One without comes
\* back once the engines are at rest, unless its snapshots go on being blank: a
\* scan inspector that was given one empty answer never learns of its scan again,
\* and is then waited for until a request fails or the caller cancels.
WaitEnds ==
    /\ Waiting /\ limited ~> ~Waiting
    /\ \/ Waiting /\ EnginesAtRest ~> ~Waiting
       \/ []<>(Waiting /\ seen = Blank)

\* inspector.go:122-124 says that a Partial scan is successful only when every
\* originally requested engine has reported Completed.
PartialNeedsEveryEngine ==
    result = "ok" /\ kind = "scan" => \A e \in Requested : seen.details[e] = "Completed"
=============================================================================
