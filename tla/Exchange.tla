------------------------------ MODULE Exchange ------------------------------
(***************************************************************************)
(* One call of an operation: internal/transport/jsonexec.go and            *)
(* streamexec.go, and the sequences of requests that users.go, groups.go,  *)
(* migration.go and uploads.go make of them, against a platform that       *)
(* refuses, answers with any status and body, or loses the answer.         *)
(*                                                                         *)
(* The funnel below is Executor's: here it sends a request again, up to    *)
(* its budget, when it gets no answer or one that asks for it.             *)
(***************************************************************************)
EXTENDS Handles

CONSTANT Attempts       \* sends of a request by the funnel

\* What an instance of this module must satisfy.
ConstantsOK == Attempts \in Nat \ {0}

VARIABLES
    entry,          \* the operation, and the host its handle asks
    lacks,          \* the argument the caller left out, or "nothing"
    nth,            \* the request the call is at
    waiting,        \* whether it has been sent
    sends,          \* sends left for it
    applied,        \* applied[i]: times request i was carried out
    silent,         \* silent[i]: sends of request i without a usable answer
    blank,          \* blank[i]: the answer to request i had no body
    moot,           \* an answer said that nothing had to change
    trouble,        \* history: what went wrong on the way
    end             \* how the call ended

callVars == <<entry, lacks>>
vars == <<callVars, nth, waiting, sends, applied, silent, blank, moot, trouble, end>>

Reqs == entry.op.reqs
Now == Reqs[nth]

Init ==
    /\ entry \in Entries
    /\ lacks \in {"nothing"} \cup
          (UNION {Reqs[i].needs : i \in DOMAIN Reqs} \ {"fetched.ID"})
    /\ nth = 1 /\ waiting = FALSE /\ sends = 0
    /\ applied = [i \in DOMAIN Reqs |-> 0]
    /\ silent = [i \in DOMAIN Reqs |-> 0]
    /\ blank = [i \in DOMAIN Reqs |-> FALSE]
    /\ moot = FALSE
    /\ trouble = {}
    /\ end = "none"

-----------------------------------------------------------------------------
(* What an answer comes to: "ok", or the kind of the error.                *)

Bodies == {"whole", "empty", "garbled", "cut"}

\* (mutant: an answer counts whatever its status)
DoJSONAnyStatus(r, status, body) ==
    IF /\ body # "cut"
       /\ r.out = "none" \/ body = "whole" \/ (body = "empty" /\ r.out # "strict")
    THEN "ok" ELSE "response"

\* DoJSON: a body that cannot be read fails before its status is looked at; one
\* that is empty leaves the value as it is.
DoJSON(r, status, body) ==
    IF /\ body # "cut" /\ status \in r.ok
       /\ r.out = "none" \/ body = "whole" \/ (body = "empty" /\ r.out # "strict")
    THEN "ok" ELSE "response"

\* DoStream leaves the body to the caller.
DoStream(r, status, body) == IF status \in r.ok THEN "ok" ELSE "response"

DoText(r, status, body) ==
    IF body # "cut" /\ status \in r.ok THEN "ok" ELSE "response"

\* createAndExtractID, and GetLogs, which goes on with a header it cannot use.
ExtractID(r, status, body) ==
    CASE status \in r.ok /\ body = "whole" -> "ok"
      [] status \in r.ok /\ body = "garbled" /\ r.method = GET -> "other"
      [] OTHER -> "response"

\* PutFile and the download of GetLogs, outside the funnel.
Direct(r, status, body) ==
    IF status \notin r.ok THEN "communication"
    ELSE IF r.out = "text" /\ body = "cut" THEN "other" ELSE "ok"

Verdict(r, status, body) ==
    IF ~r.funnel THEN Direct(r, status, body)
    ELSE CASE r.out = "location" -> ExtractID(r, status, body)
           [] r.out = "stream" -> DoStream(r, status, body)
           [] r.out = "text" -> DoText(r, status, body)
           [] OTHER -> DoJSON(r, status, body)

-----------------------------------------------------------------------------

Running == end = "none"

\* An argument is missing, or the record to be written back came without one.
Missing ==
    \/ lacks \in Now.needs
    \/ "fetched.ID" \in Now.needs /\ blank[nth - 1]

\* The operation checks what its next request needs, and sends it.
Begin ==
    /\ Running /\ ~waiting
    /\ \/ /\ Missing
          /\ end' = "config"
          /\ trouble' = trouble \cup {"argument"}
          /\ UNCHANGED <<waiting, sends>>
       \/ /\ ~Missing
          /\ waiting' = TRUE
          /\ sends' = IF Now.funnel THEN Attempts ELSE 1
          /\ UNCHANGED <<end, trouble>>
    /\ UNCHANGED <<callVars, nth, applied, silent, blank, moot>>

\* The answer decides: the next request, or the end.
Conclude(status, body) ==
    LET verdict == Verdict(Now, status, body)
    IN  /\ blank' = [blank EXCEPT ![nth] = body = "empty"]
        /\ waiting' = FALSE
        /\ IF verdict = "ok" /\ nth < Len(Reqs)
           THEN nth' = nth + 1 /\ UNCHANGED end
           ELSE end' = verdict /\ UNCHANGED nth

AtHome == ~Now.funnel \/ entry.root = entry.op.home

\* What is deleted is not found a second time.
Gone == Now.method = DELETE /\ applied[nth] > 0

CarryOut == applied' = [applied EXCEPT ![nth] = @ + 1]

\* The platform carries the request out.
Served(status, body) ==
    /\ Running /\ waiting /\ AtHome /\ ~Gone
    /\ status \in Done \/ (Now.out = "location" /\ Now.method = GET)
    /\ CarryOut
    /\ trouble' = trouble \cup (IF status \in Now.ok THEN {} ELSE {"status"})
                          \cup (IF body = "whole" THEN {} ELSE {"body"})
    /\ Conclude(status, body)
    /\ UNCHANGED <<callVars, sends, silent, moot>>

\* It does not, for a reason of its own, or because it is not the one to ask.  A
\* refusal names no location.
Refused(status, body) ==
    /\ Running /\ waiting
    /\ status \in Refusals
    /\ ~AtHome \/ Gone => status = 404
    /\ Now.out = "location" => body \in {"empty", "cut"}
    /\ moot' = (moot \/ status = 304)
    /\ trouble' = IF AtHome /\ ~Gone THEN trouble \cup {"refused"} ELSE trouble
    /\ Conclude(status, body)
    /\ UNCHANGED <<callVars, sends, applied, silent>>

\* No answer, or one that asks to come again; outside the funnel nothing is
\* sent twice.
Unanswered ==
    /\ Running /\ waiting
    /\ \/ UNCHANGED applied
       \/ AtHome /\ ~Gone /\ CarryOut
    /\ silent' = [silent EXCEPT ![nth] = @ + 1]
    /\ trouble' = trouble \cup {"silent"}
    /\ sends' = sends - 1
    /\ end' = IF sends = 1 THEN "communication" ELSE end
    /\ UNCHANGED <<callVars, nth, waiting, blank, moot>>

Next ==
    \/ Begin \/ Unanswered
    \/ \E status \in AnyStatus, body \in Bodies :
          Served(status, body) \/ Refused(status, body)

Spec == Init /\ [][Next]_vars

-----------------------------------------------------------------------------
(* Properties.                                                             *)

\* Every variable has its type.
TypeOK ==
    /\ entry \in Entries
    /\ \A i \in DOMAIN Reqs : Reqs[i].out \in Outs /\ Reqs[i].ok \subseteq AnyStatus
    /\ nth \in DOMAIN Reqs /\ sends \in 0 .. Attempts
    /\ end \in {"none", "ok", "config", "response", "communication", "other"}

\* A call succeeds only when the platform has carried out every request of it,
\* or had nothing to change, and nothing was built on an answer that came
\* without its body.
SuccessIsComplete ==
    end = "ok" =>
        /\ \A i \in DOMAIN Reqs : applied[i] > 0 \/ moot
        /\ \A i \in DOMAIN Reqs : i < Len(Reqs) /\ Reqs[i].out = "value" => ~blank[i]

\* A call fails only for what its caller or the platform did, never because its
\* handle asks the wrong host, and it says which: a missing argument, no answer,
\* or an answer it cannot use.
FailureExplained ==
    /\ end = "config" => lacks # "nothing" \/ "body" \in trouble
    /\ end = "communication" => trouble \cap {"silent", "status", "refused"} # {}
    /\ end \in {"response", "other"} =>
          trouble \cap {"refused", "status", "body", "silent"} # {}

\* A request is carried out a second time only when an answer to it was lost, and
\* none before the one it builds on.
EffectsExplained ==
    /\ \A i \in DOMAIN Reqs : applied[i] <= 1 + silent[i]
    /\ \A i \in DOMAIN Reqs :
          applied[i] > 0 => \A j \in 1 .. i - 1 : applied[j] > 0 \/ moot

\* What the caller is told and what the platform has done agree.
OutcomeExplained == FailureExplained /\ EffectsExplained
=============================================================================
