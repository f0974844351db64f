----------------------------- MODULE ScanStart -----------------------------
(***************************************************************************)
(* The scan builder of workflows/scans/invoker.go over the uploads         *)
(* endpoint: the setters, and Start, which validates, asks for a presigned *)
(* URL, PUTs the archive there outside the funnel, and posts the scan.     *)
(* Each request may fail or lose its response; the builder, and the reader *)
(* it was given, may be used again.                                        *)
(*                                                                         *)
(* Engine and tag values and configurations are left out; a source is a    *)
(* branch, a commit or tag, or a body of which only matters whether it has *)
(* been read.  Each Start has at most one upload, named by its number.     *)
(***************************************************************************)
EXTENDS Integers, FiniteSets

CONSTANTS
    Attempts,       \* sends of a request by the funnel
    MaxStarts       \* bound on the number of Starts

\* What an instance of this module must satisfy.
ConstantsOK ==
    Attempts \in Nat \ {0} /\ MaxStarts \in Nat

VARIABLES
    given,          \* whether NewInvoker had a backend and a project
    project,        \* what the project has: "main_branch", "repo_url"
    client,         \* whether there is an HTTP client
    engines,        \* i.engines: "none", "known", or "unknown" if any is
    source,         \* what is set: "branch", "narrowed" (commit, tag), "body", "size"
    inMemory,       \* whether the body is one net/http knows the length of
    spent,          \* whether the body has been read
    step,           \* where Start is
    tries,          \* sends left for the request on its way
    outcome,        \* what the last Start returned
    panicked,       \* a setter has panicked
    starts,         \* number of Starts
    sent,           \* history: requests of this Start
    lost,           \* history: this Start lost a response
    reread,         \* history: this Start found the body read
    archives,       \* archives[n]: what the upload of Start n has stored
    scans           \* the scans the platform has created

builder == <<engines, source, inMemory>>
setup == <<given, project, client>>
history == <<sent, lost, reread>>
vars == <<setup, builder, spent, step, tries, outcome, panicked, starts, history,
          archives, scans>>

Init ==
    /\ given \in BOOLEAN
    /\ project \in SUBSET {"main_branch", "repo_url"}
    /\ client \in BOOLEAN
    /\ engines = "none" /\ source = {}
    /\ inMemory \in BOOLEAN
    /\ spent = FALSE
    /\ step = "build" /\ tries = 0 /\ outcome = "none" /\ panicked = FALSE
    /\ starts = 0 /\ sent = 0 /\ lost = FALSE /\ reread = FALSE
    /\ archives = [n \in 1 .. MaxStarts |-> "none"]
    /\ scans = {}

-----------------------------------------------------------------------------
(* The setters.                                                            *)

Building == step = "build" /\ ~panicked

\* ForBranch, ForCommit and ForTag; an empty name takes the choice back.
ForBranch(s, empty) ==
    /\ Building
    /\ source' = IF empty THEN source \ {s} ELSE source \cup {s}
    /\ UNCHANGED <<setup, engines, inMemory, spent, step, tries, outcome,
                   panicked, starts, history, archives, scans>>

\* WithUploadReader: a body not read yet, or none, its size given or not.
WithUploadReader(upload) ==
    /\ Building
    /\ source' = (source \ {"body", "size"}) \cup upload
    /\ spent' = FALSE
    /\ UNCHANGED <<setup, engines, inMemory, step, tries, outcome, panicked,
                   starts, history, archives, scans>>

WithEngines(names) ==
    /\ Building
    /\ engines' = names
    /\ UNCHANGED <<setup, source, inMemory, spent, step, tries, outcome,
                   panicked, starts, history, archives, scans>>

\* WithTags writes to a map that a refused NewInvoker has not made.
WithTags ==
    /\ Building
    /\ panicked' = ~given
    /\ UNCHANGED <<setup, builder, spent, step, tries, outcome, starts, history,
                   archives, scans>>

-----------------------------------------------------------------------------
(* Start.                                                                  *)

GitMode == source \cap {"branch", "narrowed"} # {}
UploadMode == "body" \in source

\* (mutant: an empty list of engines passes)
ValidEnginesAny == engines # "unknown"

\* At least one engine, and validEngines.
ValidEngines == engines = "known"

\* What validate and configErr let through.
Valid ==
    /\ given
    /\ ValidEngines
    /\ ~(GitMode /\ UploadMode)
    /\ ~GitMode /\ ~UploadMode => "main_branch" \in project
    /\ UploadMode => "size" \in source /\ client

\* validate remembers the branch it falls back to, although Start may fail later.
Remembered ==
    IF given /\ ValidEngines /\ ~GitMode /\ ~UploadMode /\ "main_branch" \in project
    THEN source \cup {"branch"} ELSE source

Send(to) ==
    /\ step' = to
    /\ tries' = Attempts

Return(o) ==
    /\ step' = "build"
    /\ outcome' = o

\* Start, up to its first request: a git scan needs the project's URL.
Start ==
    /\ Building /\ starts < MaxStarts
    /\ starts' = starts + 1
    /\ sent' = 0 /\ lost' = FALSE /\ reread' = spent
    /\ source' = Remembered
    /\ \/ ~Valid /\ Return("config") /\ UNCHANGED tries
       \/ Valid /\ UploadMode /\ Send("presign") /\ outcome' = "none"
       \/ /\ Valid /\ ~UploadMode
          /\ IF "repo_url" \in project THEN Send("create") /\ outcome' = "none"
             ELSE Return("config") /\ UNCHANGED tries
    /\ UNCHANGED <<setup, engines, inMemory, spent, panicked, archives, scans>>

\* GetPresignedURL: an answer without a URL is an error.
Presigned ==
    /\ step = "presign"
    /\ sent' = sent + 1
    /\ \/ step' = "put" /\ UNCHANGED outcome
       \/ Return("response")
    /\ UNCHANGED <<setup, builder, spent, tries, panicked, starts, lost, reread,
                   archives, scans>>

\* (mutant: the answer to the PUT is not looked at)
PutFileUnchecked ==
    /\ step = "put"
    /\ sent' = sent + 1
    /\ spent' = TRUE
    /\ archives' \in {[archives EXCEPT ![starts] = "broken"],
                      [archives EXCEPT ![starts] = "whole"]}
    /\ Send("create")
    /\ UNCHANGED <<setup, builder, outcome, panicked, starts, lost, reread, scans>>

\* PutFile: sent once, outside the funnel.  A body that has been read is too
\* short, so that the request breaks off; but of one whose length it knows,
\* net/http sends what is left, nothing.
PutFile ==
    /\ step = "put"
    /\ sent' = sent + 1
    /\ spent' = TRUE
    /\ \/ /\ ~spent
          /\ archives' = [archives EXCEPT ![starts] = "whole"]
          /\ Send("create") /\ UNCHANGED outcome
       \/ /\ spent /\ inMemory
          /\ archives' = [archives EXCEPT ![starts] = "empty"]
          /\ Send("create") /\ UNCHANGED outcome
       \/ /\ archives' \in {archives} \cup
                {[archives EXCEPT ![starts] = a] :
                 a \in {"broken", IF spent THEN "empty" ELSE "whole"}}
          /\ Return("communication") /\ UNCHANGED tries
    /\ UNCHANGED <<setup, builder, panicked, starts, lost, reread, scans>>

\* The scan the POST asks for.
NewScan ==
    [start |-> starts,
     type |-> IF UploadMode THEN "upload" ELSE "git",
     source |-> source,
     archive |-> IF UploadMode THEN archives[starts] ELSE "none",
     engines |-> engines,
     reread |-> reread,
     number |-> Cardinality(scans) + 1]

\* The scan is created; an answer that cannot be read is an error all the same.
Created ==
    /\ step = "create"
    /\ sent' = sent + 1
    /\ scans' = scans \cup {NewScan}
    /\ \E o \in {"ok", "response"} : Return(o)
    /\ UNCHANGED <<setup, builder, spent, tries, panicked, starts, lost, reread, archives>>

\* A request of the funnel is refused.
Refused ==
    /\ step \in {"presign", "create"}
    /\ sent' = sent + 1
    /\ Return("response")
    /\ UNCHANGED <<setup, builder, spent, tries, panicked, starts, lost, reread,
                   archives, scans>>

\* A request of the funnel is not answered, or asked to come again; it may have
\* been carried out.  It is sent again, unless that was the last time or the
\* caller's context is done.
Unanswered ==
    /\ step \in {"presign", "create"}
    /\ sent' = sent + 1
    /\ lost' = TRUE
    /\ tries' = tries - 1
    /\ \/ UNCHANGED scans
       \/ step = "create" /\ scans' = scans \cup {NewScan}
    /\ \/ tries > 1 /\ UNCHANGED <<step, outcome>>
       \/ Return("communication")
    /\ UNCHANGED <<setup, builder, spent, panicked, starts, reread, archives>>

Next ==
    \/ \E s \in {"branch", "narrowed"}, empty \in BOOLEAN : ForBranch(s, empty)
    \/ \E upload \in SUBSET {"body", "size"} : WithUploadReader(upload)
    \/ \E names \in {"none", "known", "unknown"} : WithEngines(names)
    \/ WithTags
    \/ Start \/ Presigned \/ PutFile \/ Created \/ Refused \/ Unanswered

Spec == Init /\ [][Next]_vars

-----------------------------------------------------------------------------
(* Properties.                                                             *)

\* Every variable has its type.
TypeOK ==
    /\ engines \in {"none", "known", "unknown"}
    /\ source \subseteq {"branch", "narrowed", "body", "size"}
    /\ step \in {"build", "presign", "put", "create"}
    /\ tries \in 0 .. Attempts /\ sent \in Nat
    /\ outcome \in {"none", "ok", "config", "response", "communication"}
    /\ archives \in [1 .. MaxStarts -> {"none", "whole", "empty", "broken"}]
    /\ \A s \in scans : s.start \in 1 .. starts

\* A scan is started on a source that is there: either a place in the repository
\* or an archive, never both (invoker.go: "Use exactly one source mode"), and the
\* archive is what its own Start stored, whole.  The one exception is a body that
\* had been read when Start began: such a Start stores an empty archive if net/http
\* knows the body's length, and starts no scan if it does not.
ScanHasItsSource ==
    \A s \in scans :
        \/ /\ s.type = "upload" /\ s.source \cap {"branch", "narrowed"} = {}
           /\ \/ s.archive = "whole" /\ ~s.reread
              \/ s.archive = "empty" /\ s.reread /\ inMemory
        \/ s.type = "git" /\ s.source \cap {"branch", "narrowed"} # {} /\ "body" \notin s.source

\* A Start that reports a configuration error has sent nothing, in whichever of
\* the two files the error is noticed (invoker.go:215-216); one Start creates one
\* scan, unless it lost a response; and every scan runs engines the platform has.
StartIsOneScan ==
    /\ outcome = "config" => sent = 0
    /\ lost \/ Cardinality({s \in scans : s.start = starts}) <= 1
    /\ \A s \in scans : s.engines = "known"
=============================================================================
