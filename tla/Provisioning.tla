---------------------------- MODULE Provisioning ----------------------------
(***************************************************************************)
(* The get-or-create helpers of workflows/projects, groups, users and      *)
(* clients: look a name up, create what is missing, and give it back.      *)
(* Goroutines race for one name, requests are refused or their responses   *)
(* lost and sent again, and a call may break off half done.                *)
(*                                                                         *)
(* Only the objects that bear the wanted name are kept, each with the      *)
(* application it was created in; decoys are other objects the platform's  *)
(* search also matches.                                                    *)
(***************************************************************************)
EXTENDS Integers, FiniteSets

CONSTANTS
    Callers,
    Attempts,       \* sends of a request by the funnel
    Limit,          \* limit, or Max, of the look-up
    MaxObjects,     \* bound on the objects created
    MaxCalls        \* bound on the calls each goroutine makes

\* What an instance of this module must satisfy.
ConstantsOK ==
    /\ Attempts \in Nat \ {0} /\ Limit \in Nat \ {0}
    /\ MaxObjects \in Nat /\ MaxCalls \in Nat

VARIABLES
    goal,           \* what all callers ask for
    unique,         \* whether the platform refuses a name that is taken
    decoys,         \* how many other objects the search matches
    objects,        \* the objects on the platform
    pc, kind,       \* pc[c], kind[c]: the step c is at, and about which kind
    tries,          \* tries[c]: sends left for the request on its way
    app,            \* app[c]: the application c has found or created, or 0
    made,           \* made[c]: the object c has created last in this call, or 0
    result,         \* result[c]: what c's last call returned
    calls,          \* calls[c]: number of calls c has begun
    excused,        \* history: something may explain a duplicate
    trouble         \* trouble[c]: history: something went wrong during c's call

platform == <<goal, unique, decoys, objects>>
locals == <<kind, tries, app, made>>
vars == <<platform, pc, locals, result, calls, excused, trouble>>

Goals == {"project", "in_application", "group", "user", "client"}
Kinds == {"application", "project", "group", "user", "client"}

Pending == [done |-> FALSE, ok |-> FALSE, id |-> 0]
Failed == [done |-> TRUE, ok |-> FALSE, id |-> 0]
Named(o) == [done |-> TRUE, ok |-> TRUE, id |-> o]

Init ==
    /\ goal \in Goals
    /\ unique \in BOOLEAN
    /\ decoys \in {0, Limit}
    /\ objects = {}
    /\ pc = [c \in Callers |-> "idle"]
    /\ kind = [c \in Callers |-> "project"]
    /\ tries = [c \in Callers |-> 0]
    /\ app = [c \in Callers |-> 0]
    /\ made = [c \in Callers |-> 0]
    /\ result = [c \in Callers |-> Pending]
    /\ calls = [c \in Callers |-> 0]
    /\ excused = FALSE
    /\ trouble = [c \in Callers |-> FALSE]

\* The objects of kind k, and whether a look-up may miss them: clients are
\* looked up by their exact clientId, the others by a pattern.
Bearing(k) == {o \in objects : o.kind = k}
Overflows(k) == k # "client" /\ decoys >= Limit

\* c sends its next request, about kind k.
Send(c, to, k) ==
    /\ pc' = [pc EXCEPT ![c] = to]
    /\ kind' = [kind EXCEPT ![c] = k]
    /\ tries' = [tries EXCEPT ![c] = Attempts]

Return(c, r) ==
    /\ pc' = [pc EXCEPT ![c] = "idle"]
    /\ result' = [result EXCEPT ![c] = r]

\* (mutant: a call creates without looking the name up)
BeginCreating(c) ==
    /\ pc[c] = "idle" /\ calls[c] < MaxCalls
    /\ Send(c, "create", IF goal = "in_application" THEN "application" ELSE goal)
    /\ app' = [app EXCEPT ![c] = 0]
    /\ made' = [made EXCEPT ![c] = 0]
    /\ result' = [result EXCEPT ![c] = Pending]
    /\ calls' = [calls EXCEPT ![c] = @ + 1]
    /\ LET others == {d \in Callers \ {c} : pc[d] # "idle"}
       IN  /\ excused' = (excused \/ others # {})
           /\ trouble' = [d \in Callers |->
                 IF d = c THEN others # {} ELSE trouble[d] \/ d \in others]
    /\ UNCHANGED platform

\* A call begins; calls in progress at the same time are noted.
Begin(c) ==
    /\ pc[c] = "idle" /\ calls[c] < MaxCalls
    /\ Send(c, "find", IF goal = "in_application" THEN "application" ELSE goal)
    /\ app' = [app EXCEPT ![c] = 0]
    /\ made' = [made EXCEPT ![c] = 0]
    /\ result' = [result EXCEPT ![c] = Pending]
    /\ calls' = [calls EXCEPT ![c] = @ + 1]
    /\ LET others == {d \in Callers \ {c} : pc[d] # "idle"}
       IN  /\ excused' = (excused \/ others # {})
           /\ trouble' = [d \in Callers |->
                 IF d = c THEN others # {} ELSE trouble[d] \/ d \in others]
    /\ UNCHANGED platform

\* c has its object o: the project comes after the application.
Got(c, o) ==
    IF kind[c] = "application"
    THEN /\ app' = [app EXCEPT ![c] = o]
         /\ Send(c, "find", "project")
         /\ UNCHANGED result
    ELSE /\ Return(c, Named(o))
         /\ UNCHANGED <<kind, tries, app>>

\* The look-up's page holds an object of the name.
Found(c) ==
    /\ pc[c] = "find"
    /\ \E o \in Bearing(kind[c]) : Got(c, o.id)
    /\ UNCHANGED <<platform, made, calls, excused, trouble>>

\* (mutant: what the look-up has found is not used)
NotFoundBlind(c) ==
    /\ pc[c] = "find"
    /\ Send(c, "create", kind[c])
    /\ UNCHANGED <<platform, app, made, result, calls, excused, trouble>>

\* It holds none, because there is none or others fill it.
NotFound(c) ==
    /\ pc[c] = "find"
    /\ Bearing(kind[c]) = {} \/ Overflows(kind[c])
    /\ Send(c, "create", kind[c])
    /\ excused' = (excused \/ Bearing(kind[c]) # {})
    /\ trouble' = [trouble EXCEPT ![c] = @ \/ Bearing(kind[c]) # {}]
    /\ UNCHANGED <<platform, app, made, result, calls>>

\* What the platform refuses: a name that is taken.
Taken(k) == unique /\ Bearing(k) # {}

\* The object a POST of c creates.
NewObject(c) ==
    [kind |-> kind[c], id |-> Cardinality(objects) + 1, app |-> app[c]]

Create(c) ==
    /\ ~Taken(kind[c])
    /\ Cardinality(objects) < MaxObjects
    /\ objects' = objects \cup {NewObject(c)}

\* The POST is answered: with the record, with its location, from which it is
\* read back, or with neither, so that it is looked up again.
Created(c) ==
    /\ pc[c] = "create"
    /\ Create(c)
    /\ made' = [made EXCEPT ![c] = NewObject(c).id]
    /\ CASE kind[c] \in {"application", "project"} -> Got(c, made'[c])
         [] kind[c] \in {"group", "user"} ->
              Send(c, "get", kind[c]) /\ UNCHANGED <<app, result>>
         [] kind[c] = "client" ->
              Send(c, "refind", "client") /\ UNCHANGED <<app, result>>
    /\ UNCHANGED <<goal, unique, decoys, calls, excused, trouble>>

\* The record is read back, or looked up again.
ReadBack(c) ==
    /\ \/ pc[c] = "get" /\ Got(c, made[c])
       \/ pc[c] = "refind" /\ \E o \in Bearing("client") : Got(c, o.id)
    /\ UNCHANGED <<platform, made, calls, excused, trouble>>

-----------------------------------------------------------------------------
(* Failures.                                                               *)

\* A name that is taken: the call fails.
Conflict(c) ==
    /\ pc[c] = "create" /\ Taken(kind[c])
    /\ Return(c, Failed)
    /\ UNCHANGED <<platform, locals, calls, excused, trouble>>

\* A request is refused for another reason, or its context ends: the call fails.
Refused(c) ==
    /\ pc[c] # "idle"
    /\ Return(c, Failed)
    /\ trouble' = [trouble EXCEPT ![c] = TRUE]
    /\ UNCHANGED <<platform, locals, calls, excused>>

\* No answer, or one that asks to come again: the request is sent again until its
\* attempts are used up.  The platform may have carried it out.
Unanswered(c) ==
    /\ pc[c] # "idle"
    /\ trouble' = [trouble EXCEPT ![c] = TRUE]
    /\ tries' = [tries EXCEPT ![c] = @ - 1]
    /\ \/ UNCHANGED <<objects, excused>>
       \/ /\ pc[c] = "create" /\ Create(c)
          /\ excused' = TRUE
    /\ IF tries[c] > 1 THEN UNCHANGED <<pc, result>> ELSE Return(c, Failed)
    /\ UNCHANGED <<goal, unique, decoys, kind, app, made, calls>>

Step(c) ==
    \/ Found(c) \/ NotFound(c) \/ Created(c) \/ ReadBack(c)
    \/ Conflict(c) \/ Refused(c) \/ Unanswered(c)

Next == \E c \in Callers : Begin(c) \/ Step(c)

Spec == Init /\ [][Next]_vars

-----------------------------------------------------------------------------
(* Properties.                                                             *)

\* Every variable has its type.
TypeOK ==
    /\ goal \in Goals /\ unique \in BOOLEAN /\ decoys \in 0 .. Limit
    /\ objects \subseteq [kind : Kinds, id : 1 .. MaxObjects, app : 0 .. MaxObjects]
    /\ pc \in [Callers -> {"idle", "find", "create", "get", "refind"}]
    /\ kind \in [Callers -> Kinds]
    /\ tries \in [Callers -> 0 .. Attempts]
    /\ app \in [Callers -> 0 .. MaxObjects] /\ made \in [Callers -> 0 .. MaxObjects]
    /\ calls \in [Callers -> 0 .. MaxCalls]

\* Two objects of one name come only of calls that overlap, of a response that
\* was lost, or of a look-up whose page was full, and on no platform that refuses
\* duplicates: one call after the other, retried after failures of any other
\* kind, creates one object (helpers.go: "returns the existing ... or creates").
DuplicatesExplained ==
    \A k \in Kinds :
        Cardinality(Bearing(k)) > 1 => ~unique /\ excused

\* A call fails only for something that happens during it: what an earlier call
\* left half done, the application without its project or an object it never
\* learned of, does not stand in its way.
FailureIsOwn ==
    \A c \in Callers : result[c] = Failed => trouble[c]

\* A project created by a call for a project in an application is created in
\* the application that call answers with.
CreatedInApplication ==
    goal = "in_application" =>
        \A c \in Callers : \A o \in objects :
            o.kind = "project" /\ o.id = made[c] => o.app = app[c] /\ o.app # 0
=============================================================================
