----------------------------- MODULE LazyReader -----------------------------
(***************************************************************************)
(* The caches of workflows/roles/reader.go, workflows/users/reader.go and  *)
(* ASTAppIDCache of workflows/clients/helpers.go, each shared by           *)
(* goroutines.  A catalogue is fetched under the reader's mutex on first   *)
(* use and looked up in a second critical section; a role also caches the  *)
(* first answer about its composites, whatever it was, under a mutex of    *)
(* its own; the ast-app cache keeps its last error beside its identifier.  *)
(*                                                                         *)
(* What the catalogue holds is abstracted to how many items were read, the *)
(* role to one composite role, and an outcome to the load it comes from.   *)
(***************************************************************************)
EXTENDS Naturals

CONSTANTS
    Callers,        \* goroutines sharing the reader
    Nobody,         \* holder of a free mutex
    PageSize,       \* fetchAllUsers' pageSize
    MaxItems,       \* size of the largest catalogue
    MaxLoads        \* loads of either kind, counted and bounded

\* What an instance of this module must satisfy.
ConstantsOK ==
    /\ Nobody \notin Callers
    /\ PageSize \in Nat \ {0} /\ MaxItems \in Nat /\ MaxLoads \in Nat

VARIABLES
    reader,         \* "roles", "users" or "app_id"
    backend,        \* whether the reader has an Executor
    total,          \* size of the platform's catalogue
    mu, loaded,     \* mu, loaded
    items,          \* number of items of the catalogue held
    err,            \* ASTAppIDCache.err: the load that failed last, or 0
    emu, settled,   \* roleEntry.mu, and what its composites fields hold
    pc,             \* pc[c]: where goroutine c is
    op,             \* op[c]: what c asked for
    load,           \* load[c]: the load c has made in this call, or 0
    read,           \* read[c]: items c has collected from earlier pages
    answer,         \* answer[c]: what c's last call returned
    loads,          \* number of catalogue loads started
    wins,           \* history: catalogue loads that succeeded
    asks            \* history: requests for the composites

call == <<op, load, read>>
catalogue == <<mu, loaded, items, err>>
entry == <<emu, settled>>
history == <<loads, wins, asks>>
setup == <<reader, backend, total>>
vars == <<setup, catalogue, entry, pc, call, answer, history>>

\* What a call returns: whether there is no error, what it is about, and the
\* load or request it comes from.
Good(what, n) == [ok |-> TRUE, of |-> what, from |-> n]
Bad(what, n) == [ok |-> FALSE, of |-> what, from |-> n]
Nothing == Bad("nothing", 0)

\* The calls of each cache; a lookup is List, ByID, ByName, ByEmail, ByUsername
\* or Get.
Ops(r) ==
    CASE r = "roles" -> {"lookup", "composites", "direct"}
      [] r = "users" -> {"lookup", "direct"}
      [] r = "app_id" -> {"lookup"}

Init ==
    /\ reader \in {"roles", "users", "app_id"}
    /\ backend \in BOOLEAN
    /\ total \in 0 .. MaxItems
    /\ mu = Nobody /\ loaded = FALSE /\ items = 0 /\ err = 0
    /\ emu = Nobody /\ settled = Nothing
    /\ pc = [c \in Callers |-> "idle"]
    /\ op = [c \in Callers |-> "none"]
    /\ load = [c \in Callers |-> 0]
    /\ read = [c \in Callers |-> 0]
    /\ answer = [c \in Callers |-> Nothing]
    /\ loads = 0 /\ wins = 0 /\ asks = 0

Goto(c, from, to) ==
    /\ pc[c] = from
    /\ pc' = [pc EXCEPT ![c] = to]

Return(c, from, a) ==
    /\ Goto(c, from, "idle")
    /\ answer' = [answer EXCEPT ![c] = a]

\* A call begins.
Begin(c, o) ==
    /\ Goto(c, "idle", IF o = "direct" THEN "direct" ELSE "lock")
    /\ op' = [op EXCEPT ![c] = o]
    /\ load' = [load EXCEPT ![c] = 0]
    /\ answer' = [answer EXCEPT ![c] = Nothing]
    /\ UNCHANGED <<setup, catalogue, entry, read, history>>

\* ListClientRoles and Count: a request each time, nothing is kept.
Direct(c) ==
    /\ \/ backend /\ Return(c, "direct", Good("direct", 0))
       \/ Return(c, "direct", Bad("direct", 0))
    /\ UNCHANGED <<setup, catalogue, entry, call, history>>

-----------------------------------------------------------------------------
(* The catalogue.                                                          *)

\* ASTAppIDCache answers in the section it loads in, with the error it holds.
\* The readers look up later, in a section of their own.
AlreadyLoaded(c) ==
    IF reader # "app_id" THEN Goto(c, "lock", "read") /\ UNCHANGED answer
    ELSE Return(c, "lock", IF err = 0 THEN Good("catalogue", 0) ELSE Bad("catalogue", err))

\* (mutant: the mutex is dropped while the catalogue is on its way)
EnsureLoadedUnlocked(c) ==
    /\ mu = Nobody
    /\ \/ loaded /\ AlreadyLoaded(c) /\ UNCHANGED <<mu, load, read, loads>>
       \/ /\ ~loaded /\ ~backend
          /\ Return(c, "lock", Bad("backend", 0))
          /\ UNCHANGED <<mu, load, read, loads>>
       \/ /\ ~loaded /\ backend /\ loads < MaxLoads
          /\ Goto(c, "lock", "fetch")
          /\ loads' = loads + 1
          /\ load' = [load EXCEPT ![c] = loads']
          /\ read' = [read EXCEPT ![c] = 0]
          /\ UNCHANGED <<mu, answer>>
    /\ UNCHANGED <<setup, loaded, items, err, entry, op, wins, asks>>

\* ensureLoaded, and Get, up to the request.  The error kept for a missing
\* backend is never read: without one nothing is ever loaded.
EnsureLoaded(c) ==
    /\ mu = Nobody
    /\ \/ loaded /\ AlreadyLoaded(c) /\ UNCHANGED <<mu, load, read, loads>>
       \/ /\ ~loaded /\ ~backend
          /\ Return(c, "lock", Bad("backend", 0))
          /\ UNCHANGED <<mu, load, read, loads>>
       \/ /\ ~loaded /\ backend /\ loads < MaxLoads
          /\ Goto(c, "lock", "fetch")
          /\ mu' = c
          /\ loads' = loads + 1
          /\ load' = [load EXCEPT ![c] = loads']
          /\ read' = [read EXCEPT ![c] = 0]
          /\ UNCHANGED answer
    /\ UNCHANGED <<setup, loaded, items, err, entry, op, wins, asks>>

\* (mutant: a page that is just full is taken for the last one)
LastPageFull(n) == n <= PageSize

\* fetchAllUsers stops at a page that is not full.
LastPage(n) == n < PageSize

\* The number of items in the page at offset o.
PageAt(o) == IF total - o < PageSize THEN total - o ELSE PageSize

\* Another page of users follows.
NextPage(c) ==
    /\ pc[c] = "fetch" /\ reader = "users"
    /\ ~LastPage(PageAt(read[c]))
    /\ read' = [read EXCEPT ![c] = @ + PageSize]
    /\ UNCHANGED <<setup, catalogue, entry, pc, op, load, answer, history>>

\* The catalogue is there: it is kept and the mutex given back.  An ast-app that
\* the tenant does not have is an error.
Load(c) ==
    /\ pc[c] = "fetch"
    /\ reader = "users" => LastPage(PageAt(read[c]))
    /\ reader = "app_id" => total > 0
    /\ IF reader = "app_id" THEN Return(c, "fetch", Good("catalogue", load[c]))
       ELSE Goto(c, "fetch", "read") /\ UNCHANGED answer
    /\ items' = IF reader = "users" THEN read[c] + PageAt(read[c]) ELSE total
    /\ loaded' = TRUE
    /\ mu' = Nobody
    /\ wins' = wins + 1
    /\ UNCHANGED <<setup, err, entry, call, loads, asks>>

\* The request fails, in whichever way, the caller's own cancellation included.
LoadFails(c) ==
    /\ Return(c, "fetch", Bad("catalogue", load[c]))
    /\ err' = IF reader = "app_id" THEN load[c] ELSE err
    /\ mu' = Nobody
    /\ UNCHANGED <<setup, loaded, items, entry, call, history>>

\* The second critical section of List, the lookups and Composites, which for
\* a role that is unknown, or not composite, ends here.
Lookup(c) ==
    /\ mu = Nobody
    /\ \/ Return(c, "read", Good("catalogue", 0))
       \/ op[c] = "composites" /\ Goto(c, "read", "entry") /\ UNCHANGED answer
    /\ UNCHANGED <<setup, catalogue, entry, call, history>>

-----------------------------------------------------------------------------
(* The composites of a role.                                               *)

\* Composites of a composite role, up to the request.
Composites(c) ==
    /\ emu = Nobody
    /\ \/ settled # Nothing /\ Return(c, "entry", settled) /\ UNCHANGED <<emu, asks>>
       \/ /\ settled = Nothing
          /\ Goto(c, "entry", "ask")
          /\ emu' = c
          /\ asks' = asks + 1
          /\ UNCHANGED answer
    /\ UNCHANGED <<setup, catalogue, settled, call, loads, wins>>

\* (mutant: an error is not kept)
CompositesArriveRetrying(c) ==
    /\ \E a \in {Good("composites", asks), Bad("composites", asks)} :
          Return(c, "ask", a) /\ settled' = IF a.ok THEN a ELSE settled
    /\ emu' = Nobody
    /\ UNCHANGED <<setup, catalogue, call, history>>

\* GetComposites answers: the value or the error is kept.
CompositesArrive(c) ==
    /\ \E a \in {Good("composites", asks), Bad("composites", asks)} :
          Return(c, "ask", a) /\ settled' = a
    /\ emu' = Nobody
    /\ UNCHANGED <<setup, catalogue, call, history>>

-----------------------------------------------------------------------------

Next ==
    \E c \in Callers :
        \/ \E o \in Ops(reader) : Begin(c, o)
        \/ Direct(c) \/ EnsureLoaded(c) \/ NextPage(c) \/ Load(c) \/ LoadFails(c)
        \/ Lookup(c) \/ Composites(c) \/ CompositesArrive(c)

Spec == Init /\ [][Next]_vars

-----------------------------------------------------------------------------
(* Properties.                                                             *)

Answers == [ok : BOOLEAN, of : {"nothing", "catalogue", "composites", "direct", "backend"},
            from : 0 .. MaxLoads]

\* Every variable has its type, and only a goroutine that waits for an answer
\* holds a mutex.
TypeOK ==
    /\ mu \in Callers \cup {Nobody} /\ emu \in Callers \cup {Nobody}
    /\ \A c \in Callers : pc[c] = "fetch" <=> mu = c
    /\ \A c \in Callers : pc[c] = "ask" <=> emu = c
    /\ loaded \in BOOLEAN /\ items \in 0 .. MaxItems /\ err \in 0 .. MaxLoads
    /\ settled \in Answers
    /\ answer \in [Callers -> Answers]
    /\ load \in [Callers -> 0 .. MaxLoads]
    /\ read \in [Callers -> 0 .. MaxItems]

\* A catalogue that was read is never read again, and a role's composites are
\* asked for once, whoever calls at the same time and whatever failed before
\* (reader.go: "lazily fetching and caching them on first access").
AskedOnce == wins <= 1 /\ asks <= 1

\* The catalogue a reader serves from is the whole one, also when the number of
\* users is a multiple of the page size and when an earlier walk broke off.
CatalogueWhole == loaded => items = total

\* All goroutines get the answer about a role's composites that came first, be
\* it an error.
CompositesSettled ==
    \A c \in Callers : answer[c].of = "composites" => answer[c] = settled

\* A bound for the steps that a call still makes.
StepsLeft(c) ==
    CASE pc[c] = "idle" -> 0
      [] pc[c] \in {"direct", "ask"} -> 1
      [] pc[c] = "entry" -> 2
      [] pc[c] = "read" -> 3
      [] pc[c] = "fetch" -> 4 + (total - read[c])
      [] pc[c] = "lock" -> 5 + total

\* Every step of a call, every page of its walk too, uses up some of what is left
\* of it, and no step of another goroutine gives any of it back.
UsesUpSteps ==
    \A c \in Callers : pc[c] # "idle" =>
        IF pc'[c] = pc[c] /\ read'[c] = read[c] THEN StepsLeft(c)' = StepsLeft(c)
        ELSE StepsLeft(c)' \in 0 .. StepsLeft(c) - 1

\* A call that fails for a catalogue made the load that failed: the ast-app
\* cache's result "is cached after the first successful lookup"
\* (client.go:671-672), so that no later call may bring an old error.
LoadErrorIsOwn ==
    \A c \in Callers :
        ~answer[c].ok /\ answer[c].of = "catalogue" => answer[c].from = load[c]
=============================================================================
