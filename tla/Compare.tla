------------------------------ MODULE Compare ------------------------------
(***************************************************************************)
(* workflows/scans/compare.go: the results of two scans are fetched by two *)
(* goroutines, the first error of which cancels the other, and then told   *)
(* apart into new, resolved and recurrent findings by severity.            *)
(*                                                                         *)
(* A result is a record of the fields the comparison reads; query names    *)
(* are numbers in the order of the names.  The pages of a fetch, and how   *)
(* Collect goes through them, are Pagination's.                            *)
(***************************************************************************)
EXTENDS Integers, Sequences, FiniteSets, SequencesExt, FiniteSetsExt

CONSTANTS
    Scans,          \* the lists of results a scan may have
    Filters,        \* filters by severity: sets of severities
    EngineFilters,  \* filters by engine: sets of types
    MaxPages        \* pages of the longest fetch

\* What an instance of this module must satisfy.
ConstantsOK ==
    /\ \A s \in Scans :
          /\ s \in Seq(ToSet(s))
          /\ \A r \in ToSet(s) :
                /\ DOMAIN r = {"similarityId", "resultHash", "severity", "type",
                               "state", "query"}
                /\ r.query \in Int
    /\ {} \notin Filters \cup EngineFilters
    /\ MaxPages \in Nat \ {0}

Fetches == {"old", "new"}

VARIABLES
    options,        \* compareOptions
    fetch,          \* fetch[f]: "wait", or how goroutine f ended
    pages,          \* pages[f]: pages it has still to ask for
    found,          \* found[f]: the results it brought
    firstErr,       \* firstErr, the error set first
    ctxErr,         \* the caller's context is done
    cancelled,      \* gctx is done
    told,           \* the stages progress was told of
    report          \* what Compare returned

vars == <<options, fetch, pages, found, firstErr, ctxErr, cancelled, told, report>>

IdentityKeys == {"similarityId", "resultHash"}

-----------------------------------------------------------------------------
(* The comparison of two lists of results.                                 *)

\* A filter without a member is one that is not set.
Unfiltered == {}

\* wantSeverity and wantEngine.
Wanted(r, o) ==
    /\ o.severities = Unfiltered \/ r.severity \in o.severities
    /\ o.engines = Unfiltered \/ r.type \in o.engines

\* identityFn.
IdentityOf(r, o) == r[o.identityKey]

\* The wanted ones among a list of results, by their places.
WantedIn(results, o) == {i \in DOMAIN results : Wanted(results[i], o)}

\* The identities found among them.
Identities(results, o) == {IdentityOf(results[i], o) : i \in WantedIn(results, o)}

\* oldByID and newByID: among the results of one identity the last one counts.
ById(results, o) ==
    [id \in Identities(results, o) |->
        results[Max({i \in WantedIn(results, o) : IdentityOf(results[i], o) = id})]]

\* How many of the identities ids have severity s in the table t.
CountOf(t, ids, s) == Cardinality({id \in ids : t[id].severity = s})

Severities(t) == {t[id].severity : id \in DOMAIN t}

\* (mutant: what is resolved is not looked up among the new)
DiffResultsUnmatched(old, new, o) ==
    LET was == ById(old, o)
        is == ById(new, o)
        bucket(s) == [New |-> CountOf(is, DOMAIN is \ DOMAIN was, s),
                      Recurrent |-> CountOf(is, DOMAIN is \cap DOMAIN was, s),
                      Resolved |-> CountOf(was, DOMAIN was, s)]
    IN  [s \in Severities(is) \cup Severities(was) |-> bucket(s)]

\* diffResults: a severity has a bucket when something falls into it.
DiffResults(old, new, o) ==
    LET was == ById(old, o)
        is == ById(new, o)
        bucket(s) == [New |-> CountOf(is, DOMAIN is \ DOMAIN was, s),
                      Recurrent |-> CountOf(is, DOMAIN is \cap DOMAIN was, s),
                      Resolved |-> CountOf(was, DOMAIN was \ DOMAIN is, s)]
    IN  [s \in Severities(is)
               \cup {was[id].severity : id \in DOMAIN was \ DOMAIN is} |-> bucket(s)]

\* The sum of a column of a table: the totals of a comparison, the size of its groups.
Total(diff, what) == MapThenSumSet(LAMBDA s : diff[s][what], DOMAIN diff)

Suppressed == {"NOT_EXPLOITABLE", "PROPOSED_NOT_EXPLOITABLE"}

\* The results that groupNotExploitable counts, by their places.
HiddenIn(results, o) == {i \in WantedIn(results, o) : results[i].state \in Suppressed}

\* The order of the groups: the largest first, and then by name.
Before(g, h) == g.count > h.count \/ (g.count = h.count /\ g.query < h.query)

\* counts: every hidden result counts, in one group for each query name; a group's
\* severity is its first result's.
Groups(results, o) ==
    LET of(q) == {i \in HiddenIn(results, o) : results[i].query = q}
    IN  {[query |-> q, severity |-> results[Min(of(q))].severity,
          count |-> Cardinality(of(q))] :
            q \in {results[i].query : i \in HiddenIn(results, o)}}

\* groupNotExploitable: the groups in their order, so that a group at place n has
\* n - 1 before it.
GroupNotExploitable(results, o) ==
    LET groups == Groups(results, o)
        before(g) == {h \in groups : Before(h, g)}
    IN  [n \in 1 .. Cardinality(groups) |->
            CHOOSE g \in groups : Cardinality(before(g)) = n - 1]

-----------------------------------------------------------------------------
(* Compare.                                                                *)

NoReport == [status |-> "none"]

Init ==
    /\ options \in [identityKey : IdentityKeys \cup {"other"},
                    severities : Filters \cup {Unfiltered},
                    engines : EngineFilters \cup {Unfiltered}, named : BOOLEAN]
    /\ fetch = [f \in Fetches |-> "wait"]
    /\ pages \in [Fetches -> 1 .. MaxPages]
    /\ found = [f \in Fetches |-> <<>>]
    /\ firstErr = "none"
    /\ ctxErr = FALSE /\ cancelled = FALSE
    /\ told = {}
    /\ report = NoReport

\* A missing backend, scan identifier or known key ends Compare at once.
Invalid ==
    /\ report = NoReport
    /\ ~(options.named /\ options.identityKey \in IdentityKeys)
    /\ report' = [status |-> "config"]
    /\ UNCHANGED <<options, fetch, pages, found, firstErr, ctxErr, cancelled, told>>

Fetching(f) ==
    /\ options.named /\ options.identityKey \in IdentityKeys
    /\ fetch[f] = "wait"

\* Another page follows.
NextPage(f) ==
    /\ Fetching(f) /\ pages[f] > 1
    /\ pages' = [pages EXCEPT ![f] = @ - 1]
    /\ UNCHANGED <<options, fetch, found, firstErr, ctxErr, cancelled, told, report>>

\* The last page has come, also after a cancellation.
Fetched(f) ==
    /\ Fetching(f) /\ pages[f] = 1
    /\ fetch' = [fetch EXCEPT ![f] = "ok"]
    /\ \E results \in Scans : found' = [found EXCEPT ![f] = results]
    /\ told' = told \cup {f}
    /\ UNCHANGED <<options, pages, firstErr, ctxErr, cancelled, report>>

\* (mutant: the last error is kept)
SetLastErr(e) ==
    /\ firstErr' = e
    /\ cancelled' = TRUE

\* setFirstErr: the first error is kept and cancels the other fetch.
SetFirstErr(e) ==
    /\ firstErr' = IF firstErr = "none" THEN e ELSE firstErr
    /\ cancelled' = TRUE

\* A page fails for good.
FetchFails(f) ==
    /\ Fetching(f)
    /\ fetch' = [fetch EXCEPT ![f] = "failed"]
    /\ SetFirstErr("server")
    /\ UNCHANGED <<options, pages, found, ctxErr, told, report>>

\* The fetch finds its context done.
FetchCancelled(f) ==
    /\ Fetching(f) /\ cancelled
    /\ fetch' = [fetch EXCEPT ![f] = "failed"]
    /\ SetFirstErr("cancelled")
    /\ UNCHANGED <<options, pages, found, ctxErr, told, report>>

\* Both goroutines are done: the first error, or the comparison.
Return ==
    /\ report = NoReport
    /\ \A f \in Fetches : fetch[f] # "wait"
    /\ \/ /\ firstErr # "none"
          /\ report' = [status |-> firstErr]
          /\ UNCHANGED told
       \/ /\ firstErr = "none"
          /\ report' = [status |-> "ok",
                        bySeverity |-> DiffResults(found["old"], found["new"], options),
                        notExploitable |-> GroupNotExploitable(found["new"], options)]
          /\ told' = told \cup {"diff", "not-exploitable"}
    /\ UNCHANGED <<options, fetch, pages, found, firstErr, ctxErr, cancelled>>

\* The caller's context is cancelled, and gctx with it.
ContextDone ==
    /\ report = NoReport /\ ~ctxErr
    /\ ctxErr' = TRUE /\ cancelled' = TRUE
    /\ UNCHANGED <<options, fetch, pages, found, firstErr, told, report>>

Goroutine(f) == NextPage(f) \/ Fetched(f) \/ FetchFails(f) \/ FetchCancelled(f)

Next == Invalid \/ (\E f \in Fetches : Goroutine(f)) \/ Return \/ ContextDone

Spec == Init /\ [][Next]_vars

-----------------------------------------------------------------------------
(* Properties.                                                             *)

\* Every variable has its type.
TypeOK ==
    /\ fetch \in [Fetches -> {"wait", "ok", "failed"}]
    /\ pages \in [Fetches -> 1 .. MaxPages]
    /\ found \in [Fetches -> Scans \cup {<<>>}]
    /\ firstErr \in {"none", "server", "cancelled"}
    /\ ctxErr \in BOOLEAN /\ cancelled \in BOOLEAN
    /\ told \subseteq Fetches \cup {"diff", "not-exploitable"}
    /\ report.status \in {"none", "config", "server", "cancelled", "ok"}

\* Compare reports a cancellation only to a caller who cancelled: the one an
\* error of one fetch causes in the other never hides that error
\* (compare.go:142-145, "first-error pattern"), and no result is
\* reported while a goroutine is still fetching.
FirstErrorWins ==
    /\ report.status = "cancelled" => ctxErr
    /\ report.status \in {"ok", "server", "cancelled"} => \A f \in Fetches : fetch[f] # "wait"
    /\ report.status = "ok" => told = Fetches \cup {"diff", "not-exploitable"}

\* The comparison accounts for every wanted identity of either scan once, and
\* comparing the scans the other way round exchanges what is new and what is
\* resolved, severity by severity, also when identities repeat or change
\* their severity.
DiffIsPartition ==
    report.status = "ok" =>
        LET diff == report.bySeverity
            back == DiffResults(found["new"], found["old"], options)
            ids(f) == {IdentityOf(r, options) : r \in
                          {x \in ToSet(found[f]) : Wanted(x, options)}}
        IN  /\ Total(diff, "New") + Total(diff, "Recurrent") = Cardinality(ids("new"))
            /\ Total(diff, "Resolved") + Total(diff, "Recurrent") = Cardinality(ids("old"))
            /\ \A s \in DOMAIN diff \cap DOMAIN back : diff[s].New = back[s].Resolved
            /\ \A s \in DOMAIN diff \ DOMAIN back : diff[s].New = 0

\* The suppressed findings are listed once for each query, the largest group first,
\* and none is lost.
SuppressedAreListed ==
    report.status = "ok" =>
        LET list == report.notExploitable
        IN  /\ Total(list, "count") = Cardinality(HiddenIn(found["new"], options))
            /\ \A i, j \in DOMAIN list : i < j =>
                  list[i].count >= list[j].count /\ list[i].query # list[j].query

\* A report adds up, in both of its parts.
ComparisonAddsUp == DiffIsPartition /\ SuppressedAreListed
=============================================================================
