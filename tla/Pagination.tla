----------------------------- MODULE Pagination -----------------------------
(***************************************************************************)
(* pagination/iterator.go: the item-yielding iterator over an endpoint     *)
(* that serves pages, while the collection behind the endpoint changes     *)
(* between two pages and page requests fail.  One goroutine uses the       *)
(* iterator: item by item (Next), or to the end (Collect, All).            *)
(*                                                                         *)
(* The adapters that build iterators (Iter, NewGraphQL, the results        *)
(* reader) differ in the endpoint alone.                                   *)
(***************************************************************************)
EXTENDS Integers, Sequences, SequencesExt

CONSTANTS
    Catalogue,      \* the collection when the walk begins, a sequence
    Added,          \* items added to it later, at either end
    Configs,        \* the configurations of the iterator
    MaxRemovals,    \* bound: removals from the collection
    MaxPage         \* the longest page the endpoint serves (external)

\* What the constants have to be.  As in Config, PageSize and PageRetriesMax
\* may be zero, for "not set".
ConstantsOK ==
    /\ Catalogue \in Seq(Range(Catalogue)) /\ IsInjective(Catalogue)
    /\ Added \cap Range(Catalogue) = {}
    /\ Configs \subseteq [pageSize : Nat, offsetIsByCount : BOOLEAN,
                          pageRetriesMax : Int]
    /\ MaxRemovals \in Nat /\ MaxPage \in Nat \ {0}

VARIABLES
    items,      \* the collection on the platform (external)
    unborn,     \* items to be added yet
    removals,   \* removals from it so far
    inserted,   \* history: an item was added in front
    blanked,    \* history: an answer came without its page
    cfg,        \* it.cfg
    offset, exhausted, buffer,      \* the iterator
    pc,         \* "ready": no Next in progress; "fetch": page request on
                \* the wire; "sleep": between two attempts
    collecting, \* the Next in progress, or the next one, is Collect's
    attempt,    \* attempt in fetchNextPage
    ctxErr,     \* the caller's context is done
    yielded,    \* the items handed to the caller, in order
    last        \* what the last Next returned

platform == <<items, unborn, removals, inserted>>
iterator == <<cfg, offset, exhausted, buffer>>
vars == <<platform, blanked, iterator, pc, collecting, attempt, ctxErr, yielded, last>>

\* The adapters count items, whatever the caller's configuration says.
ByCount(c) == [c EXCEPT !.offsetIsByCount = TRUE]

WithDefaults(c) ==
    [c EXCEPT !.pageSize = IF @ = 0 THEN 100 ELSE @,
              !.pageRetriesMax = IF @ = 0 THEN 5 ELSE @]

Init ==
    /\ items = Catalogue /\ unborn = Added
    /\ removals = 0
    /\ inserted = FALSE /\ blanked = FALSE
    /\ \E c \in Configs : cfg \in {WithDefaults(c), WithDefaults(ByCount(c))}
    /\ offset = 0 /\ exhausted = FALSE /\ buffer = <<>>
    /\ pc = "ready"
    /\ collecting = FALSE
    /\ attempt = 1
    /\ ctxErr = FALSE
    /\ yielded = <<>>
    /\ last = "none"

PageAttempts == cfg.pageRetriesMax + 1

-----------------------------------------------------------------------------
(* The platform (external).                                                *)

Shorter(m, n) == IF m < n THEN m ELSE n

\* The page at an offset, of at most limit items.  An endpoint that numbers its
\* pages has an iterator configured for page numbers.
PageAt(off, limit) ==
    LET skip == IF cfg.offsetIsByCount THEN off ELSE off * limit
    IN  SubSeq(items, skip + 1, Shorter(skip + Shorter(limit, MaxPage), Len(items)))

Present == Range(items)

AddItem ==
    \E i \in unborn :
        /\ \/ items' = <<i>> \o items /\ inserted' = TRUE
           \/ items' = Append(items, i) /\ UNCHANGED inserted
        /\ unborn' = unborn \ {i}
        /\ UNCHANGED <<removals, blanked, iterator, pc, collecting, attempt, ctxErr, yielded, last>>

RemoveItem ==
    /\ removals < MaxRemovals
    /\ \E n \in DOMAIN items : items' = RemoveAt(items, n)
    /\ removals' = removals + 1
    /\ UNCHANGED <<unborn, inserted, blanked, iterator, pc, collecting, attempt, ctxErr,
                   yielded, last>>

-----------------------------------------------------------------------------
(* The iterator.                                                           *)

\* A Next ends; Collect goes on for as long as it gets items.
Return(what) ==
    /\ pc' = "ready"
    /\ last' = what
    /\ collecting' = (collecting /\ what = "item")
    /\ attempt' = 1

\* The caller starts Collect, or ranges over All.
Collect ==
    /\ pc = "ready" /\ ~collecting
    /\ collecting' = TRUE
    /\ UNCHANGED <<platform, blanked, iterator, pc, attempt, ctxErr, yielded, last>>

\* The first item of a buffer goes to the caller.
Yield(b) ==
    /\ yielded' = Append(yielded, Head(b))
    /\ buffer' = Tail(b)
    /\ Return("item")

\* Next finds an item in the buffer.
NextBuffered ==
    /\ pc = "ready"
    /\ buffer # <<>>
    /\ Yield(buffer)
    /\ UNCHANGED <<platform, blanked, cfg, offset, exhausted, ctxErr>>

\* Next with nothing buffered: the stream has ended, or a page is due.
NextUnbuffered ==
    /\ pc = "ready"
    /\ buffer = <<>>
    /\ \/ /\ exhausted
          /\ Return("end")
          /\ UNCHANGED exhausted
       \/ /\ ~exhausted /\ PageAttempts < 1
          /\ exhausted' = TRUE
          /\ Return("end")
       \/ /\ ~exhausted /\ PageAttempts >= 1 /\ ctxErr
          /\ Return("error")
          /\ UNCHANGED exhausted
       \/ /\ ~exhausted /\ PageAttempts >= 1 /\ ~ctxErr
          /\ pc' = "fetch"
          /\ UNCHANGED <<exhausted, collecting, attempt, last>>
    /\ UNCHANGED <<platform, blanked, cfg, offset, buffer, ctxErr, yielded>>

\* (mutants: a page is not counted; it is counted by what it holds less one)
AdvanceOffsetNever(off, page) == off
AdvanceOffsetTooFar(off, page) == off + cfg.pageSize + 1

AdvanceOffset(off, page) ==
    IF cfg.offsetIsByCount THEN off + cfg.pageSize ELSE off + 1

\* What the fetcher makes of an answer: its page, or an empty one when it has no
\* body, or a GraphQL answer no data.
Fetched == {PageAt(offset, cfg.pageSize), <<>>}

\* The page arrives; an empty one ends the stream.
PageArrives ==
    /\ pc = "fetch"
    /\ \E page \in Fetched :
           /\ blanked' = (blanked \/ page # PageAt(offset, cfg.pageSize))
           /\ offset' = AdvanceOffset(offset, page)
           /\ \/ /\ page = <<>>
                 /\ exhausted' = TRUE
                 /\ Return("end")
                 /\ UNCHANGED <<buffer, yielded>>
              \/ /\ page # <<>>
                 /\ Yield(page)
                 /\ UNCHANGED exhausted
    /\ UNCHANGED <<platform, cfg, ctxErr>>

\* The request fails: for good, or with an error worth another attempt.
PageFails ==
    /\ pc = "fetch"
    /\ \/ /\ Return("error")
       \/ /\ attempt < PageAttempts
          /\ pc' = "sleep"
          /\ UNCHANGED <<collecting, attempt, last>>
    /\ UNCHANGED <<platform, blanked, iterator, ctxErr, yielded>>

\* (mutant: the attempts are not counted)
SleepEndsUncounted ==
    /\ pc = "sleep"
    /\ ~ctxErr
    /\ pc' = "fetch"
    /\ UNCHANGED <<platform, blanked, iterator, collecting, attempt, ctxErr, yielded, last>>

\* The delay passes or the context ends; either way the context is looked at
\* before another attempt.
SleepEnds ==
    /\ pc = "sleep"
    /\ \/ ctxErr /\ Return("error")
       \/ /\ ~ctxErr
          /\ attempt' = attempt + 1
          /\ pc' = "fetch"
          /\ UNCHANGED <<collecting, last>>
    /\ UNCHANGED <<platform, blanked, iterator, ctxErr, yielded>>

\* The caller's context is cancelled, or the caller comes with another one.
Context ==
    /\ \/ pc # "ready" /\ ctxErr' = TRUE /\ ~ctxErr
       \/ pc = "ready" /\ ~collecting /\ ctxErr' = FALSE /\ ctxErr
    /\ UNCHANGED <<platform, blanked, iterator, pc, collecting, attempt, yielded, last>>

Step == NextBuffered \/ NextUnbuffered \/ PageArrives \/ PageFails \/ SleepEnds

Next == Step \/ Collect \/ Context \/ AddItem \/ RemoveItem

Spec == Init /\ [][Next]_vars

\* Requests end by the HTTP client's timeout, delays by their timer, and
\* Collect calls Next until it has to stop.
CollectStep == (collecting \/ pc # "ready") /\ Step

Fairness == WF_vars(CollectStep)

FairSpec == Spec /\ Fairness

-----------------------------------------------------------------------------
(* Properties.                                                             *)

\* Every variable has its type, and a page is asked for within its budget.
TypeOK ==
    /\ Present \subseteq Range(Catalogue) \cup Added
    /\ unborn \subseteq Added
    /\ removals \in 0..MaxRemovals
    /\ {inserted, blanked, exhausted, collecting, ctxErr} \subseteq BOOLEAN
    /\ cfg.pageSize \in Nat \ {0} /\ offset \in Nat
    /\ Range(buffer) \cup Range(yielded) \subseteq Range(Catalogue) \cup Added
    /\ pc \in {"ready", "fetch", "sleep"}
    /\ attempt \in Nat \ {0} /\ (pc # "ready" => attempt <= PageAttempts)
    /\ last \in {"none", "item", "end", "error"}

\* What the iterator counts on: pages as long as asked for, and a budget that
\* lets a page be asked for.
Served == cfg.pageSize <= MaxPage /\ PageAttempts >= 1

\* As long as nothing is removed, an iterator that ends has yielded every item
\* that was there when the walk began, however pages fail, are retried, or are
\* asked for again by a caller that goes on after an error, and whatever is
\* added meanwhile at either end.  An answer without a body cuts the walk short.
NothingSkipped ==
    Served /\ ~blanked /\ removals = 0 /\ last = "end"
        => Range(Catalogue) \subseteq Range(yielded)

\* As long as nothing is added in front, no item is yielded twice, whatever is
\* removed or appended between two pages.
NothingRepeated == Served /\ ~inserted => IsInjective(yielded)

\* Collect comes back, also when every page fails and however long it retries.
CollectReturns == collecting ~> ~collecting
=============================================================================
