---------------------------- MODULE MCComponents ----------------------------
(* Components on small instances, and their liveness.                      *)
EXTENDS Components

\* Three items, walked in pages.
Items == <<"a", "b", "c">>

\* Pages of one and of two items, by offset and by number; a budget of no
\* attempt at all.
IteratorConfigs ==
    {[pageSize |-> 1, offsetIsByCount |-> TRUE, pageRetriesMax |-> 1],
     [pageSize |-> 2, offsetIsByCount |-> TRUE, pageRetriesMax |-> 1],
     [pageSize |-> 2, offsetIsByCount |-> FALSE, pageRetriesMax |-> 1],
     [pageSize |-> 2, offsetIsByCount |-> TRUE, pageRetriesMax |-> -1]}

R(similarityId, resultHash, severity, type, state, query) ==
    [similarityId |-> similarityId, resultHash |-> resultHash, severity |-> severity,
     type |-> type, state |-> state, query |-> query]

\* Two results of one identity by similarity and of two severities, and two of
\* another; three of them suppressed, two for the same query.
Results ==
    <<R(1, 1, "HIGH", "sast", "TO_VERIFY", 0),
      R(1, 2, "LOW", "sast", "NOT_EXPLOITABLE", 0),
      R(2, 1, "HIGH", "sast", "NOT_EXPLOITABLE", 1),
      R(2, 3, "LOW", "kics", "PROPOSED_NOT_EXPLOITABLE", 0)>>

\* The lists of up to two results, and one of three.
ScanLists ==
    {<<>>, <<Results[3], Results[2], Results[4]>>}
    \cup {<<Results[i]>> : i \in 1 .. 4} \cup {<<Results[i], Results[j]>> : i, j \in 1 .. 4}

-----------------------------------------------------------------------------

\* Each component under the fairness its own module states.
Fairness ==
    /\ \A c \in Clients : WF_(EX!vars)(which = "executor" /\ EX!DoStep(c))
    /\ \A g \in PR!Goroutines : SF_(PR!vars)(which = "preset_reader" /\ PR!LockStep(g))
    /\ \A c \in Clients : WF_(PR!vars)(which = "preset_reader" /\ PR!Network(c))
    /\ \A p \in Presets :
          WF_(PR!vars)(which = "preset_reader" /\ (PR!Network(p) \/ PR!WorkerStep(p)))
    /\ WF_(PR!vars)(which = "preset_reader" /\ (PR!Network(Loader) \/ PR!LoaderStep))
    /\ WF_(PG!vars)(which = "pagination" /\ PG!CollectStep)
    /\ WF_(WT!vars)(which = "waiter" /\ WT!Step)
    /\ WF_(WT!vars)(which = "waiter" /\ WT!Tick)

FairSpec == Spec /\ Fairness

InDo(c) == which = "executor" /\ EX!InDo(c)
Running(g) == which = "preset_reader" /\ pc[g] # "idle"
Collecting == which = "pagination" /\ collecting
Waiting == which = "waiter" /\ WT!Waiting

\* Every Do of the funnel returns (Executor's CallsReturn).
ExecutorCallsReturn == \A c \in Clients : InDo(c) ~> ~InDo(c)

\* Every operation of the preset reader returns: nobody waits for ever for a
\* mutex, a slot or the WaitGroup (PresetReader's CallsReturn).
PresetReaderCallsReturn == \A g \in PR!Goroutines : Running(g) ~> ~Running(g)

\* Collect comes back (Pagination's CollectReturns).
PaginationCollectReturns == Collecting ~> ~Collecting

\* A waiter with a deadline comes back, and one without once the job has ended,
\* unless its snapshots go on being blank (Waiter's WaitEnds).
WaiterWaitEnds ==
    /\ Waiting /\ limited ~> ~Waiting
    /\ \/ Waiting /\ WT!EnginesAtRest ~> ~Waiting
       \/ []<>(Waiting /\ seen = WT!Blank)
=============================================================================
