-------------------------- MODULE ComponentsProofs --------------------------
(***************************************************************************)
(* What holds of the components of Components, for every value of the      *)
(* constants that the assumption allows.  The inductive invariants of the  *)
(* waiters, the comparison, the iterator and the scan builder come first;  *)
(* the project handle and the calls of an operation have theirs in modules *)
(* of their own.  A behaviour is one of a single component, so the         *)
(* invariant of the whole is that of the component that runs.              *)
(***************************************************************************)
EXTENDS Components, SequenceTheorems, FiniteSetTheorems, WellFoundedInduction, TLAPS

-----------------------------------------------------------------------------
(* The waiters.                                                            *)

States == [WT!Engines -> WT!EngineStates]

\* What the snapshot shows at rest has come to rest as it shows, and the overall
\* status is one the requested engines account for.
SnapshotStands ==
    /\ seen.details \in States
    /\ \A e \in WT!Engines :
          seen.details[e] \in WT!AtRest => engine[e] = seen.details[e]
    /\ seen.status = "Completed" => \A e \in Requested : engine[e] = "Completed"
    /\ seen.status \in {"Failed", "Canceled"} =>
          \A e \in Requested : engine[e] \in WT!AtRest

\* The answer of a wait is what the inspector makes of the snapshot it last
\* looked at; there is none while the wait is going on.
AnswerFromSnapshot ==
    /\ pc # "idle" => result = "none"
    /\ result = "ok" => WT!Verdict(seen) = "successful"
    /\ result = "failed" => WT!Verdict(seen) = "failed"

\* A waiter past its deadline sends one poll and never sleeps again; what it
\* looks at then was answered past the deadline.
LastPoll ==
    /\ pc \in {"sleep", "alive"} => late = 0
    /\ pc # "idle" /\ late > 0 => WT!Past
    /\ late <= 1
    /\ pc = "look" /\ WT!Past => answered
    /\ result = "timeout" => answered

WInv == WT!TypeOK /\ SnapshotStands /\ AnswerFromSnapshot /\ LastPoll

\* A blank snapshot says nothing of any engine.
LEMMA BlankStands ==
    /\ WT!Blank.details \in States
    /\ \A e \in WT!Engines : WT!Blank.details[e] \notin WT!AtRest
    /\ WT!Blank.status \notin {"Completed", "Failed", "Canceled"}
BY DEF WT!Blank, States, WT!EngineStates, WT!AtRest

\* What the platform reports of engines in the states st.
LEMMA ReportStands ==
    ASSUME NEW st \in States, NEW r \in WT!Reported(st), kind \in WT!Kinds
    PROVE  /\ r.details \in States
           /\ \A e \in WT!Engines : r.details[e] \in WT!AtRest => r.details[e] = st[e]
           /\ r.status = "Completed" => \A e \in Requested : st[e] = "Completed"
           /\ r.status \in {"Failed", "Canceled"} =>
                 \A e \in Requested : st[e] \in WT!AtRest
<1> USE DEF States
<1> DEFINE is == {st[e] : e \in Requested}
<1>1. /\ r.details \in {st, [e \in WT!Engines |-> "Absent"]}
      /\ r.status = "Completed" => is = {"Completed"}
      /\ r.status \in {"Failed", "Canceled"} => is \subseteq WT!AtRest
    BY DEF WT!Reported
<1>2. /\ r.details \in States
      /\ \A e \in WT!Engines : r.details[e] \in WT!AtRest => r.details[e] = st[e]
    BY <1>1 DEF WT!AtRest, WT!EngineStates
<1> QED
    BY <1>1, <1>2

\* The platform's engines move on; one at rest stays there.
LEMMA EnginesMove ==
    ASSUME WT!TypeOK, WT!EngineMoves
    PROVE  /\ engine' \in States
           /\ \A e \in WT!Engines : engine[e] \in WT!AtRest => engine'[e] = engine[e]
           /\ UNCHANGED <<kind, limited, named, seen, pc, beat, left, sleepLeft,
                          ctxErr, result, late, answered>>
<1>1. PICK e \in WT!Engines, t \in WT!EngineStates :
         /\ engine' = [engine EXCEPT ![e] = t]
         /\ engine[e] \notin WT!AtRest
  <2>1. PICK e \in WT!Engines :
           \E t \in CASE engine[e] = "Absent"  -> {"Queued"}
                      [] engine[e] = "Queued"  -> {"Running", "Canceled"}
                      [] engine[e] = "Running" -> WT!AtRest
                      [] OTHER                 -> {} :
              engine' = [engine EXCEPT ![e] = t]
    BY DEF WT!EngineMoves
  <2> DEFINE moves == CASE engine[e] = "Absent"  -> {"Queued"}
                        [] engine[e] = "Queued"  -> {"Running", "Canceled"}
                        [] engine[e] = "Running" -> WT!AtRest
                        [] OTHER                 -> {}
  <2>2. engine[e] = "Absent" => moves = {"Queued"}
    OBVIOUS
  <2>3. engine[e] = "Queued" => moves = {"Running", "Canceled"}
    OBVIOUS
  <2>4. engine[e] = "Running" => moves = WT!AtRest
    OBVIOUS
  <2>5. engine[e] \notin {"Absent", "Queued", "Running"} => moves = {}
    OBVIOUS
  <2>6. PICK t \in moves : engine' = [engine EXCEPT ![e] = t]
    BY <2>1
  <2> HIDE DEF moves
  <2>7. t \in WT!EngineStates /\ engine[e] \notin WT!AtRest
    BY <2>2, <2>3, <2>4, <2>5, <2>6 DEF WT!EngineStates, WT!AtRest, WT!Executing
  <2> QED
    BY <2>6, <2>7
<1> QED
    BY <1>1 DEF States, WT!TypeOK, WT!EngineMoves, WT!options, WT!handle, WT!clock, WT!history

\* The types are kept.
LEMMA WaiterTypes ==
    ASSUME WT!ConstantsOK, WT!TypeOK, WT!Next PROVE WT!TypeOK'
<1> USE DEF WT!options, WT!handle, WT!clock, WT!history
<1>0. /\ 0 \in 0 .. MaxDuration /\ MaxDuration \in 0 .. MaxDuration
      /\ 0 \in 0 .. Interval /\ Interval \in 0 .. Interval
      /\ Interval \in Nat /\ MaxDuration \in Nat
    BY DEF WT!ConstantsOK
<1>1. CASE WT!EngineMoves
    BY <1>1, EnginesMove DEF WT!TypeOK, States
<1>2. CASE WT!Tick
    BY <1>0, <1>2 DEF WT!Tick, WT!Less, WT!TypeOK
<1>3. CASE WT!ContextDone
    BY <1>3 DEF WT!ContextDone, WT!TypeOK
<1>4. CASE WT!Wait
  <2>1. pc' \in {"idle", "look", "sleep", "alive", "poll"}
    BY <1>0, <1>4 DEF WT!Wait, WT!TypeOK
  <2>2. left' \in 0 .. MaxDuration /\ sleepLeft' \in 0 .. Interval
    BY <1>0, <1>4 DEF WT!Wait, WT!TypeOK
  <2>3. beat' \in 0 .. 1 /\ late' \in 0 .. 2
    BY <1>0, <1>4 DEF WT!Wait, WT!TypeOK
  <2>4. /\ ctxErr' \in BOOLEAN /\ answered' \in BOOLEAN
        /\ result' \in {"none", "ok", "failed", "timeout", "ctx", "error"}
    BY <1>0, <1>4 DEF WT!Wait, WT!TypeOK
  <2>5. UNCHANGED <<engine, named, seen, kind, limited>>
    BY <1>4 DEF WT!Wait
  <2> QED
    BY <2>1, <2>2, <2>3, <2>4, <2>5 DEF WT!TypeOK
<1>5. CASE WT!Look
  <2>1. pc' \in {"idle", "look", "sleep", "alive", "poll"}
    BY <1>0, <1>5 DEF WT!Look, WT!Return, WT!SleepUntil, WT!TypeOK
  <2>2. left' \in 0 .. MaxDuration /\ sleepLeft' \in 0 .. Interval
    BY <1>0, <1>5 DEF WT!Look, WT!Return, WT!SleepUntil, WT!TypeOK
  <2>3. beat' \in 0 .. 1 /\ late' \in 0 .. 2
    BY <1>0, <1>5 DEF WT!Look, WT!Return, WT!SleepUntil, WT!TypeOK
  <2>4. /\ ctxErr' \in BOOLEAN /\ answered' \in BOOLEAN
        /\ result' \in {"none", "ok", "failed", "timeout", "ctx", "error"}
    BY <1>0, <1>5 DEF WT!Look, WT!Return, WT!SleepUntil, WT!TypeOK
  <2>5. UNCHANGED <<engine, named, seen, kind, limited>>
    BY <1>5 DEF WT!Look
  <2> QED
    BY <2>1, <2>2, <2>3, <2>4, <2>5 DEF WT!TypeOK
<1>6. CASE WT!SleepEnds
  <2>1. pc' \in {"idle", "look", "sleep", "alive", "poll"}
    BY <1>0, <1>6 DEF WT!SleepEnds, WT!SendPoll, WT!Return, WT!TypeOK
  <2>2. left' \in 0 .. MaxDuration /\ sleepLeft' \in 0 .. Interval
    BY <1>0, <1>6 DEF WT!SleepEnds, WT!SendPoll, WT!Return, WT!TypeOK
  <2>3. beat' \in 0 .. 1 /\ late' \in 0 .. 2
    BY <1>0, <1>6 DEF WT!SleepEnds, WT!SendPoll, WT!Return, WT!TypeOK
  <2>4. /\ ctxErr' \in BOOLEAN /\ answered' \in BOOLEAN
        /\ result' \in {"none", "ok", "failed", "timeout", "ctx", "error"}
    BY <1>0, <1>6 DEF WT!SleepEnds, WT!SendPoll, WT!Return, WT!TypeOK
  <2>5. UNCHANGED <<engine, named, seen, kind, limited>>
    BY <1>6 DEF WT!SleepEnds
  <2> QED
    BY <2>1, <2>2, <2>3, <2>4, <2>5 DEF WT!TypeOK
<1>7. CASE WT!KeptAlive
    BY <1>7 DEF WT!KeptAlive, WT!SendPoll, WT!TypeOK
<1>8. CASE WT!Refreshed
  <2>1. seen'.details \in States
    BY <1>8, ReportStands, BlankStands DEF WT!Refreshed, WT!TypeOK, States
  <2> QED
    BY <1>8, <2>1 DEF WT!Refreshed, WT!Past, WT!TypeOK, States
<1>9. CASE WT!PollFails
    BY <1>0, <1>9 DEF WT!PollFails, WT!Return, WT!TypeOK
<1> QED
    BY <1>1, <1>2, <1>3, <1>4, <1>5, <1>6, <1>7, <1>8, <1>9 DEF WT!Next, WT!Step

\* A step moves engines, brings a new snapshot, or does neither.
LEMMA SnapshotStep ==
    ASSUME WT!TypeOK, SnapshotStands, WT!Next PROVE SnapshotStands'
<1> USE DEF WT!options, WT!handle, WT!clock, WT!history
<1>1. CASE WT!EngineMoves
    BY <1>1, EnginesMove DEF SnapshotStands, WT!AtRest, WT!Engines
<1>2. CASE WT!Refreshed
  <2>1. CASE seen' = WT!Blank
    BY <1>2, <2>1, BlankStands DEF WT!Refreshed, SnapshotStands
  <2>2. CASE seen' \in WT!Reported(engine)
    BY <1>2, <2>2, ReportStands DEF WT!Refreshed, SnapshotStands, WT!TypeOK, States
  <2> QED
    BY <1>2, <2>1, <2>2 DEF WT!Refreshed
<1>3. CASE WT!Tick \/ WT!ContextDone \/ WT!Wait \/ WT!Look \/ WT!SleepEnds
           \/ WT!KeptAlive \/ WT!PollFails
  <2>1. UNCHANGED <<engine, seen>>
    BY <1>3 DEF WT!Tick, WT!ContextDone, WT!Wait, WT!Look, WT!SleepEnds, WT!KeptAlive,
        WT!PollFails
  <2> QED
    BY <2>1 DEF SnapshotStands
<1> QED
    BY <1>1, <1>2, <1>3 DEF WT!Next, WT!Step

\* An answer comes of the look that ends a wait.
LEMMA AnswerStep ==
    ASSUME WT!TypeOK, AnswerFromSnapshot, WT!Next PROVE AnswerFromSnapshot'
<1> USE DEF WT!options, WT!handle, WT!clock, WT!history, AnswerFromSnapshot
<1>1. CASE WT!Look
    BY <1>1 DEF WT!Look, WT!Return, WT!Verdict, WT!PartialBucket, WT!Relevant
<1>2. CASE WT!Refreshed
    BY <1>2 DEF WT!Refreshed
<1>3. CASE WT!EngineMoves \/ WT!Tick \/ WT!ContextDone \/ WT!KeptAlive
  <2>1. UNCHANGED <<kind, seen, result>> /\ (pc' # "idle" => pc # "idle")
    BY <1>3, EnginesMove DEF WT!Tick, WT!ContextDone, WT!KeptAlive, WT!SendPoll
  <2> QED
    BY <2>1 DEF WT!Verdict, WT!PartialBucket, WT!Relevant
<1>4. CASE WT!Wait \/ WT!SleepEnds \/ WT!PollFails
    BY <1>4 DEF WT!Wait, WT!SleepEnds, WT!PollFails, WT!SendPoll, WT!Return
<1> QED
    BY <1>1, <1>2, <1>3, <1>4 DEF WT!Next, WT!Step

\* A deadline that has passed stays passed for the rest of the wait.
LEMMA LastPollStep ==
    ASSUME WT!ConstantsOK, WT!TypeOK, AnswerFromSnapshot, LastPoll, WT!Next
    PROVE  LastPoll'
<1> USE DEF WT!options, WT!handle, WT!clock, WT!history, LastPoll, WT!Past
<1>1. CASE WT!EngineMoves \/ WT!ContextDone
    BY <1>1 DEF WT!EngineMoves, WT!ContextDone
<1>2. CASE WT!Tick
    BY <1>2 DEF WT!Tick, WT!Less
<1>3. CASE WT!Wait
    BY <1>3 DEF WT!Wait, WT!ConstantsOK
<1>4. CASE WT!Look
    BY <1>4 DEF WT!Look, WT!Return, WT!TypeOK
<1>5. CASE WT!SleepEnds
    BY <1>5 DEF WT!SleepEnds, WT!SendPoll, WT!Return
<1>6. CASE WT!KeptAlive
    BY <1>6 DEF WT!KeptAlive, WT!SendPoll, AnswerFromSnapshot
<1>7. CASE WT!Refreshed
    BY <1>7 DEF WT!Refreshed, AnswerFromSnapshot
<1>8. CASE WT!PollFails
    BY <1>8 DEF WT!PollFails, WT!Return
<1> QED
    BY <1>1, <1>2, <1>3, <1>4, <1>5, <1>6, <1>7, <1>8 DEF WT!Next, WT!Step

\* No call has begun: nothing was polled and nothing is answered.
LEMMA WaiterInit == WT!ConstantsOK /\ WT!Init => WInv
<1> SUFFICES ASSUME WT!ConstantsOK, WT!Init PROVE WInv
    OBVIOUS
<1>1. engine \in States
    BY DEF WT!Init, States, WT!EngineStates, WT!Executing
<1>2. SnapshotStands
  <2>1. CASE seen = WT!Blank
    BY <2>1, BlankStands DEF SnapshotStands
  <2>2. CASE seen \in WT!Reported(engine)
    BY <1>1, <2>2, ReportStands DEF WT!Init, SnapshotStands
  <2> QED
    BY <2>1, <2>2 DEF WT!Init
<1>3. WT!TypeOK
  <2>1. 0 \in 0 .. MaxDuration /\ 0 \in 0 .. Interval
    BY DEF WT!ConstantsOK
  <2>2. engine \in States /\ seen.details \in States
    BY <1>1, <1>2 DEF SnapshotStands
  <2>3. /\ kind \in WT!Kinds /\ limited \in BOOLEAN /\ pc = "idle"
        /\ ctxErr \in BOOLEAN /\ answered \in BOOLEAN /\ result = "none"
    BY DEF WT!Init
  <2>5. named \in BOOLEAN
    <3>1. kind = "scan" => named \in {seen # WT!Blank}
      BY DEF WT!Init
    <3>2. kind = "report" => named \in BOOLEAN
      BY DEF WT!Init
    <3>3. kind \notin {"scan", "report"} => named \in {TRUE}
      BY DEF WT!Init
    <3> QED
      BY <3>1, <3>2, <3>3
  <2>4. beat = 0 /\ left = 0 /\ sleepLeft = 0 /\ late = 0
    BY DEF WT!Init
  <2> QED
    BY <2>1, <2>2, <2>3, <2>4, <2>5 DEF WT!TypeOK, States
<1>4. AnswerFromSnapshot /\ LastPoll
    BY DEF WT!Init, AnswerFromSnapshot, LastPoll
<1> QED
    BY <1>2, <1>3, <1>4 DEF WInv

\* Every step of a waiter preserves its invariant.
LEMMA WaiterNext == WT!ConstantsOK /\ WInv /\ [WT!Next]_WT!vars => WInv'
<1> SUFFICES ASSUME WT!ConstantsOK, WInv, [WT!Next]_WT!vars PROVE WInv'
    OBVIOUS
<1>1. CASE WT!Next
    BY <1>1, WaiterTypes, SnapshotStep, AnswerStep, LastPollStep DEF WInv
<1>2. CASE UNCHANGED WT!vars
  <2>1. UNCHANGED <<kind, limited, engine, named, seen, pc, beat, left, sleepLeft,
                    ctxErr, result, late, answered>>
    BY <1>2 DEF WT!vars, WT!options, WT!handle, WT!clock, WT!history
  <2>2. WT!TypeOK' /\ SnapshotStands' /\ LastPoll'
    BY <2>1 DEF WInv, WT!TypeOK, SnapshotStands, LastPoll, WT!Past
  <2>3. AnswerFromSnapshot'
    BY <2>1 DEF WInv, AnswerFromSnapshot, WT!Verdict, WT!PartialBucket, WT!Relevant
  <2> QED
    BY <2>2, <2>3 DEF WInv
<1> QED
    BY <1>1, <1>2

\* What the bucket of a Partial scan says of engines that all have an entry.
LEMMA BucketsAccount ==
    ASSUME NEW d \in States, \A e \in Requested : d[e] # "Absent"
    PROVE  /\ WT!PartialBucket(d) = "successful" =>
                 \A e \in Requested : d[e] = "Completed"
           /\ WT!PartialBucket(d) = "failed" =>
                 \A e \in Requested : d[e] \in WT!AtRest
<1> DEFINE is == {d[e] : e \in WT!Relevant(d)}
<1>1. \A e \in Requested : e \in WT!Engines /\ d[e] \in is
    BY DEF WT!Relevant, WT!Engines, States
<1>2. /\ WT!PartialBucket(d) = "successful" => is = {"Completed"}
      /\ WT!PartialBucket(d) = "failed" => is = {} \/ is \cap WT!Executing = {}
    BY DEF WT!PartialBucket
<1> HIDE DEF is
<1> QED
    BY <1>1, <1>2 DEF States, WT!EngineStates, WT!Executing, WT!AtRest

\* A sleep never outlasts its interval, nor a wait its limit.
LEMMA WaiterTypeCorrect == WInv => WT!TypeOK
BY DEF WInv

\* At most one poll past the deadline, and one look before giving up.
LEMMA WaiterKeepsDeadline == WInv => WT!DeadlineKept
BY DEF WInv, LastPoll, WT!DeadlineKept, WT!OneLatePoll, WT!TimeoutAfterLastLook

\* What the waiter answers of a scan is what its engines have come to.
LEMMA WaiterIsRight == WInv => WT!VerdictIsFinal
<1> SUFFICES ASSUME WInv, kind = "scan",
                    \A e \in Requested : seen.details[e] # "Absent"
             PROVE  /\ result = "ok" => \A e \in Requested : engine[e] = "Completed"
                    /\ result = "failed" => \A e \in Requested : engine[e] \in WT!AtRest
    BY DEF WT!VerdictIsFinal, WT!SuccessIsFinal, WT!FailureIsFinal
<1>1. /\ seen.details \in States
      /\ \A e \in Requested : seen.details[e] \in WT!AtRest => engine[e] = seen.details[e]
  BY DEF WInv, SnapshotStands, WT!Engines
<1>2. CASE seen.status = "Completed"
  BY <1>2 DEF WInv, SnapshotStands, AnswerFromSnapshot, WT!AtRest
<1>3. CASE seen.status \in {"Failed", "Canceled"}
  BY <1>3 DEF WInv, SnapshotStands, AnswerFromSnapshot, WT!Verdict
<1>4. CASE seen.status = "Partial"
  <2>1. WT!Verdict(seen) = WT!PartialBucket(seen.details)
    BY <1>4 DEF WT!Verdict
  <2> QED
    BY <1>1, <2>1, BucketsAccount DEF WInv, AnswerFromSnapshot, WT!AtRest
<1>5. CASE seen.status \notin {"Completed", "Failed", "Canceled", "Partial"}
  <2>1. WT!Verdict(seen) = "executing"
    BY <1>5 DEF WT!Verdict
  <2> QED
    BY <2>1 DEF WInv, AnswerFromSnapshot
<1> QED
  BY <1>2, <1>3, <1>4, <1>5

-----------------------------------------------------------------------------
(* What a comparison computes: its columns add up, and its groups have     *)
(* their places.                                                           *)

\* What a sum over the members of a finite set is, that takes them away in the
\* order of pick.
Picks(pick, S) == \A T \in SUBSET S : T # {} => pick[T] \in T
SumsUp(f, term, pick, S) ==
    \A T \in SUBSET S : f[T] = IF T = {} THEN 0 ELSE term[pick[T]] + f[T \ {pick[T]}]

\* Such a sum has one value: of two that differ, a smallest set on which they do
\* would have a smaller one.
LEMMA SumIsUnique ==
    ASSUME NEW S, IsFiniteSet(S), NEW term, NEW pick, Picks(pick, S),
           NEW f, NEW g, SumsUp(f, term, pick, S), SumsUp(g, term, pick, S)
    PROVE  f[S] = g[S]
<1> DEFINE differ == {T \in SUBSET S : f[T] # g[T]}
           sizes == {Cardinality(T) : T \in differ}
<1>1. \A T \in SUBSET S : IsFiniteSet(T) /\ Cardinality(T) \in Nat
  BY FS_Subset, FS_CardinalityType
<1>2. ASSUME sizes # {} PROVE \E n \in sizes : \A m \in sizes : ~(m < n)
  <2>1. sizes \subseteq Nat
    BY <1>1
  <2>2. \E n \in sizes : \A m \in sizes : <<m, n>> \notin OpToRel(<, Nat)
    <3> HIDE DEF sizes
    <3> QED
      BY <1>2, <2>1, NatLessThanWellFounded, WFMin
  <2> QED
    BY <2>1, <2>2 DEF OpToRel
<1>3. ASSUME NEW T \in differ PROVE \E U \in differ : Cardinality(U) < Cardinality(T)
  <2>1. T # {} /\ pick[T] \in T
    BY <1>3 DEF Picks, SumsUp
  <2> DEFINE U == T \ {pick[T]}
  <2>2. U \in SUBSET S /\ f[U] # g[U]
    BY <1>3, <2>1 DEF SumsUp
  <2>3. Cardinality(U) = Cardinality(T) - 1
    BY <1>1, <2>1, FS_RemoveElement
  <2> QED
    BY <1>1, <2>2, <2>3
<1>4. differ = {}
  <2> SUFFICES ASSUME differ # {} PROVE FALSE
    OBVIOUS
  <2>1. PICK n \in sizes : \A m \in sizes : ~(m < n)
    BY <1>2
  <2> QED
    BY <1>3, <2>1
<1> QED
  BY <1>4

\* The values of a table of finitely many rows are finitely many.
LEMMA ValuesAreFinite ==
    ASSUME NEW S, IsFiniteSet(S), NEW P
    PROVE  IsFiniteSet({P[x] : x \in S}) /\ Cardinality({P[x] : x \in S}) <= Cardinality(S)
<1> DEFINE f == [x \in S |-> P[x]]
           T == {P[x] : x \in S}
<1>1. f \in Surjection(S, T)
  BY DEF Surjection
<1> HIDE DEF f, T
<1>2. IsFiniteSet(T) /\ Cardinality(T) <= Cardinality(S)
  BY <1>1, FS_Surjection
<1> QED
  BY <1>2 DEF T

\* A column of a table that counts disjoint sets sums up to the number of their
\* members.
LEMMA ColumnAddsUp ==
    ASSUME NEW D, NEW w, NEW P, IsFiniteSet(DOMAIN D),
           \A x \in DOMAIN D : IsFiniteSet(P[x]) /\ D[x][w] = Cardinality(P[x]),
           \A x, y \in DOMAIN D : x # y => P[x] \cap P[y] = {}
    PROVE  CM!Total(D, w) = Cardinality(UNION {P[x] : x \in DOMAIN D})
<1> DEFINE S == DOMAIN D
           Unfold(f) == [T \in SUBSET S |->
                          IF T = {} THEN 0
                          ELSE D[CHOOSE x \in T : TRUE][w] + f[T \ {CHOOSE x \in T : TRUE}]]
           sum == CHOOSE f : f = Unfold(f)
           size == [T \in SUBSET S |-> Cardinality(UNION {P[x] : x \in T})]
           term == [x \in S |-> D[x][w]]
           pick == [T \in SUBSET S |-> CHOOSE x \in T : TRUE]
<1>1. Picks(pick, S)
  BY DEF Picks
<1>2. ASSUME NEW T \in SUBSET S, NEW x \in T
      PROVE  size[T] = term[x] + size[T \ {x}]
  <2> DEFINE U == UNION {P[y] : y \in T \ {x}}
  <2>1. UNION {P[y] : y \in T} = P[x] \cup U /\ P[x] \cap U = {}
    OBVIOUS
  <2>2. IsFiniteSet(P[x]) /\ IsFiniteSet(U)
    <3>1. IsFiniteSet({P[y] : y \in T \ {x}})
      <4>1. IsFiniteSet(T \ {x})
        BY FS_Subset
      <4> QED
        BY <4>1, ValuesAreFinite
    <3>2. \A V \in {P[y] : y \in T \ {x}} : IsFiniteSet(V)
      OBVIOUS
    <3> QED
      BY <3>1, <3>2, FS_UNION
  <2>3. Cardinality(P[x] \cup U) = Cardinality(P[x]) + Cardinality(U)
    <3> HIDE DEF U
    <3>1. Cardinality(P[x] \cup U) = Cardinality(P[x]) + Cardinality(U) - Cardinality(P[x] \cap U)
      BY <2>2, FS_Union
    <3>2. Cardinality(P[x] \cap U) = 0
      BY <2>1, FS_EmptySet
    <3>3. Cardinality(P[x]) \in Nat /\ Cardinality(U) \in Nat
      BY <2>2, FS_CardinalityType
    <3> QED
      BY <3>1, <3>2, <3>3
  <2>4. size[T] = Cardinality(P[x] \cup U) /\ size[T \ {x}] = Cardinality(U)
    <3>1. T \ {x} \in SUBSET S
      OBVIOUS
    <3> QED
      BY <2>1, <3>1
  <2>5. term[x] = Cardinality(P[x])
    OBVIOUS
  <2> QED
    BY <2>3, <2>4, <2>5
<1>3. size[{}] = 0
  BY FS_EmptySet
<1>4. size = Unfold(size)
  <2>1. ASSUME NEW T \in SUBSET S PROVE size[T] = Unfold(size)[T]
    <3>1. CASE T = {}
      BY <1>3, <3>1
    <3>2. CASE T # {}
      <4>1. pick[T] \in T /\ pick[T] = CHOOSE x \in T : TRUE
        BY <1>1, <3>2 DEF Picks
      <4>2. size[T] = term[pick[T]] + size[T \ {pick[T]}] /\ term[pick[T]] = D[pick[T]][w]
        BY <1>2, <4>1
      <4> HIDE DEF size, term, pick
      <4> QED
        BY <3>2, <4>1, <4>2
    <3> QED
      BY <3>1, <3>2
  <2>2. size = [T \in SUBSET S |-> size[T]] /\ Unfold(size) = [T \in SUBSET S |-> Unfold(size)[T]]
    OBVIOUS
  <2> HIDE DEF size, Unfold
  <2> QED
    BY <2>1, <2>2
<1>5. sum = Unfold(sum)
  <2> HIDE DEF Unfold, size
  <2> QED
    BY <1>4
<1>6. CM!Total(D, w) = sum[S]
  BY DEF CM!Total, CM!MapThenSumSet, CM!MapThenFoldSet
<1>7. SumsUp(sum, term, pick, S) /\ SumsUp(size, term, pick, S)
  <2> SUFFICES ASSUME NEW T \in SUBSET S
               PROVE  /\ sum[T] = IF T = {} THEN 0 ELSE term[pick[T]] + sum[T \ {pick[T]}]
                      /\ size[T] = IF T = {} THEN 0 ELSE term[pick[T]] + size[T \ {pick[T]}]
    BY DEF SumsUp
  <2>1. T # {} => term[pick[T]] = D[CHOOSE x \in T : TRUE][w]
    BY <1>1 DEF Picks
  <2>2. sum[T] = Unfold(sum)[T] /\ size[T] = Unfold(size)[T]
    <3> HIDE DEF Unfold, size, sum
    <3> QED
      BY <1>4, <1>5
  <2> HIDE DEF size, sum, term
  <2> QED
    BY <2>1, <2>2
<1>8. sum[S] = size[S]
  <2>1. IsFiniteSet(S)
    OBVIOUS
  <2> HIDE DEF S, sum, size, term, pick
  <2> QED
    BY <1>1, <1>7, <2>1, SumIsUnique
<1> QED
  BY <1>6, <1>8

LEMMA ComparedCardinality == \A S : CM!Cardinality(S) = Cardinality(S)
BY DEF CM!Cardinality, Cardinality

IsList(s) == s \in Seq(CM!ToSet(s))

\* The identities of a list of results are finitely many, and are those of its
\* wanted results.
LEMMA IdentitiesFinite ==
    ASSUME NEW results, IsList(results), NEW o
    PROVE  /\ IsFiniteSet(CM!WantedIn(results, o))
           /\ IsFiniteSet(CM!Identities(results, o))
           /\ DOMAIN CM!ById(results, o) = CM!Identities(results, o)
           /\ CM!Identities(results, o) =
                 {CM!IdentityOf(r, o) : r \in {x \in CM!ToSet(results) : CM!Wanted(x, o)}}
<1>1. IsFiniteSet(DOMAIN results)
  <2>1. DOMAIN results = 1 .. Len(results) /\ Len(results) \in Nat
    BY DEF IsList
  <2> QED
    BY <2>1, FS_Interval
<1>2. IsFiniteSet(CM!WantedIn(results, o))
  BY <1>1, FS_Subset DEF CM!WantedIn
<1>3. IsFiniteSet(CM!Identities(results, o))
  <2> DEFINE P == [i \in DOMAIN results |-> CM!IdentityOf(results[i], o)]
  <2>1. CM!Identities(results, o) = {P[i] : i \in CM!WantedIn(results, o)}
    BY DEF CM!Identities, CM!WantedIn
  <2> HIDE DEF P
  <2> QED
    BY <1>2, <2>1, ValuesAreFinite
<1>4. CM!Identities(results, o) =
         {CM!IdentityOf(r, o) : r \in {x \in CM!ToSet(results) : CM!Wanted(x, o)}}
  BY DEF CM!Identities, CM!WantedIn, CM!ToSet
<1> QED
  BY <1>2, <1>3, <1>4 DEF CM!ById

\* The column w of a comparison D counts the identities ids, severity by severity.
CountsBySeverity(D, w, ids, t) ==
    /\ \A s \in DOMAIN D : D[s][w] = CM!CountOf(t, ids, s)
    /\ \A id \in ids : t[id].severity \in DOMAIN D

\* Such a column sums up to the number of the identities.
LEMMA CountsAddUp ==
    ASSUME NEW D, IsFiniteSet(DOMAIN D), NEW w, NEW ids, IsFiniteSet(ids), NEW t,
           CountsBySeverity(D, w, ids, t)
    PROVE  CM!Total(D, w) = Cardinality(ids)
<1> DEFINE P == [s \in DOMAIN D |-> {id \in ids : t[id].severity = s}]
<1>1. ASSUME NEW s \in DOMAIN D PROVE IsFiniteSet(P[s]) /\ D[s][w] = Cardinality(P[s])
  BY FS_Subset, ComparedCardinality DEF CM!CountOf, CountsBySeverity
<1>2. \A x, y \in DOMAIN D : x # y => P[x] \cap P[y] = {}
  OBVIOUS
<1>3. UNION {P[s] : s \in DOMAIN D} = ids
  BY DEF CountsBySeverity
<1> HIDE DEF P
<1> QED
  BY <1>1, <1>2, <1>3, ColumnAddsUp

\* diffResults counts every wanted identity of either list once, and the other way
\* round it exchanges the new and the resolved.
LEMMA DiffAddsUp ==
    ASSUME NEW old, IsList(old), NEW new, IsList(new), NEW o
    PROVE  LET diff == CM!DiffResults(old, new, o)
               back == CM!DiffResults(new, old, o)
               ids(s) == CM!Identities(s, o)
           IN  /\ CM!Total(diff, "New") + CM!Total(diff, "Recurrent") = Cardinality(ids(new))
               /\ CM!Total(diff, "Resolved") + CM!Total(diff, "Recurrent")
                     = Cardinality(ids(old))
               /\ \A s \in DOMAIN diff \cap DOMAIN back : diff[s].New = back[s].Resolved
               /\ \A s \in DOMAIN diff \ DOMAIN back : diff[s].New = 0
<1> DEFINE was == CM!ById(old, o)
           is == CM!ById(new, o)
           a == CM!Identities(old, o)
           b == CM!Identities(new, o)
           diff == CM!DiffResults(old, new, o)
           back == CM!DiffResults(new, old, o)
           rowsOf(x, y) == CM!Severities(x) \cup {y[id].severity : id \in DOMAIN y \ DOMAIN x}
<1>1. DOMAIN was = a /\ DOMAIN is = b /\ IsFiniteSet(a) /\ IsFiniteSet(b)
  BY IdentitiesFinite
<1>2. /\ DOMAIN diff = rowsOf(is, was) /\ DOMAIN back = rowsOf(was, is)
      /\ \A s \in DOMAIN diff :
            /\ diff[s]["New"] = CM!CountOf(is, b \ a, s)
            /\ diff[s]["Recurrent"] = CM!CountOf(is, b \cap a, s)
            /\ diff[s]["Resolved"] = CM!CountOf(was, a \ b, s)
            /\ diff[s].New = CM!CountOf(is, b \ a, s)
      /\ \A s \in DOMAIN back : back[s].Resolved = CM!CountOf(is, b \ a, s)
  <2> HIDE DEF was, is, a, b
  <2> QED
    BY <1>1 DEF CM!DiffResults, was, is
<1>3. IsFiniteSet(DOMAIN diff)
  <2> DEFINE P == [id \in b |-> is[id].severity]
             Q == [id \in a |-> was[id].severity]
  <2>1. DOMAIN diff = {P[id] : id \in b} \cup {Q[id] : id \in a \ b}
    <3> HIDE DEF was, is, a, b, diff
    <3> QED
      BY <1>1, <1>2 DEF CM!Severities
  <2>2. IsFiniteSet({P[id] : id \in b}) /\ IsFiniteSet({Q[id] : id \in a \ b})
    <3> HIDE DEF was, is, a, b, P, Q
    <3>1. IsFiniteSet(a \ b)
      BY <1>1, FS_Difference
    <3> QED
      BY <1>1, <3>1, ValuesAreFinite
  <2> HIDE DEF P, Q, diff, a, b
  <2> QED
    BY <2>1, <2>2, FS_Union
<1> HIDE DEF was, is, a, b, diff, back
<1>4. /\ \A id \in b : is[id].severity \in DOMAIN diff
      /\ \A id \in a \ b : was[id].severity \in DOMAIN diff
      /\ \A id \in b \ a : is[id].severity \in DOMAIN back
  BY <1>1, <1>2 DEF CM!Severities
<1>5. CM!Total(diff, "New") = Cardinality(b \ a)
  <2>1. IsFiniteSet(b \ a)
    BY <1>1, FS_Difference
  <2>2. CountsBySeverity(diff, "New", b \ a, is)
    BY <1>2, <1>4 DEF CountsBySeverity
  <2> QED
    BY <1>3, <2>1, <2>2, CountsAddUp
<1>6. CM!Total(diff, "Recurrent") = Cardinality(b \cap a)
  <2>1. IsFiniteSet(b \cap a)
    BY <1>1, FS_Intersection
  <2>2. CountsBySeverity(diff, "Recurrent", b \cap a, is)
    BY <1>2, <1>4 DEF CountsBySeverity
  <2> QED
    BY <1>3, <2>1, <2>2, CountsAddUp
<1>7. CM!Total(diff, "Resolved") = Cardinality(a \ b)
  <2>1. IsFiniteSet(a \ b)
    BY <1>1, FS_Difference
  <2>2. CountsBySeverity(diff, "Resolved", a \ b, was)
    BY <1>2, <1>4 DEF CountsBySeverity
  <2> QED
    BY <1>3, <2>1, <2>2, CountsAddUp
<1>8. /\ Cardinality(b \ a) + Cardinality(b \cap a) = Cardinality(b)
      /\ Cardinality(a \ b) + Cardinality(b \cap a) = Cardinality(a)
  <2>1. Cardinality(b \ a) = Cardinality(b) - Cardinality(b \cap a)
    BY <1>1, FS_Difference
  <2>2. Cardinality(a \ b) = Cardinality(a) - Cardinality(a \cap b)
    BY <1>1, FS_Difference
  <2>3. a \cap b = b \cap a /\ IsFiniteSet(b \cap a)
    BY <1>1, FS_Intersection
  <2>4. Cardinality(a) \in Nat /\ Cardinality(b) \in Nat /\ Cardinality(b \cap a) \in Nat
    BY <1>1, <2>3, FS_CardinalityType
  <2>5. Cardinality(a \cap b) = Cardinality(b \cap a)
    BY <2>3
  <2> QED
    BY <2>1, <2>2, <2>4, <2>5
<1>9. \A s \in DOMAIN diff \ DOMAIN back : diff[s].New = 0
  <2> SUFFICES ASSUME NEW s \in DOMAIN diff \ DOMAIN back PROVE CM!CountOf(is, b \ a, s) = 0
    BY <1>2
  <2>1. {id \in b \ a : is[id].severity = s} = {}
    BY <1>4
  <2> QED
    BY <2>1, ComparedCardinality, FS_EmptySet DEF CM!CountOf
<1> QED
  BY <1>2, <1>5, <1>6, <1>7, <1>8, <1>9 DEF diff, back, a, b

\* before[g], the members of G that come before g, is what a strict total order says.
Orders(before, G) ==
    /\ \A g \in G : g \notin before[g]
    /\ \A g \in G : before[g] \subseteq G
    /\ \A g \in G : \A h \in before[g] : before[h] \subseteq before[g]
    /\ \A g, h \in G : g # h => g \in before[h] \/ h \in before[g]

\* In a finite total order the number of those before is a place: each member has
\* its own, each place below the size is taken, and an earlier place comes before.
LEMMA OrderGivesPlaces ==
    ASSUME NEW G, IsFiniteSet(G), NEW before, Orders(before, G)
    PROVE  /\ \A n \in 1 .. Cardinality(G) : \E g \in G : Cardinality(before[g]) = n - 1
           /\ \A g \in G : Cardinality(before[g]) + 1 \in 1 .. Cardinality(G)
           /\ \A g, h \in G : Cardinality(before[g]) < Cardinality(before[h])
                                 => g \in before[h]
           /\ \A g, h \in G : Cardinality(before[g]) = Cardinality(before[h]) => g = h
<1> DEFINE N == Cardinality(G)
           rank == [g \in G |-> Cardinality(before[g])]
<1>1. N \in Nat
  BY FS_CardinalityType
<1>2. ASSUME NEW g \in G
      PROVE  IsFiniteSet(before[g]) /\ rank[g] \in Nat /\ rank[g] < N
  <2>1. before[g] \subseteq G /\ before[g] # G
    BY DEF Orders
  <2>2. IsFiniteSet(before[g]) /\ Cardinality(before[g]) <= N
    BY <2>1, FS_Subset
  <2>3. Cardinality(before[g]) # N
    BY <2>1, FS_Subset
  <2>4. Cardinality(before[g]) \in Nat
    BY <2>2, FS_CardinalityType
  <2> QED
    BY <1>1, <2>2, <2>3, <2>4
<1>3. ASSUME NEW g \in G, NEW h \in before[g] PROVE rank[h] < rank[g]
  <2>1. h \in G /\ before[h] \subseteq before[g] /\ before[h] # before[g]
    BY DEF Orders
  <2>2. IsFiniteSet(before[g])
    BY <1>2
  <2>3. Cardinality(before[h]) <= Cardinality(before[g])
    BY <2>1, <2>2, FS_Subset
  <2>4. Cardinality(before[h]) # Cardinality(before[g])
    BY <2>1, <2>2, FS_Subset
  <2>5. rank[h] = Cardinality(before[h]) /\ rank[g] = Cardinality(before[g])
    BY <2>1
  <2>6. rank[h] \in Nat /\ rank[g] \in Nat
    BY <1>2, <2>1
  <2> HIDE DEF rank
  <2> QED
    BY <2>3, <2>4, <2>5, <2>6
<1>4. ASSUME NEW g \in G, NEW h \in G, rank[g] = rank[h] PROVE g = h
  <2>1. rank[g] \in Nat
    BY <1>2
  <2> HIDE DEF rank
  <2> QED
    BY <1>3, <1>4, <2>1 DEF Orders
<1>5. rank \in Surjection(G, 0 .. N - 1)
  <2>1. rank \in [G -> 0 .. N - 1]
    BY <1>1, <1>2
  <2>2. rank \in Injection(G, 0 .. N - 1)
    <3> HIDE DEF rank
    <3> QED
      BY <1>4, <2>1 DEF Injection, IsInjective
  <2>3. IsFiniteSet(0 .. N - 1) /\ Cardinality(0 .. N - 1) = N
    <3>1. 0 \in Int /\ N - 1 \in Int
      BY <1>1
    <3> HIDE DEF N
    <3>2. IsFiniteSet(0 .. N - 1) /\ Cardinality(0 .. N - 1) = IF 0 > N - 1 THEN 0 ELSE N - 1 - 0 + 1
      BY <3>1, FS_Interval
    <3> QED
      BY <1>1, <3>2
  <2> HIDE DEF rank
  <2> QED
    BY <2>2, <2>3, FS_Injection
<1>6. ASSUME NEW n \in 1 .. N PROVE \E g \in G : Cardinality(before[g]) = n - 1
  <2>1. n - 1 \in 0 .. N - 1
    BY <1>1
  <2>2. \E g \in G : rank[g] = n - 1
    <3> HIDE DEF rank, N
    <3> QED
      BY <1>5, <2>1 DEF Surjection
  <2> QED
    BY <2>2
<1>7. ASSUME NEW g \in G, NEW h \in G, rank[g] < rank[h] PROVE g \in before[h]
  <2>1. rank[g] \in Nat /\ rank[h] \in Nat
    BY <1>2
  <2>2. g # h /\ ~(rank[h] < rank[g])
    <3> HIDE DEF rank
    <3> QED
      BY <1>7, <2>1
  <2> HIDE DEF rank
  <2> QED
    BY <1>3, <2>2 DEF Orders
<1>8. \A g \in G : Cardinality(before[g]) + 1 \in 1 .. N
  BY <1>1, <1>2
<1> QED
  BY <1>4, <1>6, <1>7, <1>8

\* The query names of a list of results are numbers.
IsNamed(s) == \A r \in CM!ToSet(s) : r.query \in Int

\* The hidden results of one query, by their places.
HiddenOf(results, o, q) == {i \in CM!HiddenIn(results, o) : results[i].query = q}

\* Each of them is in the group of its query.
EachIsGrouped(results, o) ==
    \A i \in CM!HiddenIn(results, o) :
       \E g \in CM!Groups(results, o) : g.query = results[i].query

\* The groups of a list of results: finitely many, one for each query, each with its
\* number of results.
LEMMA GroupsAreOrdered ==
    ASSUME NEW results, IsList(results), IsNamed(results), NEW o
    PROVE  LET groups == CM!Groups(results, o)
               hidden == CM!HiddenIn(results, o)
           IN  /\ IsFiniteSet(hidden) /\ IsFiniteSet(groups)
               /\ EachIsGrouped(results, o)
               /\ \A g \in groups : g.count = Cardinality(HiddenOf(results, o, g.query))
               /\ \A g, h \in groups : g.query = h.query => g = h
               /\ \A g \in groups : g.query \in Int /\ g.count \in Nat
               /\ Orders([g \in groups |-> {h \in groups : CM!Before(h, g)}], groups)
<1> DEFINE hidden == CM!HiddenIn(results, o)
           of(q) == HiddenOf(results, o, q)
           names == [i \in hidden |-> results[i].query]
           queries == {names[i] : i \in hidden}
           row == [q \in queries |->
                      [query |-> q, severity |-> results[CM!Min(of(q))].severity,
                       count |-> CM!Cardinality(of(q))]]
           groups == CM!Groups(results, o)
           before == [g \in groups |-> {h \in groups : CM!Before(h, g)}]
<1>1. IsFiniteSet(hidden)
  BY IdentitiesFinite, FS_Subset DEF CM!HiddenIn
<1>2. groups = {row[q] : q \in queries}
  <2>1. queries = {results[i].query : i \in hidden}
    OBVIOUS
  <2> HIDE DEF hidden, queries
  <2>2. groups = {[query |-> q, severity |-> results[CM!Min(of(q))].severity,
                   count |-> CM!Cardinality(of(q))] : q \in queries}
    BY <2>1, Zenon DEF CM!Groups, groups, hidden, HiddenOf
  <2> QED
    BY <2>2
<1>3. IsFiniteSet(groups)
  <2> HIDE DEF groups, row, queries, names, hidden
  <2>1. IsFiniteSet(queries)
    BY <1>1, ValuesAreFinite DEF queries
  <2> QED
    BY <1>2, <2>1, ValuesAreFinite
<1>4. \A q \in queries : row[q].query = q /\ row[q].count = Cardinality(of(q))
  BY ComparedCardinality
<1>5. \A q \in queries : q \in Int
  <2> SUFFICES ASSUME NEW i \in hidden PROVE results[i].query \in Int
    OBVIOUS
  <2>1. i \in DOMAIN results
    BY DEF CM!HiddenIn, CM!WantedIn
  <2> QED
    BY <2>1 DEF CM!ToSet, IsNamed
<1>6. \A i \in hidden : results[i].query \in queries
  OBVIOUS
<1>7. \A q \in queries : Cardinality(of(q)) \in Nat
  BY <1>1, FS_Subset, FS_CardinalityType DEF HiddenOf
<1> HIDE DEF groups, row, queries, names
<1>8. /\ \A i \in hidden : \E g \in groups : g.query = results[i].query
      /\ \A g \in groups : g.count = Cardinality(of(g.query))
      /\ \A g, h \in groups : g.query = h.query => g = h
      /\ \A g \in groups : g.query \in Int /\ g.count \in Nat
  <2> HIDE DEF hidden, of
  <2> QED
    BY <1>2, <1>4, <1>5, <1>6, <1>7
<1>9. Orders(before, groups)
  <2> HIDE DEF hidden, of
  <2> QED
    BY <1>8 DEF Orders, CM!Before
<1> QED
  BY <1>1, <1>3, <1>8, <1>9 DEF groups, EachIsGrouped

\* groupNotExploitable: what it lists are the groups, each at its place.
LEMMA GroupsAreListed ==
    ASSUME NEW results, IsList(results), IsNamed(results), NEW o
    PROVE  LET list == CM!GroupNotExploitable(results, o)
               groups == CM!Groups(results, o)
           IN  /\ DOMAIN list = 1 .. Cardinality(groups)
               /\ \A n \in DOMAIN list : list[n] \in groups
               /\ \A g \in groups : \E n \in DOMAIN list : list[n] = g
               /\ \A i, j \in DOMAIN list : i < j => CM!Before(list[i], list[j])
<1> DEFINE groups == CM!Groups(results, o)
           before == [g \in groups |-> {h \in groups : CM!Before(h, g)}]
           N == Cardinality(groups)
           list == CM!GroupNotExploitable(results, o)
           place(n) == CHOOSE g \in groups : Cardinality(before[g]) = n - 1
<1>1. IsFiniteSet(groups) /\ Orders(before, groups)
  BY GroupsAreOrdered
<1>2. N \in Nat
  BY <1>1, FS_CardinalityType
<1>3. list = [n \in 1 .. N |-> place(n)]
  <2> DEFINE placed(n) == CHOOSE g \in groups :
                         CM!Cardinality({h \in groups : CM!Before(h, g)}) = n - 1
  <2>1. \A n : placed(n) = place(n)
    BY ComparedCardinality
  <2>2. list = [n \in 1 .. CM!Cardinality(groups) |-> placed(n)]
    BY DEF CM!GroupNotExploitable
  <2>3. CM!Cardinality(groups) = N
    BY ComparedCardinality
  <2> HIDE DEF list, groups, place, placed
  <2> QED
    BY <2>1, <2>2, <2>3
<1> HIDE DEF groups, list
<1>4. /\ \A n \in 1 .. N : \E g \in groups : Cardinality(before[g]) = n - 1
      /\ \A g \in groups : Cardinality(before[g]) + 1 \in 1 .. N
      /\ \A g, h \in groups : Cardinality(before[g]) < Cardinality(before[h])
                                 => g \in before[h]
      /\ \A g, h \in groups : Cardinality(before[g]) = Cardinality(before[h]) => g = h
  <2> HIDE DEF before
  <2> QED
    BY <1>1, OrderGivesPlaces
<1>5. ASSUME NEW n \in 1 .. N
      PROVE  list[n] \in groups /\ Cardinality(before[list[n]]) = n - 1
  <2>1. PICK g \in groups : Cardinality(before[g]) = n - 1
    BY <1>4
  <2>2. place(n) \in groups /\ Cardinality(before[place(n)]) = n - 1
    <3> HIDE DEF before
    <3> QED
      BY <2>1
  <2> HIDE DEF before, place
  <2> QED
    BY <1>3, <2>2
<1>6. ASSUME NEW g \in groups PROVE \E n \in 1 .. N : list[n] = g
  <2> DEFINE n == Cardinality(before[g]) + 1
  <2> HIDE DEF before
  <2>1. n \in 1 .. N
    BY <1>4
  <2>2. list[n] \in groups /\ Cardinality(before[list[n]]) = n - 1
    <3> HIDE DEF n
    <3> QED
      BY <1>5, <2>1
  <2>3. n - 1 = Cardinality(before[g])
    <3>1. Cardinality(before[g]) \in Nat
      <4>1. before[g] \subseteq groups
        BY <1>1 DEF Orders
      <4> QED
        BY <1>1, <4>1, FS_Subset, FS_CardinalityType
    <3> QED
      BY <3>1
  <2>4. list[n] = g
    <3> HIDE DEF n
    <3> QED
      BY <1>4, <2>2, <2>3
  <2> QED
    BY <2>1, <2>4
<1>7. ASSUME NEW i \in 1 .. N, NEW j \in 1 .. N, i < j PROVE CM!Before(list[i], list[j])
  <2>1. /\ list[i] \in groups /\ Cardinality(before[list[i]]) = i - 1
        /\ list[j] \in groups /\ Cardinality(before[list[j]]) = j - 1
    BY <1>5
  <2>2. list[i] \in before[list[j]]
    <3> HIDE DEF before
    <3> QED
      BY <1>2, <1>4, <1>7, <2>1
  <2> QED
    BY <2>1, <2>2
<1>8. DOMAIN list = 1 .. N
  BY <1>3
<1> QED
  BY <1>5, <1>6, <1>7, <1>8 DEF list, groups

\* The groups of a comparison are listed once for each query, the largest first,
\* and every suppressed result counts in one of them.
LEMMA ListAddsUp ==
    ASSUME NEW results, IsList(results), IsNamed(results), NEW o
    PROVE  LET list == CM!GroupNotExploitable(results, o)
           IN  /\ CM!Total(list, "count") = Cardinality(CM!HiddenIn(results, o))
               /\ \A i, j \in DOMAIN list : i < j =>
                     list[i].count >= list[j].count /\ list[i].query # list[j].query
<1> DEFINE list == CM!GroupNotExploitable(results, o)
           groups == CM!Groups(results, o)
           hidden == CM!HiddenIn(results, o)
           of(q) == HiddenOf(results, o, q)
           P == [n \in DOMAIN list |-> of(list[n].query)]
<1>1. /\ DOMAIN list = 1 .. Cardinality(groups)
      /\ \A n \in DOMAIN list : list[n] \in groups
      /\ \A g \in groups : \E n \in DOMAIN list : list[n] = g
      /\ \A i, j \in DOMAIN list : i < j => CM!Before(list[i], list[j])
  BY GroupsAreListed
<1>2. /\ IsFiniteSet(hidden) /\ IsFiniteSet(groups)
      /\ \A i \in hidden : \E g \in groups : g.query = results[i].query
      /\ \A g \in groups : g.count = Cardinality(of(g.query))
      /\ \A g \in groups : g.query \in Int /\ g.count \in Nat
  <2>1. EachIsGrouped(results, o)
    BY GroupsAreOrdered
  <2>2. IsFiniteSet(hidden) /\ IsFiniteSet(groups)
    BY GroupsAreOrdered
  <2>3. \A g \in groups : g.count = Cardinality(of(g.query))
    BY GroupsAreOrdered
  <2>4. \A g \in groups : g.query \in Int /\ g.count \in Nat
    BY GroupsAreOrdered
  <2> QED
    BY <2>1, <2>2, <2>3, <2>4 DEF EachIsGrouped
<1> HIDE DEF list, groups, hidden
<1>3. \A i, j \in DOMAIN list : i < j =>
         list[i].count >= list[j].count /\ list[i].query # list[j].query
  <2> SUFFICES ASSUME NEW i \in DOMAIN list, NEW j \in DOMAIN list, i < j
               PROVE  list[i].count >= list[j].count /\ list[i].query # list[j].query
    OBVIOUS
  <2>1. CM!Before(list[i], list[j]) /\ list[i] \in groups /\ list[j] \in groups
    BY <1>1
  <2>2. /\ list[i].count \in Nat /\ list[j].count \in Nat
        /\ list[i].query \in Int /\ list[j].query \in Int
        /\ list[i].count = Cardinality(of(list[i].query))
        /\ list[j].count = Cardinality(of(list[j].query))
    BY <1>2, <2>1
  <2>3. list[i].count > list[j].count
          \/ (list[i].count = list[j].count /\ list[i].query < list[j].query)
    BY <2>1 DEF CM!Before
  <2> HIDE DEF of
  <2> QED
    BY <2>2, <2>3
<1>4. IsFiniteSet(DOMAIN list)
  <2>1. Cardinality(groups) \in Nat
    BY <1>2, FS_CardinalityType
  <2> QED
    BY <1>1, <2>1, FS_Interval
<1>5. \A n \in DOMAIN list : IsFiniteSet(P[n]) /\ list[n]["count"] = Cardinality(P[n])
  <2> SUFFICES ASSUME NEW n \in DOMAIN list
               PROVE  IsFiniteSet(P[n]) /\ list[n]["count"] = Cardinality(P[n])
    OBVIOUS
  <2>1. list[n].count = Cardinality(of(list[n].query))
    BY <1>1, <1>2
  <2>2. P[n] = of(list[n].query) /\ P[n] \subseteq hidden
    BY DEF HiddenOf, hidden
  <2>3. IsFiniteSet(P[n])
    BY <1>2, <2>2, FS_Subset
  <2> HIDE DEF P, of
  <2> QED
    BY <2>1, <2>2, <2>3
<1>6. \A x, y \in DOMAIN list : x # y => P[x] \cap P[y] = {}
  <2> SUFFICES ASSUME NEW x \in DOMAIN list, NEW y \in DOMAIN list, x # y
               PROVE  P[x] \cap P[y] = {}
    OBVIOUS
  <2>1. x < y \/ y < x
    <3>1. Cardinality(groups) \in Nat
      BY <1>2, FS_CardinalityType
    <3> QED
      BY <1>1, <3>1
  <2>2. list[x].query # list[y].query
    BY <1>3, <2>1
  <2> QED
    BY <2>2 DEF HiddenOf
<1>7. UNION {P[n] : n \in DOMAIN list} = hidden
  <2>1. ASSUME NEW i \in hidden PROVE \E n \in DOMAIN list : i \in P[n]
    <3>1. PICK g \in groups : g.query = results[i].query
      BY <1>2
    <3>2. PICK n \in DOMAIN list : list[n] = g
      BY <1>1
    <3> QED
      BY <3>1, <3>2 DEF HiddenOf, hidden
  <2>2. \A n \in DOMAIN list : P[n] \subseteq hidden
    BY DEF HiddenOf, hidden
  <2> HIDE DEF P
  <2> QED
    BY <2>1, <2>2
<1>8. CM!Total(list, "count") = Cardinality(hidden)
  <2> HIDE DEF P
  <2>1. CM!Total(list, "count") = Cardinality(UNION {P[n] : n \in DOMAIN list})
    BY <1>4, <1>5, <1>6, ColumnAddsUp
  <2> QED
    BY <1>7, <2>1
<1> QED
  BY <1>3, <1>8 DEF list, hidden

-----------------------------------------------------------------------------
(* The comparison of two scans.                                            *)

\* A cancellation comes of the caller or of an error that is already kept, and
\* is kept itself only when it is the caller's.
ErrorKept ==
    /\ cancelled => ctxErr \/ firstErr # "none"
    /\ firstErr = "cancelled" => ctxErr
    /\ \A f \in CM!Fetches : fetch[f] = "failed" => firstErr # "none"

\* A fetch that succeeds tells of it; a report follows both fetches, and its
\* status is the error that is kept.
ReportFollows ==
    /\ \A f \in CM!Fetches : fetch[f] = "ok" => f \in told
    /\ report.status \in {"ok", "server", "cancelled"} =>
          \A f \in CM!Fetches : fetch[f] # "wait"
    /\ report.status \in {"server", "cancelled"} => report.status = firstErr
    /\ report.status = "ok" => told = CM!Fetches \cup {"diff", "not-exploitable"}

\* A result is the comparison of what the fetches have brought.
ReportTells ==
    report.status = "ok" =>
       /\ report.bySeverity = CM!DiffResults(found["old"], found["new"], options)
       /\ report.notExploitable = CM!GroupNotExploitable(found["new"], options)

CInv == CM!TypeOK /\ ErrorKept /\ ReportFollows /\ ReportTells

\* How a fetch ends, and what it leaves alone.
LEMMA GoroutineMoves ==
    ASSUME CM!ConstantsOK, CInv, NEW f \in CM!Fetches, CM!Goroutine(f)
    PROVE  /\ fetch[f] = "wait" /\ UNCHANGED <<report, ctxErr>>
           /\ pages' \in [CM!Fetches -> 1 .. MaxPages]
           /\ found' \in [CM!Fetches -> Scans \cup {<<>>}]
           /\ \/ UNCHANGED <<fetch, firstErr, cancelled, told>>
              \/ /\ fetch' = [fetch EXCEPT ![f] = "ok"]
                 /\ told' = told \cup {f} /\ UNCHANGED <<firstErr, cancelled>>
              \/ /\ fetch' = [fetch EXCEPT ![f] = "failed"]
                 /\ cancelled' = TRUE /\ told' = told
                 /\ \/ firstErr = "none" /\ firstErr' = "server"
                    \/ firstErr = "none" /\ firstErr' = "cancelled" /\ ctxErr
                    \/ firstErr # "none" /\ firstErr' = firstErr
<1> USE DEF CM!Fetching, CInv
<1>1. CASE CM!NextPage(f)
    BY <1>1 DEF CM!NextPage, CM!TypeOK, CM!ConstantsOK
<1>2. CASE CM!Fetched(f)
    BY <1>2 DEF CM!Fetched, CM!TypeOK
<1>3. CASE CM!FetchFails(f)
    BY <1>3 DEF CM!FetchFails, CM!SetFirstErr, CM!TypeOK
<1>4. CASE CM!FetchCancelled(f)
    BY <1>4 DEF CM!FetchCancelled, CM!SetFirstErr, CM!TypeOK, ErrorKept
<1> QED
    BY <1>1, <1>2, <1>3, <1>4 DEF CM!Goroutine

\* A comparison starts in its invariant.
LEMMA CompareInit == CM!ConstantsOK /\ CM!Init => CInv
<1> SUFFICES ASSUME CM!ConstantsOK, CM!Init PROVE CInv
    OBVIOUS
<1>1. /\ fetch = [f \in CM!Fetches |-> "wait"]
      /\ pages \in [CM!Fetches -> 1 .. MaxPages]
      /\ found = [f \in CM!Fetches |-> <<>>]
      /\ firstErr = "none" /\ ctxErr \in BOOLEAN /\ cancelled = FALSE
      /\ told = {} /\ report.status = "none"
    BY DEF CM!Init, CM!NoReport
<1>2. CM!TypeOK
    BY <1>1 DEF CM!TypeOK
<1> QED
    BY <1>1, <1>2 DEF CInv, ErrorKept, ReportFollows, ReportTells

\* Every step of a comparison preserves its invariant.
LEMMA CompareNext == CM!ConstantsOK /\ CInv /\ [CM!Next]_CM!vars => CInv'
<1> SUFFICES ASSUME CM!ConstantsOK, CInv, [CM!Next]_CM!vars PROVE CInv'
    OBVIOUS
<1>1. ASSUME NEW f \in CM!Fetches, CM!Goroutine(f) PROVE CInv'
  <2>1. CM!TypeOK'
    BY <1>1, GoroutineMoves DEF CInv, CM!TypeOK
  <2>2. /\ \A g \in CM!Fetches \ {f} : fetch'[g] = fetch[g]
        /\ \/ UNCHANGED <<fetch, firstErr, cancelled, told>>
           \/ fetch'[f] = "ok" /\ told' = told \cup {f} /\ UNCHANGED <<firstErr, cancelled>>
           \/ /\ fetch'[f] = "failed" /\ cancelled' = TRUE /\ told' = told
              /\ \/ firstErr = "none" /\ firstErr' = "server"
                 \/ firstErr = "none" /\ firstErr' = "cancelled" /\ ctxErr
                 \/ firstErr # "none" /\ firstErr' = firstErr
    <3>1. fetch \in [CM!Fetches -> {"wait", "ok", "failed"}]
      BY DEF CInv, CM!TypeOK
    <3> QED
      BY <1>1, <3>1, GoroutineMoves
  <2>3. fetch[f] = "wait" /\ UNCHANGED <<report, ctxErr>>
    BY <1>1, GoroutineMoves
  <2>4. ErrorKept'
    BY <2>2, <2>3 DEF CInv, ErrorKept
  <2>5. report.status \notin {"ok", "server", "cancelled"}
    BY <2>3 DEF CInv, ReportFollows
  <2>6. ReportFollows'
    BY <2>2, <2>3, <2>5 DEF CInv, ReportFollows
  <2>7. ReportTells'
    BY <2>3, <2>5 DEF ReportTells
  <2> QED
    BY <2>1, <2>4, <2>6, <2>7 DEF CInv
<1>2. CASE CM!Invalid
    BY <1>2 DEF ReportTells, CM!Invalid, CInv, CM!TypeOK, ErrorKept, ReportFollows
<1>3. CASE CM!Return
  <2>1. CASE firstErr # "none"
    BY <1>3, <2>1 DEF ReportTells, CM!Return, CInv, CM!TypeOK, ErrorKept, ReportFollows
  <2>2. CASE firstErr = "none"
    <3>1. \A f \in CM!Fetches : fetch[f] = "ok" /\ f \in told
      BY <1>3, <2>2 DEF CM!Return, CInv, CM!TypeOK, ErrorKept, ReportFollows
    <3>2. report'.status = "ok" /\ told' = CM!Fetches \cup {"diff", "not-exploitable"}
      BY <1>3, <2>2, <3>1 DEF CM!Return, CInv, CM!TypeOK
    <3>3. ReportTells'
      BY <1>3, <2>2 DEF ReportTells, CM!Return
    <3> QED
      BY <1>3, <3>1, <3>2, <3>3 DEF CM!Return, CInv, CM!TypeOK, ErrorKept, ReportFollows
  <2> QED
    BY <2>1, <2>2
<1>4. CASE CM!ContextDone
    BY <1>4 DEF ReportTells, CM!ContextDone, CInv, CM!TypeOK, ErrorKept, ReportFollows
<1>5. CASE UNCHANGED CM!vars
    BY <1>5 DEF ReportTells, CM!vars, CInv, CM!TypeOK, ErrorKept, ReportFollows
<1> QED
    BY <1>1, <1>2, <1>3, <1>4, <1>5 DEF CM!Next

\* A fetch goes through its pages; a report has one of Compare's outcomes.
LEMMA CompareTypeCorrect == CInv => CM!TypeOK
BY DEF CInv

\* A cancellation is told only when it is the caller's.
LEMMA CompareKeepsFirstError == CInv => CM!FirstErrorWins
BY DEF CInv, ErrorKept, ReportFollows, CM!FirstErrorWins

\* What a fetch has brought is a list of named results.
LEMMA FoundAreLists ==
    ASSUME CM!ConstantsOK, CInv, NEW f \in CM!Fetches
    PROVE  IsList(found[f]) /\ IsNamed(found[f])
<1>1. found[f] \in Scans \cup {<<>>}
  BY DEF CInv, CM!TypeOK
<1>2. CASE found[f] \in Scans
  BY <1>2 DEF CM!ConstantsOK, IsList, IsNamed
<1>3. CASE found[f] = <<>>
  <2>1. CM!ToSet(<<>>) = {}
    BY DEF CM!ToSet
  <2> QED
    BY <1>3, <2>1 DEF IsList, IsNamed
<1> QED
  BY <1>1, <1>2, <1>3

\* A report adds up.
LEMMA CompareAddsUp == CM!ConstantsOK /\ CInv => CM!ComparisonAddsUp
<1> SUFFICES ASSUME CM!ConstantsOK, CInv, report.status = "ok"
             PROVE  CM!DiffIsPartition /\ CM!SuppressedAreListed
  BY DEF CM!ComparisonAddsUp, CM!DiffIsPartition, CM!SuppressedAreListed
<1> DEFINE old == found["old"]
           new == found["new"]
           ids(s) == {CM!IdentityOf(r, options) :
                         r \in {x \in CM!ToSet(s) : CM!Wanted(x, options)}}
<1>1. IsList(old) /\ IsList(new) /\ IsNamed(new)
  BY FoundAreLists DEF CM!Fetches
<1>2. /\ report.bySeverity = CM!DiffResults(old, new, options)
      /\ report.notExploitable = CM!GroupNotExploitable(new, options)
  BY DEF CInv, ReportTells
<1> HIDE DEF old, new
<1>3. CM!Identities(old, options) = ids(old) /\ CM!Identities(new, options) = ids(new)
  BY <1>1, IdentitiesFinite
<1>4. CM!DiffIsPartition
  <2> DEFINE diff == CM!DiffResults(old, new, options)
             back == CM!DiffResults(new, old, options)
  <2>1. /\ CM!Total(diff, "New") + CM!Total(diff, "Recurrent") = Cardinality(ids(new))
        /\ CM!Total(diff, "Resolved") + CM!Total(diff, "Recurrent") = Cardinality(ids(old))
        /\ \A s \in DOMAIN diff \cap DOMAIN back : diff[s].New = back[s].Resolved
        /\ \A s \in DOMAIN diff \ DOMAIN back : diff[s].New = 0
    <3> HIDE DEF ids
    <3> QED
      BY <1>1, <1>3, DiffAddsUp
  <2>2. report.bySeverity = diff
    BY <1>2
  <2> HIDE DEF diff, back
  <2> QED
    BY <2>1, <2>2, ComparedCardinality DEF CM!DiffIsPartition, old, new, back
<1>5. CM!SuppressedAreListed
  BY <1>1, <1>2, ListAddsUp, ComparedCardinality DEF CM!SuppressedAreListed, new
<1> QED
  BY <1>4, <1>5

-----------------------------------------------------------------------------
(* The iterator.                                                           *)

Items == Range(Catalogue) \cup Added

\* Items the iterator counts as passed, and the ones beyond them.
Passed == IF cfg.offsetIsByCount THEN offset ELSE offset * cfg.pageSize
Rest == {items[i] : i \in {j \in DOMAIN items : j > Passed}}

Seen == Range(yielded) \cup Range(buffer)

IteratorTyped ==
    /\ items \in Seq(Items) /\ buffer \in Seq(Items) /\ yielded \in Seq(Items)
    /\ cfg \in [pageSize : Nat \ {0}, offsetIsByCount : BOOLEAN, pageRetriesMax : Int]
    /\ offset \in Nat

\* A page is asked for when nothing is buffered and the stream has not ended,
\* within its budget.
Asking ==
    /\ pc = "ready" => attempt = 1
    /\ pc = "sleep" => attempt < PG!PageAttempts
    /\ pc # "ready" => buffer = <<>> /\ ~exhausted /\ PG!PageAttempts >= 1
    /\ exhausted => buffer = <<>>
    /\ last = "end" => exhausted

\* No item is in the collection twice, nor added twice.
NoDoubles ==
    /\ IsInjective(items)
    /\ unborn \cap (Range(items) \cup Seen) = {}

\* Nothing the iterator has passed lies ahead of it, unless something was added in
\* front.
NothingAhead ==
    PG!Served /\ ~inserted =>
        /\ IsInjective(yielded) /\ IsInjective(buffer)
        /\ Range(yielded) \cap Range(buffer) = {}
        /\ Rest \cap Seen = {}

\* What was there at first lies ahead or was passed, unless something was removed
\* or a page came without its body.
NothingLost ==
    PG!Served /\ ~blanked /\ removals = 0 =>
        /\ Range(Catalogue) \subseteq Seen \cup Rest
        /\ exhausted => Range(Catalogue) \subseteq Range(yielded)

Control ==
    /\ unborn \subseteq Added /\ removals \in 0..MaxRemovals
    /\ {inserted, blanked, exhausted, collecting, ctxErr} \subseteq BOOLEAN
    /\ pc \in {"ready", "fetch", "sleep"}
    /\ attempt \in Nat \ {0} /\ (pc # "ready" => attempt <= PG!PageAttempts)
    /\ last \in {"none", "item", "end", "error"}

PInv == Control /\ IteratorTyped /\ Asking /\ NoDoubles /\ NothingAhead /\ NothingLost

\* An item added at the end of a sequence, and in front of it.
LEMMA RangeAppend ==
    ASSUME NEW S, NEW s \in Seq(S), NEW x \in S
    PROVE  /\ Append(s, x) \in Seq(S) /\ Range(Append(s, x)) = Range(s) \cup {x}
           /\ IsInjective(s) /\ x \notin Range(s) => IsInjective(Append(s, x))
           /\ DOMAIN Append(s, x) = 1 .. Len(s) + 1
           /\ \A i \in 1 .. Len(s) + 1 :
                 Append(s, x)[i] = IF i = Len(s) + 1 THEN x ELSE s[i]
<1>1. /\ Append(s, x) \in Seq(S) /\ Len(s) \in Nat
      /\ DOMAIN s = 1 .. Len(s) /\ DOMAIN Append(s, x) = 1 .. Len(s) + 1
      /\ \A i \in 1 .. Len(s) + 1 :
            Append(s, x)[i] = IF i = Len(s) + 1 THEN x ELSE s[i]
    OBVIOUS
<1>2. Range(Append(s, x)) = Range(s) \cup {x}
  <2>1. \A y \in Range(Append(s, x)) : y \in Range(s) \cup {x}
    BY <1>1 DEF Range
  <2>2. \A y \in Range(s) : y \in Range(Append(s, x))
    BY <1>1 DEF Range
  <2>3. x \in Range(Append(s, x))
    <3>1. Len(s) + 1 \in DOMAIN Append(s, x) /\ Append(s, x)[Len(s) + 1] = x
      BY <1>1
    <3> QED
      BY <3>1 DEF Range
  <2> QED
    BY <2>1, <2>2, <2>3
<1>3. IsInjective(s) /\ x \notin Range(s) => IsInjective(Append(s, x))
    BY <1>1 DEF IsInjective, Range
<1> QED
    BY <1>1, <1>2, <1>3

\* What a sequence holds after an item was put at its head.
LEMMA RangePrepend ==
    ASSUME NEW S, NEW s \in Seq(S), NEW x \in S
    PROVE  /\ <<x>> \o s \in Seq(S) /\ Range(<<x>> \o s) = Range(s) \cup {x}
           /\ IsInjective(s) /\ x \notin Range(s) => IsInjective(<<x>> \o s)
           /\ DOMAIN (<<x>> \o s) = 1 .. Len(s) + 1
           /\ \A i \in 1 .. Len(s) + 1 :
                 (<<x>> \o s)[i] = IF i = 1 THEN x ELSE s[i - 1]
<1> DEFINE t == <<x>> \o s
<1>1. /\ t \in Seq(S) /\ Len(s) \in Nat
      /\ DOMAIN s = 1 .. Len(s) /\ DOMAIN t = 1 .. Len(s) + 1
      /\ \A i \in 1 .. Len(s) + 1 : t[i] = IF i = 1 THEN x ELSE s[i - 1]
    BY ConcatProperties
<1> HIDE DEF t
<1>2. Range(t) = Range(s) \cup {x}
  <2>1. \A y \in Range(t) : y \in Range(s) \cup {x}
    BY <1>1 DEF Range
  <2>2. \A y \in Range(s) : y \in Range(t)
    <3> TAKE y \in Range(s)
    <3>1. PICK i \in 1 .. Len(s) : y = s[i]
      BY <1>1 DEF Range
    <3>2. i + 1 \in 1 .. Len(s) + 1 /\ t[i + 1] = y
      BY <1>1, <3>1
    <3> QED
      BY <1>1, <3>2 DEF Range
  <2>3. x \in Range(t)
    BY <1>1 DEF Range
  <2> QED
    BY <2>1, <2>2, <2>3
<1>3. IsInjective(s) /\ x \notin Range(s) => IsInjective(t)
  <2> SUFFICES ASSUME IsInjective(s), x \notin Range(s),
                      NEW i \in 1 .. Len(s) + 1, NEW j \in 1 .. Len(s) + 1, t[i] = t[j]
               PROVE  i = j
      BY <1>1 DEF IsInjective
  <2>1. \A k \in 1 .. Len(s) + 1 :
           k # 1 => k - 1 \in DOMAIN s /\ t[k] = s[k - 1] /\ t[k] \in Range(s)
    BY <1>1 DEF Range
  <2>2. t[1] = x
    BY <1>1
  <2>3. CASE i = 1 \/ j = 1
    BY <2>1, <2>2, <2>3
  <2>4. CASE i # 1 /\ j # 1
    <3>1. s[i - 1] = s[j - 1] /\ i - 1 \in DOMAIN s /\ j - 1 \in DOMAIN s
      BY <2>1, <2>4
    <3>2. i - 1 = j - 1
      BY <3>1 DEF IsInjective
    <3> QED
      BY <1>1, <3>2
  <2> QED
    BY <2>3, <2>4
<1> QED
    BY <1>1, <1>2, <1>3 DEF t

\* An item taken from the front, and one taken out.
LEMMA RangeTail ==
    ASSUME NEW S, NEW s \in Seq(S), s # <<>>
    PROVE  /\ Tail(s) \in Seq(S) /\ Head(s) \in S
           /\ Range(s) = Range(Tail(s)) \cup {Head(s)}
           /\ IsInjective(s) => IsInjective(Tail(s)) /\ Head(s) \notin Range(Tail(s))
<1>1. /\ Tail(s) \in Seq(S) /\ Head(s) \in S /\ Head(s) = s[1]
      /\ Len(s) \in Nat \ {0} /\ DOMAIN s = 1 .. Len(s)
      /\ DOMAIN Tail(s) = 1 .. Len(s) - 1
      /\ \A i \in 1 .. Len(s) - 1 : Tail(s)[i] = s[i + 1]
    BY HeadTailProperties, EmptySeq
<1>2. Range(s) = Range(Tail(s)) \cup {Head(s)}
  <2>1. \A y \in Range(s) : y \in Range(Tail(s)) \cup {Head(s)}
    <3> TAKE y \in Range(s)
    <3>1. PICK i \in 1 .. Len(s) : y = s[i]
      BY <1>1 DEF Range
    <3>2. CASE i = 1
      BY <1>1, <3>1, <3>2
    <3>3. CASE i # 1
      <4>1. i - 1 \in DOMAIN Tail(s) /\ Tail(s)[i - 1] = y
        BY <1>1, <3>1, <3>3
      <4> QED
        BY <4>1 DEF Range
    <3> QED
      BY <3>2, <3>3
  <2>2. \A y \in Range(Tail(s)) : y \in Range(s)
    BY <1>1 DEF Range
  <2>3. Head(s) \in Range(s)
    BY <1>1 DEF Range
  <2> QED
    BY <2>1, <2>2, <2>3
<1>3. IsInjective(s) => IsInjective(Tail(s)) /\ Head(s) \notin Range(Tail(s))
    BY <1>1 DEF IsInjective, Range
<1> QED
    BY <1>1, <1>2, <1>3

\* What a sequence holds after one of its items was taken out.
LEMMA RangeRemoveAt ==
    ASSUME NEW S, NEW s \in Seq(S), NEW n \in DOMAIN s
    PROVE  /\ PG!RemoveAt(s, n) \in Seq(S)
           /\ DOMAIN PG!RemoveAt(s, n) = 1 .. Len(s) - 1
           /\ \A i \in 1 .. Len(s) - 1 :
                 /\ i < n => PG!RemoveAt(s, n)[i] = s[i]
                 /\ i >= n => PG!RemoveAt(s, n)[i] = s[i + 1]
           /\ Range(PG!RemoveAt(s, n)) \subseteq Range(s)
           /\ IsInjective(s) => IsInjective(PG!RemoveAt(s, n))
<1> DEFINE a == SubSeq(s, 1, n - 1)
           b == SubSeq(s, n + 1, Len(s))
           t == PG!RemoveAt(s, n)
<1>1. Len(s) \in Nat /\ DOMAIN s = 1 .. Len(s) /\ n \in 1 .. Len(s)
    OBVIOUS
<1>2. /\ a \in Seq(S) /\ Len(a) = n - 1
      /\ \A i \in 1 .. n - 1 : a[i] = s[i]
    BY <1>1, SubSeqProperties
<1>3. /\ b \in Seq(S) /\ Len(b) = Len(s) - n
      /\ \A i \in 1 .. Len(s) - n : b[i] = s[i + n]
    BY <1>1, SubSeqProperties
<1>4. t = a \o b
    BY DEF PG!RemoveAt
<1> HIDE DEF a, b, t
<1>5. t \in Seq(S) /\ Len(a) + Len(b) = Len(s) - 1 /\ DOMAIN t = 1 .. Len(s) - 1
  <2>1. t \in Seq(S) /\ Len(t) = Len(a) + Len(b)
    BY <1>2, <1>3, <1>4, ConcatProperties
  <2> QED
    BY <1>1, <1>2, <1>3, <2>1
<1>6. \A i \in 1 .. Len(s) - 1 :
         /\ i < n => t[i] = s[i]
         /\ i >= n => t[i] = s[i + 1]
  <2> TAKE i \in 1 .. Len(s) - 1
  <2>1. t[i] = IF i <= Len(a) THEN a[i] ELSE b[i - Len(a)]
    BY <1>2, <1>3, <1>4, <1>5, ConcatProperties
  <2>2. i < n => t[i] = s[i]
    BY <1>1, <1>2, <2>1
  <2>3. i >= n => i - (n - 1) \in 1 .. Len(s) - n /\ t[i] = b[i - (n - 1)]
    BY <1>1, <1>2, <2>1
  <2>4. i >= n => t[i] = s[i - (n - 1) + n] /\ i - (n - 1) + n = i + 1
    BY <1>1, <1>3, <2>3
  <2> QED
    BY <2>2, <2>4
<1>7. Range(t) \subseteq Range(s)
    BY <1>1, <1>5, <1>6 DEF Range
<1>8. IsInjective(s) => IsInjective(t)
  <2> SUFFICES ASSUME IsInjective(s), NEW i \in 1 .. Len(s) - 1,
                      NEW j \in 1 .. Len(s) - 1, t[i] = t[j]
               PROVE  i = j
      BY <1>5 DEF IsInjective
  <2>1. \A k \in 1 .. Len(s) - 1 : k \in DOMAIN s /\ k + 1 \in DOMAIN s
    BY <1>1
  <2>2. CASE i < n /\ j < n
    BY <1>6, <2>1, <2>2 DEF IsInjective
  <2>3. CASE i >= n /\ j >= n
    <3>1. i + 1 = j + 1
      BY <1>6, <2>1, <2>3 DEF IsInjective
    <3> QED
      BY <3>1
  <2>4. CASE i < n /\ j >= n
    <3>1. i = j + 1
      BY <1>6, <2>1, <2>4 DEF IsInjective
    <3> QED
      BY <2>4, <3>1
  <2>5. CASE i >= n /\ j < n
    <3>1. i + 1 = j
      BY <1>6, <2>1, <2>5 DEF IsInjective
    <3> QED
      BY <2>5, <3>1
  <2> QED
    BY <1>1, <2>2, <2>3, <2>4, <2>5
<1> QED
    BY <1>5, <1>6, <1>7, <1>8 DEF t

\* The n items behind the first k, as a sequence and as a set.
Cut(s, k, n) == SubSeq(s, k + 1, IF k + n < Len(s) THEN k + n ELSE Len(s))
Stretch(s, k, n) == {s[i] : i \in {j \in DOMAIN s : k < j /\ j <= k + n}}

\* A page of n items behind the first k.
LEMMA PageOf ==
    ASSUME NEW S, NEW s \in Seq(S), NEW k \in Nat, NEW n \in Nat \ {0}
    PROVE  /\ Cut(s, k, n) \in Seq(S)
           /\ Range(Cut(s, k, n)) = Stretch(s, k, n)
           /\ Cut(s, k, n) = <<>> => Len(s) <= k
           /\ IsInjective(s) => IsInjective(Cut(s, k, n))
<1> DEFINE page == Cut(s, k, n)
<1> DEFINE m == IF k + n < Len(s) THEN k + n ELSE Len(s)
<1>1. Len(s) \in Nat /\ DOMAIN s = 1 .. Len(s) /\ m \in Nat /\ m <= Len(s) /\ m <= k + n
    OBVIOUS
<1>2. page = SubSeq(s, k + 1, m)
    BY DEF Cut
<1>3. \A j \in DOMAIN s : j <= k + n => j <= m
    BY <1>1
<1>4. m <= k => Len(s) <= k
    BY <1>1
<1> HIDE DEF m, page
<1>5. /\ page \in Seq(S) /\ Len(page) = IF k + 1 <= m THEN m - k ELSE 0
      /\ DOMAIN page = 1 .. m - k
      /\ \A i \in 1 .. m - k : k + i \in DOMAIN s /\ page[i] = s[k + i]
  <2>1. \A i \in k + 1 .. m : s[i] \in S
    BY <1>1
  <2>2. /\ page \in Seq(S) /\ Len(page) = IF k + 1 <= m THEN m - (k + 1) + 1 ELSE 0
        /\ \A i \in 1 .. m - (k + 1) + 1 : page[i] = s[k + 1 + i - 1]
    BY <1>1, <1>2, <2>1, SubSeqProperties
  <2>3. m - (k + 1) + 1 = m - k /\ \A i \in Int : k + 1 + i - 1 = k + i
    BY <1>1
  <2>4. \A i \in 1 .. m - k : k + i \in DOMAIN s /\ page[i] = s[k + i]
    <3> TAKE i \in 1 .. m - k
    <3>1. i \in Int /\ i \in 1 .. m - (k + 1) + 1 /\ k + i \in 1 .. Len(s)
      BY <1>1, <2>3
    <3>2. page[i] = s[k + 1 + i - 1] /\ k + 1 + i - 1 = k + i
      BY <2>2, <2>3, <3>1
    <3> QED
      BY <1>1, <3>1, <3>2
  <2>5. DOMAIN page = 1 .. Len(page)
    BY <2>2
  <2>6. DOMAIN page = 1 .. m - k
    <3>1. CASE k + 1 <= m
      BY <2>2, <2>3, <2>5, <3>1
    <3>2. CASE ~(k + 1 <= m)
      <4>1. Len(page) = 0
        BY <2>2, <3>2
      <4>2. 1 .. m - k = {} /\ 1 .. 0 = {}
        BY <1>1, <3>2
      <4> QED
        BY <2>5, <4>1, <4>2
    <3> QED
      BY <3>1, <3>2
  <2> QED
    BY <1>1, <2>2, <2>3, <2>4, <2>6
<1>a. page = <<>> => Len(s) <= k
  <2> SUFFICES ASSUME page = <<>> PROVE m <= k
      BY <1>4
  <2>1. Len(page) = 0
    BY EmptySeq
  <2>2. k + 1 <= m => Len(page) = m - k
    BY <1>5
  <2>3. k \in Int /\ m \in Int
    BY <1>1
  <2> QED
    BY <2>1, <2>2, <2>3
<1>6. \A x \in Range(page) : \E j \in DOMAIN s : k < j /\ j <= k + n /\ x = s[j]
  <2> SUFFICES ASSUME NEW i \in 1 .. m - k
               PROVE  \E j \in DOMAIN s : k < j /\ j <= k + n /\ page[i] = s[j]
      BY <1>5 DEF Range
  <2>1. k + i \in DOMAIN s /\ page[i] = s[k + i]
    BY <1>5
  <2>2. k < k + i /\ k + i <= k + n
    BY <1>1
  <2> QED
    BY <2>1, <2>2
<1>7. \A j \in DOMAIN s : k < j /\ j <= k + n => s[j] \in Range(page)
  <2> SUFFICES ASSUME NEW j \in DOMAIN s, k < j, j <= k + n PROVE s[j] \in Range(page)
      OBVIOUS
  <2>1. j - k \in 1 .. m - k /\ k + (j - k) = j
    BY <1>1, <1>3
  <2>2. j - k \in DOMAIN page /\ page[j - k] = s[j]
    BY <1>5, <2>1
  <2> QED
    BY <2>2 DEF Range
<1>8. IsInjective(s) => IsInjective(page)
  <2> SUFFICES ASSUME IsInjective(s), NEW i \in 1 .. m - k, NEW j \in 1 .. m - k,
                      page[i] = page[j]
               PROVE  i = j
      BY <1>5 DEF IsInjective
  <2>1. k + i = k + j
    BY <1>5 DEF IsInjective
  <2> QED
    BY <1>1, <2>1
<1>9. Range(page) = Stretch(s, k, n)
    BY <1>6, <1>7 DEF Stretch
<1> QED
    BY <1>5, <1>8, <1>9, <1>a DEF page

\* The two instances of the community operators are one.
LEMMA SameOperators ==
    /\ \A f : PG!Range(f) = Range(f)
    /\ \A f : PG!IsInjective(f) <=> IsInjective(f)
BY DEF PG!Range, Range, PG!IsInjective, IsInjective

\* The part of the list that the iterator asks to skip is a number.
LEMMA PassedIsNat == ASSUME IteratorTyped PROVE Passed \in Nat
<1>1. offset \in Nat /\ cfg.pageSize \in Nat /\ cfg.offsetIsByCount \in BOOLEAN
    BY DEF IteratorTyped
<1>2. offset * cfg.pageSize \in Nat
    BY <1>1
<1> QED
    BY <1>1, <1>2 DEF Passed

\* A page moves the iterator on by as much as it asks for.
LEMMA PassedGrows ==
    ASSUME IteratorTyped, NEW page, offset' = PG!AdvanceOffset(offset, page), cfg' = cfg
    PROVE  offset' \in Nat /\ Passed' = Passed + cfg.pageSize
<1> DEFINE n == cfg.pageSize
<1>1. offset \in Nat /\ n \in Nat
    BY DEF IteratorTyped
<1>2. cfg'.pageSize = n /\ cfg'.offsetIsByCount = cfg.offsetIsByCount
    OBVIOUS
<1> HIDE DEF n
<1>3. (offset + 1) * n = offset * n + n
    BY <1>1
<1>4. offset' = IF cfg.offsetIsByCount THEN offset + n ELSE offset + 1
    BY DEF PG!AdvanceOffset, n
<1>5. CASE cfg.offsetIsByCount
    BY <1>1, <1>2, <1>4, <1>5 DEF Passed, n
<1>6. CASE ~cfg.offsetIsByCount
  <2>1. offset' = offset + 1 /\ offset' \in Nat
    BY <1>1, <1>4, <1>6
  <2>2. Passed = offset * n /\ Passed' = offset' * n
    BY <1>2, <1>6 DEF Passed, n
  <2> QED
    BY <1>3, <2>1, <2>2 DEF n
<1> QED
    BY <1>5, <1>6

\* The items of the page the iterator asks for.
Due == Stretch(items, Passed, cfg.pageSize)

\* What an answer brings.
LEMMA PageFacts ==
    ASSUME PG!ConstantsOK, IteratorTyped, NEW page \in PG!Fetched
    PROVE  /\ page \in Seq(Items) /\ Range(page) \subseteq Range(items)
           /\ IsInjective(items) => IsInjective(page)
           /\ PG!Served => Range(page) \subseteq Due
           /\ PG!Served /\ page = PG!PageAt(offset, cfg.pageSize) =>
                 Range(page) = Due /\ (page = <<>> => Len(items) <= Passed)
<1> DEFINE n == IF cfg.pageSize < MaxPage THEN cfg.pageSize ELSE MaxPage
<1>1. /\ cfg.pageSize \in Nat \ {0} /\ MaxPage \in Nat \ {0}
      /\ items \in Seq(Items) /\ Passed \in Nat
    BY PassedIsNat DEF PG!ConstantsOK, IteratorTyped
<1>2. n \in Nat \ {0} /\ (PG!Served => n = cfg.pageSize)
    BY <1>1 DEF PG!Served
<1>3. CASE page = <<>> /\ page # PG!PageAt(offset, cfg.pageSize)
  <2>1. page \in Seq(Items) /\ Range(page) = {} /\ IsInjective(page)
    BY <1>3 DEF Range, IsInjective
  <2> QED
    BY <1>3, <2>1
<1>4. CASE page = PG!PageAt(offset, cfg.pageSize)
  <2>1. page = Cut(items, Passed, n)
    BY <1>4 DEF PG!PageAt, PG!Shorter, Passed, Cut
  <2> HIDE DEF n
  <2>2. /\ IsInjective(items) => IsInjective(page)
        /\ page = <<>> => Len(items) <= Passed
        /\ Range(page) = Stretch(items, Passed, n)
    BY <1>1, <1>2, <2>1, PageOf
  <2>3. Range(page) \subseteq Range(items)
    BY <2>2 DEF Range, Stretch
  <2>4. PG!Served => Range(page) = Due
    BY <1>2, <2>2 DEF Due
  <2>5. page \in Seq(Items)
    BY <1>1, <1>2, <2>1, PageOf
  <2> QED
    BY <2>2, <2>3, <2>4, <2>5
<1> QED
    BY <1>3, <1>4 DEF PG!Fetched

\* What lies ahead once the iterator has moved on.
LEMMA RestAfterPage ==
    ASSUME IteratorTyped, items' = items, Passed' = Passed + cfg.pageSize
    PROVE  /\ Rest' \subseteq Rest /\ Rest \subseteq Rest' \cup Due /\ Due \subseteq Rest
           /\ IsInjective(items) => Due \cap Rest' = {}
<1>1. Passed \in Nat /\ cfg.pageSize \in Nat
    BY PassedIsNat DEF IteratorTyped
<1>2. DOMAIN items \subseteq Int
    BY DEF IteratorTyped
<1>3. \A j \in Int : /\ j > Passed' => j > Passed
                     /\ j > Passed => j > Passed' \/ j <= Passed + cfg.pageSize
                     /\ ~(j > Passed' /\ j <= Passed + cfg.pageSize)
                     /\ Passed < j <=> j > Passed
    BY <1>1
<1>4. Rest' = {items[i] : i \in {j \in DOMAIN items : j > Passed'}}
    BY DEF Rest
<1>5. Rest' \subseteq Rest /\ Rest \subseteq Rest' \cup Due /\ Due \subseteq Rest
    BY <1>2, <1>3, <1>4 DEF Rest, Due, Stretch
<1>6. IsInjective(items) => Due \cap Rest' = {}
    BY <1>2, <1>3, <1>4 DEF Due, Stretch, IsInjective
<1> QED
    BY <1>5, <1>6

\* An item is handed out.
LEMMA Yielding ==
    ASSUME yielded \in Seq(Items), NEW b \in Seq(Items), b # <<>>, PG!Yield(b)
    PROVE  /\ yielded' \in Seq(Items) /\ buffer' \in Seq(Items)
           /\ Range(yielded) \subseteq Range(yielded')
           /\ Seen' = Range(yielded) \cup Range(b)
           /\ IsInjective(yielded) /\ IsInjective(b) /\ Range(yielded) \cap Range(b) = {} =>
                 /\ IsInjective(yielded') /\ IsInjective(buffer')
                 /\ Range(yielded') \cap Range(buffer') = {}
           /\ pc' = "ready" /\ attempt' = 1 /\ last' = "item"
           /\ collecting \in BOOLEAN => collecting' \in BOOLEAN
<1>1. /\ yielded' = Append(yielded, Head(b)) /\ buffer' = Tail(b)
      /\ pc' = "ready" /\ attempt' = 1 /\ last' = "item"
      /\ collecting' = (collecting /\ TRUE)
    BY DEF PG!Yield, PG!Return
<1>2. /\ Tail(b) \in Seq(Items) /\ Head(b) \in Items
      /\ Range(b) = Range(Tail(b)) \cup {Head(b)}
      /\ IsInjective(b) => IsInjective(Tail(b)) /\ Head(b) \notin Range(Tail(b))
    BY RangeTail
<1>3. /\ Append(yielded, Head(b)) \in Seq(Items)
      /\ Range(Append(yielded, Head(b))) = Range(yielded) \cup {Head(b)}
      /\ IsInjective(yielded) /\ Head(b) \notin Range(yielded) =>
            IsInjective(Append(yielded, Head(b)))
    BY <1>2, RangeAppend
<1> QED
    BY <1>1, <1>2, <1>3 DEF Seen

\* The invariant holds the type invariant of the module.
LEMMA TypesFollow == ASSUME Control, IteratorTyped PROVE PG!TypeOK
<1>1. /\ Range(items) \subseteq Items /\ Range(buffer) \subseteq Items
      /\ Range(yielded) \subseteq Items
    BY DEF IteratorTyped, Range
<1>2. cfg.pageSize \in Nat \ {0} /\ offset \in Nat
    BY DEF IteratorTyped
<1>3. /\ PG!Present \subseteq PG!Range(Catalogue) \cup Added
      /\ PG!Range(buffer) \cup PG!Range(yielded) \subseteq PG!Range(Catalogue) \cup Added
    BY <1>1, SameOperators DEF PG!Present, Items
<1> QED
    BY <1>2, <1>3 DEF Control, PG!TypeOK

-----------------------------------------------------------------------------

\* The first page is not fetched yet, and the platform holds the catalogue.
LEMMA PaginationInit == PG!ConstantsOK /\ PG!Init => PInv
<1> SUFFICES ASSUME PG!ConstantsOK, PG!Init PROVE PInv
    OBVIOUS
<1>1. /\ items = Catalogue /\ unborn = Added /\ removals = 0
      /\ inserted = FALSE /\ blanked = FALSE /\ exhausted = FALSE
      /\ offset = 0 /\ buffer = <<>> /\ yielded = <<>>
      /\ pc = "ready" /\ collecting = FALSE /\ attempt = 1 /\ ctxErr = FALSE /\ last = "none"
    BY DEF PG!Init
<1>2. cfg \in [pageSize : Nat \ {0}, offsetIsByCount : BOOLEAN, pageRetriesMax : Int]
  <2>1. PICK c \in Configs : cfg \in {PG!WithDefaults(c), PG!WithDefaults(PG!ByCount(c))}
    BY DEF PG!Init
  <2>2. c \in [pageSize : Nat, offsetIsByCount : BOOLEAN, pageRetriesMax : Int]
    BY DEF PG!ConstantsOK
  <2>3. PG!ByCount(c) \in [pageSize : Nat, offsetIsByCount : BOOLEAN, pageRetriesMax : Int]
    BY <2>2 DEF PG!ByCount
  <2>4. ASSUME NEW d \in [pageSize : Nat, offsetIsByCount : BOOLEAN, pageRetriesMax : Int]
        PROVE  PG!WithDefaults(d) \in
                   [pageSize : Nat \ {0}, offsetIsByCount : BOOLEAN, pageRetriesMax : Int]
    <3>1. PICK x, y : /\ x = IF d.pageSize = 0 THEN 100 ELSE d.pageSize
                      /\ y = IF d.pageRetriesMax = 0 THEN 5 ELSE d.pageRetriesMax
      OBVIOUS
    <3>2. PG!WithDefaults(d) = [d EXCEPT !.pageSize = x, !.pageRetriesMax = y]
      BY <3>1 DEF PG!WithDefaults
    <3>3. x \in Nat \ {0} /\ y \in Int
      BY <3>1
    <3> QED
      BY <3>2, <3>3
  <2> QED
    BY <2>1, <2>2, <2>3, <2>4
<1>3. /\ Catalogue \in Seq(Range(Catalogue)) /\ IsInjective(Catalogue)
      /\ Added \cap Range(Catalogue) = {} /\ MaxRemovals \in Nat
    BY SameOperators DEF PG!ConstantsOK
<1>4. Catalogue \in Seq(Items) /\ <<>> \in Seq(Items) /\ Range(<<>>) = {} /\ IsInjective(<<>>)
    BY <1>3 DEF Items, Range, IsInjective
<1>5. IteratorTyped
    BY <1>1, <1>2, <1>4 DEF IteratorTyped
<1>6. Control
  <2>1. {inserted, blanked, exhausted, collecting, ctxErr} \subseteq BOOLEAN
    BY <1>1
  <2> QED
    BY <1>1, <1>3, <2>1 DEF Control
<1>7. Asking
    BY <1>1 DEF Asking
<1>8. Seen = {}
    BY <1>1, <1>4 DEF Seen
<1>9. NoDoubles
    BY <1>1, <1>3, <1>8 DEF NoDoubles
<1>10. NothingAhead
    BY <1>1, <1>4, <1>8 DEF NothingAhead
<1>11. NothingLost
  <2>1. Passed = 0
    BY <1>1, <1>2 DEF Passed
  <2>2. Range(Catalogue) \subseteq Rest
    <3>1. DOMAIN Catalogue = 1 .. Len(Catalogue) /\ Len(Catalogue) \in Nat
      BY <1>4
    <3>2. \A j \in DOMAIN items : j > Passed
      BY <1>1, <2>1, <3>1
    <3> QED
      BY <1>1, <3>2 DEF Rest, Range
  <2> QED
    BY <1>1, <2>2 DEF NothingLost
<1> QED
    BY <1>5, <1>6, <1>7, <1>9, <1>10, <1>11 DEF PInv

\* Steps that leave the collection and what was read of it alone.
LEMMA QuietStep ==
    ASSUME PInv, exhausted' = exhausted \/ ~PG!Served,
           UNCHANGED <<items, unborn, removals, inserted, blanked, cfg, offset, buffer, yielded>>
    PROVE  IteratorTyped' /\ NoDoubles' /\ NothingAhead' /\ NothingLost'
<1>1. Passed' = Passed /\ Seen' = Seen /\ (PG!Served' <=> PG!Served)
    BY DEF Passed, Seen, PG!Served, PG!PageAttempts
<1>2. Rest' = Rest
    BY <1>1 DEF Rest
<1>3. IteratorTyped'
    BY DEF PInv, IteratorTyped
<1>4. NoDoubles'
    BY <1>1 DEF PInv, NoDoubles
<1>5. NothingAhead'
    BY <1>1, <1>2 DEF PInv, NothingAhead
<1>6. NothingLost'
    BY <1>1, <1>2 DEF PInv, NothingLost
<1> QED
    BY <1>3, <1>4, <1>5, <1>6

\* An item that appears between two pages shifts the others or follows them,
\* and is not one that the iterator has seen.
LEMMA AddItemStep ==
    ASSUME PG!ConstantsOK, PInv, PG!AddItem
    PROVE  IteratorTyped' /\ NoDoubles' /\ NothingAhead' /\ NothingLost'
<1>1. PICK i \in unborn :
        /\ \/ items' = <<i>> \o items /\ inserted' = TRUE
           \/ items' = Append(items, i) /\ inserted' = inserted
        /\ unborn' = unborn \ {i}
        /\ UNCHANGED <<removals, blanked, cfg, offset, exhausted, buffer, yielded>>
    BY DEF PG!AddItem, PG!iterator
<1>2. /\ items \in Seq(Items) /\ i \in Items /\ i \notin Range(items) /\ i \notin Seen
      /\ IsInjective(items) /\ Passed \in Nat
    BY PassedIsNat DEF PInv, Control, IteratorTyped, NoDoubles, Items
<1>3. /\ DOMAIN items = 1 .. Len(items) /\ Len(items) \in Nat
    BY <1>2
<1>4. Passed' = Passed /\ Seen' = Seen /\ (PG!Served' <=> PG!Served)
    BY <1>1 DEF Passed, Seen, PG!Served, PG!PageAttempts
<1>5. Rest' = {items'[k] : k \in {j \in DOMAIN items' : j > Passed}}
    BY <1>4 DEF Rest
<1>6. /\ items' \in Seq(Items) /\ Range(items') = Range(items) \cup {i} /\ IsInjective(items')
  <2>1. CASE items' = <<i>> \o items
    BY <1>2, <2>1, RangePrepend
  <2>2. CASE items' = Append(items, i)
    BY <1>2, <2>2, RangeAppend
  <2> QED
    BY <1>1, <2>1, <2>2
<1>7. \/ inserted' = TRUE
      \/ inserted' = inserted /\ Rest' \subseteq Rest \cup {i}
  <2>1. CASE items' = Append(items, i) /\ inserted' = inserted
    <3>1. /\ DOMAIN items' = 1 .. Len(items) + 1
          /\ \A k \in 1 .. Len(items) + 1 :
                items'[k] = IF k = Len(items) + 1 THEN i ELSE items[k]
      BY <1>2, <2>1, RangeAppend
    <3>2. ASSUME NEW k \in DOMAIN items', k > Passed PROVE items'[k] \in Rest \cup {i}
      <4>1. CASE k = Len(items) + 1
        BY <3>1, <4>1
      <4>2. CASE k # Len(items) + 1
        <5>1. k \in DOMAIN items /\ items'[k] = items[k]
          BY <1>3, <3>1, <4>2
        <5> QED
          BY <3>2, <5>1 DEF Rest
      <4> QED
        BY <4>1, <4>2
    <3> QED
      BY <1>5, <2>1, <3>2
  <2> QED
    BY <1>1, <2>1
<1>8. Rest \subseteq Rest'
  <2> SUFFICES ASSUME NEW k \in DOMAIN items, k > Passed PROVE items[k] \in Rest'
      BY DEF Rest
  <2>1. CASE items' = Append(items, i)
    <3>1. k \in DOMAIN items' /\ items'[k] = items[k]
      BY <1>2, <1>3, <2>1, RangeAppend
    <3> QED
      BY <1>5, <3>1
  <2>2. CASE items' = <<i>> \o items
    <3>1. /\ DOMAIN items' = 1 .. Len(items) + 1
          /\ \A j \in 1 .. Len(items) + 1 : items'[j] = IF j = 1 THEN i ELSE items[j - 1]
      BY <1>2, <2>2, RangePrepend
    <3>2. k + 1 \in 1 .. Len(items) + 1 /\ k + 1 # 1 /\ (k + 1) - 1 = k /\ k + 1 > Passed
      BY <1>2, <1>3
    <3>3. k + 1 \in DOMAIN items' /\ items'[k + 1] = items[k]
      BY <3>1, <3>2
    <3> QED
      BY <1>5, <3>2, <3>3
  <2> QED
    BY <1>1, <2>1, <2>2
<1>9. IteratorTyped'
    BY <1>1, <1>6 DEF PInv, IteratorTyped
<1>10. NoDoubles'
    BY <1>1, <1>4, <1>6 DEF PInv, NoDoubles
<1>11. NothingAhead'
    BY <1>1, <1>2, <1>4, <1>7 DEF PInv, NothingAhead
<1>12. NothingLost'
    BY <1>1, <1>4, <1>8 DEF PInv, NothingLost
<1> QED
    BY <1>9, <1>10, <1>11, <1>12

\* An item that vanishes between two pages moves those behind it one place up,
\* which can hide one from the iterator: a removal is counted.
LEMMA RemoveItemStep ==
    ASSUME PG!ConstantsOK, PInv, PG!RemoveItem
    PROVE  IteratorTyped' /\ NoDoubles' /\ NothingAhead' /\ NothingLost'
<1>1. PICK n \in DOMAIN items : items' = PG!RemoveAt(items, n)
    BY DEF PG!RemoveItem
<1>2. /\ removals' = removals + 1
      /\ UNCHANGED <<unborn, inserted, blanked, cfg, offset, exhausted, buffer, yielded>>
    BY DEF PG!RemoveItem, PG!iterator
<1>3. items \in Seq(Items) /\ IsInjective(items) /\ Passed \in Nat /\ removals \in Nat
    BY PassedIsNat DEF PInv, Control, IteratorTyped, NoDoubles
<1>4. /\ items' \in Seq(Items) /\ Range(items') \subseteq Range(items) /\ IsInjective(items')
      /\ DOMAIN items' = 1 .. Len(items) - 1
      /\ \A i \in 1 .. Len(items) - 1 : /\ i < n => items'[i] = items[i]
                                        /\ i >= n => items'[i] = items[i + 1]
    BY <1>1, <1>3, RangeRemoveAt
<1>5. Passed' = Passed /\ Seen' = Seen /\ (PG!Served' <=> PG!Served)
    BY <1>2 DEF Passed, Seen, PG!Served, PG!PageAttempts
<1>6. Rest' \subseteq Rest
  <2>1. Rest' = {items'[k] : k \in {j \in DOMAIN items' : j > Passed}}
    BY <1>5 DEF Rest
  <2>2. ASSUME NEW k \in DOMAIN items', k > Passed PROVE items'[k] \in Rest
    <3>1. /\ Len(items) \in Nat /\ DOMAIN items = 1 .. Len(items)
          /\ k \in 1 .. Len(items) - 1 /\ n \in 1 .. Len(items)
      BY <1>3, <1>4
    <3>2. PICK j \in {k, k + 1} : items'[k] = items[j]
      BY <1>4, <3>1
    <3>3. j \in DOMAIN items /\ j > Passed
      BY <1>3, <2>2, <3>1
    <3> QED
      BY <3>2, <3>3 DEF Rest
  <2> QED
    BY <2>1, <2>2
<1>7. removals' # 0
    BY <1>2, <1>3
<1>8. IteratorTyped'
    BY <1>2, <1>4 DEF PInv, IteratorTyped
<1>9. NoDoubles'
    BY <1>2, <1>4, <1>5 DEF PInv, NoDoubles
<1>10. NothingAhead'
    BY <1>2, <1>5, <1>6 DEF PInv, NothingAhead
<1>11. NothingLost'
    BY <1>7 DEF NothingLost
<1> QED
    BY <1>8, <1>9, <1>10, <1>11

\* An item of the page at hand goes to the caller.
LEMMA NextBufferedStep ==
    ASSUME PInv, PG!NextBuffered
    PROVE  IteratorTyped' /\ NoDoubles' /\ NothingAhead' /\ NothingLost'
<1>1. /\ PG!Yield(buffer) /\ buffer # <<>>
      /\ UNCHANGED <<items, unborn, removals, inserted, blanked, cfg, offset, exhausted>>
    BY DEF PG!NextBuffered, PG!platform
<1>2. yielded \in Seq(Items) /\ buffer \in Seq(Items)
    BY DEF PInv, IteratorTyped
<1>3. /\ yielded' \in Seq(Items) /\ buffer' \in Seq(Items)
      /\ Range(yielded) \subseteq Range(yielded') /\ Seen' = Seen
      /\ IsInjective(yielded) /\ IsInjective(buffer) /\ Range(yielded) \cap Range(buffer) = {} =>
            /\ IsInjective(yielded') /\ IsInjective(buffer')
            /\ Range(yielded') \cap Range(buffer') = {}
    BY <1>1, <1>2, Yielding DEF Seen
<1>4. Passed' = Passed /\ (PG!Served' <=> PG!Served)
    BY <1>1 DEF Passed, PG!Served, PG!PageAttempts
<1>5. Rest' = Rest
    BY <1>1, <1>4 DEF Rest
<1>6. IteratorTyped'
    BY <1>1, <1>3 DEF PInv, IteratorTyped
<1>7. NoDoubles'
    BY <1>1, <1>3 DEF PInv, NoDoubles
<1>8. NothingAhead'
    BY <1>1, <1>3, <1>4, <1>5 DEF PInv, NothingAhead
<1>9. NothingLost'
    BY <1>1, <1>3, <1>4, <1>5 DEF PInv, NothingLost
<1> QED
    BY <1>6, <1>7, <1>8, <1>9

\* A page with something in it moves what is due from ahead of the iterator into
\* its buffer, and its first item out to the caller; an empty one ends the walk.
LEMMA PageArrivesStep ==
    ASSUME PG!ConstantsOK, PInv, PG!PageArrives
    PROVE  IteratorTyped' /\ NoDoubles' /\ NothingAhead' /\ NothingLost'
<1>1. PICK page \in PG!Fetched :
           /\ blanked' = (blanked \/ page # PG!PageAt(offset, cfg.pageSize))
           /\ offset' = PG!AdvanceOffset(offset, page)
           /\ \/ /\ page = <<>> /\ exhausted' = TRUE
                 /\ buffer' = buffer /\ yielded' = yielded
              \/ /\ page # <<>> /\ PG!Yield(page) /\ exhausted' = exhausted
    BY DEF PG!PageArrives
<1>2. UNCHANGED <<items, unborn, removals, inserted, cfg>>
    BY DEF PG!PageArrives, PG!platform
<1>3. /\ IteratorTyped /\ yielded \in Seq(Items) /\ buffer = <<>> /\ ~exhausted
      /\ IsInjective(items) /\ blanked \in BOOLEAN
    BY DEF PInv, Control, IteratorTyped, Asking, NoDoubles, PG!PageArrives
<1>4. offset' \in Nat /\ Passed' = Passed + cfg.pageSize
    BY <1>1, <1>2, <1>3, PassedGrows
<1>5. /\ Rest' \subseteq Rest /\ Rest \subseteq Rest' \cup Due /\ Due \subseteq Rest
      /\ Due \cap Rest' = {}
    BY <1>2, <1>3, <1>4, RestAfterPage
<1>6. /\ page \in Seq(Items) /\ Range(page) \subseteq Range(items) /\ IsInjective(page)
      /\ PG!Served => Range(page) \subseteq Due
      /\ PG!Served /\ page = PG!PageAt(offset, cfg.pageSize) =>
            Range(page) = Due /\ (page = <<>> => Len(items) <= Passed)
    BY <1>1, <1>3, PageFacts
<1>7. PG!Served' <=> PG!Served
    BY <1>2 DEF PG!Served, PG!PageAttempts
<1>8. Range(buffer) = {} /\ IsInjective(buffer) /\ Seen = Range(yielded)
    BY <1>3 DEF Seen, Range, IsInjective
<1>9. /\ yielded' \in Seq(Items) /\ buffer' \in Seq(Items)
      /\ Range(yielded) \subseteq Range(yielded')
      /\ Seen' = Seen \cup Range(page)
      /\ IsInjective(yielded) /\ Range(yielded) \cap Range(page) = {} =>
            /\ IsInjective(yielded') /\ IsInjective(buffer')
            /\ Range(yielded') \cap Range(buffer') = {}
  <2>1. CASE page = <<>> /\ buffer' = buffer /\ yielded' = yielded
    <3>1. Range(page) = {} /\ Seen' = Seen
      BY <2>1 DEF Range, Seen
    <3> QED
      BY <1>3, <1>6, <1>8, <2>1, <3>1
  <2>2. CASE page # <<>> /\ PG!Yield(page)
    BY <1>3, <1>6, <1>8, <2>2, Yielding
  <2> QED
    BY <1>1, <2>1, <2>2
<1>10. IteratorTyped'
    BY <1>2, <1>4, <1>9 DEF PInv, IteratorTyped
<1>11. NoDoubles'
    BY <1>2, <1>6, <1>9 DEF PInv, NoDoubles
<1>12. NothingAhead'
  <2> SUFFICES ASSUME PG!Served, ~inserted
               PROVE  /\ IsInjective(yielded') /\ IsInjective(buffer')
                      /\ Range(yielded') \cap Range(buffer') = {}
                      /\ Rest' \cap Seen' = {}
      BY <1>2, <1>7 DEF NothingAhead
  <2>1. IsInjective(yielded) /\ Rest \cap Seen = {}
    BY DEF PInv, NothingAhead
  <2>2. Range(page) \subseteq Due
    BY <1>6
  <2> QED
    BY <1>5, <1>8, <1>9, <2>1, <2>2
<1>13. NothingLost'
  <2> SUFFICES ASSUME PG!Served, ~blanked', removals = 0
               PROVE  /\ Range(Catalogue) \subseteq Seen' \cup Rest'
                      /\ exhausted' => Range(Catalogue) \subseteq Range(yielded')
      BY <1>2, <1>7 DEF NothingLost
  <2>1. ~blanked /\ page = PG!PageAt(offset, cfg.pageSize)
    BY <1>1
  <2>2. Range(Catalogue) \subseteq Seen \cup Rest
    BY <2>1 DEF PInv, NothingLost
  <2>3. Range(page) = Due /\ (page = <<>> => Len(items) <= Passed)
    BY <1>6, <2>1
  <2>4. Range(Catalogue) \subseteq Seen' \cup Rest'
    BY <1>5, <1>9, <2>2, <2>3
  <2>5. ASSUME exhausted' PROVE Range(Catalogue) \subseteq Range(yielded')
    <3>1. page = <<>> /\ yielded' = yielded
      BY <1>1, <1>3, <2>5
    <3>2. Len(items) <= Passed
      BY <2>3, <3>1
    <3>3. Rest = {}
      <4>1. /\ DOMAIN items = 1 .. Len(items) /\ Len(items) \in Nat /\ Passed \in Nat
        BY <1>3, PassedIsNat DEF IteratorTyped
      <4> QED
        BY <3>2, <4>1 DEF Rest
    <3> QED
      BY <1>8, <2>2, <3>1, <3>3
  <2> QED
    BY <2>4, <2>5
<1> QED
    BY <1>10, <1>11, <1>12, <1>13

-----------------------------------------------------------------------------

\* A step keeps the control state in order: the budget, and what the iterator was
\* waiting for.
LEMMA ControlStep ==
    ASSUME PG!ConstantsOK, PInv, PG!Next
    PROVE  Control' /\ Asking'
<1>1. /\ IteratorTyped /\ cfg.pageRetriesMax \in Int /\ MaxRemovals \in Nat
      /\ {inserted, blanked, exhausted, collecting, ctxErr} \subseteq BOOLEAN
      /\ unborn \subseteq Added /\ removals \in 0..MaxRemovals
      /\ pc \in {"ready", "fetch", "sleep"} /\ attempt \in Nat \ {0}
      /\ last \in {"none", "item", "end", "error"}
      /\ pc # "ready" => attempt <= PG!PageAttempts
    BY DEF PInv, Control, IteratorTyped, PG!ConstantsOK
<1>2. PG!PageAttempts \in Int
    BY <1>1 DEF PG!PageAttempts
<1>3. Asking
    BY DEF PInv
<1>4. CASE PG!AddItem
  <2>1. /\ unborn' \subseteq unborn /\ inserted' \in {TRUE, inserted}
        /\ UNCHANGED <<removals, blanked, cfg, exhausted, buffer, pc, collecting,
                       attempt, ctxErr, last>>
    BY <1>4 DEF PG!AddItem, PG!iterator
  <2>2. {inserted', blanked', exhausted', collecting', ctxErr'} \subseteq BOOLEAN
    BY <1>1, <2>1
  <2>3. PG!PageAttempts' = PG!PageAttempts
    BY <2>1 DEF PG!PageAttempts
  <2> QED
    BY <1>1, <1>3, <2>1, <2>2, <2>3 DEF Control, Asking
<1>5. CASE PG!RemoveItem
  <2>1. /\ removals < MaxRemovals /\ removals' = removals + 1
        /\ UNCHANGED <<unborn, inserted, blanked, cfg, exhausted, buffer, pc, collecting,
                       attempt, ctxErr, last>>
    BY <1>5 DEF PG!RemoveItem, PG!iterator
  <2>2. removals' \in 0..MaxRemovals
    BY <1>1, <2>1
  <2>3. {inserted', blanked', exhausted', collecting', ctxErr'} \subseteq BOOLEAN
    BY <1>1, <2>1
  <2>4. PG!PageAttempts' = PG!PageAttempts
    BY <2>1 DEF PG!PageAttempts
  <2> QED
    BY <1>1, <1>3, <2>1, <2>2, <2>3, <2>4 DEF Control, Asking
<1>6. CASE PG!Collect
  <2>1. /\ collecting' = TRUE
        /\ UNCHANGED <<unborn, removals, inserted, blanked, cfg, exhausted, buffer, pc,
                       attempt, ctxErr, last>>
    BY <1>6 DEF PG!Collect, PG!platform, PG!iterator
  <2>2. {inserted', blanked', exhausted', collecting', ctxErr'} \subseteq BOOLEAN
    BY <1>1, <2>1
  <2>3. PG!PageAttempts' = PG!PageAttempts
    BY <2>1 DEF PG!PageAttempts
  <2> QED
    BY <1>1, <1>3, <2>1, <2>2, <2>3 DEF Control, Asking
<1>7. CASE PG!Context
  <2>1. /\ ctxErr' \in BOOLEAN
        /\ UNCHANGED <<unborn, removals, inserted, blanked, cfg, exhausted, buffer, pc,
                       collecting, attempt, last>>
    BY <1>7 DEF PG!Context, PG!platform, PG!iterator
  <2>2. {inserted', blanked', exhausted', collecting', ctxErr'} \subseteq BOOLEAN
    BY <1>1, <2>1
  <2>3. PG!PageAttempts' = PG!PageAttempts
    BY <2>1 DEF PG!PageAttempts
  <2> QED
    BY <1>1, <1>3, <2>1, <2>2, <2>3 DEF Control, Asking
<1>8. CASE PG!NextBuffered
  <2>1. /\ buffer # <<>> /\ PG!Yield(buffer)
        /\ UNCHANGED <<unborn, removals, inserted, blanked, cfg, exhausted, ctxErr>>
    BY <1>8 DEF PG!NextBuffered, PG!platform
  <2>2. /\ pc' = "ready" /\ attempt' = 1 /\ last' = "item" /\ collecting' \in BOOLEAN
    BY <1>1, <2>1 DEF PG!Yield, PG!Return
  <2>3. {inserted', blanked', exhausted', collecting', ctxErr'} \subseteq BOOLEAN
    BY <1>1, <2>1, <2>2
  <2>4. ~exhausted'
    BY <1>3, <2>1 DEF Asking
  <2> QED
    BY <1>1, <2>1, <2>2, <2>3, <2>4 DEF Control, Asking
<1>9. CASE PG!NextUnbuffered
  <2>1. /\ pc = "ready" /\ buffer = <<>> /\ buffer' = <<>>
        /\ UNCHANGED <<unborn, removals, inserted, blanked, cfg, ctxErr>>
    BY <1>9 DEF PG!NextUnbuffered, PG!platform
  <2>2. PG!PageAttempts' = PG!PageAttempts
    BY <2>1 DEF PG!PageAttempts
  <2>3. \/ exhausted /\ PG!Return("end") /\ exhausted' = exhausted
        \/ exhausted' = TRUE /\ PG!Return("end")
        \/ ~exhausted /\ PG!Return("error") /\ exhausted' = exhausted
        \/ /\ ~exhausted /\ PG!PageAttempts >= 1 /\ pc' = "fetch"
           /\ UNCHANGED <<exhausted, collecting, attempt, last>>
    BY <1>9 DEF PG!NextUnbuffered
  <2>4. exhausted' \in BOOLEAN /\ collecting' \in BOOLEAN
    BY <1>1, <2>3 DEF PG!Return
  <2>5. {inserted', blanked', exhausted', collecting', ctxErr'} \subseteq BOOLEAN
    BY <1>1, <2>1, <2>4
  <2>6. attempt = 1
    BY <1>3, <2>1 DEF Asking
  <2>7. Control'
    BY <1>1, <1>2, <2>1, <2>2, <2>3, <2>5, <2>6 DEF Control, PG!Return
  <2>8. Asking'
    BY <1>1, <1>2, <1>3, <2>1, <2>2, <2>3, <2>6 DEF Asking, PG!Return
  <2> QED
    BY <2>7, <2>8
<1>10. CASE PG!PageArrives
  <2>1. PICK page \in PG!Fetched :
           /\ blanked' = (blanked \/ page # PG!PageAt(offset, cfg.pageSize))
           /\ \/ /\ exhausted' = TRUE /\ PG!Return("end") /\ buffer' = buffer
              \/ PG!Yield(page) /\ exhausted' = exhausted
    BY <1>10 DEF PG!PageArrives
  <2>2. /\ pc = "fetch"
        /\ UNCHANGED <<unborn, removals, inserted, cfg, ctxErr>>
    BY <1>10 DEF PG!PageArrives, PG!platform
  <2>3. buffer = <<>> /\ ~exhausted
    BY <1>3, <2>2 DEF Asking
  <2>4. /\ pc' = "ready" /\ attempt' = 1 /\ last' \in {"item", "end"}
        /\ last' = "end" => exhausted' = TRUE
        /\ exhausted' => buffer' = <<>>
        /\ collecting' \in BOOLEAN /\ exhausted' \in BOOLEAN
    <3>1. CASE exhausted' = TRUE /\ PG!Return("end") /\ buffer' = buffer
      BY <1>1, <2>3, <3>1 DEF PG!Return
    <3>2. CASE PG!Yield(page) /\ exhausted' = exhausted
      <4>1. exhausted' = FALSE
        BY <1>1, <2>3, <3>2
      <4> QED
        BY <1>1, <3>2, <4>1 DEF PG!Yield, PG!Return
    <3> QED
      BY <2>1, <3>1, <3>2
  <2>5. blanked' \in BOOLEAN
    BY <2>1
  <2>6. {inserted', blanked', exhausted', collecting', ctxErr'} \subseteq BOOLEAN
    BY <1>1, <2>2, <2>4, <2>5
  <2> QED
    BY <1>1, <2>2, <2>4, <2>6 DEF Control, Asking
<1>11. CASE PG!PageFails \/ PG!SleepEnds
  <2>1. /\ pc # "ready"
        /\ UNCHANGED <<unborn, removals, inserted, blanked, cfg, exhausted, buffer, ctxErr>>
    BY <1>11 DEF PG!PageFails, PG!SleepEnds, PG!platform, PG!iterator
  <2>2. PG!PageAttempts' = PG!PageAttempts
    BY <2>1 DEF PG!PageAttempts
  <2>3. /\ buffer = <<>> /\ ~exhausted /\ PG!PageAttempts >= 1
        /\ pc = "sleep" => attempt < PG!PageAttempts
        /\ last # "end"
    BY <1>3, <2>1 DEF Asking
  <2>4. \/ PG!Return("error")
        \/ /\ attempt < PG!PageAttempts /\ pc' = "sleep"
           /\ UNCHANGED <<collecting, attempt, last>>
        \/ /\ pc = "sleep" /\ pc' = "fetch" /\ attempt' = attempt + 1
           /\ UNCHANGED <<collecting, last>>
    BY <1>11 DEF PG!PageFails, PG!SleepEnds
  <2>5. collecting' \in BOOLEAN
    BY <1>1, <2>4 DEF PG!Return
  <2>6. {inserted', blanked', exhausted', collecting', ctxErr'} \subseteq BOOLEAN
    BY <1>1, <2>1, <2>5
  <2>7. Control'
    BY <1>1, <1>2, <2>1, <2>2, <2>3, <2>4, <2>6 DEF Control, PG!Return
  <2>8. Asking'
    BY <1>1, <1>2, <2>1, <2>2, <2>3, <2>4 DEF Asking, PG!Return
  <2> QED
    BY <2>7, <2>8
<1> QED
    BY <1>4, <1>5, <1>6, <1>7, <1>8, <1>9, <1>10, <1>11 DEF PG!Next, PG!Step

\* The steps of the platform and of the iterator keep the invariant.
LEMMA PaginationNext == PG!ConstantsOK /\ PInv /\ [PG!Next]_PG!vars => PInv'
<1> SUFFICES ASSUME PG!ConstantsOK, PInv, [PG!Next]_PG!vars PROVE PInv'
    OBVIOUS
<1>1. CASE PG!Next
  <2>1. Control' /\ Asking'
    BY <1>1, ControlStep
  <2>2. IteratorTyped' /\ NoDoubles' /\ NothingAhead' /\ NothingLost'
    <3>1. CASE PG!AddItem
      BY <3>1, AddItemStep
    <3>2. CASE PG!RemoveItem
      BY <3>2, RemoveItemStep
    <3>3. CASE PG!NextBuffered
      BY <3>3, NextBufferedStep
    <3>4. CASE PG!PageArrives
      BY <3>4, PageArrivesStep
    <3>5. CASE PG!Collect \/ PG!Context \/ PG!PageFails \/ PG!SleepEnds
      <4>1. UNCHANGED <<items, unborn, removals, inserted, blanked, cfg, offset, buffer,
                        yielded, exhausted>>
        BY <3>5 DEF PG!Collect, PG!Context, PG!PageFails, PG!SleepEnds, PG!platform, PG!iterator
      <4>2. exhausted \in BOOLEAN
        BY DEF PInv, Control
      <4>3. exhausted' = exhausted
        BY <4>1
      <4> QED
        BY <4>1, <4>3, QuietStep
    <3>6. CASE PG!NextUnbuffered
      <4>1. UNCHANGED <<items, unborn, removals, inserted, blanked, cfg, offset, buffer,
                        yielded>>
        BY <3>6 DEF PG!NextUnbuffered, PG!platform
      <4>2. exhausted' = exhausted \/ ~PG!Served
        <5>1. exhausted' = exhausted \/ PG!PageAttempts < 1
          BY <3>6 DEF PG!NextUnbuffered
        <5>2. PG!PageAttempts \in Int
          BY DEF PInv, IteratorTyped, PG!PageAttempts
        <5> QED
          BY <5>1, <5>2 DEF PG!Served
      <4> QED
        BY <4>1, <4>2, QuietStep
    <3> QED
      BY <1>1, <3>1, <3>2, <3>3, <3>4, <3>5, <3>6 DEF PG!Next, PG!Step
  <2> QED
    BY <2>1, <2>2 DEF PInv
<1>2. CASE UNCHANGED PG!vars
  <2>1. UNCHANGED <<items, unborn, removals, inserted, blanked, cfg, offset, exhausted,
                    buffer, pc, collecting, attempt, ctxErr, yielded, last>>
    BY <1>2 DEF PG!vars, PG!platform, PG!iterator
  <2>2. IteratorTyped' /\ NoDoubles' /\ NothingAhead' /\ NothingLost'
    BY <2>1, QuietStep
  <2>3. Control'
    BY <2>1 DEF PInv, Control, PG!PageAttempts
  <2>4. Asking'
    BY <2>1 DEF PInv, Asking, PG!PageAttempts
  <2> QED
    BY <2>2, <2>3, <2>4 DEF PInv
<1> QED
    BY <1>1, <1>2

\* The iterator's state is well-formed.
LEMMA IteratorTypeCorrect == PInv => PG!TypeOK
BY TypesFollow DEF PInv

\* What was there is yielded, or was removed, or blanked.
LEMMA IteratorSkipsNothing == PInv => PG!NothingSkipped
BY SameOperators DEF PInv, Asking, NothingLost, PG!NothingSkipped

\* What is yielded is yielded once, or something was inserted.
LEMMA IteratorRepeatsNothing == PInv => PG!NothingRepeated
BY SameOperators DEF PInv, NothingAhead, PG!NothingRepeated

-----------------------------------------------------------------------------
(* The scan builder.                                                       *)

InStart == step # "build"

\* A Start in progress has a number, and a request on its way a send left.
Underway ==
    /\ starts \in 0 .. MaxStarts
    /\ {spent, lost, reread} \subseteq BOOLEAN
    /\ InStart => starts >= 1
    /\ step \in {"presign", "create"} => tries >= 1

\* What validate lets through is still so when the requests are sent: one source
\* mode, engines the platform has, and no error reported yet.
StaysValid ==
    InStart =>
        /\ engines = "known"
        /\ SS!UploadMode <=> ~SS!GitMode
        /\ step \in {"presign", "put"} => SS!UploadMode
        /\ outcome = "none"

\* What an upload stores of a body.
Stored(read) ==
    \/ archives[starts] = "whole" /\ ~read
    \/ archives[starts] = "empty" /\ read /\ inMemory

\* A body is read before this Start's upload if and only if it was read before this
\* Start; it has been stored by the time the scan is posted, whole if it was not.
ArchiveStored ==
    /\ step \in {"presign", "put"} => spent = reread
    /\ step = "create" /\ SS!UploadMode => Stored(reread)

\* A Start that lost no response has created nothing before it ends, and one scan
\* when it has.
OneScan ==
    ~lost =>
        /\ InStart => \A s \in scans : s.start # starts
        /\ \A s, t \in scans : s.start = starts /\ t.start = starts => s = t

\* A configuration error comes before the first request.
ErrorIsFirst == outcome = "config" => sent = 0

EnginesKnown == \A s \in scans : s.engines = "known"

SInv ==
    /\ SS!TypeOK /\ Underway /\ StaysValid /\ ArchiveStored
    /\ OneScan /\ ErrorIsFirst /\ EnginesKnown /\ SS!ScanHasItsSource

\* What the setters, before a Start, leave alone.
Setter ==
    \/ \E b \in {"branch", "narrowed"}, empty \in BOOLEAN : SS!ForBranch(b, empty)
    \/ \E upload \in SUBSET {"body", "size"} : SS!WithUploadReader(upload)
    \/ \E names \in {"none", "known", "unknown"} : SS!WithEngines(names)
    \/ SS!WithTags

\* What a setter of the builder may change.
LEMMA SettersBuild ==
    ASSUME SS!TypeOK, Underway, Setter
    PROVE  /\ step = "build" /\ ~InStart'
           /\ UNCHANGED <<step, tries, outcome, starts, sent, lost, reread, archives, scans>>
           /\ engines' \in {"none", "known", "unknown"}
           /\ source' \subseteq {"branch", "narrowed", "body", "size"}
           /\ spent' \in BOOLEAN
<1> USE DEF SS!setup, SS!builder, SS!history, SS!Building, InStart
<1>1. CASE \E b \in {"branch", "narrowed"}, empty \in BOOLEAN : SS!ForBranch(b, empty)
    BY <1>1 DEF SS!ForBranch, SS!TypeOK, Underway
<1>2. CASE \E upload \in SUBSET {"body", "size"} : SS!WithUploadReader(upload)
    BY <1>2 DEF SS!WithUploadReader, SS!TypeOK, Underway
<1>3. CASE \E names \in {"none", "known", "unknown"} : SS!WithEngines(names)
    BY <1>3 DEF SS!WithEngines, SS!TypeOK, Underway
<1>4. CASE SS!WithTags
    BY <1>4 DEF SS!WithTags, SS!TypeOK, Underway
<1> QED
    BY <1>1, <1>2, <1>3, <1>4 DEF Setter

\* What Start has made sure of when it sends its first request.
LEMMA StartChecks ==
    ASSUME SS!ConstantsOK, SS!TypeOK, Underway, SS!Start
    PROVE  /\ step = "build" /\ starts' = starts + 1 /\ starts' \in 1 .. MaxStarts
           /\ sent' = 0 /\ lost' = FALSE /\ reread' = spent
           /\ UNCHANGED <<engines, spent, archives, scans>>
           /\ source' \subseteq {"branch", "narrowed", "body", "size"}
           /\ \/ step' = "build" /\ outcome' = "config" /\ tries' = tries
              \/ /\ step' = "presign" /\ outcome' = "none" /\ tries' = Attempts
                 /\ engines' = "known" /\ SS!UploadMode' /\ ~SS!GitMode'
              \/ /\ step' = "create" /\ outcome' = "none" /\ tries' = Attempts
                 /\ engines' = "known" /\ ~SS!UploadMode' /\ SS!GitMode'
<1> USE DEF SS!setup, SS!builder, SS!history, SS!Building
<1>1. /\ step = "build" /\ starts' = starts + 1
      /\ sent' = 0 /\ lost' = FALSE /\ reread' = spent
      /\ UNCHANGED <<engines, spent, archives, scans>>
      /\ source' = SS!Remembered
    BY DEF SS!Start
<1>2. starts' \in 1 .. MaxStarts
    BY <1>1 DEF SS!Start, Underway, SS!ConstantsOK
<1>3. /\ source' = source \/ source' = source \cup {"branch"}
      /\ SS!UploadMode' <=> SS!UploadMode
    BY <1>1 DEF SS!Remembered, SS!UploadMode
<1>4. SS!Valid /\ SS!UploadMode => ~SS!GitMode' /\ engines' = "known"
    BY <1>1 DEF SS!Valid, SS!Remembered, SS!UploadMode, SS!GitMode, SS!ValidEngines
<1>5. SS!Valid /\ ~SS!UploadMode => SS!GitMode' /\ engines' = "known"
    BY <1>1 DEF SS!Valid, SS!Remembered, SS!UploadMode, SS!GitMode, SS!ValidEngines
<1>6. \/ step' = "build" /\ outcome' = "config" /\ tries' = tries
      \/ /\ step' = "presign" /\ outcome' = "none" /\ tries' = Attempts
         /\ SS!Valid /\ SS!UploadMode
      \/ /\ step' = "create" /\ outcome' = "none" /\ tries' = Attempts
         /\ SS!Valid /\ ~SS!UploadMode
    BY DEF SS!Start, SS!Return, SS!Send
<1>7. source' \subseteq {"branch", "narrowed", "body", "size"}
    BY <1>3 DEF SS!TypeOK
<1> QED
    BY <1>1, <1>2, <1>3, <1>4, <1>5, <1>6, <1>7

\* The scan a POST asks for.
LEMMA NewScanFields ==
    /\ SS!NewScan.start = starts /\ SS!NewScan.engines = engines
    /\ SS!NewScan.source = source /\ SS!NewScan.reread = reread
    /\ SS!NewScan.type = (IF SS!UploadMode THEN "upload" ELSE "git")
    /\ SS!NewScan.archive = (IF SS!UploadMode THEN archives[starts] ELSE "none")
BY DEF SS!NewScan

\* Types are kept.
LEMMA BuilderTypes ==
    ASSUME SS!ConstantsOK, SS!TypeOK, Underway, SS!Next
    PROVE  SS!TypeOK' /\ Underway'
<1> USE DEF SS!setup, SS!builder, SS!history, SS!ConstantsOK
<1>1. CASE Setter
    BY <1>1, SettersBuild DEF SS!TypeOK, Underway, InStart
<1>2. CASE SS!Start
  <2>0. /\ starts' = starts + 1 /\ starts' \in 1 .. MaxStarts
        /\ sent' = 0 /\ lost' = FALSE /\ reread' = spent
        /\ UNCHANGED <<engines, spent, archives, scans>>
        /\ \/ step' = "build" /\ outcome' = "config" /\ tries' = tries
           \/ step' \in {"presign", "create"} /\ outcome' = "none" /\ tries' = Attempts
    BY <1>2, StartChecks
  <2>1. /\ tries' \in 0 .. Attempts /\ (step' \in {"presign", "create"} => tries' >= 1)
        /\ step' \in {"build", "presign", "put", "create"}
        /\ outcome' \in {"none", "ok", "config", "response", "communication"}
    BY <2>0 DEF SS!TypeOK
  <2>2. \A s \in scans' : s.start \in 1 .. starts'
    BY <2>0 DEF SS!TypeOK, Underway
  <2>3. starts' \in 0 .. MaxStarts /\ starts' >= 1 /\ sent' \in Nat
    BY <2>0 DEF Underway
  <2>4. {spent, lost, reread}' \subseteq BOOLEAN
    BY <1>2, StartChecks DEF Underway
  <2> QED
    BY <1>2, <2>1, <2>2, <2>3, <2>4, StartChecks DEF SS!TypeOK, Underway, InStart
<1>3. CASE SS!Presigned
    BY <1>3 DEF SS!Presigned, SS!Return, SS!TypeOK, Underway, InStart
<1>4. CASE SS!PutFile
    BY <1>4 DEF SS!PutFile, SS!Return, SS!Send, SS!TypeOK, Underway, InStart
<1>5. CASE SS!Created
    BY <1>5, NewScanFields DEF SS!Created, SS!Return, SS!TypeOK, Underway, InStart
<1>6. CASE SS!Refused
    BY <1>6 DEF SS!Refused, SS!Return, SS!TypeOK, Underway, InStart
<1>7. CASE SS!Unanswered
    BY <1>7, NewScanFields DEF SS!Unanswered, SS!Return, SS!TypeOK, Underway, InStart
<1> QED
    BY <1>1, <1>2, <1>3, <1>4, <1>5, <1>6, <1>7 DEF SS!Next, Setter

\* Whether net/http knows the length of the body is settled beforehand.
LEMMA BodyStays == SS!Next => inMemory' = inMemory
BY DEF SS!Next, SS!ForBranch, SS!WithUploadReader, SS!WithEngines, SS!WithTags,
    SS!Start, SS!Presigned, SS!PutFile, SS!Created, SS!Refused, SS!Unanswered, SS!builder

\* What validate has let through stays valid, and the archive is stored before
\* the scan is posted.
LEMMA RequestStep ==
    ASSUME SS!ConstantsOK, SS!TypeOK, Underway, StaysValid, ArchiveStored, SS!Next
    PROVE  StaysValid' /\ ArchiveStored'
<1> USE DEF SS!setup, SS!builder, SS!history
<1>1. CASE Setter
    BY <1>1, SettersBuild DEF StaysValid, ArchiveStored, Stored, InStart
<1>2. CASE SS!Start
    BY <1>2, StartChecks DEF StaysValid, ArchiveStored, Stored, InStart
<1>3. CASE SS!Presigned
    BY <1>3 DEF SS!Presigned, SS!Return, StaysValid, ArchiveStored, Stored, InStart,
        SS!UploadMode, SS!GitMode
<1>4. CASE SS!PutFile
  <2>0. \A a : [archives EXCEPT ![starts] = a][starts] = a
    <3>1. starts \in 1 .. MaxStarts
      BY <1>4 DEF Underway, InStart, SS!PutFile, SS!ConstantsOK
    <3> QED
      BY <3>1 DEF SS!TypeOK
  <2>1. /\ step = "put" /\ spent' = TRUE
        /\ UNCHANGED <<engines, source, inMemory, starts, lost, reread>>
        /\ \/ step' = "build"
           \/ /\ step' = "create" /\ outcome' = outcome /\ SS!UploadMode
              /\ \/ archives'[starts] = "whole" /\ ~spent
                 \/ archives'[starts] = "empty" /\ spent /\ inMemory
    BY <1>4, <2>0 DEF SS!PutFile, SS!Return, SS!Send, StaysValid, InStart
  <2>2. StaysValid'
    BY <2>1 DEF StaysValid, InStart, SS!UploadMode, SS!GitMode
  <2>3. spent = reread
    BY <2>1 DEF ArchiveStored
  <2>4. step' = "create" => Stored(reread)'
    BY <2>1, <2>3 DEF Stored
  <2> QED
    BY <2>1, <2>2, <2>4 DEF ArchiveStored
<1>5. CASE SS!Created \/ SS!Refused
    BY <1>5 DEF SS!Created, SS!Refused, SS!Return, StaysValid, ArchiveStored, Stored, InStart
<1>6. CASE SS!Unanswered
    BY <1>6 DEF SS!Unanswered, SS!Return, StaysValid, ArchiveStored, Stored, InStart,
        SS!UploadMode, SS!GitMode
<1> QED
    BY <1>1, <1>2, <1>3, <1>4, <1>5, <1>6 DEF SS!Next, Setter

\* A step creates no scan, or the one its Start asks for.
LEMMA ScansGrow ==
    ASSUME SS!TypeOK, Underway, SS!Next
    PROVE  \/ scans' = scans
           \/ /\ step = "create" /\ scans' = scans \cup {SS!NewScan}
              /\ \/ step' = "build" /\ lost' = lost
                 \/ lost' = TRUE
<1> USE DEF SS!setup, SS!builder, SS!history
<1>1. CASE Setter
    BY <1>1, SettersBuild
<1>2. CASE SS!Start \/ SS!Presigned \/ SS!PutFile \/ SS!Refused
    BY <1>2 DEF SS!Start, SS!Presigned, SS!PutFile, SS!Refused
<1>3. CASE SS!Created \/ SS!Unanswered
    BY <1>3 DEF SS!Created, SS!Unanswered, SS!Return
<1> QED
    BY <1>1, <1>2, <1>3 DEF SS!Next, Setter

\* A scan has its source and its engines when it is created.
LEMMA ScanSourced ==
    ASSUME SS!TypeOK, Underway, StaysValid, ArchiveStored, SS!ScanHasItsSource, EnginesKnown,
           SS!Next
    PROVE  SS!ScanHasItsSource' /\ EnginesKnown'
<1>0. inMemory' = inMemory
    BY BodyStays
<1>1. CASE scans' = scans
    BY <1>0, <1>1 DEF SS!ScanHasItsSource, EnginesKnown
<1>2. CASE step = "create" /\ scans' = scans \cup {SS!NewScan}
  <2>1. SS!NewScan.engines = "known"
    BY <1>2, NewScanFields DEF StaysValid, InStart
  <2>2. CASE SS!UploadMode
    BY <1>0, <1>2, <2>1, <2>2, NewScanFields
       DEF StaysValid, ArchiveStored, Stored, InStart, SS!GitMode, SS!ScanHasItsSource, EnginesKnown
  <2>3. CASE ~SS!UploadMode
    BY <1>0, <1>2, <2>1, <2>3, NewScanFields
       DEF StaysValid, InStart, SS!GitMode, SS!UploadMode, SS!ScanHasItsSource, EnginesKnown
  <2> QED
    BY <2>2, <2>3
<1> QED
    BY <1>1, <1>2, ScansGrow

\* One Start creates one scan, unless it lost a response.
LEMMA OneScanStep ==
    ASSUME SS!ConstantsOK, SS!TypeOK, Underway, OneScan, SS!Next PROVE OneScan'
<1> SUFFICES ASSUME ~lost' PROVE OneScan'
    BY DEF OneScan
<1> USE DEF SS!setup, SS!builder, SS!history
<1>1. CASE Setter
    BY <1>1, SettersBuild DEF OneScan, InStart
<1>2. CASE SS!Start
  <2>1. \A s \in scans : s.start # starts + 1
    BY DEF SS!TypeOK, Underway, SS!ConstantsOK
  <2> QED
    BY <1>2, <2>1, StartChecks DEF OneScan, InStart
<1>3. CASE SS!Presigned \/ SS!PutFile \/ SS!Refused
    BY <1>3 DEF SS!Presigned, SS!PutFile, SS!Refused, SS!Return, SS!Send, OneScan, InStart
<1>4. CASE SS!Created
    BY <1>4, NewScanFields DEF SS!Created, SS!Return, OneScan, InStart
<1>5. CASE SS!Unanswered
    BY <1>5 DEF SS!Unanswered
<1> QED
    BY <1>1, <1>2, <1>3, <1>4, <1>5 DEF SS!Next, Setter

\* A configuration error is the end of a Start that has sent nothing.
LEMMA ErrorStep ==
    ASSUME SS!ConstantsOK, SS!TypeOK, Underway, StaysValid, ErrorIsFirst, SS!Next
    PROVE  ErrorIsFirst'
<1> USE DEF SS!setup, SS!builder, SS!history
<1>1. CASE Setter
    BY <1>1, SettersBuild DEF ErrorIsFirst
<1>2. CASE SS!Start
    BY <1>2, StartChecks DEF ErrorIsFirst
<1>3. CASE SS!Presigned \/ SS!PutFile \/ SS!Created \/ SS!Refused \/ SS!Unanswered
    BY <1>3 DEF SS!Presigned, SS!PutFile, SS!Created, SS!Refused, SS!Unanswered, SS!Return, SS!Send,
        StaysValid, InStart, ErrorIsFirst
<1> QED
    BY <1>1, <1>2, <1>3 DEF SS!Next, Setter

\* A builder without a source has sent nothing.
LEMMA ScanStartInit == SS!ConstantsOK /\ SS!Init => SInv
<1> SUFFICES ASSUME SS!ConstantsOK, SS!Init PROVE SInv
    OBVIOUS
<1>1. SS!TypeOK /\ Underway
  <2>1. {spent, lost, reread} \subseteq BOOLEAN
    BY DEF SS!Init
  <2>2. archives \in [1 .. MaxStarts -> {"none", "whole", "empty", "broken"}]
    BY DEF SS!Init
  <2>3. starts \in 0 .. MaxStarts /\ tries \in 0 .. Attempts
    BY DEF SS!Init, SS!ConstantsOK
  <2> QED
    BY <2>1, <2>2, <2>3 DEF SS!Init, SS!TypeOK, Underway, InStart
<1>2. StaysValid /\ ArchiveStored /\ OneScan /\ ErrorIsFirst
    BY DEF SS!Init, StaysValid, ArchiveStored, OneScan, ErrorIsFirst, InStart
<1>3. EnginesKnown /\ SS!ScanHasItsSource
    BY DEF SS!Init, EnginesKnown, SS!ScanHasItsSource
<1> QED
    BY <1>1, <1>2, <1>3 DEF SInv

\* Every step preserves the invariant.
LEMMA ScanStartNext == SS!ConstantsOK /\ SInv /\ [SS!Next]_(SS!vars) => SInv'
<1> SUFFICES ASSUME SS!ConstantsOK, SInv, [SS!Next]_(SS!vars) PROVE SInv'
    OBVIOUS
<1>1. CASE SS!Next
    BY <1>1, BuilderTypes, RequestStep, ScanSourced, OneScanStep, ErrorStep DEF SInv
<1>2. CASE UNCHANGED SS!vars
    BY <1>2 DEF SS!vars, SS!setup, SS!builder, SS!history, SInv, SS!TypeOK, Underway, StaysValid,
        ArchiveStored, Stored, OneScan, ErrorIsFirst, EnginesKnown, SS!ScanHasItsSource, InStart,
        SS!UploadMode, SS!GitMode
<1> QED
    BY <1>1, <1>2

\* The instance counts as the module does.
LEMMA SameCardinality == \A S : SS!Cardinality(S) = Cardinality(S)
BY DEF SS!Cardinality, Cardinality

\* What the invariant says of the builder's properties.
LEMMA BuilderIsRight ==
    SInv => SS!TypeOK /\ SS!ScanHasItsSource /\ SS!StartIsOneScan
<1> SUFFICES ASSUME SInv, ~lost
             PROVE  Cardinality({s \in scans : s.start = starts}) <= 1
    BY SameCardinality DEF SInv, ErrorIsFirst, EnginesKnown, SS!StartIsOneScan
<1> DEFINE mine == {s \in scans : s.start = starts}
<1>1. CASE mine = {}
    BY <1>1, FS_EmptySet
<1>2. CASE \E s : mine = {s}
  <2>1. Cardinality(mine) = 1
    BY <1>2, FS_Singleton
  <2> QED
    BY <2>1
<1>3. \A s, t \in mine : s = t
    BY DEF SInv, OneScan
<1>4. mine = {} \/ \E s : mine = {s}
    BY <1>3
<1> QED
    BY <1>1, <1>2, <1>4

-----------------------------------------------------------------------------
(* The component that runs.                                                *)

IInv ==
    /\ which = "repo_config" => RC!IInv
    /\ which = "pagination" => PInv
    /\ which = "waiter" => WInv
    /\ which = "scan_start" => SInv
    /\ which = "compare" => CInv
    /\ which = "exchange" => XC!IInv

\* The component that runs starts in its invariant.
LEMMA InitInv == Init => IInv
BY ComponentsAssumption, RC!InitInv, PaginationInit, WaiterInit, ScanStartInit,
    CompareInit, XC!InitInv DEF Init, IInv

\* Its steps are steps of the component alone.
LEMMA OneRuns ==
    [Next]_vars =>
        /\ which' = which
        /\ which = "repo_config" => [RC!Next]_(RC!vars)
        /\ which = "pagination" => [PG!Next]_(PG!vars)
        /\ which = "waiter" => [WT!Next]_(WT!vars)
        /\ which = "scan_start" => [SS!Next]_(SS!vars)
        /\ which = "compare" => [CM!Next]_(CM!vars)
        /\ which = "exchange" => [XC!Next]_(XC!vars)
BY DEF Next, vars, exVars, rcVars, prVars, pgVars, wtVars, ssVars, cmVars, xcVars,
    calls, goroutines, RC!vars, RC!once, RC!fields, RC!history,
    PG!vars, PG!platform, PG!iterator, WT!vars, WT!options, WT!handle, WT!clock, WT!history,
    SS!vars, SS!setup, SS!builder, SS!history, CM!vars, XC!vars, XC!callVars

\* Which it keeps.
LEMMA NextInv == IInv /\ [Next]_vars => IInv'
BY ComponentsAssumption, OneRuns, RC!NextInv, PaginationNext, WaiterNext,
    ScanStartNext, CompareNext, XC!NextInv DEF IInv

\* Whichever component runs, its invariant holds.
LEMMA Invariance == Spec => []IInv
BY InitInv, NextInv, PTL DEF Spec

-----------------------------------------------------------------------------
(* What follows, and what a user of the SDK may rely on.                   *)

\* Type correctness of the project handle, the iterator, the waiters, the scan
\* builder, the comparison and the calls of operations.
THEOREM TypeCorrect == Spec => []TypeOK
<1>1. IInv => TypeOK
    BY RC!Consequences, IteratorTypeCorrect, WaiterTypeCorrect, BuilderIsRight,
        CompareTypeCorrect, XC!Consequences DEF IInv, TypeOK
<1> QED
    BY <1>1, Invariance, PTL

\* However many goroutines ask for a configuration at once, and however they
\* interleave: until a fetch fails they share one request, all get the
\* configuration, and package sync finds nothing wrong (repo_config.go:45-47,
\* 142-144).
THEOREM OneRequestIsShared == Spec => []SharedUntilFailure
<1>1. IInv => SharedUntilFailure
    BY RC!Consequences DEF IInv, SharedUntilFailure
<1> QED
    BY <1>1, Invariance, PTL

\* A goroutine alone on the handle, at each of its calls, gets the configuration
\* or the error of its own fetch, never the trace of an earlier failure
\* (repo_config.go:159-161).
THEOREM FailureIsForgotten == Spec => []SequentialRetry
<1>1. IInv => SequentialRetry
    BY RC!Consequences DEF IInv, SequentialRetry
<1> QED
    BY <1>1, Invariance, PTL

\* An iterator that ends has yielded every item that was there when the walk
\* began, as long as nothing is removed and no answer comes without its body:
\* whatever is added meanwhile, and however pages fail, are retried or asked for
\* again.
THEOREM SkipsNothing == Spec => []NothingSkipped
<1>1. IInv => NothingSkipped
    BY IteratorSkipsNothing DEF IInv, NothingSkipped
<1> QED
    BY <1>1, Invariance, PTL

\* No item is yielded twice as long as nothing is added in front of the ones
\* passed, whatever is removed or appended between two pages.
THEOREM RepeatsNothing == Spec => []NothingRepeated
<1>1. IInv => NothingRepeated
    BY IteratorRepeatsNothing DEF IInv, NothingRepeated
<1> QED
    BY <1>1, Invariance, PTL

\* What a scan waiter calls successful has all its requested engines completed,
\* and what it calls failed has none at work, for good, if the scan accounted for
\* all of them, however late the platform reports.
THEOREM VerdictStands == Spec => []VerdictIsFinal
<1>1. IInv => VerdictIsFinal
    BY WaiterIsRight DEF IInv, VerdictIsFinal
<1> QED
    BY <1>1, Invariance, PTL

\* A waiter polls at most once past its deadline, whatever it waits for, and never
\* gives up without having looked at the job past it.
THEOREM DeadlineIsKept == Spec => []DeadlineKept
<1>1. IInv => DeadlineKept
    BY WaiterKeepsDeadline DEF IInv, DeadlineKept
<1> QED
    BY <1>1, Invariance, PTL

\* Every scan the platform creates, also from a request whose answer is lost, is
\* of a place in the repository or of an archive, never of both (invoker.go: "Use
\* exactly one source mode").  The archive was stored by its own Start and is
\* whole, unless the body had been read before that Start and its length is known
\* all the same: of such a body the scan is of an empty archive.
THEOREM SourceIsThere == Spec => []ScanHasItsSource
<1>1. IInv => ScanHasItsSource
    BY BuilderIsRight DEF IInv, ScanHasItsSource
<1> QED
    BY <1>1, Invariance, PTL

\* A Start sends nothing or creates one scan, unless it lost a response, however
\* the builder is used again.
THEOREM OneStartOneScan == Spec => []StartIsOneScan
<1>1. IInv => StartIsOneScan
    BY BuilderIsRight DEF IInv, StartIsOneScan
<1> QED
    BY <1>1, Invariance, PTL

\* However the two fetches of a comparison interleave with each other's errors
\* and with the caller's cancellation, the caller is told of a cancellation only
\* when it is his own, and of a result only when both fetches have brought theirs
\* (compare.go:142-145, "first-error pattern").
THEOREM FirstErrorIsTold == Spec => []FirstErrorWins
<1>1. IInv => FirstErrorWins
    BY CompareKeepsFirstError DEF IInv, FirstErrorWins
<1> QED
    BY <1>1, Invariance, PTL

\* What Compare reports adds up, whatever the two scans have found: new and recurrent
\* findings are the identities of the new scan and resolved and recurrent ones those
\* of the old, however identities repeat or change their severity; comparing the
\* other way round exchanges new and resolved; and every suppressed finding is
\* counted in the one entry of its query, the largest entry first
\* (compare.go:202-294).
THEOREM ReportAddsUp == Spec => []ComparisonAddsUp
<1>1. IInv => ComparisonAddsUp
    BY ComponentsAssumption, CompareAddsUp DEF IInv, ComparisonAddsUp
<1> QED
    BY <1>1, Invariance, PTL

\* A call of any operation that any handle offers succeeds only when the platform
\* has carried out each of its requests, or had nothing to change, and nothing was
\* built on an answer that came without its body.
THEOREM SuccessIsWhole == Spec => []SuccessIsComplete
<1>1. IInv => SuccessIsComplete
    BY XC!Consequences DEF IInv, SuccessIsComplete
<1> QED
    BY <1>1, Invariance, PTL

\* A call fails for what its caller or the platform did, never because its handle
\* asks the wrong host, and a request is carried out twice only when an answer to
\* it was lost.
THEOREM OutcomesAreExplained == Spec => []OutcomeExplained
<1>1. IInv => OutcomeExplained
    BY XC!Consequences DEF IInv, OutcomeExplained
<1> QED
    BY <1>1, Invariance, PTL
=============================================================================
