---------------------------- MODULE SharedProofs ----------------------------
(***************************************************************************)
(* What holds of the shared components, for every value of the constants   *)
(* that the assumption allows.  A behaviour of Shared is one of a single   *)
(* component, so the inductive invariant is, for each component, the one   *)
(* that its own proofs establish, here for the lazy caches and in modules  *)
(* of their own for the others; the properties are consequences of it.     *)
(***************************************************************************)
EXTENDS Shared, TLAPS

-----------------------------------------------------------------------------
(* The lazy caches.  Their invariant ties the place of each goroutine to   *)
(* what the caches hold: only an unfilled catalogue is being fetched, only *)
(* an unsettled role is being asked about, and every place past the first  *)
(* critical section implies a full catalogue.                              *)

\* The variables whose types TypeOK leaves to the places of the goroutines.
PlacesTyped ==
    /\ reader \in {"roles", "users", "app_id"} /\ backend \in BOOLEAN
    /\ total \in 0 .. MaxItems
    /\ pc \in [Users -> {"idle", "direct", "lock", "fetch", "read", "entry", "ask"}]
    /\ op \in [Users -> {"none", "lookup", "composites", "direct"}]
    /\ loads \in 0 .. MaxLoads /\ wins \in Nat /\ asks \in Nat

\* A catalogue is loaded by the one load that succeeded; a fetch in progress is
\* still needed, and whoever is past it found the catalogue loaded.
LoadedByOne ==
    /\ wins = IF loaded THEN 1 ELSE 0
    /\ loaded => loads > 0
    /\ \A c \in Users :
          /\ pc[c] = "fetch" => ~loaded /\ loads > 0
          /\ pc[c] \in {"read", "entry", "ask"} => loaded

\* A walk over the pages never goes past the end of the catalogue.
WalkInside == \A c \in Users : pc[c] = "fetch" => read[c] <= total

\* The composites were asked for if they are settled or being settled, never
\* both, and need a catalogue.
SettledByOne ==
    /\ asks = IF settled = LR!Nothing /\ emu = Nobody THEN 0 ELSE 1
    /\ emu # Nobody => settled = LR!Nothing
    /\ settled # LR!Nothing => settled.of = "composites"
    /\ asks > 0 => loaded

LazySafe ==
    /\ PlacesTyped /\ LoadedByOne /\ WalkInside /\ SettledByOne
    /\ LR!CatalogueWhole /\ LR!CompositesSettled

LazyInv == LR!TypeOK /\ LazySafe

\* The answers that the operations build are answers, and say what they are
\* about.
LEMMA AnswerType ==
    /\ \A n \in 0 .. MaxLoads,
          w \in {"nothing", "catalogue", "composites", "direct", "backend"} :
             /\ LR!Good(w, n) \in LR!Answers /\ LR!Good(w, n).of = w
             /\ LR!Bad(w, n) \in LR!Answers /\ LR!Bad(w, n).of = w
    /\ LR!Nothing.of = "nothing"
BY DEF LR!Good, LR!Bad, LR!Nothing, LR!Answers

\* Nothing is an answer whatever the bound.
LEMMA NothingType ==
    ASSUME LR!ConstantsOK
    PROVE  LR!Nothing \in LR!Answers
<1>1. 0 \in 0 .. MaxLoads
    BY DEF LR!ConstantsOK
<1> QED
    BY <1>1 DEF LR!Nothing, LR!Bad, LR!Answers

\* The invariant holds at first.
LEMMA LazyInit == LR!ConstantsOK /\ LR!Init => LazyInv
<1> SUFFICES ASSUME LR!ConstantsOK, LR!Init PROVE LazyInv
    OBVIOUS
<1>1. LR!TypeOK
  <2>1. 0 \in 0 .. MaxItems /\ 0 \in 0 .. MaxLoads
    BY DEF LR!ConstantsOK
  <2> QED
    BY <2>1, NothingType DEF LR!ConstantsOK, LR!Init, LR!TypeOK
<1>2. PlacesTyped
    BY DEF LR!ConstantsOK, LR!Init, PlacesTyped
<1>3. LoadedByOne /\ WalkInside /\ SettledByOne /\ LR!CatalogueWhole
    BY DEF LR!Init, LoadedByOne, WalkInside, SettledByOne, LR!CatalogueWhole
<1>4. LR!CompositesSettled
    BY DEF LR!Init, LR!CompositesSettled
<1> QED
    BY <1>1, <1>2, <1>3, <1>4 DEF LazyInv, LazySafe

\* Every step preserves the invariant.
LEMMA LazyNext == LR!ConstantsOK /\ LazyInv /\ [LR!Next]_(LR!vars) => LazyInv'
<1> SUFFICES ASSUME LR!ConstantsOK, LazyInv, [LR!Next]_(LR!vars) PROVE LazyInv'
    OBVIOUS
<1> USE DEF LazyInv, LazySafe, LR!TypeOK, PlacesTyped, LoadedByOne, WalkInside,
        SettledByOne, LR!CatalogueWhole, LR!CompositesSettled, LR!setup, LR!catalogue,
        LR!entry, LR!call, LR!history, LR!Goto, LR!Return, LR!ConstantsOK
<1>1. ASSUME NEW c \in Users, NEW o \in LR!Ops(reader), LR!Begin(c, o) PROVE LazyInv'
    BY <1>1, AnswerType, NothingType DEF LR!Begin, LR!Ops
<1>2. ASSUME NEW c \in Users, LR!Direct(c) PROVE LazyInv'
  <2>1. /\ LR!Good("direct", 0) \in LR!Answers /\ LR!Good("direct", 0).of = "direct"
        /\ LR!Bad("direct", 0) \in LR!Answers /\ LR!Bad("direct", 0).of = "direct"
    BY AnswerType
  <2>2. LR!TypeOK' /\ PlacesTyped'
    BY <1>2, <2>1 DEF LR!Direct
  <2>3. LoadedByOne' /\ WalkInside' /\ LR!CatalogueWhole'
    BY <1>2, <2>1 DEF LR!Direct
  <2>4. SettledByOne' /\ LR!CompositesSettled'
    BY <1>2, <2>1 DEF LR!Direct
  <2> QED
    BY <2>2, <2>3, <2>4
<1>3. ASSUME NEW c \in Users, LR!EnsureLoaded(c) PROVE LazyInv'
  <2>1. /\ LR!Bad("backend", 0) \in LR!Answers /\ LR!Bad("backend", 0).of = "backend"
        /\ LR!Good("catalogue", 0) \in LR!Answers /\ LR!Good("catalogue", 0).of = "catalogue"
        /\ LR!Bad("catalogue", err) \in LR!Answers /\ LR!Bad("catalogue", err).of = "catalogue"
    BY AnswerType
  <2>2. LR!TypeOK' /\ PlacesTyped'
    BY <1>3, <2>1 DEF LR!EnsureLoaded, LR!AlreadyLoaded
  <2>3. LoadedByOne' /\ WalkInside' /\ LR!CatalogueWhole'
    BY <1>3, <2>1 DEF LR!EnsureLoaded, LR!AlreadyLoaded
  <2>4. SettledByOne' /\ LR!CompositesSettled'
    BY <1>3, <2>1 DEF LR!EnsureLoaded, LR!AlreadyLoaded
  <2> QED
    BY <2>2, <2>3, <2>4
<1>4. ASSUME NEW c \in Users, LR!NextPage(c) PROVE LazyInv'
    BY <1>4, AnswerType DEF LR!NextPage, LR!LastPage, LR!PageAt
<1>5. ASSUME NEW c \in Users, LR!Load(c) PROVE LazyInv'
  <2>1. /\ LR!Good("catalogue", load[c]) \in LR!Answers
        /\ LR!Good("catalogue", load[c]).of = "catalogue"
    BY AnswerType
  <2>2. LR!TypeOK' /\ PlacesTyped'
    BY <1>5, <2>1 DEF LR!Load, LR!LastPage, LR!PageAt
  <2>3. LoadedByOne' /\ WalkInside' /\ LR!CatalogueWhole'
    BY <1>5, <2>1 DEF LR!Load, LR!LastPage, LR!PageAt
  <2>4. SettledByOne' /\ LR!CompositesSettled'
    BY <1>5, <2>1 DEF LR!Load, LR!LastPage, LR!PageAt
  <2> QED
    BY <2>2, <2>3, <2>4
<1>6. ASSUME NEW c \in Users, LR!LoadFails(c) PROVE LazyInv'
    BY <1>6, AnswerType DEF LR!LoadFails
<1>7. ASSUME NEW c \in Users, LR!Lookup(c) PROVE LazyInv'
  <2>1. /\ LR!Good("catalogue", 0) \in LR!Answers /\ LR!Good("catalogue", 0).of = "catalogue"
    BY AnswerType
  <2>2. LR!TypeOK' /\ PlacesTyped'
    BY <1>7, <2>1 DEF LR!Lookup
  <2>3. LoadedByOne' /\ WalkInside' /\ LR!CatalogueWhole'
    BY <1>7, <2>1 DEF LR!Lookup
  <2>4. SettledByOne' /\ LR!CompositesSettled'
    BY <1>7, <2>1 DEF LR!Lookup
  <2> QED
    BY <2>2, <2>3, <2>4
<1>8. ASSUME NEW c \in Users, LR!Composites(c) PROVE LazyInv'
  <2>1. LR!Nothing.of = "nothing"
    BY AnswerType
  <2>2. LR!TypeOK' /\ PlacesTyped'
    BY <1>8, <2>1 DEF LR!Composites
  <2>3. LoadedByOne' /\ WalkInside' /\ LR!CatalogueWhole'
    BY <1>8, <2>1 DEF LR!Composites
  <2>4. SettledByOne' /\ LR!CompositesSettled'
    BY <1>8, <2>1 DEF LR!Composites
  <2> QED
    BY <2>2, <2>3, <2>4
<1>9. ASSUME NEW c \in Users, LR!CompositesArrive(c) PROVE LazyInv'
    BY <1>9, AnswerType DEF LR!CompositesArrive
<1>10. CASE UNCHANGED LR!vars
    BY <1>10 DEF LR!vars
<1> QED
    BY <1>1, <1>2, <1>3, <1>4, <1>5, <1>6, <1>7, <1>8, <1>9, <1>10 DEF LR!Next

\* What it says of the single properties.
LEMMA LazyConsequences ==
    LazyInv => LR!TypeOK /\ LR!AskedOnce /\ LR!CatalogueWhole /\ LR!CompositesSettled
BY DEF LazyInv, LazySafe, LoadedByOne, SettledByOne, LR!AskedOnce

\* The bound of a goroutine of the lazy caches, read place by place, in this state
\* and in the next.
LazyBound(c) ==
    /\ pc[c] = "idle" => LR!StepsLeft(c) = 0
    /\ pc[c] \in {"direct", "ask"} => LR!StepsLeft(c) = 1
    /\ pc[c] = "entry" => LR!StepsLeft(c) = 2
    /\ pc[c] = "read" => LR!StepsLeft(c) = 3
    /\ pc[c] = "fetch" => LR!StepsLeft(c) = 4 + (total - read[c])
    /\ pc[c] = "lock" => LR!StepsLeft(c) = 5 + total

LEMMA LazyBoundIsRead == ASSUME NEW c PROVE LazyBound(c) /\ LazyBound(c)'
BY Zenon DEF LR!StepsLeft, LazyBound

\* Where a step takes the goroutine that makes it.
LazyGoesOn(c) ==
    \/ pc'[c] = "idle"
    \/ pc[c] = "lock" /\ pc'[c] \in {"fetch", "read"}
    \/ pc[c] = "fetch" /\ pc'[c] = "fetch" /\ read'[c] > read[c]
    \/ pc[c] = "fetch" /\ pc'[c] = "read"
    \/ pc[c] = "read" /\ pc'[c] = "entry"
    \/ pc[c] = "entry" /\ pc'[c] = "ask"

\* A step takes its goroutine further, and leaves the others where they are.
LEMMA LazyMoves ==
    ASSUME LR!ConstantsOK, LazyInv, LR!Next, NEW c \in Users, pc[c] # "idle"
    PROVE  LazyGoesOn(c) \/ (pc'[c] = pc[c] /\ read'[c] = read[c])
<1>1. PICK d \in Users :
          \/ \E o \in LR!Ops(reader) : LR!Begin(d, o)
          \/ LR!Direct(d) \/ LR!EnsureLoaded(d) \/ LR!NextPage(d) \/ LR!Load(d)
          \/ LR!LoadFails(d) \/ LR!Lookup(d) \/ LR!Composites(d)
          \/ LR!CompositesArrive(d)
    BY DEF LR!Next
<1>2. /\ pc \in [Users -> {"idle", "direct", "lock", "fetch", "read", "entry", "ask"}]
      /\ read \in [Users -> 0 .. MaxItems] /\ PageSize \in Nat \ {0} /\ MaxItems \in Nat
    BY DEF LazyInv, LazySafe, PlacesTyped, LR!TypeOK, LR!ConstantsOK
<1>3. CASE \E o \in LR!Ops(reader) : LR!Begin(d, o)
    BY <1>2, <1>3 DEF LR!Begin, LR!Goto
<1>4. CASE LR!Direct(d) \/ LR!LoadFails(d) \/ LR!CompositesArrive(d)
    BY <1>2, <1>4 DEF LR!Direct, LR!LoadFails, LR!CompositesArrive, LR!Return, LR!Goto,
        LR!call, LazyGoesOn
<1>5. CASE LR!EnsureLoaded(d)
    BY <1>2, <1>5 DEF LR!EnsureLoaded, LR!AlreadyLoaded, LR!Return, LR!Goto, LazyGoesOn
<1>6. CASE LR!NextPage(d)
    BY <1>2, <1>6 DEF LR!NextPage, LazyGoesOn
<1>7. CASE LR!Load(d) \/ LR!Lookup(d) \/ LR!Composites(d)
    BY <1>2, <1>7 DEF LR!Load, LR!Lookup, LR!Composites, LR!Return, LR!Goto, LR!call,
        LazyGoesOn
<1> QED
    BY <1>1, <1>3, <1>4, <1>5, <1>6, <1>7

\* So every step of a call uses up some of its bound.
LEMMA LazySteps ==
    LR!ConstantsOK /\ LazyInv /\ LazyInv' /\ LR!Next => LR!UsesUpSteps
<1> SUFFICES ASSUME LR!ConstantsOK, LazyInv, LazyInv', LR!Next,
                    NEW c \in Users, pc[c] # "idle"
             PROVE  IF pc'[c] = pc[c] /\ read'[c] = read[c]
                    THEN LR!StepsLeft(c)' = LR!StepsLeft(c)
                    ELSE LR!StepsLeft(c)' \in 0 .. LR!StepsLeft(c) - 1
    BY Zenon DEF LR!UsesUpSteps
<1>1. LazyBound(c) /\ LazyBound(c)'
    BY LazyBoundIsRead
<1>2. /\ pc[c] \in {"direct", "lock", "fetch", "read", "entry", "ask"}
      /\ total \in Nat /\ read[c] \in Nat
      /\ pc[c] = "fetch" => read[c] <= total
    BY DEF LazyInv, LazySafe, PlacesTyped, WalkInside, LR!TypeOK, LR!ConstantsOK
<1>3. total' = total
    BY DEF LR!Next, LR!Begin, LR!Direct, LR!EnsureLoaded, LR!NextPage, LR!Load,
        LR!LoadFails, LR!Lookup, LR!Composites, LR!CompositesArrive, LR!setup
<1>4. read'[c] \in Nat /\ (pc'[c] = "fetch" => read'[c] <= total)
  <2>1. read' \in [Users -> 0 .. MaxItems] /\ MaxItems \in Nat
    BY DEF LazyInv, LR!TypeOK, LR!ConstantsOK
  <2>2. pc'[c] = "fetch" => read'[c] <= total'
    BY DEF LazyInv, LazySafe, WalkInside
  <2> QED
    BY <1>3, <2>1, <2>2
<1>5. CASE pc'[c] = pc[c] /\ read'[c] = read[c]
    BY <1>1, <1>2, <1>3, <1>5 DEF LazyBound
<1>6. CASE ~(pc'[c] = pc[c] /\ read'[c] = read[c])
  <2>1. LazyGoesOn(c)
    BY <1>6, LazyMoves
  <2> QED
    BY <1>1, <1>2, <1>3, <1>4, <1>6, <2>1 DEF LazyBound, LazyGoesOn
<1> QED
    BY <1>5, <1>6

-----------------------------------------------------------------------------
(* The component that runs.                                                *)

\* The inductive invariant of the component that runs.
IInv ==
    /\ which = "executor" => EX!IInv
    /\ which = "preset_reader" => PR!IInv
    /\ which = "lazy_reader" => LazyInv
    /\ which = "provisioning" => PV!IInv

\* The component that runs starts in its invariant.
LEMMA InitInv == Init => IInv
BY SharedAssumption, EX!InitInv, PR!InitInv, LazyInit, PV!InitInv DEF Init, IInv

\* Its steps are steps of the component alone.
LEMMA OneRuns ==
    [Next]_vars =>
        /\ which' = which
        /\ which = "executor" => [EX!Next]_(EX!vars)
        /\ which = "preset_reader" => [PR!Next]_(PR!vars)
        /\ which = "lazy_reader" => [LR!Next]_(LR!vars)
        /\ which = "provisioning" => [PV!Next]_(PV!vars)
BY DEF Next, vars, exVars, prVars, lrVars, pvVars, EX!vars, PR!vars, LR!vars,
    PV!vars, EX!authVars, EX!ctxVars, PR!level1, PR!level2, PR!pool,
    LR!call, LR!entry, LR!history, PV!locals,
    LR!setup, LR!catalogue, PV!platform

\* Which it keeps.
LEMMA NextInv == IInv /\ [Next]_vars => IInv'
BY SharedAssumption, OneRuns, EX!NextInv, PR!NextInv, LazyNext, PV!NextInv DEF IInv

\* In every reachable state each part keeps its invariant.
LEMMA Invariance == Spec => []IInv
BY InitInv, NextInv, PTL DEF Spec

-----------------------------------------------------------------------------
(* What follows, and what a user of the SDK may rely on.                   *)

\* What the invariants of the components say of their properties.
LEMMA Cited ==
    /\ EX!IInv => /\ EX!TypeOK /\ EX!SendBudget /\ EX!RejectedTokenNotResent
                  /\ EX!UnauthorizedIsFinal /\ EX!BodiesAccounted
                  /\ EX!TimerLifetime
    /\ PR!IInv => /\ PR!TypeOK /\ PR!BoundedParallelism /\ PR!NoOrphans
                  /\ PR!SuccessMeansWarm /\ PR!FetchedOnce /\ PR!WaitsEnd
    /\ LazyInv => /\ LR!TypeOK /\ LR!AskedOnce /\ LR!CatalogueWhole
                  /\ LR!CompositesSettled
    /\ PV!IInv => /\ PV!TypeOK /\ PV!DuplicatesExplained /\ PV!FailureIsOwn
                  /\ PV!CreatedInApplication
BY SharedAssumption, EX!Consequences, PR!Consequences, LazyConsequences,
    PV!Consequences

\* The variables keep their types.  For the preset reader and the lazy caches
\* that includes mutual exclusion, and the counts of the semaphore and of the
\* WaitGroup.
THEOREM TypeCorrect == Spec => []TypeOK
<1>1. IInv => TypeOK
    BY Cited DEF IInv, TypeOK
<1> QED
    BY <1>1, Invariance, PTL

\* One Do puts at most MaxAttempts requests on the wire, plus one after a 401,
\* whatever comes back and whatever other goroutines do.
THEOREM SendBudgetHolds == Spec => []SendBudget
<1>1. IInv => SendBudget
    BY Cited DEF IInv, SendBudget
<1> QED
    BY <1>1, Invariance, PTL

\* A token the API server answered 401 to is never sent again by the same call,
\* nor is an older one, although later attempts read the cache anew.
THEOREM RejectedTokenStaysUnsent == Spec => []RejectedTokenNotResent
<1>1. IInv => RejectedTokenNotResent
    BY Cited DEF IInv, RejectedTokenNotResent
<1> QED
    BY <1>1, Invariance, PTL

\* A 401 in the hands of the caller means that two tokens were rejected.
THEOREM UnauthorizedMeansTwice == Spec => []UnauthorizedIsFinal
<1>1. IInv => UnauthorizedIsFinal
    BY Cited DEF IInv, UnauthorizedIsFinal
<1> QED
    BY <1>1, Invariance, PTL

\* Every body is closed but that of the response in the caller's hands, on every
\* path through retries and the refresh.
THEOREM BodiesAreAccounted == Spec => []BodiesAccounted
<1>1. IInv => BodiesAccounted
    BY Cited DEF IInv, BodiesAccounted
<1> QED
    BY <1>1, Invariance, PTL

\* The timeout of a call ends with the call, or with the body it returned.
THEOREM TimerLives == Spec => []TimerLifetime
<1>1. IInv => TimerLifetime
    BY Cited DEF IInv, TimerLifetime
<1> QED
    BY <1>1, Invariance, PTL

\* The semaphore does bound how many details are asked for at a time.
THEOREM ParallelismIsBounded == Spec => []BoundedParallelism
<1>1. IInv => BoundedParallelism
    BY Cited DEF IInv, BoundedParallelism
<1> QED
    BY <1>1, Invariance, PTL

\* However LoadAllDetails returns, no worker outlives it.
THEOREM LeavesNoOrphans == Spec => []NoOrphans
<1>1. IInv => NoOrphans
    BY Cited DEF IInv, NoOrphans
<1> QED
    BY <1>1, Invariance, PTL

\* When LoadAllDetails reports success every preset is warm, and stays so.
THEOREM SuccessWarmsAll == Spec => []SuccessMeansWarm
<1>1. IInv => SuccessMeansWarm
    BY Cited DEF IInv, SuccessMeansWarm
<1> QED
    BY <1>1, Invariance, PTL

\* No detail is fetched twice, whoever asks for it at the same time; a catalogue is
\* loaded at most once, and a role's composites are asked for at most once, however
\* calls and failures interleave.
THEOREM NothingFetchedTwice == Spec => []FetchedOnce
<1>1. IInv => FetchedOnce
    BY Cited DEF IInv, FetchedOnce
<1> QED
    BY <1>1, Invariance, PTL

\* A reader never serves from a part of the catalogue, whatever its size, the
\* page size and the walks that broke off before.
THEOREM CatalogueIsWhole == Spec => []CatalogueWhole
<1>1. IInv => CatalogueWhole
    BY Cited DEF IInv, CatalogueWhole
<1> QED
    BY <1>1, Invariance, PTL

\* The first answer about a role's composites is everybody's answer.
THEOREM CompositesStaySettled == Spec => []CompositesSettled
<1>1. IInv => CompositesSettled
    BY Cited DEF IInv, CompositesSettled
<1> QED
    BY <1>1, Invariance, PTL

\* Every duplicate has one of the known causes, and none occurs on a platform
\* that refuses them, whatever fails and is sent again; a project made for an
\* application is in the one its call found or created.
THEOREM DuplicatesHaveCauses == Spec => []DuplicatesExplained
<1>1. IInv => DuplicatesExplained
    BY Cited DEF IInv, DuplicatesExplained
<1> QED
    BY <1>1, Invariance, PTL

\* A failed get-or-create has met its failure itself: what earlier calls left
\* behind never makes one fail.
THEOREM FailuresAreOwn == Spec => []FailureIsOwn
<1>1. IInv => FailureIsOwn
    BY Cited DEF IInv, FailureIsOwn
<1> QED
    BY <1>1, Invariance, PTL

\* A cached token makes room for another only after the API server rejected
\* it: among the goroutines that met a 401 with the same token one renews it,
\* and the ones that met it with an older token are served the cached one.
THEOREM RenewalIsJustified == Spec => OnlyRejectedTokensRenewed
<1> DEFINE Justified ==
      which = "executor" /\ current # 0 /\ current' # 0 /\ current' # current
          => epoch \in rejected
<1>1. IInv /\ [Next]_vars => [Justified]_vars
    BY OneRuns, EX!RenewalStep DEF IInv, EX!vars, EX!authVars
<1> QED
    BY <1>1, Invariance, PTL DEF Spec, OnlyRejectedTokensRenewed
\* Whoever waits for a mutex of the preset reader, for a slot or for the workers,
\* the wait ends with a goroutine that can go on: nobody waits in a circle.
THEOREM WaitsHaveEnds == Spec => []WaitsEnd
<1>1. IInv => WaitsEnd
    BY Cited DEF IInv, WaitsEnd
<1> QED
    BY <1>1, Invariance, PTL

\* No call of a shared component goes round for ever: each of its steps uses up a
\* bound that no other goroutine raises.
THEOREM CallsStayFinite == Spec => CallsAreFinite
<1>1. IInv /\ [Next]_vars =>
          [/\ which = "executor" => EX!UsesUpSteps
           /\ which = "preset_reader" => PR!UsesUpSteps
           /\ which = "lazy_reader" => LR!UsesUpSteps]_vars
  <2> SUFFICES ASSUME IInv, Next
               PROVE  /\ which = "executor" => EX!UsesUpSteps
                      /\ which = "preset_reader" => PR!UsesUpSteps
                      /\ which = "lazy_reader" => LR!UsesUpSteps
    OBVIOUS
  <2>1. IInv' /\ which' = which
    BY NextInv, OneRuns
  <2>2. ASSUME which = "executor" PROVE EX!UsesUpSteps
    BY <2>1, <2>2, SharedAssumption, OneRuns, EX!StepsUsed DEF IInv
  <2>3. ASSUME which = "preset_reader" PROVE PR!UsesUpSteps
    BY <2>1, <2>3, SharedAssumption, OneRuns, PR!StepsUsed DEF IInv
  <2>4. ASSUME which = "lazy_reader" PROVE LR!UsesUpSteps
    BY <2>1, <2>4, SharedAssumption, LazySteps DEF IInv, Next
  <2> QED
    BY <2>2, <2>3, <2>4
<1> QED
    BY <1>1, Invariance, PTL DEF Spec, CallsAreFinite
=============================================================================
