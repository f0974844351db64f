------------------------- MODULE ProvisioningProofs -------------------------
(***************************************************************************)
(* What the get-or-create helpers guarantee for every set of goroutines,   *)
(* every retry budget and every page of the look-up.  The inductive        *)
(* invariant IInv says that calls which overlap know it, that a call which *)
(* is about to create and knows nothing wrong sees no object of the name,  *)
(* and that the platform hands every identifier out once.                  *)
(***************************************************************************)
EXTENDS Provisioning, FiniteSetTheorems, TLAPS

InCall(c) == pc[c] # "idle"

\* A request on its way may be sent at least once more; a record is read back
\* only for the kinds whose creation answers without one.
Underway ==
    /\ result \in [Callers -> [done : BOOLEAN, ok : BOOLEAN, id : Nat]]
    /\ trouble \in [Callers -> BOOLEAN] /\ excused \in BOOLEAN
    /\ \A c \in Callers :
          /\ InCall(c) => tries[c] >= 1
          /\ pc[c] \in {"get", "refind"} => kind[c] \in {"group", "user", "client"}
          /\ pc[c] = "get" => made[c] > 0

\* Identifiers are handed out once, in order.
Identified ==
    /\ IsFiniteSet(objects)
    /\ Cardinality(objects) <= MaxObjects
    /\ \A o \in objects : o.id <= Cardinality(objects)
    /\ \A o, q \in objects : o.id = q.id => o = q
    /\ \A c \in Callers : made[c] <= Cardinality(objects)

\* Calls that overlap are in trouble, and excuse a duplicate.
OverlapNoted ==
    \A c, d \in Callers :
        c # d /\ InCall(c) /\ InCall(d) => trouble[c] /\ trouble[d] /\ excused

\* A call that is about to create an object of a name that is taken is in
\* trouble, and excuses the duplicate.
CreatesMissing ==
    \A c \in Callers :
        pc[c] = "create" /\ Bearing(kind[c]) # {} => trouble[c] /\ excused

\* There is one object of a name, but for an excuse; and at most one on a
\* platform that refuses duplicates.
OneOfAName ==
    \A k \in Kinds : \A o, q \in Bearing(k) : o # q => ~unique /\ excused

\* A call for a project in an application has the application before it turns
\* to the project.
ApplicationFirst ==
    \A c \in Callers :
        /\ InCall(c) /\ kind[c] = "application" => made[c] = 0
        /\ InCall(c) /\ kind[c] = "project" /\ goal = "in_application" => app[c] # 0

Safe ==
    /\ Underway /\ Identified /\ OverlapNoted /\ CreatesMissing /\ OneOfAName
    /\ ApplicationFirst /\ FailureIsOwn /\ CreatedInApplication

IInv == TypeOK /\ Safe

-----------------------------------------------------------------------------
(* The platform.                                                           *)

\* A creation adds one object, with an identifier never handed out before, to
\* the ones of its kind, and on a platform that refuses duplicates it is the
\* only one.
LEMMA CreateAdds ==
    ASSUME ConstantsOK, TypeOK, Identified, NEW c \in Callers, Create(c)
    PROVE  /\ NewObject(c) \in [kind : Kinds, id : 1 .. MaxObjects, app : 0 .. MaxObjects]
           /\ NewObject(c).kind = kind[c] /\ NewObject(c).app = app[c]
           /\ NewObject(c).id = Cardinality(objects) + 1
           /\ \A o \in objects : o.id < NewObject(c).id
           /\ objects' = objects \cup {NewObject(c)}
           /\ IsFiniteSet(objects')
           /\ Cardinality(objects) \in Nat
           /\ Cardinality(objects') = Cardinality(objects) + 1
           /\ Cardinality(objects') <= MaxObjects
           /\ unique => Bearing(kind[c]) = {}
<1> DEFINE n == Cardinality(objects)
<1>1. n \in Nat /\ n < MaxObjects /\ MaxObjects \in Nat
    BY FS_CardinalityType DEF Identified, Create, ConstantsOK
<1>2. /\ NewObject(c).kind = kind[c] /\ NewObject(c).app = app[c]
      /\ NewObject(c).id = n + 1
    BY DEF NewObject
<1>3. NewObject(c) \in [kind : Kinds, id : 1 .. MaxObjects, app : 0 .. MaxObjects]
    BY <1>1 DEF NewObject, TypeOK
<1>4. \A o \in objects : o.id < n + 1
    BY <1>1 DEF Identified, TypeOK
<1>5. NewObject(c) \notin objects
    BY <1>1, <1>2, <1>4
<1>6. objects' = objects \cup {NewObject(c)}
    BY DEF Create
<1>7. IsFiniteSet(objects') /\ Cardinality(objects') = n + 1
    BY <1>5, <1>6, FS_AddElement DEF Identified
<1> HIDE DEF n
<1> QED
    BY <1>1, <1>2, <1>3, <1>4, <1>6, <1>7 DEF Create, Taken, n

\* Objects can be counted.
LEMMA ObjectsCounted == Identified => Cardinality(objects) \in Nat
BY FS_CardinalityType DEF Identified

\* What a call returns, by its outcome.
LEMMA Outcomes ==
    /\ Pending \in [done : BOOLEAN, ok : BOOLEAN, id : Nat] /\ Pending # Failed
    /\ Failed \in [done : BOOLEAN, ok : BOOLEAN, id : Nat]
    /\ \A n \in Nat : /\ Named(n) \in [done : BOOLEAN, ok : BOOLEAN, id : Nat]
                      /\ Named(n) # Failed
BY DEF Pending, Failed, Named

\* The objects of a kind, after a creation and after anything else.
LEMMA BearingAfter ==
    /\ objects' = objects => \A k : Bearing(k)' = Bearing(k)
    /\ \A n : objects' = objects \cup {n} =>
          \A k : Bearing(k)' = IF n.kind = k THEN Bearing(k) \cup {n} ELSE Bearing(k)
BY DEF Bearing

\* The invariant holds at first.
LEMMA InitInv == ConstantsOK /\ Init => IInv
<1> SUFFICES ASSUME ConstantsOK, Init PROVE IInv
    OBVIOUS
<1>1. TypeOK
    BY DEF ConstantsOK, Init, TypeOK, Kinds
<1>2. Underway
    BY DEF Init, Underway, InCall, Pending
<1>3. Identified
    BY FS_EmptySet DEF ConstantsOK, Init, Identified
<1>4. OverlapNoted /\ CreatesMissing /\ OneOfAName
    BY DEF Init, OverlapNoted, CreatesMissing, OneOfAName, InCall, Bearing
<1>5. ApplicationFirst /\ FailureIsOwn /\ CreatedInApplication
    BY DEF Init, ApplicationFirst, FailureIsOwn, CreatedInApplication, InCall,
        Pending, Failed
<1> QED
    BY <1>1, <1>2, <1>3, <1>4, <1>5 DEF IInv, Safe

\* A call that has its object goes on to the next request or ends, with the
\* types kept and a send left.
LEMMA GotType ==
    ASSUME ConstantsOK, TypeOK, Underway, NEW c \in Callers,
           NEW o \in 1 .. MaxObjects, Got(c, o)
    PROVE  /\ pc' \in [Callers -> {"idle", "find", "create", "get", "refind"}]
           /\ kind' \in [Callers -> Kinds]
           /\ tries' \in [Callers -> 0 .. Attempts]
           /\ app' \in [Callers -> 0 .. MaxObjects]
           /\ result' \in [Callers -> [done : BOOLEAN, ok : BOOLEAN, id : Nat]]
           /\ pc'[c] \in {"idle", "find"} /\ (InCall(c)' => tries'[c] >= 1)
           /\ \A d \in Callers \ {c} :
                 pc'[d] = pc[d] /\ kind'[d] = kind[d] /\ tries'[d] = tries[d]
<1>1. CASE kind[c] = "application"
    BY <1>1 DEF Got, Send, TypeOK, Underway, ConstantsOK, Kinds, InCall
<1>2. CASE kind[c] # "application"
  <2>1. Return(c, Named(o)) /\ UNCHANGED <<kind, tries, app>>
    BY <1>2 DEF Got
  <2>2. Named(o) \in [done : BOOLEAN, ok : BOOLEAN, id : Nat]
    BY Outcomes
  <2> QED
    BY <2>1, <2>2 DEF Return, TypeOK, Underway, InCall
<1> QED
    BY <1>1, <1>2

\* Where it goes on, and what it returns.
LEMMA GotMoves ==
    ASSUME TypeOK, Underway, NEW c \in Callers, NEW o \in Nat, Got(c, o)
    PROVE  /\ pc'[c] \in {"idle", "find"}
           /\ kind[c] # "application" => pc'[c] = "idle" /\ app' = app
           /\ kind[c] = "application" => kind'[c] = "project" /\ app'[c] = o
           /\ result'[c] = Failed => result[c] = Failed
           /\ \A d \in Callers \ {c} :
                 /\ pc'[d] = pc[d] /\ kind'[d] = kind[d]
                 /\ app'[d] = app[d] /\ result'[d] = result[d]
<1>1. Named(o) # Failed
    BY Outcomes
<1> QED
    BY <1>1 DEF Got, Send, Return, TypeOK, Underway

\* A step that creates nothing keeps what is known of the identifiers, if it
\* leaves made alone or forgets it.
LEMMA StillIdentified ==
    ASSUME TypeOK, Identified, objects' = objects,
           \A c \in Callers : made'[c] = made[c] \/ made'[c] = 0
    PROVE  Identified'
BY ObjectsCounted DEF Identified

\* A creation keeps it, if only the creator learns of the new identifier.
LEMMA CreateIdentified ==
    ASSUME ConstantsOK, TypeOK, Identified, NEW c \in Callers, Create(c),
           \A d \in Callers :
              made'[d] = made[d] \/ (d = c /\ made'[d] = NewObject(c).id)
    PROVE  Identified'
<1>1. \A d \in Callers : made'[d] <= Cardinality(objects) + 1
    BY CreateAdds DEF Identified, TypeOK
<1>2. \A o, q \in objects' : o.id = q.id => o = q
  <2>1. \A o \in objects : o.id # NewObject(c).id
    BY CreateAdds DEF TypeOK
  <2> QED
    BY <2>1, CreateAdds DEF Identified
<1>3. \A o \in objects' : o.id <= Cardinality(objects) + 1
    BY CreateAdds DEF Identified, TypeOK
<1> QED
    BY <1>1, <1>2, <1>3, CreateAdds DEF Identified

\* A call begins: whoever is in a call is told of it.
LEMMA BeginInv == ASSUME ConstantsOK, IInv, NEW c \in Callers, Begin(c) PROVE IInv'
<1> USE DEF IInv, Safe, InCall
<1>1. /\ trouble' \in [Callers -> BOOLEAN] /\ excused' \in BOOLEAN
      /\ result' = [result EXCEPT ![c] = Pending]
      /\ objects' = objects /\ goal' = goal /\ unique' = unique /\ decoys' = decoys
      /\ pc' = [pc EXCEPT ![c] = "find"]
      /\ made' = [made EXCEPT ![c] = 0]
    BY DEF Begin, Send, platform, Underway
<1>2. /\ \A d \in Callers \ {c} : InCall(d) => trouble'[d] /\ trouble'[c] /\ excused'
      /\ \A d \in Callers \ {c} : trouble[d] => trouble'[d]
      /\ excused => excused'
    BY DEF Begin, Underway
<1>3. TypeOK'
    BY <1>1 DEF Begin, Send, ConstantsOK, TypeOK, Kinds, Goals
<1>4. Underway'
    BY <1>1, Outcomes DEF Begin, Send, ConstantsOK, TypeOK, Underway
<1>5. Identified'
    BY <1>1, StillIdentified DEF TypeOK
<1>6. OverlapNoted'
    BY <1>1, <1>2 DEF OverlapNoted, TypeOK
<1>7. CreatesMissing' /\ OneOfAName'
    BY <1>1, <1>2, BearingAfter DEF Begin, Send, CreatesMissing, OneOfAName, TypeOK
<1>8. ApplicationFirst' /\ CreatedInApplication'
    BY <1>1 DEF Begin, Send, ApplicationFirst, CreatedInApplication, TypeOK
<1>9. FailureIsOwn'
    BY <1>1, <1>2, Outcomes DEF FailureIsOwn, Underway
<1> QED
    BY <1>3, <1>4, <1>5, <1>6, <1>7, <1>8, <1>9

\* A call that has found or read back its object goes on with it.
LEMMA GotInv ==
    ASSUME ConstantsOK, IInv, NEW c \in Callers, NEW o \in 1 .. MaxObjects,
           InCall(c), Got(c, o),
           UNCHANGED <<platform, made, calls, excused, trouble>>
    PROVE  IInv'
<1> USE DEF IInv, Safe, platform
<1>1. o \in Nat /\ o > 0
    BY DEF ConstantsOK
<1>2. TypeOK'
    BY GotType DEF TypeOK
<1>3. Underway'
    BY GotType DEF Underway, InCall
<1>4. Identified'
    BY StillIdentified
<1>5. OverlapNoted' /\ CreatesMissing' /\ OneOfAName'
    BY <1>1, GotMoves, BearingAfter
       DEF OverlapNoted, CreatesMissing, OneOfAName, InCall
<1>6. FailureIsOwn'
    BY <1>1, GotMoves DEF FailureIsOwn
<1>7. ApplicationFirst'
    BY <1>1, GotMoves DEF ApplicationFirst, InCall
<1>8. CreatedInApplication'
  <2>1. kind[c] = "application" => made[c] = 0
    BY DEF ApplicationFirst
  <2>2. \A q \in objects : q.id # 0
    BY DEF TypeOK
  <2> QED
    BY <1>1, <2>1, <2>2, GotMoves DEF CreatedInApplication
<1> QED
    BY <1>2, <1>3, <1>4, <1>5, <1>6, <1>7, <1>8

\* A call that found none knows whether it missed one.
LEMMA NotFoundInv ==
    ASSUME ConstantsOK, IInv, NEW c \in Callers, NotFound(c) PROVE IInv'
<1> USE DEF IInv, Safe, platform
<1>1. /\ pc' = [pc EXCEPT ![c] = "create"] /\ pc[c] = "find"
      /\ UNCHANGED <<platform, kind, app, made, result, calls>>
      /\ tries' = [tries EXCEPT ![c] = Attempts]
    BY DEF NotFound, Send, TypeOK
<1>2. /\ trouble' \in [Callers -> BOOLEAN] /\ excused' \in BOOLEAN
      /\ Bearing(kind[c]) # {} => trouble'[c] /\ excused'
      /\ \A d \in Callers : trouble[d] => trouble'[d]
      /\ excused => excused'
    BY DEF NotFound, Underway
<1>3. TypeOK'
    BY <1>1 DEF ConstantsOK, TypeOK
<1>4. Underway'
  <2>1. \A d \in Callers : InCall(d)' => tries'[d] >= 1
    BY <1>1 DEF ConstantsOK, TypeOK, Underway, InCall
  <2>2. \A d \in Callers :
          /\ pc'[d] \in {"get", "refind"} => pc'[d] = pc[d]
          /\ kind'[d] = kind[d] /\ made'[d] = made[d]
    BY <1>1 DEF TypeOK
  <2> QED
    BY <1>1, <1>2, <2>1, <2>2 DEF Underway
<1>5. Identified'
    BY <1>1, StillIdentified
<1>6. OverlapNoted' /\ CreatesMissing' /\ OneOfAName'
    BY <1>1, <1>2, BearingAfter
       DEF OverlapNoted, CreatesMissing, OneOfAName, InCall, TypeOK
<1>7. FailureIsOwn'
    BY <1>1, <1>2 DEF FailureIsOwn
<1>8. ApplicationFirst' /\ CreatedInApplication'
    BY <1>1 DEF ApplicationFirst, CreatedInApplication, InCall, TypeOK
<1> QED
    BY <1>3, <1>4, <1>5, <1>6, <1>7, <1>8

\* What a creation does to the duplicates: the first of a name is none, and a
\* call that creates another, or makes another call's look-up out of date, is
\* noted.
LEMMA CreateNoted ==
    ASSUME ConstantsOK, IInv, NEW c \in Callers, pc[c] = "create", Create(c),
           unique' = unique, kind'[c] \in Kinds,
           \A d \in Callers \ {c} : pc'[d] = pc[d] /\ kind'[d] = kind[d],
           \A d \in Callers : trouble[d] => trouble'[d],
           excused => excused',
           pc'[c] = "create" => trouble'[c] /\ excused'
    PROVE  CreatesMissing' /\ OneOfAName'
<1> USE DEF IInv, Safe
<1> DEFINE n == NewObject(c)
<1>1. /\ n.kind = kind[c]
      /\ \A k : Bearing(k)' = IF n.kind = k THEN Bearing(k) \cup {n} ELSE Bearing(k)
      /\ unique => Bearing(kind[c]) = {}
    BY CreateAdds, BearingAfter
<1> HIDE DEF n
<1>2. CreatesMissing'
  <2>1. \A d \in Callers \ {c} : pc[d] = "create" => trouble[d] /\ excused
    BY DEF OverlapNoted, InCall
  <2> QED
    BY <2>1 DEF CreatesMissing
<1>3. OneOfAName'
  <2>1. Bearing(kind[c]) # {} => excused
    BY DEF CreatesMissing
  <2> QED
    BY <1>1, <2>1 DEF OneOfAName
<1> QED
    BY <1>2, <1>3

\* The record of the creation arrives, or its location, or neither.
LEMMA CreatedInv ==
    ASSUME ConstantsOK, IInv, NEW c \in Callers, Created(c) PROVE IInv'
<1> USE DEF IInv, Safe
<1> DEFINE n == NewObject(c)
<1>1. /\ pc[c] = "create" /\ Create(c) /\ made' = [made EXCEPT ![c] = n.id]
      /\ UNCHANGED <<goal, unique, decoys, calls, excused, trouble>>
      /\ made'[c] = n.id
    BY DEF Created, TypeOK
<1>2. /\ n \in [kind : Kinds, id : 1 .. MaxObjects, app : 0 .. MaxObjects]
      /\ n.kind = kind[c] /\ n.app = app[c]
      /\ \A o \in objects : o.id < n.id
      /\ objects' = objects \cup {n}
    BY <1>1, CreateAdds
<1>3. n.id \in 1 .. MaxObjects /\ n.id \in Nat /\ n.id > 0
    BY <1>2 DEF ConstantsOK
<1>4. \A d \in Callers : made[d] < n.id
    BY <1>1, CreateAdds DEF Identified, TypeOK
<1> HIDE DEF n
<1>5. CASE kind[c] \in {"application", "project"}
  <2>1. Got(c, n.id)
    BY <1>1, <1>5 DEF Created
  <2>2. TypeOK'
    BY <1>1, <1>2, <1>3, <2>1, GotType DEF TypeOK
  <2>3. Underway'
    BY <1>1, <1>5, <1>3, <2>1, GotType DEF Underway, InCall, TypeOK
  <2>4. Identified'
    BY <1>1, CreateIdentified DEF TypeOK, n
  <2>5. OverlapNoted'
    BY <1>1, <1>3, <2>1, GotMoves DEF OverlapNoted, InCall
  <2>6. CreatesMissing' /\ OneOfAName'
    BY <1>1, <1>3, <2>1, <2>2, GotMoves, CreateNoted DEF TypeOK
  <2>7. FailureIsOwn'
    BY <1>1, <1>3, <2>1, GotMoves DEF FailureIsOwn
  <2>8. ApplicationFirst'
    BY <1>1, <1>3, <1>5, <2>1, GotMoves DEF ApplicationFirst, InCall, TypeOK
  <2>9. CreatedInApplication'
    <3> SUFFICES ASSUME goal = "in_application", NEW d \in Callers,
                        NEW o \in objects', o.kind = "project", o.id = made'[d]
                 PROVE  o.app = app'[d] /\ o.app # 0
        BY <1>1 DEF CreatedInApplication
    <3>1. CASE d = c
      <4>1. o = n
        BY <1>1, <1>2, <1>3, <3>1 DEF TypeOK
      <4>2. kind[c] = "project" /\ app[c] # 0
        BY <1>1, <1>2, <4>1 DEF ApplicationFirst, InCall
      <4>3. app' = app
        BY <1>3, <2>1, <4>2, GotMoves
      <4> QED
        BY <1>2, <3>1, <4>1, <4>2, <4>3
    <3>2. CASE d # c
      <4>1. made'[d] = made[d] /\ app'[d] = app[d]
        BY <1>1, <1>3, <2>1, <3>2, GotMoves DEF TypeOK
      <4>2. o \in objects
        BY <1>2, <1>3, <1>4, <4>1 DEF TypeOK
      <4> QED
        BY <4>1, <4>2 DEF CreatedInApplication
    <3> QED
      BY <3>1, <3>2
  <2> QED
    BY <2>2, <2>3, <2>4, <2>5, <2>6, <2>7, <2>8, <2>9
<1>6. CASE kind[c] \notin {"application", "project"}
  <2>1. PICK to \in {"get", "refind"} :
          /\ Send(c, to, kind[c]) /\ UNCHANGED <<app, result>>
          /\ kind[c] \in {"group", "user", "client"}
    BY <1>1, <1>6 DEF Created, TypeOK, Kinds
  <2>2. /\ pc' = [pc EXCEPT ![c] = to] /\ kind' = kind
        /\ tries' = [tries EXCEPT ![c] = Attempts]
    BY <2>1 DEF Send, TypeOK
  <2>3. TypeOK'
    BY <1>1, <1>2, <1>3, <2>1, <2>2 DEF TypeOK, ConstantsOK
  <2>4. Underway'
    BY <1>1, <1>3, <2>1, <2>2 DEF Underway, InCall, TypeOK, ConstantsOK
  <2>5. Identified'
    BY <1>1, CreateIdentified DEF TypeOK, n
  <2>6. OverlapNoted'
    BY <1>1, <2>2 DEF OverlapNoted, InCall, TypeOK
  <2>7. CreatesMissing' /\ OneOfAName'
    BY <1>1, <2>2, CreateNoted DEF TypeOK
  <2>8. FailureIsOwn' /\ ApplicationFirst'
    BY <1>1, <1>6, <2>1, <2>2 DEF FailureIsOwn, ApplicationFirst, InCall, TypeOK
  <2>9. CreatedInApplication'
    <3>1. \A d \in Callers : d # c => made'[d] = made[d] /\ made[d] < n.id
      BY <1>1, <1>4 DEF TypeOK
    <3>2. \A o \in objects' : o.kind = "project" => o \in objects
      BY <1>2, <2>1
    <3>3. \A o \in objects : o.id # made'[c]
      BY <1>1, <1>2, <1>3 DEF TypeOK
    <3> QED
      BY <1>1, <2>1, <3>1, <3>2, <3>3 DEF CreatedInApplication
  <2> QED
    BY <2>3, <2>4, <2>5, <2>6, <2>7, <2>8, <2>9
<1> QED
    BY <1>5, <1>6

\* A call ends without its object: refused, in conflict, or out of attempts.
LEMMA FailedInv ==
    ASSUME ConstantsOK, IInv, NEW c \in Callers, InCall(c),
           Return(c, Failed), trouble'[c],
           trouble' \in [Callers -> BOOLEAN],
           \A d \in Callers : trouble[d] => trouble'[d],
           UNCHANGED <<platform, locals, calls, excused>>
    PROVE  IInv'
<1> USE DEF IInv, Safe, platform, locals
<1>1. /\ pc' = [pc EXCEPT ![c] = "idle"]
      /\ result' = [result EXCEPT ![c] = Failed]
    BY DEF Return
<1>2. TypeOK'
    BY <1>1 DEF TypeOK
<1>3. Underway'
    BY <1>1, Outcomes DEF Underway, InCall, TypeOK
<1>4. Identified'
    BY StillIdentified
<1>5. OverlapNoted' /\ CreatesMissing' /\ OneOfAName'
    BY <1>1, BearingAfter
       DEF OverlapNoted, CreatesMissing, OneOfAName, InCall, TypeOK
<1>6. FailureIsOwn' /\ ApplicationFirst' /\ CreatedInApplication'
    BY <1>1 DEF FailureIsOwn, ApplicationFirst, CreatedInApplication, InCall,
        TypeOK, Underway
<1> QED
    BY <1>2, <1>3, <1>4, <1>5, <1>6

\* A request that is not answered, carried out or not, is sent again or was the
\* last of its call.
LEMMA UnansweredInv ==
    ASSUME ConstantsOK, IInv, NEW c \in Callers, Unanswered(c) PROVE IInv'
<1> USE DEF IInv, Safe
<1>1. /\ InCall(c) /\ tries[c] >= 1
      /\ trouble' = [trouble EXCEPT ![c] = TRUE]
      /\ tries' = [tries EXCEPT ![c] = tries[c] - 1]
      /\ UNCHANGED <<goal, unique, decoys, kind, app, made, calls>>
      /\ excused' \in BOOLEAN /\ (excused => excused')
  <2>1. InCall(c)
    BY DEF Unanswered, InCall
  <2>2. tries[c] >= 1 /\ excused \in BOOLEAN
    BY <2>1 DEF Underway
  <2>3. excused' = excused \/ excused' = TRUE
    BY DEF Unanswered
  <2>4. excused' \in BOOLEAN /\ (excused => excused')
    BY <2>2, <2>3
  <2>5. UNCHANGED <<goal, unique, decoys>>
    BY DEF Unanswered, Create, platform
  <2>6. /\ trouble' = [trouble EXCEPT ![c] = TRUE]
        /\ tries' = [tries EXCEPT ![c] = tries[c] - 1]
        /\ UNCHANGED <<kind, app, made, calls>>
    BY DEF Unanswered
  <2> QED
    BY <2>1, <2>2, <2>4, <2>5, <2>6
<1>2. \/ tries[c] > 1 /\ UNCHANGED <<pc, result>>
      \/ /\ pc' = [pc EXCEPT ![c] = "idle"]
         /\ result' = [result EXCEPT ![c] = Failed]
    BY DEF Unanswered, Return
<1>3. \/ UNCHANGED <<objects, excused>>
      \/ pc[c] = "create" /\ Create(c) /\ excused' = TRUE
    BY DEF Unanswered
<1>4. /\ objects' \subseteq [kind : Kinds, id : 1 .. MaxObjects, app : 0 .. MaxObjects]
      /\ \A o \in objects' : o \in objects \/ \A d \in Callers : made[d] < o.id
    <2>1. CASE objects' = objects
      BY <2>1 DEF TypeOK
    <2>2. CASE Create(c)
      BY <2>2, CreateAdds DEF TypeOK, Identified
    <2> QED
      BY <1>3, <2>1, <2>2
<1>5. TypeOK'
  <2>1. pc' \in [Callers -> {"idle", "find", "create", "get", "refind"}]
    BY <1>2 DEF TypeOK
  <2>2. tries' \in [Callers -> 0 .. Attempts]
    BY <1>1 DEF TypeOK, ConstantsOK
  <2> QED
    BY <1>1, <1>4, <2>1, <2>2 DEF TypeOK
<1>6. Underway'
  <2>1. /\ result' \in [Callers -> [done : BOOLEAN, ok : BOOLEAN, id : Nat]]
        /\ trouble' \in [Callers -> BOOLEAN]
    BY <1>1, <1>2, Outcomes DEF Underway
  <2>2. \A d \in Callers : InCall(d)' => InCall(d) /\ pc'[d] = pc[d]
    BY <1>2 DEF InCall, TypeOK
  <2>3. \A d \in Callers \ {c} : tries'[d] = tries[d]
    BY <1>1 DEF TypeOK
  <2>4. InCall(c)' => tries'[c] >= 1
    BY <1>1, <1>2 DEF InCall, TypeOK
  <2>5. \A d \in Callers : InCall(d)' => tries'[d] >= 1
    BY <2>2, <2>3, <2>4 DEF Underway
  <2> QED
    BY <1>1, <2>1, <2>2, <2>5 DEF Underway, InCall
<1>7. Identified'
    BY <1>1, <1>3, StillIdentified, CreateIdentified
<1>8. \A d \in Callers : trouble[d] => trouble'[d]
    BY <1>1 DEF Underway
<1>9. OverlapNoted'
    BY <1>1, <1>2, <1>8 DEF OverlapNoted, InCall, TypeOK
<1>10. CreatesMissing' /\ OneOfAName'
  <2>1. CASE UNCHANGED <<objects, excused>>
    BY <1>1, <1>2, <1>8, <2>1, BearingAfter
       DEF CreatesMissing, OneOfAName, TypeOK
  <2>2. CASE pc[c] = "create" /\ Create(c) /\ excused' = TRUE
    <3>1. trouble'[c] /\ kind'[c] \in Kinds
      BY <1>1 DEF Underway, TypeOK
    <3>2. \A d \in Callers \ {c} : pc'[d] = pc[d] /\ kind'[d] = kind[d]
      BY <1>1, <1>2 DEF TypeOK
    <3> QED
      BY <1>1, <1>8, <2>2, <3>1, <3>2, CreateNoted
  <2> QED
    BY <1>3, <2>1, <2>2
<1>11. FailureIsOwn'
    BY <1>1, <1>2 DEF FailureIsOwn, Underway
<1>12. ApplicationFirst' /\ CreatedInApplication'
    BY <1>1, <1>2, <1>4
       DEF ApplicationFirst, CreatedInApplication, InCall, TypeOK
<1> QED
    BY <1>5, <1>6, <1>7, <1>9, <1>10, <1>11, <1>12

\* Every step preserves the invariant.
LEMMA NextInv == ConstantsOK /\ IInv /\ [Next]_vars => IInv'
<1> SUFFICES ASSUME ConstantsOK, IInv, [Next]_vars PROVE IInv'
    OBVIOUS
<1>1. ASSUME NEW c \in Callers, Found(c) PROVE IInv'
  <2>1. PICK o \in Bearing(kind[c]) : Got(c, o.id)
    BY <1>1 DEF Found
  <2>2. o.id \in 1 .. MaxObjects
    BY DEF Bearing, IInv, TypeOK
  <2> QED
    BY <1>1, <2>1, <2>2, GotInv DEF Found, InCall
<1>2. ASSUME NEW c \in Callers, ReadBack(c) PROVE IInv'
  <2>1. CASE pc[c] = "get" /\ Got(c, made[c])
    <3>1. made[c] \in 1 .. MaxObjects
      BY <2>1 DEF IInv, Safe, Underway, TypeOK
    <3> QED
      BY <1>2, <2>1, <3>1, GotInv DEF ReadBack, InCall
  <2>2. CASE pc[c] = "refind" /\ \E o \in Bearing("client") : Got(c, o.id)
    <3>1. PICK o \in Bearing("client") : Got(c, o.id)
      BY <2>2
    <3>2. o.id \in 1 .. MaxObjects
      BY DEF Bearing, IInv, TypeOK
    <3> QED
      BY <1>2, <2>2, <3>1, <3>2, GotInv DEF ReadBack, InCall
  <2> QED
    BY <1>2, <2>1, <2>2 DEF ReadBack
<1>3. ASSUME NEW c \in Callers, Conflict(c) PROVE IInv'
  <2>1. trouble[c]
    BY <1>3 DEF Conflict, Taken, IInv, Safe, CreatesMissing
  <2> QED
    BY <1>3, <2>1, FailedInv DEF Conflict, InCall, IInv, Safe, Underway
<1>4. ASSUME NEW c \in Callers, Refused(c) PROVE IInv'
    BY <1>4, FailedInv DEF Refused, InCall, IInv, Safe, Underway
<1>5. CASE UNCHANGED vars
    BY <1>5 DEF vars, platform, locals, IInv, Safe, TypeOK, Underway, Identified,
        OverlapNoted, CreatesMissing, OneOfAName, ApplicationFirst, FailureIsOwn,
        CreatedInApplication, InCall, Bearing
<1> QED
    BY <1>1, <1>2, <1>3, <1>4, <1>5, BeginInv, NotFoundInv, CreatedInv,
       UnansweredInv DEF Next, Step

\* The inductive invariant holds in every reachable state.
LEMMA Invariance == ASSUME ConstantsOK PROVE Spec => []IInv
BY InitInv, NextInv, PTL DEF Spec

\* What the invariant says of the single properties.
LEMMA Consequences ==
    IInv => TypeOK /\ DuplicatesExplained /\ FailureIsOwn /\ CreatedInApplication
<1> SUFFICES ASSUME IInv, NEW k \in Kinds, Cardinality(Bearing(k)) > 1
             PROVE  ~unique /\ excused
    BY DEF IInv, Safe, DuplicatesExplained
<1>1. IsFiniteSet(Bearing(k))
    BY FS_Subset DEF Bearing, IInv, Safe, Identified
<1>2. Bearing(k) # {}
    BY FS_EmptySet
<1>3. PICK o \in Bearing(k) : TRUE
    BY <1>2
<1>4. Bearing(k) # {o}
    BY FS_Singleton
<1>5. PICK q \in Bearing(k) : q # o
    BY <1>3, <1>4
<1> QED
    BY <1>3, <1>5 DEF IInv, Safe, OneOfAName

-----------------------------------------------------------------------------
(* What follows.                                                           *)

\* Type correctness of the get-or-create helpers.
THEOREM TypeCorrect == ASSUME ConstantsOK PROVE Spec => []TypeOK
BY Consequences, Invariance, PTL

\* Every duplicate has one of the known causes, and none occurs on a platform
\* that refuses them, whatever fails and is sent again.
THEOREM DuplicatesHaveCauses ==
    ASSUME ConstantsOK PROVE Spec => []DuplicatesExplained
BY Consequences, Invariance, PTL

\* A failed call has met its failure itself: what earlier calls left behind
\* never makes one fail.
THEOREM FailuresAreOwn == ASSUME ConstantsOK PROVE Spec => []FailureIsOwn
BY Consequences, Invariance, PTL

\* A project created for an application is created in the one that its call
\* found or created.
THEOREM ProjectsAreInApplication ==
    ASSUME ConstantsOK PROVE Spec => []CreatedInApplication
BY Consequences, Invariance, PTL
=============================================================================
