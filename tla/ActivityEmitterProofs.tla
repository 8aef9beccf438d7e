------------------------- MODULE ActivityEmitterProofs -------------------------
(***************************************************************************)
(* That the events of any number of tool runs have different ids, and that *)
(* those of each run are in order.                                         *)
(***************************************************************************)
EXTENDS ActivityEmitter, SequenceTheorems, TLAPS

Newsworthy == {"started", "completed", "failed"}
Id         == (({ToolOf[r] : r \in Run} \X Newsworthy) \X Nat) \cup {<<>>}

Typed ==
    /\ status \in [Run -> Status]
    /\ context \subseteq Run
    /\ sequence \in Nat
    /\ seen \subseteq Id \ {<<>>}
    /\ emission \in [Run -> [stage : Stage, id : Id, number : Nat]]
    /\ queue \in Seq([by : Run, news : Newsworthy, id : Id, number : Nat])

Telling(r)  == status[r] \in {"starting", "completing", "failing"}
Building(r) == emission[r].stage # "none"
Named(r)    == emission[r].stage \in {"named", "numbered"}

\* An id in use was reserved under a number the emitter has counted.
SeenOK == \A id \in seen : id[2] \in 1 .. sequence

\* What is queued has an id of its own.
QueueOK ==
    /\ \A i \in 1 .. Len(queue) : queue[i].number \in 1 .. sequence /\ queue[i].id \in seen
    /\ \A i, j \in 1 .. Len(queue) : queue[i].id = queue[j].id => i = j

\* So has what is being built, from the moment its id is reserved.
EmissionOK ==
    /\ \A r \in Run : Building(r) => Telling(r) /\ sequence > 0
    /\ \A r \in Run : emission[r].stage = "numbered" => emission[r].number \in 1 .. sequence
    /\ \A r \in Run : Named(r) =>
          /\ emission[r].id \in seen
          /\ \A i \in 1 .. Len(queue) : queue[i].id # emission[r].id
    /\ \A r, q \in Run : Named(r) /\ Named(q) /\ emission[r].id = emission[q].id => r = q

\* A run queues nothing before its start, only its start before its end, and
\* builds its end under a number raised since.
OrderOK ==
    \A i \in 1 .. Len(queue), r \in Run : queue[i].by = r =>
        /\ status[r] \notin {"unborn", "starting"}
        /\ status[r] # "done" => queue[i].news = "started"
        /\ emission[r].stage \in {"counted", "named"} => queue[i].number < sequence
        /\ emission[r].stage = "numbered" => queue[i].number < emission[r].number

InOrder ==
    \A i, j \in 1 .. Len(queue) : i < j /\ queue[i].by = queue[j].by =>
        /\ queue[i].news = "started" /\ queue[j].news # "started"
        /\ queue[i].number < queue[j].number

Inv == Typed /\ SeenOK /\ QueueOK /\ EmissionOK /\ OrderOK /\ InOrder

-----------------------------------------------------------------------------

LEMMA QueueType ==
    ASSUME Typed
    PROVE  /\ DOMAIN queue = 1 .. Len(queue)
           /\ \A i \in 1 .. Len(queue) : queue[i].by \in Run /\ queue[i].number \in Nat
<1> DEFINE Record == [by : Run, news : Newsworthy, id : Id, number : Nat]
<1>1. queue \in Seq(Record)  BY DEF Typed
<1>2. queue \in [1 .. Len(queue) -> Record]
  <2> HIDE DEF Record
  <2>q. QED BY <1>1, LenProperties
<1>q. QED BY <1>2

\* A run that is telling something has news, and a key made of it.
LEMMA NewsType ==
    ASSUME Typed, NEW r \in Run, Telling(r)
    PROVE  /\ News(r) \in Newsworthy
           /\ KeyOf(r) \in {ToolOf[q] : q \in Run} \X Newsworthy
           /\ News(r) = "started" <=> status[r] = "starting"
<1>1. News(r) \in Newsworthy /\ (News(r) = "started" <=> status[r] = "starting")
  <2>1. CASE status[r] = "starting"    BY <2>1 DEF News, Newsworthy
  <2>2. CASE status[r] = "completing"  BY <2>2 DEF News, Newsworthy
  <2>3. CASE status[r] = "failing"     BY <2>3 DEF News, Newsworthy
  <2>q. QED BY <2>1, <2>2, <2>3 DEF Telling
<1>q. QED BY <1>1 DEF KeyOf

LEMMA InvInit == Init => Inv
<1> SUFFICES ASSUME Init PROVE Inv  OBVIOUS
<1>1. Typed  BY DEF Init, Typed, Status, Stage, NoEvent, Id
<1>2. SeenOK /\ QueueOK /\ OrderOK /\ InOrder
  BY DEF Init, SeenOK, QueueOK, OrderOK, InOrder
<1>3. EmissionOK  BY DEF Init, EmissionOK, Building, Named, NoEvent
<1>q. QED BY <1>1, <1>2, <1>3 DEF Inv

\* A handler that is called changes only where its run is.
LEMMA InvHandler ==
    ASSUME Inv, NEW r \in Run, OnToolStart(r) \/ OnToolEnd(r)
    PROVE  Inv'
<1> USE DEF Inv
<1>1. /\ status[r] \in {"unborn", "running"}
      /\ UNCHANGED <<sequence, seen, emission, queue>>
      /\ \A q \in Run \ {r} : status'[q] = status[q]
      /\ \/ status[r] = "unborn" /\ status'[r] = "starting"
         \/ status[r] = "running" /\ status'[r] \in {"completing", "failing", "done"}
      /\ status' \in [Run -> Status] /\ context' \subseteq Run
  BY DEF OnToolStart, OnToolEnd, Typed, Status
<1>2. ~Building(r)  BY <1>1 DEF EmissionOK, Telling
<1>3. Typed'  BY <1>1 DEF Typed
<1>4. (SeenOK /\ QueueOK /\ InOrder)'  BY <1>1 DEF SeenOK, QueueOK, InOrder
<1>5. EmissionOK'  BY <1>1, <1>2 DEF EmissionOK, Building, Named, Telling
<1>6. OrderOK'  BY <1>1, <1>2, QueueType DEF OrderOK, Building
<1>q. QED BY <1>3, <1>4, <1>5, <1>6

LEMMA InvCount ==
    ASSUME Inv, NEW r \in Run, Count(r)
    PROVE  Inv'
<1> USE DEF Inv
<1>1. /\ Telling(r) /\ sequence' = sequence + 1 /\ sequence \in Nat
      /\ UNCHANGED <<status, context, seen, queue>>
      /\ emission'[r].stage = "counted"
      /\ \A q \in Run \ {r} : emission'[q] = emission[q]
      /\ emission' \in [Run -> [stage : Stage, id : Id, number : Nat]]
  BY DEF Count, Telling, Typed, Stage
<1>2. Typed'  BY <1>1 DEF Typed
<1>3. (SeenOK /\ InOrder)'  BY <1>1 DEF SeenOK, InOrder
<1>4. QueueOK'  BY <1>1 DEF QueueOK
<1>5. EmissionOK'
  <2>1. \A q \in Run : Named(q)' => q # r /\ Named(q) /\ emission'[q] = emission[q]
    BY <1>1 DEF Named
  <2>2. \A q \in Run : Building(q)' => Telling(q)' /\ sequence' > 0
    BY <1>1 DEF EmissionOK, Building, Telling
  <2>3. \A q \in Run : (emission[q].stage = "numbered" => emission[q].number \in 1 .. sequence)'
    BY <1>1 DEF EmissionOK
  <2>4. \A q \in Run : Named(q)' =>
           /\ emission'[q].id \in seen'
           /\ \A i \in 1 .. Len(queue') : queue'[i].id # emission'[q].id
    BY <1>1, <2>1 DEF EmissionOK
  <2>5. \A p, q \in Run : Named(p)' /\ Named(q)' /\ emission'[p].id = emission'[q].id => p = q
    BY <2>1 DEF EmissionOK
  <2>q. QED BY <2>2, <2>3, <2>4, <2>5 DEF EmissionOK
<1>6. OrderOK'
  BY <1>1, QueueType DEF OrderOK, QueueOK
<1>q. QED BY <1>2, <1>3, <1>4, <1>5, <1>6

LEMMA InvReserve ==
    ASSUME Inv, NEW r \in Run, Reserve(r)
    PROVE  Inv'
<1> USE DEF Inv
<1> DEFINE id == <<KeyOf(r), sequence>>
<1>1. /\ emission[r].stage = "counted" /\ Telling(r)
      /\ sequence \in Nat /\ sequence > 0
      /\ UNCHANGED <<status, context, queue>>
  BY DEF Reserve, EmissionOK, Building, Typed
<1>2. id \in Id \ {<<>>}  BY <1>1, NewsType DEF Id
<1>3. CASE id \in seen
  <2>1. sequence' = sequence + 1 /\ UNCHANGED <<seen, emission>>  BY <1>3 DEF Reserve
  <2>2. Typed'  BY <1>1, <2>1 DEF Typed
  <2>3. (SeenOK /\ QueueOK /\ InOrder)'  BY <1>1, <2>1 DEF SeenOK, QueueOK, InOrder
  <2>4. EmissionOK'  BY <1>1, <2>1 DEF EmissionOK, Building, Named, Telling
  <2>5. OrderOK'  BY <1>1, <2>1, QueueType DEF OrderOK, QueueOK
  <2>q. QED BY <2>2, <2>3, <2>4, <2>5
<1>4. CASE id \notin seen
  <2>1. /\ seen' = seen \cup {id} /\ sequence' = sequence
        /\ emission'[r].stage = "named" /\ emission'[r].id = id
        /\ \A q \in Run \ {r} : emission'[q] = emission[q]
        /\ emission' \in [Run -> [stage : Stage, id : Id, number : Nat]]
    <3>1. seen' = seen \cup {id} /\ sequence' = sequence
      BY <1>4 DEF Reserve
    <3>2. emission' = [emission EXCEPT ![r].stage = "named", ![r].id = id]
      BY <1>4 DEF Reserve
    <3>3. emission \in [Run -> [stage : Stage, id : Id, number : Nat]]  BY DEF Typed
    <3>4. "named" \in Stage  BY DEF Stage
    <3>q. QED BY <1>2, <3>1, <3>2, <3>3, <3>4
  <2>2. Typed'  BY <1>1, <1>2, <2>1 DEF Typed
  <2>3. (SeenOK /\ QueueOK /\ InOrder)'  BY <1>1, <2>1 DEF SeenOK, QueueOK, InOrder
  <2>4. EmissionOK'
    <3>1. \A q \in Run : Building(q)' => Telling(q)' /\ sequence' > 0
      BY <1>1, <2>1 DEF EmissionOK, Building, Telling
    <3>2. \A q \in Run : (emission[q].stage = "numbered" => emission[q].number \in 1 .. sequence)'
      BY <1>1, <2>1 DEF EmissionOK
    <3>3. \A q \in Run : Named(q)' =>
             /\ emission'[q].id \in seen'
             /\ \A i \in 1 .. Len(queue') : queue'[i].id # emission'[q].id
      BY <1>1, <1>4, <2>1 DEF EmissionOK, QueueOK, Named
    <3>4. \A p, q \in Run : Named(p)' /\ Named(q)' /\ emission'[p].id = emission'[q].id => p = q
      BY <1>4, <2>1 DEF EmissionOK, Named
    <3>q. QED BY <3>1, <3>2, <3>3, <3>4 DEF EmissionOK
  <2>5. OrderOK'
    <3> SUFFICES ASSUME NEW i \in 1 .. Len(queue), NEW q \in Run, queue[i].by = q
                 PROVE  /\ emission'[q].stage \in {"counted", "named"} => queue[i].number < sequence
                        /\ emission'[q].stage = "numbered" => queue[i].number < emission'[q].number
      BY <1>1, <2>1 DEF OrderOK
    <3>1. CASE q = r   BY <1>1, <2>1, <3>1 DEF OrderOK
    <3>2. CASE q # r   BY <2>1, <3>2 DEF OrderOK
    <3>q. QED BY <3>1, <3>2
  <2>q. QED BY <2>2, <2>3, <2>4, <2>5
<1>q. QED BY <1>3, <1>4

LEMMA InvNumber ==
    ASSUME Inv, NEW r \in Run, Number(r)
    PROVE  Inv'
<1> USE DEF Inv
<1>1. /\ emission[r].stage = "named" /\ Named(r) /\ Telling(r)
      /\ sequence \in Nat /\ sequence > 0
      /\ UNCHANGED <<status, context, sequence, seen, queue>>
      /\ emission'[r].stage = "numbered" /\ emission'[r].number = sequence
      /\ \A q \in Run : emission'[q].id = emission[q].id
      /\ \A q \in Run \ {r} : emission'[q] = emission[q]
      /\ emission' \in [Run -> [stage : Stage, id : Id, number : Nat]]
  BY DEF Number, EmissionOK, Building, Named, Typed, Stage
<1>2. Typed'  BY <1>1 DEF Typed
<1>3. (SeenOK /\ QueueOK /\ InOrder)'  BY <1>1 DEF SeenOK, QueueOK, InOrder
<1>4. \A q \in Run : Named(q)' <=> Named(q)  BY <1>1 DEF Named
<1>5. EmissionOK'
  <2>1. \A q \in Run : Building(q)' => Telling(q)' /\ sequence' > 0
    BY <1>1 DEF EmissionOK, Building, Telling
  <2>2. \A q \in Run : (emission[q].stage = "numbered" => emission[q].number \in 1 .. sequence)'
    BY <1>1 DEF EmissionOK
  <2>3. \A q \in Run : Named(q)' =>
           /\ emission'[q].id \in seen'
           /\ \A i \in 1 .. Len(queue') : queue'[i].id # emission'[q].id
    BY <1>1, <1>4 DEF EmissionOK
  <2>4. \A p, q \in Run : Named(p)' /\ Named(q)' /\ emission'[p].id = emission'[q].id => p = q
    BY <1>1, <1>4 DEF EmissionOK
  <2>q. QED BY <2>1, <2>2, <2>3, <2>4 DEF EmissionOK
<1>6. OrderOK'  BY <1>1, QueueType DEF OrderOK
<1>q. QED BY <1>2, <1>3, <1>5, <1>6

LEMMA InvPut ==
    ASSUME Inv, NEW r \in Run, Put(r)
    PROVE  Inv'
<1> USE DEF Inv
<1> DEFINE n == Len(queue) + 1
           e == emission[r]
<1>1. /\ e.stage = "numbered" /\ Named(r) /\ Telling(r)
      /\ e \in [stage : Stage, id : Id, number : Nat]
      /\ e.number \in 1 .. sequence /\ e.id \in seen /\ sequence \in Nat
      /\ UNCHANGED <<context, sequence, seen>>
  BY DEF Put, EmissionOK, Building, Named, Typed
<1>2. News(r) \in Newsworthy /\ (News(r) = "started" <=> status[r] = "starting")
  BY <1>1, NewsType
<1>3. /\ Event(r) \in [by : Run, news : Newsworthy, id : Id, number : Nat]
      /\ Event(r).by = r /\ Event(r).news = News(r)
      /\ Event(r).id = e.id /\ Event(r).number = e.number
  BY <1>1, <1>2 DEF Event
<1>4. /\ queue' \in Seq([by : Run, news : Newsworthy, id : Id, number : Nat])
      /\ Len(queue') = n /\ Len(queue) \in Nat
      /\ queue'[n] = Event(r)
      /\ \A i \in 1 .. Len(queue) : queue'[i] = queue[i]
      /\ \A i \in 1 .. Len(queue') : i \in 1 .. Len(queue) \/ i = n
  BY <1>3 DEF Put, Typed
<1>5. /\ emission' = [emission EXCEPT ![r] = NoEvent]
      /\ ~Building(r)' /\ ~Named(r)'
      /\ \A q \in Run \ {r} : emission'[q] = emission[q]
      /\ emission' \in [Run -> [stage : Stage, id : Id, number : Nat]]
  BY DEF Put, Typed, NoEvent, Building, Named, Stage, Id
<1>6. /\ status' \in [Run -> Status]
      /\ \A q \in Run \ {r} : status'[q] = status[q]
      /\ status'[r] = IF status[r] = "starting" THEN "running" ELSE "done"
  BY DEF Put, Typed, Status
<1>7. Typed' /\ SeenOK'  BY <1>1, <1>4, <1>5, <1>6 DEF Typed, SeenOK
<1>8. QueueOK'
  <2>1. \A i \in 1 .. Len(queue') : queue'[i].number \in 1 .. sequence' /\ queue'[i].id \in seen'
    BY <1>1, <1>3, <1>4 DEF QueueOK
  <2>2. \A i \in 1 .. Len(queue) : queue[i].id # e.id  BY <1>1 DEF EmissionOK
  <2>3. \A i, j \in 1 .. Len(queue') : queue'[i].id = queue'[j].id => i = j
    BY <1>3, <1>4, <2>2 DEF QueueOK
  <2>q. QED BY <2>1, <2>3 DEF QueueOK
<1>9. EmissionOK'
  <2>1. \A q \in Run : Building(q)' => Telling(q)' /\ sequence' > 0
    BY <1>1, <1>5, <1>6 DEF EmissionOK, Building, Telling
  <2>2. \A q \in Run : (emission[q].stage = "numbered" => emission[q].number \in 1 .. sequence)'
    BY <1>1, <1>5 DEF EmissionOK, Building
  <2>3. ASSUME NEW q \in Run, Named(q)'
        PROVE  /\ emission'[q].id \in seen'
               /\ \A i \in 1 .. Len(queue') : queue'[i].id # emission'[q].id
    <3>1. q # r /\ Named(q) /\ emission'[q] = emission[q]  BY <1>5, <2>3 DEF Named
    <3>2. emission[q].id # e.id  BY <1>1, <3>1 DEF EmissionOK
    <3>q. QED BY <1>1, <1>3, <1>4, <3>1, <3>2 DEF EmissionOK
  <2>4. \A p, q \in Run : Named(p)' /\ Named(q)' /\ emission'[p].id = emission'[q].id => p = q
    BY <1>5 DEF EmissionOK, Named
  <2>q. QED BY <2>1, <2>2, <2>3, <2>4 DEF EmissionOK
<1>10. \A i \in 1 .. Len(queue) : queue[i].by = r =>
          /\ status[r] # "starting"
          /\ queue[i].news = "started" /\ queue[i].number < e.number
  BY <1>1 DEF OrderOK, Telling
<1>11. OrderOK'
  <2> SUFFICES ASSUME NEW i \in 1 .. Len(queue'), NEW q \in Run, q = queue'[i].by
               PROVE  /\ status'[q] \notin {"unborn", "starting"}
                      /\ status'[q] # "done" => queue'[i].news = "started"
                      /\ emission'[q].stage \in {"counted", "named"} => queue'[i].number < sequence'
                      /\ emission'[q].stage = "numbered" => queue'[i].number < emission'[q].number
    BY <1>4 DEF OrderOK
  <2>1. CASE q = r
    <3>1. status'[q] # "done" => queue'[i].news = "started"
      BY <1>2, <1>3, <1>4, <1>6, <1>10, <2>1
    <3>q. QED BY <1>5, <1>6, <2>1, <3>1 DEF Building
  <2>2. CASE q # r
    <3>1. i \in 1 .. Len(queue) /\ queue'[i] = queue[i]  BY <1>3, <1>4, <2>2
    <3>q. QED BY <1>1, <1>5, <1>6, <2>2, <3>1 DEF OrderOK
  <2>q. QED BY <2>1, <2>2
<1>12. InOrder'
  <2> SUFFICES ASSUME NEW i \in 1 .. Len(queue'), NEW j \in 1 .. Len(queue'),
                      i < j, queue'[i].by = queue'[j].by
               PROVE  /\ queue'[i].news = "started" /\ queue'[j].news # "started"
                      /\ queue'[i].number < queue'[j].number
    BY DEF InOrder
  <2>1. i \in 1 .. Len(queue) /\ queue'[i] = queue[i]  BY <1>4
  <2>2. CASE j \in 1 .. Len(queue)  BY <1>4, <2>1, <2>2 DEF InOrder
  <2>3. CASE j = n
    <3>1. queue'[j] = Event(r) /\ queue[i].by = r  BY <1>3, <1>4, <2>1, <2>3
    <3>2. queue[i].news = "started" /\ queue[i].number < e.number /\ News(r) # "started"
      BY <1>2, <1>10, <2>1, <3>1
    <3>q. QED BY <1>3, <2>1, <3>1, <3>2
  <2>q. QED BY <1>4, <2>2, <2>3
<1>q. QED BY <1>7, <1>8, <1>9, <1>11, <1>12

\* The inductive invariant behind the two theorems below.
THEOREM EmitterInvariant == Spec => []Inv
<1>1. Inv /\ [Next]_vars => Inv'
  <2> SUFFICES ASSUME Inv, [Next]_vars PROVE Inv'  OBVIOUS
  <2>1. CASE Next
    <3>1. PICK r \in Run : \/ OnToolStart(r) \/ OnToolEnd(r)
                           \/ Count(r) \/ Reserve(r) \/ Number(r) \/ Put(r)
      BY <2>1 DEF Next
    <3>q. QED BY <3>1, InvHandler, InvCount, InvReserve, InvNumber, InvPut
  <2>2. CASE UNCHANGED vars
    <3>1. UNCHANGED <<status, context, sequence, seen, emission, queue>>  BY <2>2 DEF vars
    <3>2. Typed' /\ SeenOK' /\ InOrder'  BY <3>1 DEF Inv, Typed, SeenOK, InOrder
    <3>3. QueueOK' /\ OrderOK'  BY <3>1 DEF Inv, QueueOK, OrderOK
    <3>4. EmissionOK'  BY <3>1 DEF Inv, EmissionOK, Building, Named, Telling
    <3>q. QED BY <3>2, <3>3, <3>4 DEF Inv
  <2>q. QED BY <2>1, <2>2
<1>q. QED BY <1>1, InvInit, PTL DEF Spec

\* No two events have the same id, however many tools run at the same time
\* (ActivityEmitter._unique_event_id).
THEOREM IdsAreUnique == Spec => []IdsDiffer
<1>1. Inv => IdsDiffer  BY QueueType DEF Inv, QueueOK, IdsDiffer
<1>q. QED BY <1>1, EmitterInvariant, PTL

\* Each run's own events are in order, whatever the others do.
THEOREM EachRunIsInOrder == Spec => []RunsInOrder
<1>1. Inv => RunsInOrder  BY QueueType DEF Inv, InOrder, RunsInOrder
<1>q. QED BY <1>1, EmitterInvariant, PTL

\* The variables keep their types, and no number is used before it is counted.
THEOREM EmitterTypes == Spec => []TypeOK
<1>1. Inv => TypeOK
  BY DEF Inv, Typed, SeenOK, QueueOK, TypeOK
<1>q. QED BY <1>1, EmitterInvariant, PTL
=============================================================================
