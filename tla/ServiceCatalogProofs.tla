------------------------- MODULE ServiceCatalogProofs -------------------------
(***************************************************************************)
(* What ServiceCatalog keeps for any number of requests and callers, any size of   *)
(* the tables and any faults: services may be deleted at any time, and no id comes     *)
(* to stand for another service, no subscription loses its service, and the API        *)
(* still implements its store.                                               *)
(***************************************************************************)
EXTENDS ServiceCatalog, SubscriptionRefinementProofs

-----------------------------------------------------------------------------
(* What a DELETE of a service does. *)

(* The statements of a caller: at most they remove a service that nothing refers to. *)
CallerStatement ==
  /\ UNCHANGED <<serviceSeq, subscription, subscriptionSeq, local, late>>
  /\ \/ service' = service
     \/ \E id \in ServiceID : ~InUse(id) /\ service' = [service EXCEPT ![id] = Nil]

(* Every step of a caller is such a statement. *)
LEMMA CallStatement ==
  ASSUME CatalogTypeOK, NEW c \in Caller, Call(c)
  PROVE  CallerStatement
<1>1. /\ arg[c] \in ServiceID \cup {Nil} /\ (arg[c] = Nil <=> at[c] = "idle")
  BY DEF CatalogTypeOK
<1>2. CASE Invoke(c) \/ GetServiceName(c) \/ CountSubscriptions(c) \/ Leave(c)
  BY <1>2 DEF Invoke, GetServiceName, CountSubscriptions, Leave, CallerStatement, vars, tables
<1>3. CASE DeleteServiceRow(c)
  <2>1. arg[c] \in ServiceID
    BY <1>1, <1>3 DEF DeleteServiceRow
  <2> QED BY <1>3, <2>1 DEF DeleteServiceRow, CallerStatement
<1>4. CASE CallerFails(c)
  <2>1. arg[c] \in ServiceID
    BY <1>1, <1>4 DEF CallerFails
  <2> QED BY <1>4, <2>1 DEF CallerFails, CallerStatement
<1> QED BY <1>2, <1>3, <1>4 DEF Call

(* It leaves the schema in force, and the checks of every worker passed. *)
LEMMA StatementSound ==
  ASSUME Sound, CallerStatement
  PROVE  /\ Sound'
         /\ \A id \in ServiceID : service'[id] \in {service[id], Nil}
         /\ \A id \in SubscriptionID :
              subscription[id] # Nil => service'[subscription[id].service]
                                          = service[subscription[id].service]
<1>1. TypeOK /\ TablesOK /\ service \in [ServiceID -> StoredName \cup {Nil}]
  BY DEF Sound, TypeOK, PostgresTypeOK
<1>2. /\ serviceSeq' = serviceSeq /\ subscription' = subscription
      /\ subscriptionSeq' = subscriptionSeq
      /\ pc' = pc /\ req' = req /\ svc' = svc /\ answer' = answer /\ late' = late
  BY DEF CallerStatement, local
<1>3. /\ service' \in [ServiceID -> StoredName \cup {Nil}]
      /\ \A id \in ServiceID : service'[id] \in {service[id], Nil}
  BY <1>1 DEF CallerStatement
<1>4. ASSUME NEW id \in SubscriptionID, subscription[id] # Nil
      PROVE  service'[subscription[id].service] = service[subscription[id].service]
  <2>1. CASE service' = service
    BY <2>1
  <2>2. ASSUME NEW gone \in ServiceID, ~InUse(gone), service' = [service EXCEPT ![gone] = Nil]
        PROVE  service'[subscription[id].service] = service[subscription[id].service]
    <3>1. subscription[id].service # gone
      BY <1>4, <2>2 DEF InUse
    <3>2. subscription[id].service \in ServiceID
      BY <1>1, <1>4 DEF TablesOK, PostgresTypeOK, Row
    <3> QED BY <1>1, <2>2, <3>1, <3>2
  <2> QED BY <2>1, <2>2 DEF CallerStatement
<1>5. TypeOK'
  BY <1>1, <1>2, <1>3 DEF TypeOK, PostgresTypeOK
<1>6. UniqueServiceName'
  <2>1. \A i, j \in ServiceID :
          service'[i] # Nil /\ service'[i] = service'[j] =>
            service[i] # Nil /\ service[i] = service[j]
    BY <1>3
  <2> QED BY <1>1, <2>1 DEF TablesOK, UniqueServiceName
<1>7. ReferencedServiceExists'
  BY <1>1, <1>2, <1>4 DEF TablesOK, ReferencedServiceExists
<1>8. SequencesAhead'
  BY <1>1, <1>2, <1>3 DEF TablesOK, SequencesAhead
<1>9. UniqueSubscription' /\ DatesOrdered'
  BY <1>1, <1>2 DEF TablesOK, UniqueSubscription, UniqueViolation, DatesOrdered
<1>10. TablesOK'
  BY <1>5, <1>6, <1>7, <1>8, <1>9 DEF TablesOK, TypeOK
<1> QED BY <1>2, <1>3, <1>4, <1>5, <1>10 DEF Sound

-----------------------------------------------------------------------------
(* An id that was given out for a name stays given out for it. *)

(* No statement of a request takes it away, *)
LEMMA GivenForStays ==
  ASSUME Sound, [Next]_vars, NEW id \in ServiceID, NEW name, GivenFor(id, name)
  PROVE  id < serviceSeq' /\ name \in StoredName /\ service'[id] \in {name, Nil}
<1>1. serviceSeq \in Int /\ serviceSeq' \in Int /\ id \in Int
  BY NextSound, TableAssumption DEF Sound, TypeOK, PostgresTypeOK, ServiceID
<1>2. service'[id] = service[id] /\ serviceSeq' >= serviceSeq
  BY ServicesStay DEF GivenFor
<1> QED BY <1>1, <1>2 DEF GivenFor, OfOrGone

(* and none of a caller. *)
LEMMA GivenForDeleted ==
  ASSUME Sound, CallerStatement, NEW id \in ServiceID, NEW name, GivenFor(id, name)
  PROVE  id < serviceSeq' /\ name \in StoredName /\ service'[id] \in {name, Nil}
<1>1. service'[id] \in {service[id], Nil} /\ serviceSeq' = serviceSeq
  BY StatementSound DEF CallerStatement
<1> QED BY <1>1 DEF GivenFor, OfOrGone

(* The steps of workers, for the callers that look on or are restarted with them. *)
LEMMA WorkersKeepNames ==
  ASSUME CatalogInv, [Next]_vars
  PROVE  /\ \A w \in Worker : svc'[w] # Nil => GivenFor(svc[w], TrimSpace(req[w].name))'
         /\ \A w \in Worker : late'[w] # Nil /\ late'[w].svc # Nil =>
              GivenFor(late[w].svc, TrimSpace(late[w].req.name))'
<1>1. Sound /\ Sound'
  BY NextSound DEF CatalogInv
<1>2. ASSUME NEW w \in Worker, svc[w] # Nil
      PROVE  svc[w] \in ServiceID /\ GivenFor(svc[w], TrimSpace(req[w].name))
  BY <1>1, <1>2, WorkerTyped DEF CatalogInv
<1>3. ASSUME NEW w \in Worker, svc'[w] # Nil
      PROVE  GivenFor(svc[w], TrimSpace(req[w].name))'
  <2>1. req'[w] = req[w] /\ svc'[w] \in ServiceID
    BY <1>1, <1>3, ResolvedSteps
  <2>2. CASE svc'[w] = svc[w]
    <3>1. GivenFor(svc[w], TrimSpace(req[w].name)) /\ svc[w] \in ServiceID
      BY <1>2, <1>3, <2>2
    <3> QED BY <1>1, <2>1, <2>2, <3>1, GivenForStays DEF GivenFor, OfOrGone
  <2>3. CASE svc'[w] # svc[w]
    <3>1. /\ service'[svc'[w]] = TrimSpace(req[w].name) /\ service'[svc'[w]] # Nil
          /\ svc'[w] < serviceSeq'
      BY <1>1, <1>3, <2>3, ResolvedSteps
    <3>2. service'[svc'[w]] \in StoredName
      BY <1>1, <2>1, <3>1 DEF Sound, TypeOK, PostgresTypeOK
    <3> QED BY <2>1, <3>1, <3>2 DEF GivenFor, OfOrGone
  <2> QED BY <2>2, <2>3
<1>4. ASSUME NEW w \in Worker, late'[w] # Nil, late'[w].svc # Nil
      PROVE  GivenFor(late[w].svc, TrimSpace(late[w].req.name))'
  <2> DEFINE id == late'[w].svc
             name == TrimSpace(late'[w].req.name)
  <2>1. GivenFor(id, name) /\ id \in ServiceID
    <3>1. CASE late'[w] = late[w]
      <4>1. late[w].svc \in ServiceID \cup {Nil}
        BY <1>1, <1>4, <3>1, WorkerTyped DEF Statement
      <4> QED BY <1>4, <3>1, <4>1 DEF CatalogInv
    <3>2. CASE late'[w].req = req[w] /\ late'[w].svc = svc[w]
      BY <1>2, <1>4, <3>2
    <3> QED BY <1>1, <1>4, <3>1, <3>2, LateSteps
  <2> QED BY <1>1, <2>1, GivenForStays DEF GivenFor, OfOrGone
<1> QED BY <1>3, <1>4

(* The callers' variables under a step that leaves the workers their share: what a caller   *)
(* was told of an id stays true of it.                                               *)
LEMMA ToldStays ==
  ASSUME CatalogInv, NEW c \in Caller, result[c] # Nil, result[c].name # Nil
  PROVE  arg[c] \in ServiceID /\ GivenFor(arg[c], result[c].name)
<1>1. at[c] = "done" /\ arg[c] # Nil /\ arg[c] \in ServiceID \cup {Nil}
  BY DEF CatalogInv, CatalogTypeOK
<1> QED BY <1>1 DEF CatalogInv

(* The results the callers return have the type of results. *)
LEMMA ResultsTyped ==
  ASSUME NEW name \in StoredName \cup {Nil},
         NEW err \in {"nil", "ErrServiceInUse", "ErrServiceNotFound", "driver"}
  PROVE  [name |-> name, err |-> err] \in Result /\ [name |-> name, err |-> err] # Nil
BY CatalogAssumption DEF Result

(* A caller that moves on keeps its variables in order, and is told names that are true. *)
LEMMA CallTyped ==
  ASSUME CatalogInv, NEW c \in Caller, Call(c)
  PROVE  /\ at' \in [Caller -> {"idle", "name", "count", "delete", "done"}]
         /\ arg' \in [Caller -> ServiceID \cup {Nil}]
         /\ result' \in [Caller -> Result \cup {Nil}]
         /\ \A d \in Caller :
              /\ arg'[d] = Nil <=> at'[d] = "idle"
              /\ result'[d] # Nil <=> at'[d] = "done"
         /\ \A d \in Caller : result'[d] # Nil /\ result'[d].name # Nil =>
              /\ arg'[d] = arg[d]
              /\ \/ result'[d] = result[d]
                 \/ result'[d].name = service[arg[d]] /\ arg[d] \in ServiceID
<1> DEFINE Typed(d) == /\ arg'[d] = Nil <=> at'[d] = "idle"
                       /\ result'[d] # Nil <=> at'[d] = "done"
           Told(d) == result'[d] # Nil /\ result'[d].name # Nil =>
              /\ arg'[d] = arg[d]
              /\ \/ result'[d] = result[d]
                 \/ result'[d].name = service[arg[d]] /\ arg[d] \in ServiceID
           Goal == /\ at' \in [Caller -> {"idle", "name", "count", "delete", "done"}]
                   /\ arg' \in [Caller -> ServiceID \cup {Nil}]
                   /\ result' \in [Caller -> Result \cup {Nil}]
                   /\ \A d \in Caller : Typed(d)
                   /\ \A d \in Caller : Told(d)
<1>1. /\ at \in [Caller -> {"idle", "name", "count", "delete", "done"}]
      /\ arg \in [Caller -> ServiceID \cup {Nil}]
      /\ result \in [Caller -> Result \cup {Nil}]
      /\ service \in [ServiceID -> StoredName \cup {Nil}]
      /\ \A d \in Caller :
           /\ arg[d] = Nil <=> at[d] = "idle"
           /\ result[d] # Nil <=> at[d] = "done"
  BY DEF CatalogInv, CatalogTypeOK, TypeOK, PostgresTypeOK
<1>2. ASSUME NEW point \in {"idle", "name", "count", "delete", "done"},
             NEW id \in ServiceID \cup {Nil}, NEW res \in Result \cup {Nil},
             at' = [at EXCEPT ![c] = point], arg' = [arg EXCEPT ![c] = id],
             result' = [result EXCEPT ![c] = res],
             id = Nil <=> point = "idle",
             res # Nil <=> point = "done",
             res # Nil /\ res.name # Nil =>
               id = arg[c] /\ id \in ServiceID /\ res.name = service[id]
      PROVE  Goal
  <2>1. /\ at' \in [Caller -> {"idle", "name", "count", "delete", "done"}]
        /\ arg' \in [Caller -> ServiceID \cup {Nil}]
        /\ result' \in [Caller -> Result \cup {Nil}]
    BY <1>1, <1>2
  <2>2. ASSUME NEW d \in Caller PROVE Typed(d) /\ Told(d)
    <3>1. CASE d = c
      <4>1. at'[d] = point /\ arg'[d] = id /\ result'[d] = res
        BY <1>1, <1>2, <3>1
      <4> QED BY <1>2, <3>1, <4>1
    <3>2. CASE d # c
      <4>1. at'[d] = at[d] /\ arg'[d] = arg[d] /\ result'[d] = result[d]
        BY <1>1, <1>2, <3>2
      <4> QED BY <1>1, <4>1
    <3> QED BY <3>1, <3>2
  <2> QED BY <2>1, <2>2
<1> HIDE DEF Goal
<1> SUFFICES Goal
  BY DEF Goal
<1>3. ASSUME NEW name \in StoredName \cup {Nil},
             NEW err \in {"nil", "ErrServiceInUse", "ErrServiceNotFound", "driver"},
             at[c] # "idle", ReturnResult(c, name, err),
             name # Nil => name = service[arg[c]]
      PROVE  Goal
  <2> DEFINE res == [name |-> name, err |-> err]
  <2>1. res \in Result /\ res # Nil /\ res.name = name
    BY <1>3, ResultsTyped
  <2>2. /\ at' = [at EXCEPT ![c] = "done"] /\ arg' = [arg EXCEPT ![c] = arg[c]]
        /\ result' = [result EXCEPT ![c] = res]
    BY <1>1, <1>3 DEF ReturnResult
  <2>3. arg[c] \in ServiceID /\ arg[c] # Nil
    BY <1>1, <1>3
  <2> HIDE DEF res
  <2> QED BY <1>2, <1>3, <2>1, <2>2, <2>3
<1>4. CASE Invoke(c)
  <2>1. PICK point \in {"name", "count"}, id \in ServiceID :
          at' = [at EXCEPT ![c] = point] /\ arg' = [arg EXCEPT ![c] = id]
    BY <1>4 DEF Invoke
  <2>2. result' = [result EXCEPT ![c] = Nil]
    BY <1>1, <1>4 DEF Invoke
  <2>3. id # Nil
    BY DataAssumption DEF ServiceID
  <2> QED BY <1>2, <2>1, <2>2, <2>3
<1>5. CASE GetServiceName(c)
  <2>1. arg[c] \in ServiceID /\ at[c] # "idle"
    BY <1>1, <1>5 DEF GetServiceName
  <2> QED BY <1>1, <1>3, <1>5, <2>1 DEF GetServiceName
<1>6. CASE CountSubscriptions(c)
  <2>1. CASE InUse(arg[c])
    BY <1>3, <1>6, <2>1 DEF CountSubscriptions
  <2>2. CASE ~InUse(arg[c])
    <3>1. at' = [at EXCEPT ![c] = "delete"] /\ arg' = arg /\ result' = result /\ at[c] = "count"
      BY <1>6, <2>2 DEF CountSubscriptions, Proceed
    <3>2. /\ arg' = [arg EXCEPT ![c] = arg[c]] /\ result' = [result EXCEPT ![c] = Nil]
          /\ arg[c] # Nil /\ arg[c] \in ServiceID \cup {Nil}
      BY <1>1, <3>1
    <3> QED BY <1>2, <3>1, <3>2
  <2> QED BY <2>1, <2>2
<1>7. CASE DeleteServiceRow(c)
  BY <1>3, <1>7 DEF DeleteServiceRow
<1>8. CASE CallerFails(c)
  BY <1>3, <1>8 DEF CallerFails
<1>9. CASE Leave(c)
  <2>1. /\ at' = [at EXCEPT ![c] = "idle"] /\ arg' = [arg EXCEPT ![c] = Nil]
        /\ result' = [result EXCEPT ![c] = Nil]
    BY <1>9 DEF Leave
  <2> QED BY <1>2, <2>1
<1> QED BY <1>4, <1>5, <1>6, <1>7, <1>8, <1>9 DEF Call

-----------------------------------------------------------------------------
(* The invariant. *)

(* Nobody has an id to begin with. *)
LEMMA CatalogInitInv == CatalogInit => CatalogInv
<1> SUFFICES ASSUME CatalogInit PROVE CatalogInv
  OBVIOUS
<1>1. Sound
  BY InitSound DEF CatalogInit
<1>2. CatalogTypeOK
  BY <1>1 DEF Sound, CatalogInit, CatalogTypeOK
<1> QED BY <1>1, <1>2 DEF CatalogInit, Init, CatalogInv

(* A step of the requests, while the callers look on. *)
LEMMA WorkersStep ==
  ASSUME CatalogInv, [Next]_vars, UNCHANGED catalog
  PROVE  CatalogInv'
<1>1. Sound /\ Sound'
  BY NextSound DEF CatalogInv
<1>2. at' = at /\ arg' = arg /\ result' = result
  BY DEF catalog
<1>3. CatalogTypeOK'
  BY <1>1, <1>2 DEF CatalogInv, CatalogTypeOK, Sound
<1>4. ASSUME NEW c \in Caller, result'[c] # Nil, result'[c].name # Nil
      PROVE  GivenFor(arg[c], result[c].name)'
  <2>1. arg[c] \in ServiceID /\ GivenFor(arg[c], result[c].name)
    BY <1>2, <1>4, ToldStays
  <2> QED BY <1>1, <1>2, <2>1, GivenForStays DEF GivenFor, OfOrGone
<1> QED BY <1>1, <1>3, <1>4, WorkersKeepNames DEF CatalogInv

(* A step of a caller: it removes at most a row that nothing refers to, and is told only   *)
(* what the table says.                                                           *)
LEMMA CallerStep ==
  ASSUME CatalogInv, NEW c \in Caller, Call(c)
  PROVE  CatalogInv'
<1>1. Sound /\ CatalogTypeOK /\ CallerStatement
  BY CallStatement DEF CatalogInv
<1>2. Sound'
  BY <1>1, StatementSound
<1>3. CatalogTypeOK'
  BY <1>2, CallTyped DEF Sound, CatalogTypeOK
<1>4. req' = req /\ svc' = svc /\ late' = late
  BY <1>1 DEF CallerStatement, local
<1>5. ASSUME NEW w \in Worker, svc'[w] # Nil
      PROVE  GivenFor(svc[w], TrimSpace(req[w].name))'
  <2>1. svc[w] \in ServiceID /\ GivenFor(svc[w], TrimSpace(req[w].name))
    BY <1>1, <1>4, <1>5, WorkerTyped DEF CatalogInv
  <2> QED BY <1>1, <1>4, <2>1, GivenForDeleted DEF GivenFor, OfOrGone
<1>6. ASSUME NEW w \in Worker, late'[w] # Nil, late'[w].svc # Nil
      PROVE  GivenFor(late[w].svc, TrimSpace(late[w].req.name))'
  <2>1. late[w].svc \in ServiceID /\ GivenFor(late[w].svc, TrimSpace(late[w].req.name))
    BY <1>1, <1>4, <1>6, WorkerTyped DEF CatalogInv, Statement
  <2> QED BY <1>1, <1>4, <2>1, GivenForDeleted DEF GivenFor, OfOrGone
<1>7. ASSUME NEW d \in Caller, result'[d] # Nil, result'[d].name # Nil
      PROVE  GivenFor(arg[d], result[d].name)'
  <2>1. arg[d] \in ServiceID /\ GivenFor(arg[d], result'[d].name)
    <3>1. CASE result'[d] = result[d]
      BY <1>7, <3>1, ToldStays
    <3>2. CASE result'[d].name = service[arg[d]] /\ arg[d] \in ServiceID
      <4>1. service[arg[d]] # Nil /\ service[arg[d]] \in StoredName
        BY <1>1, <1>7, <3>2 DEF Sound, TypeOK, PostgresTypeOK
      <4>2. arg[d] < serviceSeq
        BY <1>1, <3>2, <4>1 DEF Sound, TablesOK, SequencesAhead
      <4> QED BY <3>2, <4>1, <4>2 DEF GivenFor, OfOrGone
    <3> QED BY <1>7, <3>1, <3>2, CallTyped
  <2>2. arg'[d] = arg[d]
    BY <1>7, CallTyped
  <2> QED BY <1>1, <2>1, <2>2, GivenForDeleted DEF GivenFor, OfOrGone
<1> QED BY <1>2, <1>3, <1>5, <1>6, <1>7 DEF CatalogInv

(* Everything at once: the callers are gone, and nobody is told anything. *)
LEMMA RestartAllStep ==
  ASSUME CatalogInv, RestartAll
  PROVE  CatalogInv'
<1>1. [Next]_vars
  BY DEF RestartAll, Next
<1>2. Sound'
  BY <1>1, NextSound DEF CatalogInv
<1>3. CatalogTypeOK' /\ \A c \in Caller : result'[c] = Nil
  BY <1>2 DEF RestartAll, Sound, CatalogTypeOK
<1> QED BY <1>1, <1>2, <1>3, WorkersKeepNames DEF CatalogInv

(* What a step is. *)
LEMMA CatalogSteps ==
  ASSUME [CatalogNext]_allVars
  PROVE  \/ [Next]_vars /\ UNCHANGED catalog
         \/ \E c \in Caller : Call(c)
         \/ RestartAll
BY DEF CatalogNext, Next, allVars

LEMMA CatalogNextInv == CatalogInv /\ [CatalogNext]_allVars => CatalogInv'
BY CatalogSteps, WorkersStep, CallerStep, RestartAllStep

(* CatalogInv holds in every reachable state, for any number of requests and callers, any   *)
(* requests and any of the faults.                                                 *)
THEOREM CatalogInvHolds == CatalogSpec => []CatalogInv
<1> QED BY CatalogInitInv, CatalogNextInv, PTL DEF CatalogSpec

(* ON DELETE RESTRICT keeps a service while a subscription refers to it, although         *)
(* DeleteService counts before it deletes.                                          *)
THEOREM NoneOrphaned == CatalogSpec => []ReferencedServiceExists
<1>1. CatalogInv => ReferencedServiceExists
  BY DEF CatalogInv, Sound, TablesOK
<1> QED BY <1>1, CatalogInvHolds, PTL

(* An id read before a DELETE is of nothing after it, and of no other service ever. *)
THEOREM NeverAnother == CatalogSpec => []ResolvedOrGone
<1>1. CatalogInv => ResolvedOrGone
  BY DEF CatalogInv, GivenFor, ResolvedOrGone
<1> QED BY <1>1, CatalogInvHolds, PTL

-----------------------------------------------------------------------------
(* What clients of the handlers may rely on does not depend on nobody deleting services.   *)

(* A step is one of the requests, or leaves the subscriptions alone. *)
LEMMA RequestsOrNone ==
  ASSUME CatalogInv, [CatalogNext]_allVars
  PROVE  Sound /\ ([Next]_vars \/ subscription' = subscription)
<1>1. Sound /\ CatalogTypeOK
  BY DEF CatalogInv
<1>2. ASSUME NEW c \in Caller, Call(c) PROVE subscription' = subscription
  BY <1>1, <1>2, CallStatement DEF CallerStatement
<1>3. CASE RestartAll
  BY <1>1, <1>3 DEF RestartAll, Next
<1> QED BY <1>1, <1>2, <1>3, CatalogSteps

(* No subscription ends before it starts, whatever becomes of its service. *)
THEOREM CatalogKeepsDates == CatalogSpec => []DatesOrdered
<1>1. CatalogInv => DatesOrdered
  BY DEF CatalogInv, Sound, TablesOK
<1> QED BY <1>1, CatalogInvHolds, PTL

(* A name that was deleted and is resolved again gets another id, and UNIQUE compares ids;    *)
(* nobody is billed twice for it all the same, since ON DELETE RESTRICT keeps the old id while *)
(* a subscription has it.                                                        *)
THEOREM CatalogBilledOnce == CatalogSpec => []NoDoubleBilling
<1>1. CatalogInv => NoDoubleBilling
  BY UniqueByName DEF CatalogInv
<1> QED BY <1>1, CatalogInvHolds, PTL

(* Deleting services frees no id of a subscription, and brings none back.            *)
THEOREM CatalogIdsStayDead == CatalogSpec => NoResurrection
<1>1. CatalogInv /\ [CatalogNext]_allVars =>
        [\A id \in SubscriptionID :
           id < subscriptionSeq /\ subscription[id] = Nil => subscription'[id] = Nil]_vars
  BY RequestsOrNone, FreeStaysFree DEF StaysDead
<1> QED BY <1>1, CatalogInvHolds, PTL DEF CatalogSpec, NoResurrection

(* Deleting services clears no end date.                                       *)
THEOREM CatalogClearsNone == CatalogSpec => ClearedOnRequest
<1>1. CatalogInv /\ [CatalogNext]_allVars =>
        [\A id \in SubscriptionID :
           /\ HasSubscription(id) /\ subscription[id].end # Nil
           /\ subscription'[id] # Nil /\ subscription'[id].end = Nil
           => \E w \in Worker :
                \/ req[w] # Nil /\ req[w].id = id /\ AsksToClear(req[w])
                \/ late[w] # Nil /\ late[w].req.id = id /\ AsksToClear(late[w].req)]_vars
  BY RequestsOrNone, ClearedByUpdate DEF ClearedIfAsked
<1> QED BY <1>1, CatalogInvHolds, PTL DEF CatalogSpec, ClearedOnRequest

(* Answers other than of a worker whose service has gone are as in SubscriptionAPI. *)
LEMMA HandleExplainedOrGone ==
  ASSUME Sound, NEW w \in Worker, Handle(w), NEW v \in Worker
  PROVE  ServiceGone(v) \/ Explained(v)
<1>1. CASE ~ServiceGone(w)
  BY <1>1, HandleExplained DEF ServiceGone
<1>2. CASE v = w /\ ServiceGone(w)
  BY <1>2
<1>3. CASE v # w /\ ServiceGone(w)
  <2>1. answer'[v] = answer[v]
    BY <1>3 DEF Sound, TypeOK, ServiceGone, Handle, Validate, GetServiceID, AddBlankService,
                AddService, CheckDates, GetCurrent, CreateSubscription, UpdateSubscription,
                DeleteSubscription, GetSubscription, StatementFails, AnswerLost, GiveUp, Finish,
                Goto, Reply, Resolve
  <2> QED BY <2>1 DEF Explained
<1> QED BY <1>1, <1>2, <1>3

(* The foreign key, for a service that vanished after it was resolved, is the only reason   *)
(* for a 500 that deleting services adds.                                           *)
THEOREM CatalogOneMoreReason == CatalogSpec => CatalogErrorsExplained
<1>1. CatalogInv /\ [CatalogNext]_allVars =>
        [\A w \in Worker :
           answer[w] = Nil /\ answer'[w] # Nil /\ answer'[w].status = 500 =>
             ServerErrorReason(w) \/ ServiceGone(w)
               \/ "error" \in Fault \/ late'[w] # late[w]]_allVars
  <2> SUFFICES ASSUME CatalogInv, CatalogNext, NEW v \in Worker
               PROVE  ServiceGone(v) \/ Explained(v)
    BY DEF Explained
  <2>1. Sound /\ CatalogTypeOK
    BY DEF CatalogInv
  <2>2. ASSUME NEW w \in Worker, Receive(w) \/ LateStatement(w) PROVE Explained(v)
    BY <2>2, NoReplyExplained DEF Receive, LateStatement, local
  <2>3. ASSUME NEW w \in Worker, Handle(w) PROVE ServiceGone(v) \/ Explained(v)
    BY <2>1, <2>3, HandleExplainedOrGone
  <2>4. ASSUME NEW c \in Caller, Call(c) PROVE Explained(v)
    BY <2>1, <2>4, CallStatement, NoReplyExplained DEF CallerStatement, local
  <2>5. ASSUME RestartAll PROVE Explained(v)
    BY <2>5 DEF RestartAll, Restart, Explained
  <2> QED BY <2>2, <2>3, <2>4, <2>5 DEF CatalogNext
<1> QED BY <1>1, CatalogInvHolds, PTL DEF CatalogSpec, CatalogErrorsExplained

-----------------------------------------------------------------------------
(* The store. *)

(* The invariant says of every worker what the refinement needs. *)
LEMMA CatalogReady == CatalogInv => Ready
<1> SUFFICES ASSUME CatalogInv PROVE Ready
  OBVIOUS
<1>1. ASSUME NEW w \in Worker PROVE Standing(pc[w], req[w], svc[w])
  BY <1>1, WorkerTyped DEF CatalogInv, GivenFor, OfOrGone, Standing
<1>2. ASSUME NEW w \in Worker, late[w] # Nil
      PROVE  Standing(late[w].at, late[w].req, late[w].svc)
  BY <1>2, WorkerTyped DEF CatalogInv, Sound, GivenFor, OfOrGone, Standing
<1> QED BY <1>1, <1>2 DEF CatalogInv, Ready

(* What a caller does to a service no client sees. *)
LEMMA CallerInvisible ==
  ASSUME CatalogInv, NEW c \in Caller, Call(c)
  PROVE  UNCHANGED Store!vars
<1>1. Sound /\ CatalogTypeOK /\ CallerStatement
  BY CallStatement DEF CatalogInv
<1>2. /\ subscription' = subscription /\ subscriptionSeq' = subscriptionSeq
      /\ req' = req /\ answer' = answer /\ late' = late
  BY <1>1 DEF CallerStatement, local
<1>3. ShownRows' = ShownRows
  <2>1. \A id \in SubscriptionID :
          subscription[id] # Nil => service'[subscription[id].service]
                                      = service[subscription[id].service]
    BY <1>1, StatementSound
  <2> QED BY <1>2, <2>1 DEF ShownRows, Joined
<1> QED BY <1>2, <1>3, LateSame DEF Store!vars

(* The API implements the store even while services are deleted: no answer about a        *)
(* subscription tells, and no subscription shows, that a service was.                    *)
THEOREM CatalogImplements == CatalogSpec => ImplementsStore
<1>1. CatalogInit => Store!Init
  BY StoreInit DEF CatalogInit
<1>2. CatalogInv /\ [CatalogNext]_allVars => [Store!Next]_(Store!vars)
  <2> SUFFICES ASSUME CatalogInv, [CatalogNext]_allVars PROVE StoreStep
    BY DEF StoreStep
  <2>1. CASE [Next]_vars
    BY <2>1, CatalogReady, NextStep
  <2>2. ASSUME NEW c \in Caller, Call(c) PROVE StoreStep
    BY <2>2, CallerInvisible DEF StoreStep
  <2>3. CASE RestartAll
    BY <2>1, <2>3 DEF RestartAll, Next
  <2> QED BY <2>1, <2>2, <2>3, CatalogSteps
<1> QED BY <1>1, <1>2, CatalogInvHolds, PTL DEF CatalogSpec, ImplementsStore, Store!Spec

=============================================================================
