---------------------------- MODULE ServiceCatalog ----------------------------
(***************************************************************************)
(* GetServiceName and DeleteService of ServiceRepository, called while the      *)
(* handlers of SubscriptionAPI resolve services and use their ids.  Nothing in    *)
(* the repository calls the two yet; the callers here stand for whoever will.    *)
(*                                                                         *)
(* DeleteService is two statements: it counts the subscriptions of the service,  *)
(* then deletes its row.                                                      *)
(***************************************************************************)
EXTENDS SubscriptionRefinement

CONSTANT Caller   \* goroutines of the process that call the two methods

VARIABLES
  at,      \* at[c]: where a caller stands
  arg,     \* arg[c]: the service id it was called with, Nil when it is idle
  result   \* result[c]: what it returns, Nil before

catalog == <<at, arg, result>>
allVars == <<vars, catalog>>

(* "driver" is an error of the driver, which the package gives no name of its own. *)
Result == [name : StoredName \cup {Nil},
           err : {"nil", "ErrServiceInUse", "ErrServiceNotFound", "driver"}]

ASSUME CatalogAssumption == Nil \notin Result

CatalogTypeOK ==
  /\ TypeOK
  /\ at \in [Caller -> {"idle", "name", "count", "delete", "done"}]
  /\ arg \in [Caller -> ServiceID \cup {Nil}]
  /\ result \in [Caller -> Result \cup {Nil}]
  /\ \A c \in Caller :
       /\ arg[c] = Nil <=> at[c] = "idle"
       /\ result[c] # Nil <=> at[c] = "done"

CatalogInit ==
  /\ Init
  /\ at = [c \in Caller |-> "idle"]
  /\ arg = [c \in Caller |-> Nil]
  /\ result = [c \in Caller |-> Nil]

-----------------------------------------------------------------------------
Proceed(c, point) ==
  /\ at' = [at EXCEPT ![c] = point]
  /\ UNCHANGED <<arg, result>>

ReturnResult(c, name, err) ==
  /\ at' = [at EXCEPT ![c] = "done"]
  /\ result' = [result EXCEPT ![c] = [name |-> name, err |-> err]]
  /\ UNCHANGED arg

Invoke(c) ==
  /\ at[c] = "idle"
  /\ \E point \in {"name", "count"} : at' = [at EXCEPT ![c] = point]
  /\ \E id \in ServiceID : arg' = [arg EXCEPT ![c] = id]
  /\ UNCHANGED <<vars, result>>

GetServiceName(c) ==
  /\ at[c] = "name"
  /\ ReturnResult(c, service[arg[c]],
       IF service[arg[c]] = Nil THEN "ErrServiceNotFound" ELSE "nil")
  /\ UNCHANGED vars

InUse(id) == \E sub \in SubscriptionID : subscription[sub] # Nil /\ subscription[sub].service = id

(* Mutant of CountSubscriptions: the error is set, and the DELETE runs all the same. *)
CountGoesOn(c) ==
  /\ at[c] = "count"
  /\ at' = [at EXCEPT ![c] = "delete"]
  /\ result' = IF InUse(arg[c])
       THEN [result EXCEPT ![c] = [name |-> Nil, err |-> "ErrServiceInUse"]] ELSE result
  /\ UNCHANGED <<vars, arg>>

(* SELECT COUNT of DeleteService. *)
CountSubscriptions(c) ==
  /\ at[c] = "count"
  /\ IF InUse(arg[c]) THEN ReturnResult(c, Nil, "ErrServiceInUse") ELSE Proceed(c, "delete")
  /\ UNCHANGED vars

(* Mutant of DeleteServiceRow: ON DELETE CASCADE. *)
DeleteServiceCascades(c) ==
  /\ at[c] = "delete"
  /\ ReturnResult(c, Nil, IF service[arg[c]] = Nil THEN "ErrServiceNotFound" ELSE "nil")
  /\ service' = [service EXCEPT ![arg[c]] = Nil]
  /\ subscription' = [sub \in SubscriptionID |->
       IF subscription[sub] # Nil /\ subscription[sub].service = arg[c]
       THEN Nil ELSE subscription[sub]]
  /\ UNCHANGED <<serviceSeq, subscriptionSeq, local, late>>

(* Its DELETE: the count may be out of date, and ON DELETE RESTRICT then refuses with     *)
(* an error nobody maps.                                                       *)
DeleteServiceRow(c) ==
  /\ at[c] = "delete"
  /\ \/ InUse(arg[c]) /\ ReturnResult(c, Nil, "driver") /\ UNCHANGED service
     \/ ~InUse(arg[c]) /\ service[arg[c]] = Nil
          /\ ReturnResult(c, Nil, "ErrServiceNotFound") /\ UNCHANGED service
     \/ ~InUse(arg[c]) /\ service[arg[c]] # Nil
          /\ ReturnResult(c, Nil, "nil") /\ service' = [service EXCEPT ![arg[c]] = Nil]
  /\ UNCHANGED <<serviceSeq, subscription, subscriptionSeq, local, late>>

(* A statement fails, or its answer is lost; a DELETE may have run all the same.          *)
CallerFails(c) ==
  /\ Fault # {}
  /\ at[c] \in {"name", "count", "delete"}
  /\ ReturnResult(c, Nil, "driver")
  /\ \/ UNCHANGED service
     \/ at[c] = "delete" /\ ~InUse(arg[c]) /\ service' = [service EXCEPT ![arg[c]] = Nil]
  /\ UNCHANGED <<serviceSeq, subscription, subscriptionSeq, local, late>>

Leave(c) ==
  /\ at[c] = "done"
  /\ at' = [at EXCEPT ![c] = "idle"]
  /\ arg' = [arg EXCEPT ![c] = Nil]
  /\ result' = [result EXCEPT ![c] = Nil]
  /\ UNCHANGED vars

Call(c) ==
  \/ Invoke(c)
  \/ GetServiceName(c)
  \/ CountSubscriptions(c)
  \/ DeleteServiceRow(c)
  \/ CallerFails(c)
  \/ Leave(c)

(* The callers are goroutines of the process that restarts.                          *)
RestartAll ==
  /\ Restart
  /\ at' = [c \in Caller |-> "idle"]
  /\ arg' = [c \in Caller |-> Nil]
  /\ result' = [c \in Caller |-> Nil]

CatalogNext ==
  \/ (\E w \in Worker : Receive(w) \/ Handle(w) \/ LateStatement(w)) /\ UNCHANGED catalog
  \/ \E c \in Caller : Call(c)
  \/ RestartAll

CatalogSpec == CatalogInit /\ [][CatalogNext]_allVars

-----------------------------------------------------------------------------
(* Services may now vanish between the moment a handler reads an id and the moment it      *)
(* uses it.  The id, and a name somebody has read for an id, are then of nothing, but       *)
(* never of another service.                                                      *)
OfOrGone(id, name) == service[id] \in {name, Nil}

ResolvedOrGone ==
  /\ \A w \in Worker : svc[w] # Nil => OfOrGone(svc[w], TrimSpace(req[w].name))
  /\ \A w \in Worker : late[w] # Nil /\ late[w].svc # Nil =>
       OfOrGone(late[w].svc, TrimSpace(late[w].req.name))
  /\ \A c \in Caller : result[c] # Nil => result[c].name = Nil \/ OfOrGone(arg[c], result[c].name)

(* An id that has been given out for a name: the sequence will not give it out again. *)
GivenFor(id, name) ==
  id < serviceSeq /\ name \in StoredName /\ OfOrGone(id, name)

(* The inductive invariant.  The checks of Sound survive a DELETE, and an id that was       *)
(* given out for a name never comes to stand for another.                             *)
CatalogInv ==
  /\ CatalogTypeOK
  /\ Sound
  /\ \A w \in Worker : svc[w] # Nil => GivenFor(svc[w], TrimSpace(req[w].name))
  /\ \A w \in Worker : late[w] # Nil /\ late[w].svc # Nil =>
       GivenFor(late[w].svc, TrimSpace(late[w].req.name))
  /\ \A c \in Caller : result[c] # Nil /\ result[c].name # Nil =>
       GivenFor(arg[c], result[c].name)

(* A service that vanishes between resolving and use is one more reason for a 500, by the     *)
(* foreign key, and the only one: a name that vanishes earlier is inserted again, and no       *)
(* subscription loses its service.                                                *)
ServiceGone(w) == pc[w] = "write" /\ svc[w] # Nil /\ service[svc[w]] = Nil

CatalogErrorsExplained ==
  [][\A w \in Worker :
       answer[w] = Nil /\ answer'[w] # Nil /\ answer'[w].status = 500 =>
         ServerErrorReason(w) \/ ServiceGone(w)
           \/ "error" \in Fault \/ late'[w] # late[w]]_allVars

=============================================================================
