--------------------------- MODULE SubscriptionAPI ---------------------------
(***************************************************************************)
(* The handlers for one subscription (POST, GET, PUT and DELETE of            *)
(* /api/v1/subscriptions), with the service and repository code they call,    *)
(* as concurrent processes over one database.                                *)
(*                                                                         *)
(* A worker is the goroutine net/http runs for a request.  It holds no lock    *)
(* and no transaction: between two of its statements every other worker may   *)
(* run any of theirs.  A step of a worker is one statement, or the code        *)
(* between two of them.                                                     *)
(***************************************************************************)
EXTENDS Postgres

CONSTANTS
  Worker,   \* requests in flight at once
  Input,    \* the requests the clients may send
  Fault     \* what the environment may do: a subset of FaultKind

(* "error": a statement fails without effect.  "lost": a statement is sent     *)
(* and its answer never arrives, as when the 5 s of the context run out.       *)
(* "restart": the process dies and docker-compose starts it again.            *)
FaultKind == {"error", "lost", "restart"}

VARIABLES
  pc,       \* pc[w]: where worker w stands
  req,      \* req[w]: its request
  svc,      \* svc[w]: the service id it has resolved
  answer,   \* answer[w]: what it has answered
  late      \* late[w]: a statement it gave up on, which Postgres may still run

local == <<pc, req, svc, answer>>
vars == <<tables, local, late>>

Point == {"idle", "validate", "getServiceID", "addService", "checkDates",
          "getCurrent", "write", "answered"}

(* The points at which a statement of the worker is due. *)
Querying == {"getServiceID", "addService", "getCurrent", "write"}

(* A subscription as the API shows it: with the name of its service. *)
Shown == [user : User, name : StoredName, price : Nat, start : Time, end : OptionalTime]

Answer == [status : {201}, body : SubscriptionID]
     \cup [status : {200}, body : Shown \cup {Nil}]
     \cup [status : {204, 400, 404, 409, 500}, body : {Nil}]

(* A statement that changes a table, with all that it was built from. *)
Statement == [at : {"addService", "write"}, req : Input, svc : ServiceID \cup {Nil}]

ASSUME APIAssumption ==
  /\ Input \subseteq Request
  /\ Fault \subseteq FaultKind
  /\ Nil \notin Answer /\ Nil \notin Shown /\ Nil \notin Statement

TypeOK ==
  /\ PostgresTypeOK
  /\ pc \in [Worker -> Point]
  /\ req \in [Worker -> Input \cup {Nil}]
  /\ svc \in [Worker -> ServiceID \cup {Nil}]
  /\ answer \in [Worker -> Answer \cup {Nil}]
  /\ late \in [Worker -> Statement \cup {Nil}]
  /\ \A w \in Worker :
       /\ req[w] = Nil <=> pc[w] = "idle"
       /\ answer[w] # Nil <=> pc[w] = "answered"

Init ==
  /\ PostgresInit
  /\ pc = [w \in Worker |-> "idle"]
  /\ req = [w \in Worker |-> Nil]
  /\ svc = [w \in Worker |-> Nil]
  /\ answer = [w \in Worker |-> Nil]
  /\ late = [w \in Worker |-> Nil]

-----------------------------------------------------------------------------
(* Control of one worker. *)

Goto(w, point) ==
  /\ pc' = [pc EXCEPT ![w] = point]
  /\ UNCHANGED <<req, svc, answer>>

Reply(w, status, body) ==
  /\ pc' = [pc EXCEPT ![w] = "answered"]
  /\ answer' = [answer EXCEPT ![w] = [status |-> status, body |-> body]]
  /\ UNCHANGED <<req, svc>>

Resolve(w, id) ==
  /\ svc' = [svc EXCEPT ![w] = id]
  /\ pc' = [pc EXCEPT ![w] = IF req[w].op = "create" THEN "write" ELSE "checkDates"]
  /\ UNCHANGED <<req, answer>>

Receive(w) ==
  /\ pc[w] = "idle"
  /\ \E r \in Input : req' = [req EXCEPT ![w] = r]
  /\ pc' = [pc EXCEPT ![w] = "validate"]
  /\ UNCHANGED <<tables, svc, answer, late>>

(* Everything a handler and its service method do before the first statement. *)
Validate(w) ==
  /\ pc[w] = "validate"
  /\ IF ~HandlerAccepts(req[w]) \/ ~ServiceAccepts(req[w])
     THEN Reply(w, 400, Nil)
     ELSE Goto(w, IF req[w].op \in {"delete", "get"} THEN "write"
                  ELSE IF req[w].name # Nil THEN "getServiceID" ELSE "checkDates")
  /\ UNCHANGED <<tables, late>>

(* The SELECT of GetOrCreateServiceID: by the name as it was sent. *)
GetServiceID(w) ==
  /\ pc[w] = "getServiceID"
  /\ IF ServicesNamed(req[w].name) # {}
     THEN \E id \in ServicesNamed(req[w].name) : Resolve(w, id)
     ELSE Goto(w, "addService")
  /\ UNCHANGED <<tables, late>>

(* AddService refuses a blank name before it builds a statement. *)
AddBlankService(w) ==
  /\ pc[w] = "addService"
  /\ TrimSpace(req[w].name) = EmptyName
  /\ Reply(w, 500, Nil)
  /\ UNCHANGED <<tables, late>>

(* Mutant of AddService: the name is inserted as it was sent. *)
AddServiceUntrimmed(w) ==
  LET name == req[w].name IN
  /\ pc[w] = "addService"
  /\ TrimSpace(name) # EmptyName
  /\ \/ InsertService(name) /\ Resolve(w, serviceSeq)
     \/ InsertServiceFails(name) /\ Reply(w, 500, Nil)
  /\ UNCHANGED late

(* Mutant of AddService: ON CONFLICT DO NOTHING, and the sequence value taken    *)
(* for the id of the service.                                                 *)
AddServiceOnConflict(w) ==
  LET name == TrimSpace(req[w].name) IN
  /\ pc[w] = "addService"
  /\ name # EmptyName
  /\ InsertService(name) \/ InsertServiceFails(name)
  /\ IF serviceSeq \in ServiceID THEN Resolve(w, serviceSeq) ELSE Reply(w, 500, Nil)
  /\ UNCHANGED late

(* Mutant of AddService: a conflict sends the worker back to the SELECT. *)
AddServiceRetries(w) ==
  LET name == TrimSpace(req[w].name) IN
  /\ pc[w] = "addService"
  /\ name # EmptyName
  /\ \/ InsertService(name) /\ Resolve(w, serviceSeq)
     \/ InsertServiceFails(name) /\ Goto(w, "getServiceID")
  /\ UNCHANGED late

(* The INSERT of AddService: of the trimmed name.  No handler knows what to    *)
(* make of ErrServiceNameExists, so every failure is a 500.                   *)
AddService(w) ==
  LET name == TrimSpace(req[w].name) IN
  /\ pc[w] = "addService"
  /\ name # EmptyName
  /\ \/ InsertService(name) /\ Resolve(w, serviceSeq)
     \/ InsertServiceFails(name) /\ Reply(w, 500, Nil)
  /\ UNCHANGED late

(* What UpdateSubscription checks of the dates once it has the service id. *)
CheckDates(w) ==
  /\ pc[w] = "checkDates"
  /\ IF UpdateDatesAccepted(req[w])
     THEN Goto(w, IF NeedsCurrent(req[w]) THEN "getCurrent" ELSE "write")
     ELSE Reply(w, 400, Nil)
  /\ UNCHANGED <<tables, late>>

(* The end date of an update against the stored start date.  A subscription    *)
(* that is not there is left to the UPDATE to report.                         *)
GetCurrent(w) ==
  /\ pc[w] = "getCurrent"
  /\ IF /\ HasSubscription(req[w].id)
        /\ ParseMonth(req[w].end) < subscription[req[w].id].start
     THEN Reply(w, 400, Nil)
     ELSE Goto(w, "write")
  /\ UNCHANGED <<tables, late>>

-----------------------------------------------------------------------------
(* The last statement of each operation. *)

(* CreateSubscriptionParams *)
NewRow(r, serviceID) ==
  [user |-> r.user, service |-> serviceID, price |-> r.price,
   start |-> ParseMonth(r.start),
   end |-> IF r.end \in {Nil, EmptyText} THEN Nil ELSE ParseMonth(r.end)]

(* UpdateSubscriptionParams *)
Assignments(r, serviceID) ==
  [service |-> serviceID, price |-> r.price,
   start |-> IF r.start = Nil THEN Nil ELSE ParseMonth(r.start),
   end |-> CASE r.end = Nil -> Nil
             [] Clears(r)   -> ZeroTime
             [] OTHER       -> ParseMonth(r.end)]

(* Mutant of StatusOf: deleting or updating what is gone is a conflict. *)
StatusOfGone(error) == IF error \in {"unique_violation", "no_rows"} THEN 409 ELSE 500

(* Mutant of StatusOf: the conflict of a subscription is mapped, its absence is not. *)
StatusOfConflict(error) == IF error = "unique_violation" THEN 409 ELSE 500

(* The status a handler makes of an error of its last statement. *)
StatusOf(error) ==
  CASE error = "unique_violation" -> 409
    [] error = "no_rows"          -> 404
    [] OTHER                      -> 500

(* Mutant of CreateSubscription: an INSERT that conflicts is reported as done. *)
CreateSubscriptionIdempotent(w) ==
  LET row == NewRow(req[w], svc[w]) IN
  /\ pc[w] = "write" /\ req[w].op = "create"
  /\ \/ InsertSubscription(row) /\ Reply(w, 201, subscriptionSeq)
     \/ InsertSubscriptionFails(row) /\ InsertError(row) = "unique_violation"
          /\ Reply(w, 201, subscriptionSeq)
     \/ InsertSubscriptionFails(row) /\ InsertError(row) # "unique_violation"
          /\ Reply(w, StatusOf(InsertError(row)), Nil)
  /\ UNCHANGED late

CreateSubscription(w) ==
  LET row == NewRow(req[w], svc[w]) IN
  /\ pc[w] = "write" /\ req[w].op = "create"
  /\ \/ InsertSubscription(row) /\ Reply(w, 201, subscriptionSeq)
     \/ InsertSubscriptionFails(row) /\ Reply(w, StatusOf(InsertError(row)), Nil)
  /\ UNCHANGED late

UpdateSubscription(w) ==
  LET id  == req[w].id
      set == Assignments(req[w], svc[w])
  IN  /\ pc[w] = "write" /\ req[w].op = "update"
      /\ \/ UpdateRow(id, set) /\ Reply(w, 200, Nil)
         \/ /\ UpdateError(id, set) # "none"
            /\ Reply(w, StatusOf(UpdateError(id, set)), Nil)
            /\ UNCHANGED tables
      /\ UNCHANGED late

DeleteSubscription(w) ==
  /\ pc[w] = "write" /\ req[w].op = "delete"
  /\ \/ DeleteRow(req[w].id) /\ Reply(w, 204, Nil)
     \/ ~HasSubscription(req[w].id) /\ Reply(w, 404, Nil) /\ UNCHANGED tables
  /\ UNCHANGED late

(* baseSubscriptionQuery: the row joined with the name of its service. *)
Joined(row) ==
  [user |-> row.user, name |-> service[row.service], price |-> row.price,
   start |-> row.start, end |-> row.end]

GetSubscription(w) ==
  /\ pc[w] = "write" /\ req[w].op = "get"
  /\ IF HasSubscription(req[w].id)
     THEN Reply(w, 200, Joined(subscription[req[w].id]))
     ELSE Reply(w, 404, Nil)
  /\ UNCHANGED <<tables, late>>

(* The answer is on its way and the goroutine is done. *)
Finish(w) ==
  /\ pc[w] = "answered"
  /\ pc' = [pc EXCEPT ![w] = "idle"]
  /\ req' = [req EXCEPT ![w] = Nil]
  /\ svc' = [svc EXCEPT ![w] = Nil]
  /\ answer' = [answer EXCEPT ![w] = Nil]
  /\ UNCHANGED <<tables, late>>

-----------------------------------------------------------------------------
(* Faults. *)

(* The statement worker w is about to run, when it changes a table. *)
PendingStatement(w) ==
  IF \/ pc[w] = "addService" /\ TrimSpace(req[w].name) # EmptyName
     \/ pc[w] = "write" /\ req[w].op # "get"
  THEN [at |-> pc[w], req |-> req[w], svc |-> svc[w]]
  ELSE Nil

(* A statement returns an error that is not about the data.  UpdateSubscription *)
(* ignores the one of its SELECT and goes on without the check; every other     *)
(* error ends in a 500.                                                       *)
GiveUp(w) ==
  IF pc[w] = "getCurrent" THEN Goto(w, "write") ELSE Reply(w, 500, Nil)

StatementFails(w) ==
  /\ "error" \in Fault
  /\ pc[w] \in Querying
  /\ GiveUp(w)
  /\ UNCHANGED <<tables, late>>

(* The statement has been sent, its answer does not come.  (Bound: one such     *)
(* statement per worker.)                                                     *)
AnswerLost(w) ==
  /\ "lost" \in Fault
  /\ PendingStatement(w) # Nil
  /\ late[w] = Nil
  /\ late' = [late EXCEPT ![w] = PendingStatement(w)]
  /\ GiveUp(w)
  /\ UNCHANGED tables

(* Postgres runs a statement nobody waits for, or drops it. *)
LateStatement(w) ==
  /\ late[w] # Nil
  /\ late' = [late EXCEPT ![w] = Nil]
  /\ LET st  == late[w]
         r   == st.req
     IN  \/ st.at = "addService" /\ InsertService(TrimSpace(r.name))
         \/ st.at = "addService" /\ InsertServiceFails(TrimSpace(r.name))
         \/ st.at = "write" /\ r.op = "create" /\ InsertSubscription(NewRow(r, st.svc))
         \/ st.at = "write" /\ r.op = "create" /\ InsertSubscriptionFails(NewRow(r, st.svc))
         \/ st.at = "write" /\ r.op = "update" /\ UpdateRow(r.id, Assignments(r, st.svc))
         \/ st.at = "write" /\ r.op = "delete" /\ DeleteRow(r.id)
         \/ UNCHANGED tables
  /\ UNCHANGED local

(* The process dies: every request in flight ends unanswered, and what its      *)
(* goroutine had sent to Postgres may still be run.                           *)
Restart ==
  /\ "restart" \in Fault
  /\ pc' = [w \in Worker |-> "idle"]
  /\ req' = [w \in Worker |-> Nil]
  /\ svc' = [w \in Worker |-> Nil]
  /\ answer' = [w \in Worker |-> Nil]
  /\ \E sent \in SUBSET {w \in Worker : PendingStatement(w) # Nil /\ late[w] = Nil} :
       late' = [w \in Worker |-> IF w \in sent THEN PendingStatement(w) ELSE late[w]]
  /\ UNCHANGED tables

-----------------------------------------------------------------------------
(* The steps the process itself takes for worker w. *)
Handle(w) ==
  \/ Validate(w)
  \/ GetServiceID(w)
  \/ AddBlankService(w)
  \/ AddService(w)
  \/ CheckDates(w)
  \/ GetCurrent(w)
  \/ CreateSubscription(w)
  \/ UpdateSubscription(w)
  \/ DeleteSubscription(w)
  \/ GetSubscription(w)
  \/ StatementFails(w)
  \/ AnswerLost(w)
  \/ Finish(w)

Next ==
  \/ \E w \in Worker : Receive(w) \/ Handle(w) \/ LateStatement(w)
  \/ Restart

Spec == Init /\ [][Next]_vars

(* A goroutine is scheduled as long as it can run, and the deadline of its       *)
(* context ends every statement one way or the other.                         *)
FairSpec == Spec /\ \A w \in Worker : WF_vars(Handle(w))

-----------------------------------------------------------------------------
(* Between resolving a service and using its id a worker holds no lock: the id   *)
(* still names the service of the request when the last statement runs, even      *)
(* if that statement runs after the worker has given up.                         *)
ServiceResolved ==
  /\ \A w \in Worker :
       /\ svc[w] # Nil => service[svc[w]] = TrimSpace(req[w].name)
       /\ pc[w] = "write" /\ req[w].op \in {"create", "update"} =>
            (svc[w] # Nil <=> req[w].name # Nil)
  /\ \A w \in Worker : late[w] # Nil /\ late[w].svc # Nil =>
       service[late[w].svc] = TrimSpace(late[w].req.name)

(* What is known of a worker that stands at a point with a request and a service id:  *)
(* the checks it has passed, and whether it has resolved a service.                  *)
Checked(at, r, s) ==
  /\ at \in Querying \cup {"checkDates"} => HandlerAccepts(r) /\ ServiceAccepts(r)
  /\ at \in {"getServiceID", "addService"} => r.op \in {"create", "update"} /\ r.name # Nil
  /\ at \in {"checkDates", "getCurrent"} => r.op = "update"
  /\ at = "getCurrent" => NeedsCurrent(r)
  /\ at \in {"getCurrent", "write"} /\ r.op = "update" => UpdateDatesAccepted(r)
  /\ at \in {"checkDates", "getCurrent", "write"} /\ r.op \in {"create", "update"} =>
       (s # Nil <=> r.name # Nil)
  /\ at \in {"idle", "validate", "getServiceID", "addService"} => s = Nil

(* The constraints of the schema, and the checks passed by every worker and every       *)
(* statement that may still run: that an INSERT offers a valid row rests on checks the   *)
(* worker has made several steps before.                                           *)
Sound ==
  /\ TypeOK
  /\ TablesOK
  /\ \A w \in Worker : Checked(pc[w], req[w], svc[w])
  /\ \A w \in Worker :
       late[w] # Nil =>
         /\ Checked(late[w].at, late[w].req, late[w].svc)
         /\ late[w].at = "addService" => TrimSpace(late[w].req.name) # EmptyName

(* A service id is that of the service the request names. *)
Named(r, s) == s # Nil => service[s] = TrimSpace(r.name) /\ service[s] # Nil

(* The inductive invariant. *)
Inv ==
  /\ Sound
  /\ \A w \in Worker :
       /\ Named(req[w], svc[w])
       /\ late[w] # Nil => Named(late[w].req, late[w].svc)

(* An id under which there is no subscription any more stays empty for good:      *)
(* updates that lose a race against a delete, statements that run late and        *)
(* restarts bring nothing back, so a client's id never comes to mean another       *)
(* subscription.                                                              *)
NoResurrection ==
  [][\A id \in SubscriptionID :
       id < subscriptionSeq /\ subscription[id] = Nil => subscription'[id] = Nil]_vars

(* An end date goes away only by an update that asks for it, still under way or given      *)
(* up on: README.md names "" and "null".  The zero time that marks the wish on its way      *)
(* to the UPDATE is also what 01-0001 parses to; that end date, too, clears the column,      *)
(* which README.md does not say: it is counted as asking here, not judged.                 *)
AsksToClear(r) == Clears(r) \/ (Parses(r.end) /\ ParseMonth(r.end) = ZeroTime)

ClearedOnRequest ==
  [][\A id \in SubscriptionID :
       /\ HasSubscription(id) /\ subscription[id].end # Nil
       /\ subscription'[id] # Nil /\ subscription'[id].end = Nil
       => \E w \in Worker :
            \/ req[w] # Nil /\ req[w].id = id /\ AsksToClear(req[w])
            \/ late[w] # Nil /\ late[w].req.id = id /\ AsksToClear(late[w].req)]_vars

(* Why it is: a request never makes the same statement twice, and no other request, nor a  *)
(* late statement, sends it back or changes what it has found out.                     *)
Order == [idle |-> 0, validate |-> 1, getServiceID |-> 2, addService |-> 3, checkDates |-> 4,
          getCurrent |-> 5, write |-> 6, answered |-> 7]

GoesForward ==
  [][\A w \in Worker :
       \/ UNCHANGED <<pc[w], req[w], svc[w], answer[w]>>
       \/ Order[pc[w]] < Order[pc'[w]]
       \/ pc'[w] = "idle" /\ (pc[w] = "answered" \/ "restart" \in Fault)]_vars

(* What may make a handler answer 500 although nothing is broken, for the request of w as it    *)
(* stands: all that the handlers have no status for.  A name is blank, or its INSERT comes    *)
(* second; a number does not fit; or one date of an update contradicts the other, stored one,   *)
(* in the CHECK of the table: nobody has compared them, or the start has moved since.         *)
ServerErrorReason(w) ==
  LET r   == req[w]
      old == subscription[r.id]
  IN  \/ /\ pc[w] = "addService"
         /\ \/ r.op = "update" /\ TrimSpace(r.name) = EmptyName
            \/ ServicesNamed(TrimSpace(r.name)) # {}
            \/ serviceSeq \notin ServiceID
      \/ /\ pc[w] = "write"
         /\ \/ r.price \in Int /\ ~Encodable(r.price)
            \/ r.op = "create" /\ subscriptionSeq \notin SubscriptionID
            \/ /\ r.op = "update" /\ HasSubscription(r.id)
               /\ \/ /\ r.start # Nil /\ r.end = Nil /\ old.end # Nil
                     /\ old.end < ParseMonth(r.start)
                  \/ /\ r.start = Nil /\ r.end # Nil /\ ~Clears(r)
                     /\ ParseMonth(r.end) < old.start

(* No other error of the database reaches a handler: the service a row refers to is there   *)
(* whatever ran since it was resolved, no invalid row is offered, and whatever else can      *)
(* happen has a status of its own.  (A statement that is given up on is under late.)          *)
ServerErrorsExplained ==
  [][\A w \in Worker :
       answer[w] = Nil /\ answer'[w] # Nil /\ answer'[w].status = 500 =>
         ServerErrorReason(w) \/ "error" \in Fault \/ late'[w] # late[w]]_vars

(* Every request that is received is answered, whatever its statements meet:      *)
(* GetOrCreateServiceID gives up after one conflict instead of trying again.      *)
Answered == \A w \in Worker : pc[w] = "validate" ~> pc[w] = "answered"

-----------------------------------------------------------------------------
(* Two statements of the documentation that the code does not keep. *)

(* README.md lists 500 as an error of the server.  Without a fault, and with room  *)
(* in both sequences, no request whose values fit their columns is answered 500.  *)
ServerErrorMeansFault ==
  \A w \in Worker :
    answer[w] # Nil /\ answer[w].status = 500 =>
      \/ serviceSeq \notin ServiceID \/ subscriptionSeq \notin SubscriptionID
      \/ req[w].price \in Int /\ ~Encodable(req[w].price)

(* An update that would end the subscription before it starts is a validation       *)
(* error, 400, as the handler's @Failure lines say.                              *)
InvertedUpdateRefused ==
  \A w \in Worker :
    /\ pc[w] = "answered" /\ req[w].op = "update" /\ UpdateDatesAccepted(req[w])
    /\ HasSubscription(req[w].id)
    /\ CheckViolation(Assign(subscription[req[w].id], Assignments(req[w], svc[w])))
    => answer[w].status = 400

=============================================================================
