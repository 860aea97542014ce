------------------------- MODULE SubscriptionAPIProofs -------------------------
(***************************************************************************)
(* Sound is an invariant of SubscriptionAPI for any number of workers, any set    *)
(* of requests and any size of the tables; the properties the runs check on      *)
(* small instances follow.                                                   *)
(***************************************************************************)
EXTENDS SubscriptionRefinement, PostgresProofs

-----------------------------------------------------------------------------
(* Requests and what the code makes of them. *)

(* A name that is not blank is a name a table can hold, once trimmed. *)
LEMMA TrimmedName ==
  ASSUME NEW name \in RawName, TrimSpace(name) # EmptyName
  PROVE  TrimSpace(name) \in StoredName
BY DEF RawName, StoredName, TrimSpace, EmptyName

(* A stored name has no blanks to trim. *)
LEMMA StoredTrimmed ==
  ASSUME NEW name \in StoredName
  PROVE  TrimSpace(name) = name
BY DEF StoredName, TrimSpace

(* A text that parses is a month with a number. *)
LEMMA ParsedTime ==
  ASSUME NEW s, Parses(s)
  PROVE  ParseMonth(s) \in Time
BY DEF Parses, ParseMonth, MonthText, Time

(* A create that passed every check offers a row with sound types. *)
LEMMA NewRowOffered ==
  ASSUME NEW r \in Request, r.op = "create", HandlerAccepts(r), ServiceAccepts(r),
         NEW s \in ServiceID
  PROVE  NewRow(r, s) \in OfferedRow
<1>1. r.user \in User /\ r.price \in Int
  BY DEF HandlerAccepts, validateCreateSubscriptionRequest, Decodes, Request
<1>2. ParseMonth(r.start) \in Time
  BY ParsedTime DEF ServiceAccepts, CreateAccepted
<1>3. r.end \in {Nil, EmptyText} \/ ParseMonth(r.end) \in Time
  BY ParsedTime DEF ServiceAccepts, CreateAccepted
<1> QED BY <1>1, <1>2, <1>3 DEF NewRow, OfferedRow, OptionalTime

(* ZeroTime is a time like any other to the type of a row. *)
LEMMA ZeroTimeIsTime == ZeroTime \in Time
BY DEF ZeroTime, ParseMonth, Time

(* An update that passed every check assigns values of the columns' types. *)
LEMMA AssignmentsTyped ==
  ASSUME NEW r \in Request, r.op = "update", HandlerAccepts(r), UpdateDatesAccepted(r),
         NEW s \in ServiceID \cup {Nil}
  PROVE  Assignments(r, s) \in AssignmentSet
<1>1. r.price \in Int \cup {Nil}
  BY DEF HandlerAccepts, Decodes, Request
<1>2. r.start = Nil \/ ParseMonth(r.start) \in Time
  BY ParsedTime DEF UpdateDatesAccepted
<1>3. r.end = Nil \/ Clears(r) \/ ParseMonth(r.end) \in Time
  BY ParsedTime DEF UpdateDatesAccepted
<1> QED BY <1>1, <1>2, <1>3, ZeroTimeIsTime DEF Assignments, AssignmentSet, OptionalTime

-----------------------------------------------------------------------------
(* Frames. *)

(* Only the variables of worker w change, and to values of their types. *)
StepOf(w) ==
  /\ pc' = [pc EXCEPT ![w] = pc'[w]] /\ pc'[w] \in Point
  /\ req' = [req EXCEPT ![w] = req'[w]] /\ req'[w] \in Input \cup {Nil}
  /\ svc' = [svc EXCEPT ![w] = svc'[w]] /\ svc'[w] \in ServiceID \cup {Nil}
  /\ answer' = [answer EXCEPT ![w] = answer'[w]] /\ answer'[w] \in Answer \cup {Nil}
  /\ late' = [late EXCEPT ![w] = late'[w]] /\ late'[w] \in Statement \cup {Nil}
  /\ req'[w] = Nil <=> pc'[w] = "idle"
  /\ answer'[w] # Nil <=> pc'[w] = "answered"

(* A step of one worker preserves Sound if the tables stay sound and the worker's     *)
(* new standing, and the statement it may leave behind, are right.                 *)
LEMMA WorkerStep ==
  ASSUME Sound, TablesOK',
         NEW w \in Worker, StepOf(w),
         Checked(pc'[w], req'[w], svc'[w]),
         \/ late'[w] \in {late[w], Nil}
         \/ /\ Checked(late'[w].at, late'[w].req, late'[w].svc)
            /\ late'[w].at = "addService" => TrimSpace(late'[w].req.name) # EmptyName
  PROVE  Sound'
<1>1. TypeOK'
  <2>1. PostgresTypeOK'
    BY DEF TablesOK
  <2>2. /\ pc' \in [Worker -> Point] /\ req' \in [Worker -> Input \cup {Nil}]
        /\ svc' \in [Worker -> ServiceID \cup {Nil}]
        /\ answer' \in [Worker -> Answer \cup {Nil}]
        /\ late' \in [Worker -> Statement \cup {Nil}]
    BY DEF Sound, TypeOK, StepOf
  <2>3. ASSUME NEW v \in Worker
        PROVE  (req'[v] = Nil <=> pc'[v] = "idle") /\ (answer'[v] # Nil <=> pc'[v] = "answered")
    BY DEF Sound, TypeOK, StepOf
  <2> QED BY <2>1, <2>2, <2>3 DEF TypeOK
<1>2. ASSUME NEW v \in Worker
      PROVE  Checked(pc'[v], req'[v], svc'[v])
  <2>1. CASE v = w
    BY <2>1
  <2>2. CASE v # w
    <3>1. /\ Checked(pc[v], req[v], svc[v]) /\ svc[v] \in ServiceID \cup {Nil}
          /\ pc'[v] = pc[v] /\ req'[v] = req[v] /\ svc'[v] = svc[v]
      BY <2>2 DEF Sound, TypeOK, StepOf
    <3> QED BY <3>1
  <2> QED BY <2>1, <2>2
<1>3. ASSUME NEW v \in Worker, late'[v] # Nil
      PROVE  /\ Checked(late'[v].at, late'[v].req, late'[v].svc)
             /\ late'[v].at = "addService" => TrimSpace(late'[v].req.name) # EmptyName
  <2>1. CASE late'[v] = late[v]
    <3>1. /\ Checked(late[v].at, late[v].req, late[v].svc)
          /\ late[v].at = "addService" => TrimSpace(late[v].req.name) # EmptyName
          /\ late[v].svc \in ServiceID \cup {Nil}
      BY <1>3, <2>1 DEF Sound, TypeOK, Statement
    <3> QED BY <2>1, <3>1
  <2>2. CASE late'[v] # late[v]
    <3>1. v = w
      BY <2>2 DEF Sound, TypeOK, StepOf
    <3> QED BY <1>3, <2>2, <3>1
  <2> QED BY <2>1, <2>2
<1> QED BY <1>1, <1>2, <1>3 DEF Sound

(* The values a worker's variables may have. *)
LEMMA WorkerTyped ==
  ASSUME Sound, NEW w \in Worker
  PROVE  /\ pc[w] \in Point /\ req[w] \in Input \cup {Nil} /\ svc[w] \in ServiceID \cup {Nil}
         /\ answer[w] \in Answer \cup {Nil} /\ late[w] \in Statement \cup {Nil}
         /\ pc = [pc EXCEPT ![w] = pc[w]] /\ req = [req EXCEPT ![w] = req[w]]
         /\ svc = [svc EXCEPT ![w] = svc[w]] /\ answer = [answer EXCEPT ![w] = answer[w]]
         /\ late = [late EXCEPT ![w] = late[w]]
         /\ (req[w] = Nil <=> pc[w] = "idle") /\ (answer[w] # Nil <=> pc[w] = "answered")
         /\ req[w] # Nil => req[w] \in Request
         /\ Checked(pc[w], req[w], svc[w])
BY APIAssumption DEF Sound, TypeOK

(* A worker that goes on preserves Sound if it has passed what the next point takes for granted. *)
LEMMA GotoStep ==
  ASSUME Sound, TablesOK',
         NEW w \in Worker, NEW at \in Point \ {"idle", "answered"},
         pc[w] \notin {"idle", "answered"},
         Goto(w, at), UNCHANGED late,
         Checked(at, req[w], svc[w])
  PROVE  Sound'
<1>1. StepOf(w) /\ pc'[w] = at /\ req'[w] = req[w] /\ svc'[w] = svc[w] /\ late'[w] = late[w]
  BY WorkerTyped DEF Goto, StepOf, Sound, TypeOK
<1> QED BY <1>1, WorkerStep

(* A worker that answers preserves Sound. *)
LEMMA ReplyStep ==
  ASSUME Sound, TablesOK',
         NEW w \in Worker, pc[w] \notin {"idle", "answered"},
         NEW status, NEW body, [status |-> status, body |-> body] \in Answer,
         Reply(w, status, body), UNCHANGED late
  PROVE  Sound'
<1>1. Checked("answered", req[w], svc[w])
  <2>1. Checked(pc[w], req[w], svc[w])
    BY WorkerTyped
  <2> QED BY <2>1 DEF Checked, Querying
<1>2. [status |-> status, body |-> body] # Nil
  BY APIAssumption
<1>3. "answered" \in Point
  BY DEF Point
<1>4. /\ StepOf(w)
      /\ pc'[w] = "answered" /\ req'[w] = req[w] /\ svc'[w] = svc[w] /\ late'[w] = late[w]
  BY <1>2, <1>3, WorkerTyped DEF Reply, StepOf, Sound, TypeOK
<1> QED BY <1>1, <1>4, WorkerStep

(* A worker that has found or added its service preserves Sound. *)
LEMMA ResolveStep ==
  ASSUME Sound, TablesOK',
         NEW w \in Worker, pc[w] \in {"getServiceID", "addService"},
         NEW id \in ServiceID,
         Resolve(w, id), UNCHANGED late
  PROVE  Sound'
<1> DEFINE at == IF req[w].op = "create" THEN "write" ELSE "checkDates"
<1>1. Checked(at, req[w], id)
  <2>1. Checked(pc[w], req[w], svc[w])
    BY WorkerTyped
  <2>2. id # Nil
    BY DataAssumption DEF ServiceID
  <2> QED BY <2>1, <2>2 DEF Checked, Querying
<1>2. at \in Point \ {"idle", "answered"}
  BY DEF Point
<1>3. pc' = [pc EXCEPT ![w] = at] /\ svc' = [svc EXCEPT ![w] = id]
      /\ req' = req /\ answer' = answer
  BY DEF Resolve
<1> HIDE DEF at
<1>4. /\ StepOf(w)
      /\ pc'[w] = at /\ req'[w] = req[w] /\ svc'[w] = id /\ late'[w] = late[w]
  BY <1>2, <1>3, WorkerTyped DEF StepOf, Sound, TypeOK
<1> QED BY <1>1, <1>4, WorkerStep

(* The same, for a step that does not touch the tables. *)
LEMMA LocalStep ==
  ASSUME Sound, UNCHANGED tables
  PROVE  TablesOK'
BY TablesUnchanged DEF Sound, tables

(* The answers the code gives have the type of answers. *)
LEMMA AnswersTyped ==
  /\ \A status \in {204, 400, 404, 409, 500} : [status |-> status, body |-> Nil] \in Answer
  /\ \A id \in SubscriptionID : [status |-> 201, body |-> id] \in Answer
  /\ \A body \in Shown \cup {Nil} : [status |-> 200, body |-> body] \in Answer
BY DEF Answer

-----------------------------------------------------------------------------
(* The steps of a worker. *)

(* A request is received as one that has passed no check yet. *)
LEMMA ReceiveInv ==
  ASSUME Sound, NEW w \in Worker, Receive(w)
  PROVE  Sound'
<1>1. TablesOK'
  BY LocalStep DEF Receive
<1>2. PICK r \in Input : req' = [req EXCEPT ![w] = r]
  BY DEF Receive
<1>3. r # Nil
  BY APIAssumption, DataAssumption
<1>4. Checked("validate", r, svc[w])
  BY WorkerTyped DEF Receive, Checked, Querying
<1>5. "validate" \in Point
  BY DEF Point
<1>6. /\ StepOf(w)
      /\ pc'[w] = "validate" /\ req'[w] = r /\ svc'[w] = svc[w] /\ late'[w] = late[w]
  BY <1>2, <1>3, <1>5, WorkerTyped DEF Receive, StepOf, Sound, TypeOK
<1> QED BY <1>1, <1>4, <1>6, WorkerStep

(* What the handler and the service let through stands right at its first statement. *)
LEMMA ValidateInv ==
  ASSUME Sound, NEW w \in Worker, Validate(w)
  PROVE  Sound'
<1> DEFINE at == IF req[w].op \in {"delete", "get"} THEN "write"
                 ELSE IF req[w].name # Nil THEN "getServiceID" ELSE "checkDates"
<1>1. TablesOK'
  BY LocalStep DEF Validate
<1>2. CASE ~HandlerAccepts(req[w]) \/ ~ServiceAccepts(req[w])
  BY <1>1, <1>2, ReplyStep, AnswersTyped DEF Validate
<1>3. CASE HandlerAccepts(req[w]) /\ ServiceAccepts(req[w])
  <2>1. req[w] \in Request /\ svc[w] = Nil
    BY WorkerTyped DEF Validate, Checked
  <2>2. req[w].op = "create" => req[w].name # Nil
    BY <1>3 DEF HandlerAccepts, validateCreateSubscriptionRequest
  <2>3. req[w].op \in Operation
    BY <2>1 DEF Request
  <2>4. at \in Point \ {"idle", "answered"}
    BY <2>1 DEF Point
  <2>5. Checked(at, req[w], svc[w])
    <3>1. CASE req[w].op \in {"delete", "get"}
      BY <1>3, <2>1, <3>1 DEF Checked
    <3>2. CASE req[w].op \in {"create", "update"} /\ req[w].name # Nil
      BY <1>3, <2>1, <3>2 DEF Checked
    <3>3. CASE req[w].op = "update" /\ req[w].name = Nil
      BY <1>3, <2>1, <3>3 DEF Checked
    <3> QED BY <2>2, <2>3, <3>1, <3>2, <3>3 DEF Operation
  <2>6. Goto(w, at) /\ UNCHANGED late /\ pc[w] \notin {"idle", "answered"}
    BY <1>3 DEF Validate
  <2> HIDE DEF at
  <2> QED BY <1>1, <2>4, <2>5, <2>6, GotoStep
<1> QED BY <1>2, <1>3

(* With a service or without, the worker goes on. *)
LEMMA GetServiceIDInv ==
  ASSUME Sound, NEW w \in Worker, GetServiceID(w)
  PROVE  Sound'
<1>1. TablesOK'
  BY LocalStep DEF GetServiceID
<1>2. CASE ServicesNamed(req[w].name) # {}
  <2>1. PICK id \in ServicesNamed(req[w].name) : Resolve(w, id)
    BY <1>2 DEF GetServiceID
  <2>2. id \in ServiceID
    BY <2>1 DEF ServicesNamed
  <2> QED BY <1>1, <2>1, <2>2, ResolveStep DEF GetServiceID
<1>3. CASE ServicesNamed(req[w].name) = {}
  <2>1. Checked("addService", req[w], svc[w])
    BY <1>1, WorkerTyped DEF GetServiceID, Checked, Querying
  <2>2. "addService" \in Point \ {"idle", "answered"}
    BY DEF Point
  <2> QED BY <1>1, <1>3, <2>1, <2>2, GotoStep DEF GetServiceID
<1> QED BY <1>2, <1>3

(* A blank name ends in an answer. *)
LEMMA AddBlankServiceInv ==
  ASSUME Sound, NEW w \in Worker, AddBlankService(w)
  PROVE  Sound'
<1>1. TablesOK'
  BY LocalStep DEF AddBlankService
<1> QED BY <1>1, ReplyStep, AnswersTyped DEF AddBlankService

(* What AddService inserts is a name. *)
LEMMA AddedName ==
  ASSUME Sound, NEW w \in Worker, pc[w] = "addService", TrimSpace(req[w].name) # EmptyName
  PROVE  TrimSpace(req[w].name) \in StoredName
<1>1. req[w] \in Request /\ req[w].name # Nil
  BY WorkerTyped DEF Checked
<1>2. req[w].name \in RawName
  BY <1>1 DEF Request
<1> QED BY <1>2, TrimmedName

(* An INSERT gives the worker an id, or it ends in an answer. *)
LEMMA AddServiceInv ==
  ASSUME Sound, NEW w \in Worker, AddService(w)
  PROVE  Sound'
<1> DEFINE name == TrimSpace(req[w].name)
<1>1. pc[w] = "addService" /\ name # EmptyName /\ UNCHANGED late
  BY DEF AddService
<1>2. name \in StoredName
  BY <1>1, AddedName
<1>3. TablesOK
  BY DEF Sound
<1>4. CASE InsertService(name) /\ Resolve(w, serviceSeq)
  <2>1. TablesOK'
    BY <1>2, <1>3, <1>4, InsertServiceOK
  <2>2. serviceSeq \in ServiceID
    BY <1>4 DEF InsertService, ServiceInsertable
  <2> QED BY <1>1, <1>4, <2>1, <2>2, ResolveStep
<1>5. CASE InsertServiceFails(name) /\ Reply(w, 500, Nil)
  <2>1. TablesOK'
    BY <1>3, <1>5, InsertServiceFailsOK
  <2> QED BY <1>1, <1>5, <2>1, ReplyStep, AnswersTyped
<1> QED BY <1>4, <1>5 DEF AddService

(* Only dates that passed their check reach the next statement. *)
LEMMA CheckDatesInv ==
  ASSUME Sound, NEW w \in Worker, CheckDates(w)
  PROVE  Sound'
<1> DEFINE at == IF NeedsCurrent(req[w]) THEN "getCurrent" ELSE "write"
<1>1. TablesOK'
  BY LocalStep DEF CheckDates
<1>2. CASE UpdateDatesAccepted(req[w])
  <2>1. at \in Point \ {"idle", "answered"}
    BY DEF Point
  <2>2. Checked(at, req[w], svc[w])
    BY <1>1, <1>2, WorkerTyped DEF CheckDates, Checked, Querying
  <2>3. Goto(w, at) /\ UNCHANGED late /\ pc[w] \notin {"idle", "answered"}
    BY <1>2 DEF CheckDates
  <2> HIDE DEF at
  <2> QED BY <1>1, <2>1, <2>2, <2>3, GotoStep
<1>3. CASE ~UpdateDatesAccepted(req[w])
  BY <1>1, <1>3, ReplyStep, AnswersTyped DEF CheckDates
<1> QED BY <1>2, <1>3

(* A worker past its read, or past the failure of it, stands right at the UPDATE. *)
LEMMA PastGetCurrent ==
  ASSUME Sound, NEW w \in Worker, pc[w] = "getCurrent", Goto(w, "write"), UNCHANGED <<tables, late>>
  PROVE  Sound'
<1>1. TablesOK'
  BY LocalStep
<1>2. Checked("write", req[w], svc[w])
  BY <1>1, WorkerTyped DEF Checked, Querying
<1>3. "write" \in Point \ {"idle", "answered"}
  BY DEF Point
<1> QED BY <1>1, <1>2, <1>3, GotoStep

(* The read of the stored start date decides between an answer and the UPDATE. *)
LEMMA GetCurrentInv ==
  ASSUME Sound, NEW w \in Worker, GetCurrent(w)
  PROVE  Sound'
<1>1. TablesOK'
  BY LocalStep DEF GetCurrent
<1>2. CASE Goto(w, "write")
  BY <1>2, PastGetCurrent DEF GetCurrent
<1>3. CASE Reply(w, 400, Nil)
  BY <1>1, <1>3, ReplyStep, AnswersTyped DEF GetCurrent
<1> QED BY <1>2, <1>3 DEF GetCurrent

(* A create at its INSERT has a row to offer. *)
LEMMA CreateReady ==
  ASSUME NEW r \in Request, NEW s \in ServiceID \cup {Nil},
         Checked("write", r, s), r.op = "create"
  PROVE  s \in ServiceID /\ NewRow(r, s) \in OfferedRow
<1>1. HandlerAccepts(r) /\ ServiceAccepts(r)
  BY DEF Checked, Querying
<1>2. r.name # Nil
  BY <1>1 DEF HandlerAccepts, validateCreateSubscriptionRequest
<1>3. s \in ServiceID
  BY <1>2 DEF Checked
<1> QED BY <1>1, <1>3, NewRowOffered

(* An update at its UPDATE has its assignments. *)
LEMMA UpdateReady ==
  ASSUME NEW r \in Request, NEW s \in ServiceID \cup {Nil},
         Checked("write", r, s), r.op = "update"
  PROVE  Assignments(r, s) \in AssignmentSet
<1>1. HandlerAccepts(r) /\ UpdateDatesAccepted(r)
  BY DEF Checked, Querying
<1> QED BY <1>1, AssignmentsTyped

(* An INSERT the schema refuses, or accepts, ends in an answer. *)
LEMMA CreateSubscriptionInv ==
  ASSUME Sound, NEW w \in Worker, CreateSubscription(w)
  PROVE  Sound'
<1> DEFINE row == NewRow(req[w], svc[w])
<1>1. TablesOK /\ pc[w] = "write" /\ UNCHANGED late
  BY DEF CreateSubscription, Sound
<1>2. row \in OfferedRow
  <2>1. req[w] # Nil /\ req[w].op = "create"
    BY <1>1, WorkerTyped DEF CreateSubscription
  <2> QED BY <1>1, <2>1, WorkerTyped, CreateReady
<1>3. CASE InsertSubscription(row) /\ Reply(w, 201, subscriptionSeq)
  <2>1. TablesOK' /\ subscriptionSeq \in SubscriptionID
    BY <1>1, <1>2, <1>3, InsertSubscriptionOK
  <2>2. [status |-> 201, body |-> subscriptionSeq] \in Answer
    BY <2>1, AnswersTyped
  <2> HIDE DEF row
  <2> QED BY <1>1, <1>3, <2>1, <2>2, ReplyStep
<1>4. CASE InsertSubscriptionFails(row) /\ Reply(w, StatusOf(InsertError(row)), Nil)
  <2>1. TablesOK'
    BY <1>1, <1>4, InsertSubscriptionFailsOK
  <2>2. StatusOf(InsertError(row)) \in {404, 409, 500}
    BY DEF StatusOf
  <2> HIDE DEF row
  <2> QED BY <1>1, <1>4, <2>1, <2>2, ReplyStep, AnswersTyped
<1> QED BY <1>3, <1>4 DEF CreateSubscription

(* An UPDATE the schema refuses, or accepts, ends in an answer. *)
LEMMA UpdateSubscriptionInv ==
  ASSUME Sound, NEW w \in Worker, UpdateSubscription(w)
  PROVE  Sound'
<1> DEFINE set == Assignments(req[w], svc[w])
           error == UpdateError(req[w].id, set)
<1>1. TablesOK /\ pc[w] = "write" /\ UNCHANGED late
  BY DEF UpdateSubscription, Sound
<1>2. set \in AssignmentSet
  <2>1. req[w] # Nil /\ req[w].op = "update"
    BY <1>1, WorkerTyped DEF UpdateSubscription
  <2> QED BY <1>1, <2>1, WorkerTyped, UpdateReady
<1>3. CASE UpdateRow(req[w].id, set) /\ Reply(w, 200, Nil)
  <2>1. TablesOK'
    BY <1>1, <1>2, <1>3, UpdateRowOK
  <2>2. [status |-> 200, body |-> Nil] \in Answer
    BY AnswersTyped
  <2> HIDE DEF set
  <2> QED BY <1>1, <1>3, <2>1, <2>2, ReplyStep
<1>4. CASE Reply(w, StatusOf(error), Nil) /\ UNCHANGED tables
  <2>1. TablesOK'
    BY <1>4, LocalStep
  <2>2. StatusOf(error) \in {404, 409, 500}
    BY DEF StatusOf
  <2> HIDE DEF error
  <2> QED BY <1>1, <1>4, <2>1, <2>2, ReplyStep, AnswersTyped
<1> QED BY <1>3, <1>4 DEF UpdateSubscription

(* A DELETE ends in an answer. *)
LEMMA DeleteSubscriptionInv ==
  ASSUME Sound, NEW w \in Worker, DeleteSubscription(w)
  PROVE  Sound'
<1>1. TablesOK'
  <2>1. CASE DeleteRow(req[w].id)
    BY <2>1, DeleteRowOK DEF Sound
  <2>2. CASE UNCHANGED tables
    BY <2>2, LocalStep
  <2> QED BY <2>1, <2>2 DEF DeleteSubscription
<1> QED BY <1>1, ReplyStep, AnswersTyped DEF DeleteSubscription

(* A row joined with its service is what the API may show. *)
LEMMA JoinedTyped ==
  ASSUME TablesOK, NEW id, HasSubscription(id)
  PROVE  Joined(subscription[id]) \in Shown
<1>1. id \in SubscriptionID /\ subscription[id] \in Row
  BY DEF TablesOK, PostgresTypeOK, HasSubscription
<1>2. service[subscription[id].service] \in StoredName
  BY <1>1 DEF TablesOK, PostgresTypeOK, HasSubscription, ReferencedServiceExists, Row
<1>3. subscription[id].price \in Nat
  BY <1>1, DataAssumption DEF Row
<1> QED BY <1>1, <1>2, <1>3 DEF Joined, Shown, Row

(* A SELECT ends in an answer. *)
LEMMA GetSubscriptionInv ==
  ASSUME Sound, NEW w \in Worker, GetSubscription(w)
  PROVE  Sound'
<1>1. TablesOK'
  BY LocalStep DEF GetSubscription
<1>2. CASE HasSubscription(req[w].id)
  <2>1. Joined(subscription[req[w].id]) \in Shown
    BY <1>2, JoinedTyped DEF Sound
  <2>2. [status |-> 200, body |-> Joined(subscription[req[w].id])] \in Answer
    BY <2>1, AnswersTyped
  <2>3. /\ Reply(w, 200, Joined(subscription[req[w].id]))
        /\ pc[w] = "write" /\ UNCHANGED late
    BY <1>2 DEF GetSubscription
  <2> QED BY <1>1, <2>2, <2>3, ReplyStep
<1>3. CASE ~HasSubscription(req[w].id)
  BY <1>1, <1>3, ReplyStep, AnswersTyped DEF GetSubscription
<1> QED BY <1>2, <1>3

(* A finished worker forgets its request. *)
LEMMA FinishInv ==
  ASSUME Sound, NEW w \in Worker, Finish(w)
  PROVE  Sound'
<1>1. TablesOK'
  BY LocalStep DEF Finish
<1>2. /\ StepOf(w)
      /\ pc'[w] = "idle" /\ req'[w] = Nil /\ svc'[w] = Nil /\ late'[w] = late[w]
  BY WorkerTyped DEF Finish, StepOf, Sound, TypeOK, Point
<1>3. Checked("idle", Nil, Nil)
  BY DEF Checked, Querying
<1> QED BY <1>1, <1>2, <1>3, WorkerStep

-----------------------------------------------------------------------------
(* Faults. *)

(* Giving up ends in an answer, or goes on past the read that may fail. *)
LEMMA StatementFailsInv ==
  ASSUME Sound, NEW w \in Worker, StatementFails(w)
  PROVE  Sound'
<1>1. TablesOK'
  BY LocalStep DEF StatementFails
<1>2. CASE pc[w] = "getCurrent"
  BY <1>2, PastGetCurrent DEF StatementFails, GiveUp
<1>3. CASE pc[w] # "getCurrent"
  BY <1>1, <1>3, ReplyStep, AnswersTyped DEF StatementFails, GiveUp, Querying
<1> QED BY <1>2, <1>3

(* A statement left behind stands where its worker stood. *)
LEMMA PendingChecked ==
  ASSUME Sound, NEW w \in Worker, PendingStatement(w) # Nil
  PROVE  LET st == PendingStatement(w)
         IN  /\ st \in Statement
             /\ st.at = pc[w]
             /\ Checked(st.at, st.req, st.svc)
             /\ st.at = "addService" => TrimSpace(st.req.name) # EmptyName
<1>1. /\ PendingStatement(w) = [at |-> pc[w], req |-> req[w], svc |-> svc[w]]
      /\ pc[w] \in {"addService", "write"}
      /\ pc[w] = "addService" => TrimSpace(req[w].name) # EmptyName
  BY DEF PendingStatement
<1> QED BY <1>1, WorkerTyped DEF Statement

(* A lost answer is a 500 and a statement left behind. *)
LEMMA AnswerLostInv ==
  ASSUME Sound, NEW w \in Worker, AnswerLost(w)
  PROVE  Sound'
<1> DEFINE st == PendingStatement(w)
<1>1. TablesOK'
  BY LocalStep DEF AnswerLost
<1>2. /\ st \in Statement /\ st.at = pc[w] /\ Checked(st.at, st.req, st.svc)
      /\ st.at = "addService" => TrimSpace(st.req.name) # EmptyName
  BY <1>1, PendingChecked DEF AnswerLost
<1>3. pc[w] \in {"addService", "write"}
  BY DEF AnswerLost, PendingStatement
<1>4. Reply(w, 500, Nil) /\ late' = [late EXCEPT ![w] = st]
  BY <1>3 DEF AnswerLost, GiveUp
<1> HIDE DEF st
<1>5. Checked("answered", req[w], svc[w])
  <2>1. Checked(pc[w], req[w], svc[w])
    BY <1>1, WorkerTyped
  <2> QED BY <2>1 DEF Checked, Querying
<1>6. [status |-> 500, body |-> Nil] # Nil
  BY APIAssumption, AnswersTyped
<1>7. /\ StepOf(w)
      /\ pc'[w] = "answered" /\ req'[w] = req[w] /\ svc'[w] = svc[w] /\ late'[w] = st
  BY <1>2, <1>3, <1>4, <1>6, WorkerTyped, AnswersTyped DEF Reply, StepOf, Sound, TypeOK, Point
<1> QED BY <1>1, <1>2, <1>5, <1>7, WorkerStep

(* A late statement does to the tables what it would have done in time. *)
LEMMA LateStatementInv ==
  ASSUME Sound, NEW w \in Worker, LateStatement(w)
  PROVE  Sound'
<1> DEFINE st == late[w]
           r == st.req
<1>1. /\ st \in Statement /\ Checked(st.at, r, st.svc)
      /\ st.at = "addService" => TrimSpace(r.name) # EmptyName
      /\ r \in Request /\ st.svc \in ServiceID \cup {Nil}
      /\ TablesOK
  BY APIAssumption, WorkerTyped DEF LateStatement, Sound, Statement
<1>2. TablesOK'
  <2>1. CASE st.at = "addService" /\ InsertService(TrimSpace(r.name))
    <3>1. r.name \in RawName
      BY <1>1, <2>1 DEF Checked, Request
    <3>2. TrimSpace(r.name) \in StoredName
      BY <1>1, <2>1, <3>1, TrimmedName
    <3> QED BY <1>1, <2>1, <3>2, InsertServiceOK
  <2>2. CASE st.at = "addService" /\ InsertServiceFails(TrimSpace(r.name))
    BY <1>1, <2>2, InsertServiceFailsOK
  <2>3. CASE st.at = "write" /\ r.op = "create" /\ InsertSubscription(NewRow(r, st.svc))
    BY <1>1, <2>3, CreateReady, InsertSubscriptionOK
  <2>4. CASE st.at = "write" /\ r.op = "create" /\ InsertSubscriptionFails(NewRow(r, st.svc))
    BY <1>1, <2>4, InsertSubscriptionFailsOK
  <2>5. CASE st.at = "write" /\ r.op = "update" /\ UpdateRow(r.id, Assignments(r, st.svc))
    BY <1>1, <2>5, UpdateReady, UpdateRowOK
  <2>6. CASE st.at = "write" /\ r.op = "delete" /\ DeleteRow(r.id)
    BY <1>1, <2>6, DeleteRowOK
  <2>7. CASE UNCHANGED tables
    BY <2>7, LocalStep
  <2> QED BY <2>1, <2>2, <2>3, <2>4, <2>5, <2>6, <2>7 DEF LateStatement
<1>3. /\ StepOf(w)
      /\ pc'[w] = pc[w] /\ req'[w] = req[w] /\ svc'[w] = svc[w] /\ late'[w] = Nil
  BY WorkerTyped DEF LateStatement, local, StepOf, Sound, TypeOK
<1>4. Checked(pc[w], req[w], svc[w])
  BY <1>2, WorkerTyped
<1> QED BY <1>2, <1>3, <1>4, WorkerStep

(* A restart forgets the workers and leaves statements behind. *)
LEMMA RestartInv ==
  ASSUME Sound, Restart
  PROVE  Sound'
<1>1. TablesOK'
  BY LocalStep DEF Restart
<1>2. ASSUME NEW w \in Worker
      PROVE  late'[w] = late[w] \/ (PendingStatement(w) # Nil /\ late'[w] = PendingStatement(w))
  BY DEF Restart
<1>3. ASSUME NEW w \in Worker
      PROVE  /\ late'[w] \in Statement \cup {Nil}
             /\ late'[w] # Nil =>
                  /\ Checked(late'[w].at, late'[w].req, late'[w].svc)
                  /\ late'[w].at = "addService" => TrimSpace(late'[w].req.name) # EmptyName
  <2>1. CASE late'[w] = late[w]
    BY <1>1, <2>1 DEF Sound, TypeOK
  <2>2. CASE PendingStatement(w) # Nil /\ late'[w] = PendingStatement(w)
    BY <1>1, <2>2, PendingChecked
  <2> QED BY <1>2, <2>1, <2>2
<1>4. late' \in [Worker -> Statement \cup {Nil}]
  <2>1. PICK sent \in SUBSET Worker :
          late' = [w \in Worker |-> IF w \in sent THEN PendingStatement(w) ELSE late[w]]
    BY DEF Restart
  <2> QED BY <1>3, <2>1
<1>5. TypeOK'
  BY <1>1, <1>4 DEF Restart, TypeOK, TablesOK, Point
<1>6. \A w \in Worker : Checked(pc'[w], req'[w], svc'[w])
  BY DEF Restart, Checked, Querying
<1> QED BY <1>1, <1>3, <1>5, <1>6 DEF Sound

-----------------------------------------------------------------------------
(* The initial tables are empty and every worker is idle. *)
LEMMA InitSound == Init => Sound
<1> SUFFICES ASSUME Init PROVE Sound
  OBVIOUS
<1>1. TablesOK
  BY TablesInit DEF Init
<1>2. TypeOK
  BY <1>1 DEF Init, TypeOK, TablesOK, Point
<1>3. \A w \in Worker : Checked(pc[w], req[w], svc[w])
  BY DEF Init, Checked, Querying
<1>4. \A w \in Worker : late[w] = Nil
  BY DEF Init
<1> QED BY <1>1, <1>2, <1>3, <1>4 DEF Sound

(* A step that changes nothing preserves everything. *)
LEMMA StutterInv ==
  ASSUME Sound, UNCHANGED vars
  PROVE  Sound'
<1>1. TablesOK'
  BY LocalStep DEF vars
<1> QED BY <1>1 DEF vars, local, tables, Sound, TypeOK, TablesOK

(* Every step preserves Sound. *)
LEMMA NextSound == Sound /\ [Next]_vars => Sound'
<1> SUFFICES ASSUME Sound, [Next]_vars PROVE Sound'
  OBVIOUS
<1>1. ASSUME NEW w \in Worker, Receive(w) PROVE Sound'
  BY <1>1, ReceiveInv
<1>2. ASSUME NEW w \in Worker, Handle(w) PROVE Sound'
  <2>1. CASE Validate(w)
    BY <2>1, ValidateInv
  <2>2. CASE GetServiceID(w)
    BY <2>2, GetServiceIDInv
  <2>3. CASE AddBlankService(w)
    BY <2>3, AddBlankServiceInv
  <2>4. CASE AddService(w)
    BY <2>4, AddServiceInv
  <2>5. CASE CheckDates(w)
    BY <2>5, CheckDatesInv
  <2>6. CASE GetCurrent(w)
    BY <2>6, GetCurrentInv
  <2>7. CASE CreateSubscription(w)
    BY <2>7, CreateSubscriptionInv
  <2>8. CASE UpdateSubscription(w)
    BY <2>8, UpdateSubscriptionInv
  <2>9. CASE DeleteSubscription(w)
    BY <2>9, DeleteSubscriptionInv
  <2>10. CASE GetSubscription(w)
    BY <2>10, GetSubscriptionInv
  <2>11. CASE StatementFails(w)
    BY <2>11, StatementFailsInv
  <2>12. CASE AnswerLost(w)
    BY <2>12, AnswerLostInv
  <2>13. CASE Finish(w)
    BY <2>13, FinishInv
  <2> QED BY <1>2, <2>1, <2>2, <2>3, <2>4, <2>5, <2>6, <2>7, <2>8, <2>9, <2>10,
             <2>11, <2>12, <2>13 DEF Handle
<1>3. ASSUME NEW w \in Worker, LateStatement(w) PROVE Sound'
  BY <1>3, LateStatementInv
<1>4. CASE Restart
  BY <1>4, RestartInv
<1>5. CASE UNCHANGED vars
  BY <1>5, StutterInv
<1> QED BY <1>1, <1>2, <1>3, <1>4, <1>5 DEF Next

-----------------------------------------------------------------------------
(* Whose service an id is. *)

(* No step gives an id that was taken, or gives it up, a new meaning. *)
LEMMA ServicesStay ==
  ASSUME Sound, [Next]_vars
  PROVE  /\ \A id \in ServiceID : id < serviceSeq => service'[id] = service[id]
         /\ serviceSeq' >= serviceSeq
<1>1. \/ service' = service /\ serviceSeq' \in {serviceSeq, serviceSeq + 1}
      \/ \E name : InsertService(name)
  BY DEF Next, Handle, Receive, Validate, GetServiceID, AddBlankService, AddService, CheckDates,
         GetCurrent, CreateSubscription, UpdateSubscription, DeleteSubscription,
         GetSubscription, StatementFails, AnswerLost, Finish, LateStatement, Restart, vars,
         tables, InsertServiceFails, InsertSubscription, InsertSubscriptionFails, UpdateRow,
         DeleteRow
<1>2. serviceSeq \in Nat /\ service \in [ServiceID -> StoredName \cup {Nil}]
  BY TableAssumption DEF Sound, TypeOK, PostgresTypeOK
<1>3. CASE service' = service /\ serviceSeq' \in {serviceSeq, serviceSeq + 1}
  BY <1>2, <1>3
<1>4. ASSUME NEW name, InsertService(name)
      PROVE  /\ \A id \in ServiceID : id < serviceSeq => service'[id] = service[id]
             /\ serviceSeq' >= serviceSeq
  <2>1. service' = [service EXCEPT ![serviceSeq] = name] /\ serviceSeq' = serviceSeq + 1
    BY <1>4 DEF InsertService
  <2>2. \A id \in ServiceID : id < serviceSeq => id # serviceSeq
    BY <1>2 DEF ServiceID
  <2> QED BY <1>2, <2>1, <2>2
<1> QED BY <1>1, <1>3, <1>4

(* A worker has the request and the id it had, or an id that was found or made for it. *)
LEMMA LocalSteps ==
  ASSUME [Next]_vars
  PROVE  \/ UNCHANGED <<req, svc>>
         \/ \E v \in Worker : Receive(v) \/ Finish(v)
         \/ Restart
         \/ \E v \in Worker, id \in ServiceID :
              GetServiceID(v) /\ service[id] = req[v].name /\ Resolve(v, id)
         \/ \E v \in Worker :
              /\ AddService(v) /\ InsertService(TrimSpace(req[v].name))
              /\ Resolve(v, serviceSeq)
<1> USE DEF Reply, Goto
<1>1. ASSUME NEW v \in Worker, Handle(v)
      PROVE  \/ UNCHANGED <<req, svc>>
             \/ Finish(v)
             \/ \E id \in ServiceID :
                  GetServiceID(v) /\ service[id] = req[v].name /\ Resolve(v, id)
             \/ /\ AddService(v) /\ InsertService(TrimSpace(req[v].name))
                /\ Resolve(v, serviceSeq)
  <2>1. CASE GetServiceID(v)
    BY <2>1 DEF GetServiceID, ServicesNamed
  <2>2. CASE AddService(v)
    BY <2>2 DEF AddService
  <2>3. CASE CreateSubscription(v) \/ UpdateSubscription(v) \/ DeleteSubscription(v)
    BY <2>3 DEF CreateSubscription, UpdateSubscription, DeleteSubscription
  <2>4. CASE GetSubscription(v) \/ StatementFails(v) \/ AnswerLost(v)
    BY <2>4 DEF GetSubscription, StatementFails, AnswerLost, GiveUp
  <2>5. CASE Validate(v) \/ AddBlankService(v) \/ CheckDates(v) \/ GetCurrent(v)
    BY <2>5 DEF Validate, AddBlankService, CheckDates, GetCurrent
  <2> QED BY <1>1, <2>1, <2>2, <2>3, <2>4, <2>5 DEF Handle
<1>2. ASSUME NEW v \in Worker, LateStatement(v)
      PROVE  UNCHANGED <<req, svc>>
  BY <1>2 DEF LateStatement, local
<1>3. CASE UNCHANGED vars
  BY <1>3 DEF vars, local
<1> QED BY <1>1, <1>2, <1>3 DEF Next

(* The id a worker holds is the one it held for the same request, or it has just been given   *)
(* out to the service its request names.                                              *)
LEMMA ResolvedSteps ==
  ASSUME Sound, [Next]_vars, NEW w \in Worker, svc'[w] # Nil
  PROVE  /\ req'[w] = req[w] /\ svc'[w] \in ServiceID
         /\ \/ svc'[w] = svc[w]
            \/ /\ service'[svc'[w]] = TrimSpace(req[w].name) /\ service'[svc'[w]] # Nil
               /\ svc'[w] < serviceSeq'
<1> DEFINE Goal ==
             /\ req'[w] = req[w] /\ svc'[w] \in ServiceID
             /\ \/ svc'[w] = svc[w]
                \/ /\ service'[svc'[w]] = TrimSpace(req[w].name) /\ service'[svc'[w]] # Nil
                   /\ svc'[w] < serviceSeq'
<1>1. /\ svc \in [Worker -> ServiceID \cup {Nil}] /\ req \in [Worker -> Input \cup {Nil}]
      /\ TablesOK /\ PostgresTypeOK
  BY DEF Sound, TypeOK
<1>2. Sound'
  BY NextSound
<1>3. svc'[w] \in ServiceID
  BY <1>2 DEF Sound, TypeOK
<1>4. CASE UNCHANGED <<req, svc>>
  BY <1>3, <1>4
<1>5. ASSUME NEW v \in Worker, Receive(v)
      PROVE  Goal
  <2>1. svc[v] = Nil /\ svc' = svc
    BY <1>5, WorkerTyped DEF Receive, Checked
  <2>2. v # w
    BY <2>1
  <2> QED BY <1>1, <1>3, <1>5, <2>1, <2>2 DEF Receive
<1>6. ASSUME NEW v \in Worker, Finish(v)
      PROVE  Goal
  <2>1. v # w
    BY <1>1, <1>6 DEF Finish
  <2> QED BY <1>1, <1>3, <1>6, <2>1 DEF Finish
<1>7. CASE Restart
  BY <1>7 DEF Restart
<1>8. ASSUME NEW v \in Worker, NEW id \in ServiceID,
             GetServiceID(v), service[id] = req[v].name, Resolve(v, id)
      PROVE  Goal
  <2>1. req' = req /\ svc' = [svc EXCEPT ![v] = id] /\ service' = service
        /\ serviceSeq' = serviceSeq
    BY <1>8 DEF Resolve, GetServiceID, tables
  <2>2. CASE v # w
    BY <1>1, <1>3, <2>1, <2>2
  <2>3. CASE v = w
    <3>1. svc'[w] = id /\ req[w].name # Nil
      BY <1>1, <1>8, <2>1, <2>3, WorkerTyped DEF GetServiceID, Checked
    <3>2. service[id] \in StoredName /\ service[id] = req[w].name
      BY <1>1, <1>8, <2>3, <3>1 DEF PostgresTypeOK
    <3>3. TrimSpace(req[w].name) = service[id]
      BY <3>2, StoredTrimmed
    <3>4. service[id] # Nil /\ id < serviceSeq
      BY <1>1, <3>1, <3>2 DEF TablesOK, SequencesAhead
    <3> QED BY <1>3, <2>1, <3>1, <3>3, <3>4
  <2> QED BY <2>2, <2>3
<1>9. ASSUME NEW v \in Worker,
             AddService(v), InsertService(TrimSpace(req[v].name)), Resolve(v, serviceSeq)
      PROVE  Goal
  <2>1. req' = req /\ svc' = [svc EXCEPT ![v] = serviceSeq] /\ serviceSeq' = serviceSeq + 1
    BY <1>9 DEF Resolve, InsertService
  <2>2. CASE v # w
    BY <1>1, <1>3, <2>1, <2>2
  <2>3. CASE v = w
    <3>1. svc'[w] = serviceSeq
      BY <1>1, <2>1, <2>3
    <3>2. TrimSpace(req[w].name) \in StoredName
      BY <1>9, <2>3, AddedName DEF AddService
    <3>3. service'[serviceSeq] = TrimSpace(req[w].name)
      BY <1>1, <1>9, <2>3, <3>2, InsertServiceOK
    <3>4. TrimSpace(req[w].name) # Nil
      BY <3>2, DataAssumption DEF StoredName, RawName
    <3>5. serviceSeq < serviceSeq'
      BY <1>1, <2>1, TableAssumption DEF PostgresTypeOK
    <3> QED BY <1>3, <2>1, <3>1, <3>3, <3>4, <3>5
  <2> QED BY <2>2, <2>3
<1> HIDE DEF Goal
<1>10. Goal
  BY <1>4, <1>5, <1>6, <1>7, <1>8, <1>9, LocalSteps, <1>3 DEF Goal
<1> QED BY <1>10 DEF Goal

(* A statement left behind is one that was, or the one its worker was about to run. *)
LEMMA LateSteps ==
  ASSUME Sound, [Next]_vars, NEW w \in Worker, late'[w] # Nil
  PROVE  late'[w] = late[w] \/ (late'[w].req = req[w] /\ late'[w].svc = svc[w])
<1>1. late \in [Worker -> Statement \cup {Nil}]
  BY DEF Sound, TypeOK
<1>2. \/ late' = late
      \/ \E v \in Worker : LateStatement(v) \/ AnswerLost(v)
      \/ Restart
  BY DEF Next, Handle, Receive, Validate, GetServiceID, AddBlankService, AddService, CheckDates,
         GetCurrent, CreateSubscription, UpdateSubscription, DeleteSubscription,
         GetSubscription, StatementFails, Finish, vars
<1>3. PendingStatement(w) # Nil =>
        PendingStatement(w) = [at |-> pc[w], req |-> req[w], svc |-> svc[w]]
  BY DEF PendingStatement
<1>4. ASSUME NEW v \in Worker, LateStatement(v)
      PROVE  late'[w] = late[w]
  BY <1>1, <1>4 DEF LateStatement
<1>5. ASSUME NEW v \in Worker, AnswerLost(v)
      PROVE  late'[w] \in {late[w], PendingStatement(w)}
  BY <1>1, <1>5 DEF AnswerLost
<1>6. CASE Restart
  BY <1>3, <1>6 DEF Restart
<1> QED BY <1>2, <1>3, <1>4, <1>5, <1>6

(* Initially nobody has resolved a service; no step makes an id one of another service. *)
LEMMA NextInv == Inv /\ [Next]_vars => Inv'
<1> SUFFICES ASSUME Inv, [Next]_vars PROVE Inv'
  OBVIOUS
<1>1. Sound /\ Sound'
  BY NextSound DEF Inv
<1>2. ASSUME NEW r, NEW s \in ServiceID \cup {Nil}, Named(r, s)
      PROVE  Named(r, s)'
  <2>1. CASE s = Nil
    BY <2>1 DEF Named
  <2>2. CASE s # Nil
    <3>1. s \in ServiceID /\ service[s] # Nil
      BY <1>2, <2>2 DEF Named
    <3>2. s < serviceSeq
      BY <1>1, <3>1 DEF Sound, TablesOK, SequencesAhead
    <3> QED BY <1>1, <1>2, <3>1, <3>2, ServicesStay DEF Named
  <2> QED BY <2>1, <2>2
<1>3. ASSUME NEW w \in Worker
      PROVE  Named(req[w], svc[w])'
  <2>1. Named(req[w], svc[w]) /\ svc[w] \in ServiceID \cup {Nil}
    BY <1>1, WorkerTyped DEF Inv
  <2> QED BY <1>1, <1>2, <2>1, ResolvedSteps DEF Named
<1>4. ASSUME NEW w \in Worker, late'[w] # Nil
      PROVE  Named(late[w].req, late[w].svc)'
  <2>1. CASE late'[w] = late[w]
    <3>1. late[w].svc \in ServiceID \cup {Nil} /\ Named(late[w].req, late[w].svc)
      BY <1>1, <1>4, <2>1, WorkerTyped DEF Inv, Statement
    <3> QED BY <1>2, <2>1, <3>1 DEF Named
  <2>2. CASE late'[w].req = req[w] /\ late'[w].svc = svc[w]
    <3>1. Named(req[w], svc[w]) /\ svc[w] \in ServiceID \cup {Nil}
      BY <1>1, WorkerTyped DEF Inv
    <3> QED BY <1>2, <2>2, <3>1 DEF Named
  <2> QED BY <1>1, <1>4, <2>1, <2>2, LateSteps
<1> QED BY <1>1, <1>3, <1>4 DEF Inv

(* Inv holds in every reachable state of the API, for any number of concurrent       *)
(* requests, any requests and any of the faults.                                   *)
THEOREM InvHolds == Spec => []Inv
<1>1. Init => Inv
  BY InitSound DEF Init, Inv, Named
<1> QED BY <1>1, NextInv, PTL DEF Spec

(* Every variable keeps its type. *)
THEOREM TypeCorrect == Spec => []TypeOK
<1>1. Inv => TypeOK
  BY DEF Inv, Sound
<1> QED BY <1>1, InvHolds, PTL

(* No subscription ever ends before it starts, whichever updates race. *)
THEOREM DatesStayOrdered == Spec => []DatesOrdered
<1>1. Inv => DatesOrdered
  BY DEF Inv, Sound, TablesOK
<1> QED BY <1>1, InvHolds, PTL

(* A worker's resolved service is the one its request names until it is used. *)
THEOREM ServicesResolved == Spec => []ServiceResolved
<1>1. Inv => ServiceResolved
  <2> SUFFICES ASSUME Inv PROVE ServiceResolved
    OBVIOUS
  <2>1. ASSUME NEW w \in Worker, svc[w] # Nil
        PROVE  service[svc[w]] = TrimSpace(req[w].name)
    BY <2>1 DEF Inv, Named
  <2>2. ASSUME NEW w \in Worker, pc[w] = "write", req[w].op \in {"create", "update"}
        PROVE  svc[w] # Nil <=> req[w].name # Nil
    BY <2>2 DEF Inv, Sound, Checked
  <2>3. ASSUME NEW w \in Worker, late[w] # Nil, late[w].svc # Nil
        PROVE  service[late[w].svc] = TrimSpace(late[w].req.name)
    BY <2>3 DEF Inv, Named
  <2> QED BY <2>1, <2>2, <2>3 DEF ServiceResolved
<1> QED BY <1>1, InvHolds, PTL

(* UNIQUE compares ids of services; with unique trimmed names that is to compare names. *)
LEMMA UniqueByName == Sound => NoDoubleBilling
<1> SUFFICES ASSUME Sound,
                    NEW i \in SubscriptionID, NEW j \in SubscriptionID,
                    subscription[i] # Nil, subscription[j] # Nil, i # j,
                    subscription[i].user = subscription[j].user,
                    subscription[i].start = subscription[j].start,
                    TrimSpace(service[subscription[i].service])
                      = TrimSpace(service[subscription[j].service])
             PROVE  FALSE
  BY DEF NoDoubleBilling
<1> DEFINE si == subscription[i].service
           sj == subscription[j].service
<1>1. TablesOK /\ si \in ServiceID /\ sj \in ServiceID
  BY DEF Sound, TablesOK, PostgresTypeOK, Row
<1>2. service[si] \in StoredName /\ service[sj] \in StoredName
  BY <1>1 DEF TablesOK, PostgresTypeOK, ReferencedServiceExists
<1>3. service[si] = service[sj]
  BY <1>2, StoredTrimmed
<1>4. si = sj
  BY <1>1, <1>2, <1>3 DEF TablesOK, UniqueServiceName, ReferencedServiceExists
<1> QED BY <1>1, <1>4 DEF TablesOK, UniqueSubscription, UniqueViolation

(* No user has two subscriptions to one service from the same month on, however the  *)
(* name was typed and however often a request was tried again.                       *)
THEOREM BilledOnce == Spec => []NoDoubleBilling
<1>1. Inv => NoDoubleBilling
  BY UniqueByName DEF Inv
<1> QED BY <1>1, InvHolds, PTL

(* A step either leaves the subscriptions alone or is one of three statements. *)
LEMMA SubscriptionSteps ==
  ASSUME [Next]_vars
  PROVE  \/ subscription' = subscription
         \/ \E row : InsertSubscription(row)
         \/ \E w \in Worker :
              \/ /\ pc[w] = "write" /\ req[w].op = "update"
                 /\ UpdateRow(req[w].id, Assignments(req[w], svc[w]))
              \/ /\ late[w] # Nil /\ late[w].at = "write" /\ late[w].req.op = "update"
                 /\ UpdateRow(late[w].req.id, Assignments(late[w].req, late[w].svc))
         \/ \E id : DeleteRow(id)
BY DEF Next, Handle, Receive, Validate, GetServiceID, AddBlankService, AddService, CheckDates,
       GetCurrent, CreateSubscription, UpdateSubscription, DeleteSubscription, GetSubscription,
       StatementFails, AnswerLost, Finish, LateStatement, Restart, vars, tables,
       InsertService, InsertServiceFails, InsertSubscriptionFails

(* An id that was given out and is free stays free. *)
StaysDead(id) ==
  id < subscriptionSeq /\ subscription[id] = Nil => subscription'[id] = Nil

LEMMA FreeStaysFree ==
  ASSUME Sound, [Next]_vars, NEW id \in SubscriptionID
  PROVE  StaysDead(id)
<1> SUFFICES ASSUME id < subscriptionSeq, subscription[id] = Nil
             PROVE  subscription'[id] = Nil
  BY DEF StaysDead
<1>1. subscription \in [SubscriptionID -> Row \cup {Nil}] /\ subscriptionSeq \in Int
  BY TableAssumption DEF Sound, TypeOK, PostgresTypeOK
<1>2. CASE subscription' = subscription
  BY <1>2
<1>3. ASSUME NEW row, InsertSubscription(row) PROVE subscription'[id] = Nil
  BY <1>1, <1>3 DEF InsertSubscription
<1>4. ASSUME NEW other, NEW set, UpdateRow(other, set)
      PROVE  subscription'[id] = Nil
  <2>1. other # id
    BY <1>4 DEF UpdateRow, UpdateError, HasSubscription
  <2> QED BY <1>1, <1>4, <2>1 DEF UpdateRow
<1>5. ASSUME NEW other, DeleteRow(other) PROVE subscription'[id] = Nil
  BY <1>1, <1>5 DEF DeleteRow
<1> QED BY <1>2, <1>3, <1>4, <1>5, SubscriptionSteps

(* In SubscriptionAPI, an id that was given out and is free again is free for good.   *)
THEOREM IdsStayDead == Spec => NoResurrection
<1>1. Inv /\ [Next]_vars =>
        [\A id \in SubscriptionID :
           id < subscriptionSeq /\ subscription[id] = Nil => subscription'[id] = Nil]_vars
  BY FreeStaysFree DEF Inv, StaysDead
<1> QED BY <1>1, InvHolds, PTL DEF Spec, NoResurrection

(* What an update with a wish to clear, and no other, makes of an end date. *)
LEMMA ClearsWhenAsked ==
  ASSUME NEW r \in Request, NEW s \in ServiceID \cup {Nil},
         Checked("write", r, s), r.op = "update",
         NEW old, old.end # Nil, Assign(old, Assignments(r, s)).end = Nil
  PROVE  AsksToClear(r)
<1>1. UpdateDatesAccepted(r)
  BY DEF Checked
<1>2. Assignments(r, s).end = ZeroTime
  <2>1. Assignments(r, s).end # Nil => Assignments(r, s).end = ZeroTime
    BY DEF Assign
  <2>2. Assignments(r, s).end # Nil
    BY DEF Assign
  <2> QED BY <2>1, <2>2
<1>3. r.end # Nil
  <2>1. Nil \notin Int
    BY DataAssumption
  <2>2. ZeroTime # Nil
    BY <2>1, ZeroTimeIsTime DEF Time
  <2>3. r.end = Nil => ~Clears(r)
    BY DataAssumption DEF Clears
  <2>4. r.end = Nil => Assignments(r, s).end = Nil
    BY <2>3 DEF Assignments
  <2> QED BY <1>2, <2>2, <2>4
<1>4. CASE Clears(r)
  BY <1>4 DEF AsksToClear
<1>5. CASE ~Clears(r)
  <2>1. Assignments(r, s).end = ParseMonth(r.end)
    BY <1>3, <1>5 DEF Assignments
  <2> QED BY <1>1, <1>2, <1>3, <1>5, <2>1 DEF UpdateDatesAccepted, AsksToClear
<1> QED BY <1>4, <1>5

(* Only the row an update is for changes. *)
LEMMA UpdateChangesOne ==
  ASSUME PostgresTypeOK, NEW other, NEW set, UpdateRow(other, set),
         NEW id \in SubscriptionID, subscription'[id] # subscription[id]
  PROVE  id = other /\ subscription'[id] = Assign(subscription[id], set)
BY DEF PostgresTypeOK, UpdateRow

(* UpdateSubscription clears no end date but on request. *)
ClearedIfAsked(id) ==
  /\ HasSubscription(id) /\ subscription[id].end # Nil
  /\ subscription'[id] # Nil /\ subscription'[id].end = Nil
  => \E w \in Worker :
       \/ req[w] # Nil /\ req[w].id = id /\ AsksToClear(req[w])
       \/ late[w] # Nil /\ late[w].req.id = id /\ AsksToClear(late[w].req)

LEMMA ClearedByUpdate ==
  ASSUME Sound, [Next]_vars, NEW id \in SubscriptionID
  PROVE  ClearedIfAsked(id)
<1> SUFFICES ASSUME HasSubscription(id), subscription[id].end # Nil,
                    subscription'[id] # Nil, subscription'[id].end = Nil
             PROVE  \E w \in Worker :
                      \/ req[w] # Nil /\ req[w].id = id /\ AsksToClear(req[w])
                      \/ late[w] # Nil /\ late[w].req.id = id /\ AsksToClear(late[w].req)
  BY DEF ClearedIfAsked
<1>0. subscription[id] # Nil
  BY DEF HasSubscription
<1>1. PostgresTypeOK /\ SequencesAhead /\ subscription'[id] # subscription[id]
  BY DEF Sound, TypeOK, TablesOK
<1>2. ASSUME NEW row, InsertSubscription(row) PROVE FALSE
  <2>1. id # subscriptionSeq
    <3>1. id < subscriptionSeq /\ id \in Int
      BY <1>0, <1>1, TableAssumption DEF SequencesAhead, SubscriptionID
    <3> QED BY <3>1
  <2> QED BY <1>1, <1>2, <2>1 DEF InsertSubscription, PostgresTypeOK
<1>3. ASSUME NEW other, DeleteRow(other) PROVE FALSE
  BY <1>1, <1>3 DEF DeleteRow, PostgresTypeOK
<1>4. ASSUME NEW w \in Worker, pc[w] = "write", req[w].op = "update",
             UpdateRow(req[w].id, Assignments(req[w], svc[w]))
      PROVE  req[w] # Nil /\ req[w].id = id /\ AsksToClear(req[w])
  <2>1. /\ req[w] # Nil /\ req[w] \in Request /\ svc[w] \in ServiceID \cup {Nil}
        /\ Checked("write", req[w], svc[w])
    BY <1>4, WorkerTyped DEF Sound
  <2>2. /\ id = req[w].id
        /\ Assign(subscription[id], Assignments(req[w], svc[w])).end = Nil
    BY <1>1, <1>4, UpdateChangesOne
  <2> QED BY <1>4, <2>1, <2>2, ClearsWhenAsked
<1>5. ASSUME NEW w \in Worker, late[w] # Nil, late[w].at = "write",
             late[w].req.op = "update",
             UpdateRow(late[w].req.id, Assignments(late[w].req, late[w].svc))
      PROVE  late[w].req.id = id /\ AsksToClear(late[w].req)
  <2>1. /\ late[w].req \in Request /\ late[w].svc \in ServiceID \cup {Nil}
        /\ Checked("write", late[w].req, late[w].svc)
    BY <1>5, WorkerTyped, APIAssumption DEF Statement, Sound
  <2>2. /\ id = late[w].req.id
        /\ Assign(subscription[id], Assignments(late[w].req, late[w].svc)).end = Nil
    BY <1>1, <1>5, UpdateChangesOne
  <2> QED BY <1>5, <2>1, <2>2, ClearsWhenAsked
<1> QED BY <1>1, <1>2, <1>3, <1>4, <1>5, SubscriptionSteps

(* In SubscriptionAPI, no step takes an end date away but the statement of a request that   *)
(* asked for that.                                                             *)
THEOREM OnlyAskedCleared == Spec => ClearedOnRequest
<1>1. Inv /\ [Next]_vars =>
        [\A id \in SubscriptionID :
           /\ HasSubscription(id) /\ subscription[id].end # Nil
           /\ subscription'[id] # Nil /\ subscription'[id].end = Nil
           => \E w \in Worker :
                \/ req[w] # Nil /\ req[w].id = id /\ AsksToClear(req[w])
                \/ late[w] # Nil /\ late[w].req.id = id /\ AsksToClear(late[w].req)]_vars
  BY ClearedByUpdate DEF Inv, ClearedIfAsked
<1> QED BY <1>1, InvHolds, PTL DEF Spec, ClearedOnRequest

-----------------------------------------------------------------------------
(* A step of a worker that goes on, back to idle, or leaves it where it is. *)
OnItsWay(w) ==
  \/ UNCHANGED <<pc[w], req[w], svc[w], answer[w]>>
  \/ Order[pc[w]] < Order[pc'[w]]
  \/ pc'[w] = "idle" /\ (pc[w] = "answered" \/ "restart" \in Fault)

(* A step to a later point, of one worker. *)
LEMMA StepForward ==
  ASSUME TypeOK, NEW w \in Worker, NEW point, pc' = [pc EXCEPT ![w] = point],
         Order[pc[w]] < Order[point],
         \A v \in Worker \ {w} : UNCHANGED <<req[v], svc[v], answer[v]>>,
         NEW v \in Worker
  PROVE  OnItsWay(v)
BY DEF TypeOK, OnItsWay

(* What Goto, Reply and Resolve change of the other workers: nothing. *)
LEMMA GotoForward ==
  ASSUME TypeOK, NEW w \in Worker, NEW point, Goto(w, point), Order[pc[w]] < Order[point],
         NEW v \in Worker
  PROVE  OnItsWay(v)
<1>1. pc' = [pc EXCEPT ![w] = point] /\ \A u \in Worker \ {w} : UNCHANGED <<req[u], svc[u], answer[u]>>
  BY DEF Goto
<1> QED BY <1>1, StepForward

LEMMA ReplyForward ==
  ASSUME TypeOK, NEW w \in Worker, NEW status, NEW body, Reply(w, status, body),
         pc[w] \in {"validate", "checkDates"} \cup Querying,
         NEW v \in Worker
  PROVE  OnItsWay(v)
<1>1. pc' = [pc EXCEPT ![w] = "answered"]
  BY DEF Reply
<1>2. \A u \in Worker \ {w} : UNCHANGED <<req[u], svc[u], answer[u]>>
  BY DEF Reply, TypeOK
<1>3. Order[pc[w]] < Order["answered"]
  BY DEF Order, Querying
<1> QED BY <1>1, <1>2, <1>3, StepForward

LEMMA ResolveForward ==
  ASSUME TypeOK, NEW w \in Worker, NEW id, Resolve(w, id),
         pc[w] \in {"getServiceID", "addService"}, NEW v \in Worker
  PROVE  OnItsWay(v)
<1>1. PICK point \in {"write", "checkDates"} : pc' = [pc EXCEPT ![w] = point]
  BY DEF Resolve
<1>2. \A u \in Worker \ {w} : UNCHANGED <<req[u], svc[u], answer[u]>>
  BY DEF Resolve, TypeOK
<1>3. Order[pc[w]] < Order[point]
  BY <1>1 DEF Order
<1> QED BY <1>1, <1>2, <1>3, StepForward

(* The steps a worker takes for its request. *)
LEMMA HandleForward ==
  ASSUME TypeOK, NEW w \in Worker, Handle(w), NEW v \in Worker
  PROVE  OnItsWay(v)
<1>1. CASE Validate(w)
  <2>1. \A point \in {"write", "getServiceID", "checkDates"} : Order["validate"] < Order[point]
    BY DEF Order
  <2> QED BY <1>1, <2>1, GotoForward, ReplyForward DEF Validate
<1>2. CASE GetServiceID(w)
  <2>1. Order["getServiceID"] < Order["addService"]
    BY DEF Order
  <2> QED BY <1>2, <2>1, GotoForward, ResolveForward DEF GetServiceID
<1>3. CASE AddBlankService(w) \/ AddService(w)
  BY <1>3, ReplyForward, ResolveForward DEF AddBlankService, AddService, Querying
<1>4. CASE CheckDates(w)
  <2>1. \A point \in {"write", "getCurrent"} : Order["checkDates"] < Order[point]
    BY DEF Order
  <2> QED BY <1>4, <2>1, GotoForward, ReplyForward DEF CheckDates
<1>5. CASE GetCurrent(w)
  <2>1. Order["getCurrent"] < Order["write"]
    BY DEF Order
  <2> QED BY <1>5, <2>1, GotoForward, ReplyForward DEF GetCurrent, Querying
<1>6. CASE CreateSubscription(w) \/ UpdateSubscription(w)
  BY <1>6, ReplyForward DEF CreateSubscription, UpdateSubscription, Querying
<1>7. CASE DeleteSubscription(w) \/ GetSubscription(w)
  BY <1>7, ReplyForward DEF DeleteSubscription, GetSubscription, Querying
<1>8. CASE StatementFails(w) \/ AnswerLost(w)
  <2>1. pc[w] \in Querying /\ GiveUp(w)
    BY <1>8 DEF StatementFails, AnswerLost, PendingStatement, Querying
  <2>2. Order["getCurrent"] < Order["write"]
    BY DEF Order
  <2> QED BY <2>1, <2>2, GotoForward, ReplyForward DEF GiveUp
<1>9. CASE Finish(w)
  <2>1. CASE v = w
    BY <1>9, <2>1 DEF Finish, TypeOK, OnItsWay
  <2>2. CASE v # w
    BY <1>9, <2>2 DEF Finish, TypeOK, OnItsWay
  <2> QED BY <2>1, <2>2
<1> QED BY <1>1, <1>2, <1>3, <1>4, <1>5, <1>6, <1>7, <1>8, <1>9 DEF Handle

(* No request is ever sent back, by a conflict, a fault or another request, so it makes at   *)
(* most as many steps as there are points.                                         *)
THEOREM OnceEach == Spec => GoesForward
<1>1. Inv /\ [Next]_vars => [\A w \in Worker : OnItsWay(w)]_vars
  <2> SUFFICES ASSUME Inv, Next, NEW v \in Worker PROVE OnItsWay(v)
    OBVIOUS
  <2>1. TypeOK
    BY DEF Inv, Sound
  <2>2. ASSUME NEW w \in Worker, Receive(w) PROVE OnItsWay(v)
    <3>1. CASE v = w
      <4>1. Order["idle"] < Order["validate"]
        BY DEF Order
      <4> QED BY <2>1, <2>2, <3>1, <4>1 DEF Receive, TypeOK, OnItsWay
    <3>2. CASE v # w
      BY <2>1, <2>2, <3>2 DEF Receive, TypeOK, OnItsWay
    <3> QED BY <3>1, <3>2
  <2>3. ASSUME NEW w \in Worker, LateStatement(w) PROVE OnItsWay(v)
    BY <2>3 DEF LateStatement, local, OnItsWay
  <2>4. ASSUME Restart PROVE OnItsWay(v)
    BY <2>4 DEF Restart, OnItsWay
  <2> QED BY <2>1, <2>2, <2>3, <2>4, HandleForward DEF Next
<1>2. Inv /\ [Next]_vars =>
        [\A w \in Worker :
           \/ UNCHANGED <<pc[w], req[w], svc[w], answer[w]>>
           \/ Order[pc[w]] < Order[pc'[w]]
           \/ pc'[w] = "idle" /\ (pc[w] = "answered" \/ "restart" \in Fault)]_vars
  BY <1>1 DEF OnItsWay
<1> QED BY <1>2, InvHolds, PTL DEF Spec, GoesForward

-----------------------------------------------------------------------------
(* What the handlers have no status for. *)

(* Of a create that passed its checks and has its service, Postgres can object to nothing    *)
(* but a duplicate and what does not fit.                                          *)
LEMMA CreateRefused ==
  ASSUME NEW r \in Request, NEW s \in ServiceID \cup {Nil},
         Checked("write", r, s), s # Nil => service[s] # Nil, r.op = "create",
         InsertError(NewRow(r, s)) # "none", StatusOf(InsertError(NewRow(r, s))) = 500
  PROVE  \/ r.price \in Int /\ ~Encodable(r.price)
         \/ subscriptionSeq \notin SubscriptionID
<1> DEFINE row == NewRow(r, s)
<1>1. HandlerAccepts(r) /\ ServiceAccepts(r)
  BY DEF Checked, Querying
<1>2. r.price \in Int /\ r.price > 0 /\ r.name # Nil
  BY <1>1 DEF HandlerAccepts, validateCreateSubscriptionRequest, Decodes, Request
<1>3. ~CheckViolation(row)
  <2>1. CASE r.end \in {Nil, EmptyText}
    BY <1>2, <2>1 DEF NewRow, CheckViolation
  <2>2. CASE r.end \notin {Nil, EmptyText}
    <3>1. /\ ParseMonth(r.start) \in Int /\ ParseMonth(r.end) \in Int
          /\ ParseMonth(r.end) >= ParseMonth(r.start)
      BY <1>1, <2>2, ParsedTime DEF ServiceAccepts, CreateAccepted, Time
    <3>2. /\ row.price = r.price /\ row.end = ParseMonth(r.end)
          /\ row.start = ParseMonth(r.start)
      BY <2>2 DEF NewRow
    <3> QED BY <1>2, <3>1, <3>2 DEF CheckViolation
  <2> QED BY <2>1, <2>2
<1>4. ~ForeignKeyViolation(row)
  BY <1>2 DEF Checked, ForeignKeyViolation, NewRow
<1>5. row.price = r.price /\ InsertError(row) \notin {"none", "unique_violation"}
  BY DEF NewRow, StatusOf
<1> HIDE DEF row
<1> QED BY <1>2, <1>3, <1>4, <1>5 DEF InsertError, RowError

(* One date of the request against the other, stored one. *)
Contradicts(r) ==
  LET old == subscription[r.id] IN
  \/ r.start # Nil /\ r.end = Nil /\ old.end # Nil /\ old.end < ParseMonth(r.start)
  \/ r.start = Nil /\ r.end # Nil /\ ~Clears(r) /\ ParseMonth(r.end) < old.start

(* The CHECK of the table refuses an update that passed its own checks for nothing else. *)
LEMMA UpdateContradicts ==
  ASSUME PostgresTypeOK, TablesOK, NEW r \in Request, NEW s \in ServiceID \cup {Nil},
         Checked("write", r, s), r.op = "update", HasSubscription(r.id),
         CheckViolation(Assign(subscription[r.id], Assignments(r, s)))
  PROVE  Contradicts(r)
<1> DEFINE old == subscription[r.id]
           new == Assign(old, Assignments(r, s))
<1>1. HandlerAccepts(r) /\ UpdateDatesAccepted(r)
  BY DEF Checked, Querying
<1>2. old \in Row /\ old.start \in Int /\ old.end \in Int \cup {Nil} /\ old.price >= 0
  BY DataAssumption DEF HasSubscription, PostgresTypeOK, Row, OptionalTime, Time
<1>3. old.end # Nil => old.end >= old.start
  BY DEF TablesOK, DatesOrdered, HasSubscription
<1>4. ~(new.price < 0)
  <2>1. r.price # Nil => r.price \in Int /\ r.price >= 0
    BY <1>1 DEF HandlerAccepts, validateUpdateSubscriptionRequest, Decodes, Request
  <2>2. new.price = IF r.price = Nil THEN old.price ELSE r.price
    BY DEF Assign, Assignments
  <2> QED BY <1>2, <2>1, <2>2 DEF Row
<1>5. new.end # Nil /\ new.end < new.start
  BY <1>4 DEF CheckViolation
<1>6. /\ r.start = Nil => new.start = old.start
      /\ r.start # Nil => new.start = ParseMonth(r.start) /\ ParseMonth(r.start) \in Int
  <2>1. r.start # Nil => ParseMonth(r.start) \in Int /\ ParseMonth(r.start) # Nil
    BY <1>1, ParsedTime, DataAssumption DEF UpdateDatesAccepted, Time
  <2> QED BY <2>1 DEF Assign, Assignments
<1>7. CASE r.end = Nil
  <2>1. ~Clears(r)
    BY <1>7, DataAssumption DEF Clears
  <2>2. new.end = old.end
    <3>1. Assignments(r, s).end = Nil
      BY <1>7, <2>1 DEF Assignments
    <3> QED BY <3>1 DEF Assign
  <2>3. r.start # Nil
    BY <1>2, <1>3, <1>5, <1>6, <2>2
  <2>4. old.end # Nil /\ old.end < ParseMonth(r.start)
    BY <1>5, <1>6, <2>2, <2>3
  <2> HIDE DEF new
  <2> QED BY <1>7, <2>3, <2>4 DEF Contradicts
<1>8. CASE r.end # Nil
  <2>1. ~Clears(r)
    <3>1. Clears(r) => Assignments(r, s).end = ZeroTime
      BY <1>8 DEF Assignments
    <3>2. ZeroTime # Nil
      BY ZeroTimeIsTime, DataAssumption DEF Time
    <3>3. Clears(r) => new.end = Nil
      BY <3>1, <3>2 DEF Assign
    <3> QED BY <1>5, <3>3
  <2>2. ParseMonth(r.end) \in Int /\ (r.start # Nil => ParseMonth(r.end) >= ParseMonth(r.start))
    BY <1>1, <1>8, <2>1, ParsedTime DEF UpdateDatesAccepted, Time
  <2>3. new.end = ParseMonth(r.end)
    <3>1. Assignments(r, s).end = ParseMonth(r.end)
      BY <1>8, <2>1 DEF Assignments
    <3>2. ParseMonth(r.end) # Nil
      BY <2>2, DataAssumption
    <3>3. new.end \in {Nil, ParseMonth(r.end)}
      BY <3>1, <3>2 DEF Assign
    <3> QED BY <1>5, <3>3
  <2>4. r.start = Nil
    BY <1>5, <1>6, <2>2, <2>3
  <2>5. ParseMonth(r.end) < old.start
    BY <1>5, <1>6, <2>3, <2>4
  <2> HIDE DEF new
  <2> QED BY <1>8, <2>1, <2>4, <2>5 DEF Contradicts
<1> QED BY <1>7, <1>8

(* Of such an update, Postgres can object to a duplicate, to what does not fit, and to that. *)
LEMMA UpdateRefused ==
  ASSUME PostgresTypeOK, TablesOK, NEW r \in Request, NEW s \in ServiceID \cup {Nil},
         Checked("write", r, s), s # Nil => service[s] # Nil, r.op = "update",
         UpdateError(r.id, Assignments(r, s)) # "none",
         StatusOf(UpdateError(r.id, Assignments(r, s))) = 500
  PROVE  \/ r.price \in Int /\ ~Encodable(r.price)
         \/ HasSubscription(r.id) /\ Contradicts(r)
<1> DEFINE set == Assignments(r, s)
           row == Assign(subscription[r.id], set)
<1>1. HandlerAccepts(r)
  BY DEF Checked, Querying
<1>2. set.price = r.price /\ r.price \in Int \cup {Nil}
  BY <1>1 DEF Assignments, HandlerAccepts, Decodes, Request
<1>3. ASSUME HasSubscription(r.id) PROVE ~ForeignKeyViolation(row)
  <2>1. service[subscription[r.id].service] # Nil
    BY <1>3 DEF TablesOK, ReferencedServiceExists, HasSubscription
  <2> QED BY <2>1 DEF Assign, Assignments, ForeignKeyViolation
<1>4. HasSubscription(r.id) /\ CheckViolation(row) => Contradicts(r)
  BY UpdateContradicts
<1> HIDE DEF set, row
<1>5. UpdateError(r.id, set) \notin {"none", "no_rows", "unique_violation"}
  BY DEF StatusOf, set
<1>6. \/ set.price # Nil /\ ~Encodable(set.price)
      \/ HasSubscription(r.id) /\ CheckViolation(row)
  BY <1>3, <1>5 DEF UpdateError, RowError, row
<1> QED BY <1>2, <1>4, <1>6

(* A worker that is answered as ServerErrorsExplained says, or is not answered now. *)
Explained(w) ==
  answer[w] = Nil /\ answer'[w] # Nil /\ answer'[w].status = 500 =>
    ServerErrorReason(w) \/ "error" \in Fault \/ late'[w] # late[w]

LEMMA ReplyExplained ==
  ASSUME TypeOK, NEW w \in Worker, NEW status, NEW body, Reply(w, status, body),
         status = 500 => ServerErrorReason(w) \/ "error" \in Fault \/ late'[w] # late[w],
         NEW v \in Worker
  PROVE  Explained(v)
<1>1. CASE v = w
  <2>1. answer'[v].status = status
    BY <1>1 DEF Reply, TypeOK
  <2> QED BY <1>1, <2>1 DEF Explained
<1>2. CASE v # w
  BY <1>2 DEF Reply, TypeOK, Explained
<1> QED BY <1>1, <1>2

LEMMA NoReplyExplained ==
  ASSUME answer' = answer, NEW v \in Worker
  PROVE  Explained(v)
BY DEF Explained

(* The steps that end in an answer about a row, while the service of the request is there. *)
LEMMA WriteExplained ==
  ASSUME Sound, NEW w \in Worker, CreateSubscription(w) \/ UpdateSubscription(w),
         svc[w] # Nil => service[svc[w]] # Nil,
         NEW v \in Worker
  PROVE  Explained(v)
<1>1. TypeOK /\ TablesOK /\ PostgresTypeOK
  BY DEF Sound, TypeOK
<1>2. /\ pc[w] = "write" /\ req[w] # Nil /\ req[w] \in Request
      /\ svc[w] \in ServiceID \cup {Nil}
      /\ Checked("write", req[w], svc[w])
  BY WorkerTyped DEF CreateSubscription, UpdateSubscription
<1>3. CASE CreateSubscription(w)
  <2> DEFINE error == InsertError(NewRow(req[w], svc[w]))
  <2>1. CASE Reply(w, 201, subscriptionSeq)
    BY <1>1, <2>1, ReplyExplained
  <2>2. CASE error # "none" /\ Reply(w, StatusOf(error), Nil)
    <3>1. StatusOf(error) = 500 => ServerErrorReason(w)
      BY <1>2, <1>3, <2>2, CreateRefused DEF CreateSubscription, ServerErrorReason
    <3> HIDE DEF error
    <3> QED BY <1>1, <2>2, <3>1, ReplyExplained
  <2> QED BY <1>3, <2>1, <2>2 DEF CreateSubscription, InsertSubscriptionFails
<1>4. CASE UpdateSubscription(w)
  <2> DEFINE error == UpdateError(req[w].id, Assignments(req[w], svc[w]))
  <2>1. CASE Reply(w, 200, Nil)
    BY <1>1, <2>1, ReplyExplained
  <2>2. CASE error # "none" /\ Reply(w, StatusOf(error), Nil)
    <3>1. StatusOf(error) = 500 => ServerErrorReason(w)
      BY <1>1, <1>2, <1>4, <2>2, UpdateRefused
         DEF UpdateSubscription, ServerErrorReason, Contradicts
    <3> HIDE DEF error
    <3> QED BY <1>1, <2>2, <3>1, ReplyExplained
  <2> QED BY <1>4, <2>1, <2>2 DEF UpdateSubscription
<1> QED BY <1>3, <1>4

(* The other steps of a request. *)
LEMMA HandleExplained ==
  ASSUME Sound, NEW w \in Worker, Handle(w),
         pc[w] = "write" /\ svc[w] # Nil => service[svc[w]] # Nil,
         NEW v \in Worker
  PROVE  Explained(v)
<1>0. TypeOK
  BY DEF Sound
<1>1. CASE Validate(w) \/ GetServiceID(w) \/ CheckDates(w) \/ GetCurrent(w)
  BY <1>0, <1>1, ReplyExplained, NoReplyExplained
     DEF Validate, GetServiceID, CheckDates, GetCurrent, Goto, Resolve
<1>2. CASE AddBlankService(w)
  <2>1. /\ pc[w] = "addService" /\ TrimSpace(req[w].name) = EmptyName
        /\ Reply(w, 500, Nil)
    BY <1>2 DEF AddBlankService
  <2>2. req[w].op = "update"
    <3>1. Checked("addService", req[w], svc[w])
      BY <2>1, WorkerTyped
    <3> QED BY <2>1, <3>1 DEF Checked, Querying, HandlerAccepts, validateCreateSubscriptionRequest
  <2> QED BY <1>0, <2>1, <2>2, ReplyExplained DEF ServerErrorReason
<1>3. CASE AddService(w)
  <2>1. CASE Resolve(w, serviceSeq)
    BY <2>1, NoReplyExplained DEF Resolve
  <2>2. CASE InsertServiceFails(TrimSpace(req[w].name)) /\ Reply(w, 500, Nil)
    <3>1. ServerErrorReason(w)
      BY <1>3, <2>2 DEF AddService, InsertServiceFails, ServiceInsertable, ServerErrorReason
    <3> QED BY <1>0, <2>2, <3>1, ReplyExplained
  <2> QED BY <1>3, <2>1, <2>2 DEF AddService
<1>4. CASE CreateSubscription(w) \/ UpdateSubscription(w)
  BY <1>4, WriteExplained DEF CreateSubscription, UpdateSubscription
<1>5. CASE DeleteSubscription(w) \/ GetSubscription(w)
  BY <1>0, <1>5, ReplyExplained DEF DeleteSubscription, GetSubscription
<1>6. CASE StatementFails(w)
  BY <1>6 DEF StatementFails, Explained
<1>7. CASE AnswerLost(w)
  <2>1. late'[w] # late[w]
    BY <1>0, <1>7 DEF AnswerLost, TypeOK
  <2> QED BY <1>0, <1>7, <2>1, ReplyExplained, NoReplyExplained DEF AnswerLost, GiveUp, Goto
<1>8. CASE Finish(w)
  BY <1>0, <1>8 DEF Finish, TypeOK, Explained
<1> QED BY <1>1, <1>2, <1>3, <1>4, <1>5, <1>6, <1>7, <1>8 DEF Handle

(* A 500 without a fault is about a blank name, a name that was inserted first by another,    *)
(* a number that does not fit or one date against a stored one, and about nothing else.      *)
THEOREM ErrorsExplained == Spec => ServerErrorsExplained
<1>1. Inv /\ [Next]_vars =>
        [\A w \in Worker :
           answer[w] = Nil /\ answer'[w] # Nil /\ answer'[w].status = 500 =>
             ServerErrorReason(w) \/ "error" \in Fault \/ late'[w] # late[w]]_vars
  <2> SUFFICES ASSUME Inv, Next, NEW v \in Worker PROVE Explained(v)
    BY DEF Explained
  <2>1. ASSUME NEW w \in Worker, Receive(w) \/ LateStatement(w) PROVE Explained(v)
    BY <2>1, NoReplyExplained DEF Receive, LateStatement, local
  <2>2. ASSUME Restart PROVE Explained(v)
    BY <2>2 DEF Restart, Explained
  <2>3. Sound /\ \A w \in Worker : svc[w] # Nil => service[svc[w]] # Nil
    BY DEF Inv, Named
  <2> QED BY <2>1, <2>2, <2>3, HandleExplained DEF Next
<1> QED BY <1>1, InvHolds, PTL DEF Spec, ServerErrorsExplained

=============================================================================
