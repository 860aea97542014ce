--------------------- MODULE SubscriptionRefinementProofs ---------------------
(***************************************************************************)
(* SubscriptionAPI implements SubscriptionStore for any number of workers, any    *)
(* requests that satisfy InputAssumption, any size of the tables and any faults:    *)
(* every step of the API is a step of the store or invisible to it.               *)
(***************************************************************************)
EXTENDS SubscriptionAPIProofs

(* A request at a point with the service it has resolved, which may be gone by now: the    *)
(* part of Inv that the refinement needs, of workers and of statements they gave up on.    *)
Standing(at, r, s) ==
  /\ Checked(at, r, s)
  /\ s # Nil => TrimSpace(r.name) \in StoredName /\ service[s] \in {TrimSpace(r.name), Nil}

Ready ==
  /\ Sound
  /\ \A w \in Worker :
       /\ Standing(pc[w], req[w], svc[w])
       /\ late[w] # Nil => Standing(late[w].at, late[w].req, late[w].svc)

LEMMA InvReady == Inv => Ready
<1> SUFFICES ASSUME Inv PROVE Ready
  OBVIOUS
<1>1. ASSUME NEW r, NEW s \in ServiceID \cup {Nil}, NEW point, Checked(point, r, s), Named(r, s)
      PROVE  Standing(point, r, s)
  <2>1. s # Nil => service[s] \in StoredName
    BY <1>1 DEF Inv, Sound, TypeOK, PostgresTypeOK, Named
  <2> QED BY <1>1, <2>1 DEF Standing, Named
<1>2. ASSUME NEW w \in Worker PROVE Standing(pc[w], req[w], svc[w])
  BY <1>1, WorkerTyped DEF Inv, Sound
<1>3. ASSUME NEW w \in Worker, late[w] # Nil
      PROVE  Standing(late[w].at, late[w].req, late[w].svc)
  BY <1>1, <1>3, WorkerTyped DEF Inv, Sound, Statement
<1> QED BY <1>2, <1>3 DEF Inv, Ready

-----------------------------------------------------------------------------
(* What both sides say of a request. *)

(* The store extends SubscriptionData on its own; it means the same. *)
LEMMA SameData ==
  /\ \A s : Store!Parses(s) <=> Parses(s)
  /\ \A s : Store!ParseMonth(s) = ParseMonth(s)
  /\ \A s : Store!TrimSpace(s) = TrimSpace(s)
BY DEF Store!Parses, Parses, Store!MonthText, MonthText, Store!ParseMonth, ParseMonth,
       Store!TrimSpace, TrimSpace

(* The marks for absent dates are no dates. *)
LEMMA MarksDoNotParse == ~Parses(Nil) /\ ~Parses(EmptyText) /\ ~Parses(NullText)
BY DataAssumption DEF Parses

(* The empty name, trimmed or not, is the one whose text is empty. *)
LEMMA BlankName ==
  ASSUME NEW name
  PROVE  TrimSpace(name) = EmptyName <=> name.text = EmptyText
BY DEF TrimSpace, EmptyName

(* The parts of a request have the types the checks compare. *)
LEMMA InputTyped ==
  ASSUME NEW r \in Input
  PROVE  /\ r \in Request /\ r # Nil /\ r.op \in Operation
         /\ r.id \in Int \cup {Nil, Malformed} /\ r.price \in Int \cup {Nil, Malformed}
         /\ r.name \in RawName \cup {Nil} /\ r.start \in DateText /\ r.end \in DateText
         /\ r.op = "create" => r.id # Malformed
         /\ r.op \in {"get", "update"} => r.id # Nil
         /\ r.op \in {"get", "delete"} => r.price # Malformed
         /\ Parses(r.end) => ParseMonth(r.end) # ZeroTime
BY APIAssumption, InputAssumption, DataAssumption DEF Request

(* What handler and service refuse at once, no state of the store makes acceptable. *)
LEMMA RefusedInvalid ==
  ASSUME NEW r \in Input, ~HandlerAccepts(r) \/ ~ServiceAccepts(r)
  PROVE  Store!Invalid(r)
<1>1. CASE ~IdAccepted(r)
  <2>1. r.id = Malformed \/ (r.op \in {"get", "update"} /\ r.id <= 0)
    BY <1>1, InputTyped DEF IdAccepted, Operation
  <2> QED BY <2>1 DEF Store!Invalid
<1>2. CASE r.op \in {"create", "update"} /\ ~Decodes(r)
  BY <1>2 DEF Decodes, Store!Invalid
<1>3. CASE r.op = "create" /\ Decodes(r) /\ ~validateCreateSubscriptionRequest(r)
  BY <1>3, InputTyped, SameData, MarksDoNotParse, BlankName
     DEF validateCreateSubscriptionRequest, Store!Invalid, Decodes
<1>4. CASE r.op = "create" /\ ~CreateAccepted(r)
  BY <1>4, InputTyped, SameData, MarksDoNotParse
     DEF CreateAccepted, Store!Invalid, Store!WellDated, ParseMonth, Parses, MonthText
<1>5. CASE r.op = "update" /\ Decodes(r) /\ ~validateUpdateSubscriptionRequest(r)
  <2>1. CASE r.price # Nil /\ ~(r.price >= 0)
    <3>1. r.price < 0
      BY <1>5, <2>1, InputTyped DEF Decodes
    <3> QED BY <1>5, <2>1, <3>1 DEF Store!Invalid
  <2>2. CASE r.name # Nil /\ TrimSpace(r.name) = EmptyName
    BY <1>5, <2>2, BlankName DEF Store!Invalid
  <2>3. CASE r.name = Nil /\ r.price = Nil /\ r.start = Nil /\ r.end = Nil
    BY <1>5, <2>3 DEF Store!Invalid
  <2> QED BY <1>5, <2>1, <2>2, <2>3 DEF validateUpdateSubscriptionRequest
<1>6. CASE r.op = "update" /\ ~UpdateAccepted(r)
  <2>1. r.name # Nil /\ r.name.text = EmptyText
    <3>1. EmptyName \in RawName
      BY DEF EmptyName, RawName
    <3> QED BY <1>6, <3>1, DataAssumption DEF UpdateAccepted, EmptyName
  <2> QED BY <1>6, <2>1 DEF Store!Invalid
<1> QED BY <1>1, <1>2, <1>3, <1>4, <1>5, <1>6 DEF HandlerAccepts, ServiceAccepts

(* Nor what the service refuses for its dates. *)
LEMMA DatesRefusedInvalid ==
  ASSUME NEW r \in Input, r.op = "update", ~UpdateDatesAccepted(r)
  PROVE  Store!Invalid(r)
<1>1. ~Store!WellDated(r)
  BY InputTyped, SameData, MarksDoNotParse DEF UpdateDatesAccepted, Clears, Store!WellDated,
     ParseMonth, Parses, MonthText
<1> QED BY <1>1 DEF Store!Invalid

(* A create that reaches its INSERT is valid. *)
LEMMA CreateValid ==
  ASSUME NEW r \in Input, r.op = "create", HandlerAccepts(r), ServiceAccepts(r)
  PROVE  ~Store!Invalid(r)
<1>1. /\ Decodes(r) /\ validateCreateSubscriptionRequest(r) /\ CreateAccepted(r)
  BY DEF HandlerAccepts, ServiceAccepts
<1>2. Store!WellDated(r) /\ Parses(r.start) /\ r.end # NullText
  BY <1>1, SameData, MarksDoNotParse, DataAssumption
     DEF CreateAccepted, Store!WellDated
<1>3. r.name # Nil /\ r.name.text # EmptyText /\ r.user \in User /\ r.price # Nil /\ r.price > 0
  BY <1>1, BlankName DEF validateCreateSubscriptionRequest
<1>4. r.price \in Int /\ r.price # Malformed
  BY <1>1, <1>3, InputTyped DEF Decodes
<1> QED BY <1>2, <1>3, <1>4, SameData, InputTyped DEF Store!Invalid

(* So is an update that reaches its UPDATE with a name a service can have. *)
LEMMA UpdateValid ==
  ASSUME NEW r \in Input, r.op = "update", HandlerAccepts(r), UpdateDatesAccepted(r),
         r.name # Nil => TrimSpace(r.name) \in StoredName
  PROVE  ~Store!Invalid(r)
<1>1. /\ IdAccepted(r) /\ Decodes(r) /\ validateUpdateSubscriptionRequest(r)
  BY DEF HandlerAccepts
<1>2. r.id # Malformed /\ r.id \in Int /\ r.id > 0
  BY <1>1, InputTyped DEF IdAccepted
<1>3. r.name # Nil => r.name.text # EmptyText
  BY DataAssumption DEF StoredName, TrimSpace
<1>4. /\ r.price # Malformed /\ r.price # Nil => r.price \in Int /\ r.price >= 0
      /\ ~(r.name = Nil /\ r.price = Nil /\ r.start = Nil /\ r.end = Nil)
  BY <1>1, InputTyped DEF Decodes, validateUpdateSubscriptionRequest
<1>5. Store!WellDated(r)
  BY SameData, MarksDoNotParse DEF UpdateDatesAccepted, Clears, Store!WellDated
<1> QED BY <1>1, <1>2, <1>3, <1>4, <1>5 DEF Store!Invalid, Decodes

(* And whatever else the handlers let through. *)
LEMMA PlainValid ==
  ASSUME NEW r \in Input, r.op \in {"get", "delete"}, HandlerAccepts(r)
  PROVE  ~Store!Invalid(r)
<1>1. r.id # Malformed /\ r.op = "get" => r.id \in Int /\ r.id > 0
  BY InputTyped DEF HandlerAccepts, IdAccepted
<1>2. r.id # Malformed
  BY DEF HandlerAccepts, IdAccepted
<1> QED BY <1>1, <1>2, InputTyped DEF Store!Invalid

-----------------------------------------------------------------------------
(* Tables and rows of the store. *)

(* Statements that leave the subscriptions and every used service alone show nothing. *)
LEMMA ShownSame ==
  ASSUME TablesOK, ServicesKept, subscription' = subscription
  PROVE  ShownRows' = ShownRows
<1>1. ASSUME NEW id \in SubscriptionID, subscription[id] # Nil
      PROVE  service'[subscription[id].service] = service[subscription[id].service]
  <2>1. subscription[id].service \in ServiceID /\ service[subscription[id].service] # Nil
    BY <1>1 DEF TablesOK, PostgresTypeOK, ReferencedServiceExists, Row
  <2> QED BY <2>1 DEF ServicesKept
<1> QED BY <1>1 DEF ShownRows, Joined

(* The store has a subscription where the table has one, with the name of its service. *)
LEMMA ShownExists ==
  ASSUME TablesOK, NEW id
  PROVE  /\ Store!Exists(id) <=> HasSubscription(id)
         /\ HasSubscription(id) => ShownRows[id] = Joined(subscription[id])
<1>1. HasSubscription(id) => Joined(subscription[id]) # Nil
  BY JoinedTyped, APIAssumption
<1> QED BY <1>1 DEF Store!Exists, HasSubscription, ShownRows

(* A row that is stored, or deleted, is one that is shown, or is not any more. *)
LEMMA ShownStored ==
  ASSUME NEW id \in SubscriptionID, NEW row,
         subscription \in [SubscriptionID -> Row \cup {Nil}],
         subscription' = [subscription EXCEPT ![id] = row], service' = service
  PROVE  /\ row # Nil => ShownRows' = [ShownRows EXCEPT ![id] = Joined(row)]
         /\ row = Nil => ShownRows' = [ShownRows EXCEPT ![id] = Nil]
BY DEF ShownRows, Joined

(* What the names say of duplicates is what UNIQUE says of ids. *)
LEMMA DuplicatesViolate ==
  ASSUME TablesOK, NEW id, NEW row,
         row.service \in ServiceID, service[row.service] # Nil
  PROVE  Store!Duplicates(id, Joined(row)) <=> UniqueViolation(id, row)
<1>1. ASSUME NEW other \in SubscriptionID
      PROVE  (ShownRows[other] # Nil <=> subscription[other] # Nil)
             /\ (subscription[other] # Nil => ShownRows[other] = Joined(subscription[other]))
  BY ShownExists DEF Store!Exists, HasSubscription
<1>2. ASSUME NEW other \in SubscriptionID, subscription[other] # Nil
      PROVE  service[subscription[other].service] = service[row.service]
               <=> subscription[other].service = row.service
  <2>1. subscription[other].service \in ServiceID
    BY <1>2 DEF TablesOK, PostgresTypeOK, Row
  <2> QED BY <2>1 DEF TablesOK, UniqueServiceName
<1>3. ASSUME NEW other \in SubscriptionID, subscription[other] # Nil
      PROVE  /\ ShownRows[other].user = subscription[other].user
             /\ ShownRows[other].start = subscription[other].start
             /\ ShownRows[other].name = Joined(row).name
                  <=> subscription[other].service = row.service
  <2>1. ShownRows[other] = Joined(subscription[other])
    BY <1>1, <1>3
  <2>2. Joined(subscription[other]).name = service[subscription[other].service]
        /\ Joined(row).name = service[row.service]
    BY DEF Joined
  <2>3. service[subscription[other].service] = service[row.service]
          <=> subscription[other].service = row.service
    BY <1>2, <1>3
  <2> QED BY <2>1, <2>2, <2>3 DEF Joined
<1>4. Joined(row).user = row.user /\ Joined(row).start = row.start
  BY DEF Joined
<1> QED BY <1>1, <1>3, <1>4 DEF Store!Duplicates, UniqueViolation

(* The service of a duplicate is there. *)
LEMMA DuplicateReferenced ==
  ASSUME TablesOK, NEW id, NEW row, UniqueViolation(id, row)
  PROVE  service[row.service] # Nil
BY DEF UniqueViolation, TablesOK, ReferencedServiceExists

(* The row of a create is the subscription it describes. *)
LEMMA CreatedJoined ==
  ASSUME NEW r \in Input, NEW s, CreateAccepted(r), service[s] = TrimSpace(r.name)
  PROVE  Joined(NewRow(r, s)) = Store!Created(r)
<1>1. r.end \in {Nil, EmptyText} <=> ~Parses(r.end)
  BY MarksDoNotParse DEF CreateAccepted
<1> QED BY <1>1, SameData DEF Joined, NewRow, Store!Created

(* The row an update makes is the subscription it describes. *)
LEMMA UpdatedJoined ==
  ASSUME NEW r \in Input, NEW s, NEW old \in Row, UpdateDatesAccepted(r),
         s # Nil <=> r.name # Nil,
         s # Nil => service[s] = TrimSpace(r.name)
  PROVE  Joined(Assign(old, Assignments(r, s))) = Store!Updated(Joined(old), r)
<1>1. r.start # Nil => Parses(r.start) /\ ParseMonth(r.start) # Nil
  BY ParsedTime, DataAssumption DEF UpdateDatesAccepted, Time
<1>2. ~Clears(r) /\ r.end # Nil =>
        Parses(r.end) /\ ParseMonth(r.end) # Nil /\ ParseMonth(r.end) # ZeroTime
  BY ParsedTime, InputTyped, DataAssumption DEF UpdateDatesAccepted, Time
<1>3. ZeroTime # Nil
  BY ZeroTimeIsTime, DataAssumption DEF Time
<1> DEFINE new == Assign(old, Assignments(r, s))
<1>4. new.start = IF r.start = Nil THEN old.start ELSE ParseMonth(r.start)
  BY <1>1 DEF Assign, Assignments
<1>5. new.end = CASE r.end = Nil -> old.end
                  [] Clears(r) -> Nil
                  [] OTHER -> ParseMonth(r.end)
  BY <1>2, <1>3, DataAssumption DEF Assign, Assignments, Clears
<1>6. /\ new.user = old.user
      /\ new.service = IF s = Nil THEN old.service ELSE s
      /\ new.price = IF r.price = Nil THEN old.price ELSE r.price
  BY DEF Assign, Assignments
<1> HIDE DEF new
<1>7. service[new.service] = IF r.name = Nil THEN service[old.service] ELSE TrimSpace(r.name)
  BY <1>6
<1>8. Joined(new) = Store!Updated(Joined(old), r)
  BY <1>4, <1>5, <1>6, <1>7, SameData DEF Joined, Store!Updated, Clears
<1> QED BY <1>8 DEF new

-----------------------------------------------------------------------------
(* The statements of a request, made at once or late, are its effects on the store. *)

(* The store's record of what is late follows the statements that write rows. *)
LEMMA LateSame ==
  ASSUME late' = late
  PROVE  LateRequests' = LateRequests
BY DEF LateRequests

(* An INSERT that succeeds is the whole effect of a create. *)
LEMMA InsertIsCreate ==
  ASSUME TablesOK, NEW r \in Input, NEW s \in ServiceID \cup {Nil}, r.op = "create",
         Standing("write", r, s), InsertSubscription(NewRow(r, s))
  PROVE  Store!Create(r, subscriptionSeq) /\ subscriptionSeq \in SubscriptionID
<1> DEFINE row == NewRow(r, s)
           id == subscriptionSeq
<1>1. r \in Request /\ HandlerAccepts(r) /\ ServiceAccepts(r) /\ CreateAccepted(r)
  BY InputTyped DEF Standing, Checked, Querying, ServiceAccepts
<1>2. s \in ServiceID /\ row \in OfferedRow
  BY <1>1, CreateReady DEF Standing
<1>4. Encodable(row.price) /\ id \in SubscriptionID /\ RowError(id, row) = "none"
  BY DEF InsertSubscription, InsertError
<1>3. s # Nil /\ service[s] = TrimSpace(r.name) /\ service[s] # Nil
  <2>1. service[s] # Nil
    BY <1>4, RowErrorNone DEF ForeignKeyViolation, NewRow
  <2> QED BY <1>2, <2>1, DataAssumption DEF Standing, ServiceID
<1>5. row \in Row
  BY <1>2, <1>4, RowErrorNone, DataAssumption
     DEF OfferedRow, Row, Encodable, CheckViolation
<1>6. Joined(row) = Store!Created(r)
  BY <1>1, <1>3, CreatedJoined
<1>7. ~Store!Duplicates(id, Store!Created(r))
  <2>1. row.service = s
    BY DEF NewRow
  <2>2. ~UniqueViolation(id, row)
    BY <1>4, RowErrorNone
  <2> HIDE DEF row
  <2> QED BY <1>2, <1>3, <1>6, <2>1, <2>2, DuplicatesViolate
<1>8. ShownRows' = [ShownRows EXCEPT ![id] = Store!Created(r)]
  <2>1. row # Nil
    BY <1>5, TableAssumption
  <2>2. subscription' = [subscription EXCEPT ![id] = row] /\ service' = service
    BY DEF InsertSubscription
  <2>3. subscription \in [SubscriptionID -> Row \cup {Nil}]
    BY DEF TablesOK, PostgresTypeOK
  <2>4. ShownRows' = [ShownRows EXCEPT ![id] = Joined(row)]
    <3> HIDE DEF row, id
    <3> QED BY <1>4, <2>1, <2>2, <2>3, ShownStored
  <2> QED BY <1>6, <2>4
<1>9. id \in Int /\ subscriptionSeq' = id + 1
  BY DEF InsertSubscription, TablesOK, PostgresTypeOK
<1> QED BY <1>1, <1>4, <1>7, <1>8, <1>9, CreateValid DEF Store!Create

(* An update at its UPDATE is valid, and its row is the subscription it asks for. *)
LEMMA UpdateStands ==
  ASSUME TablesOK, NEW r \in Input, NEW s \in ServiceID \cup {Nil}, r.op = "update",
         Standing("write", r, s)
  PROVE  /\ ~Store!Invalid(r)
         /\ HasSubscription(r.id) =>
              LET row == Assign(subscription[r.id], Assignments(r, s))
              IN  /\ row \in OfferedRow
                  /\ service[row.service] # Nil =>
                       Joined(row) = Store!Updated(ShownRows[r.id], r)
<1>1. /\ HandlerAccepts(r) /\ UpdateDatesAccepted(r) /\ r \in Request
      /\ s # Nil <=> r.name # Nil
      /\ s # Nil => TrimSpace(r.name) \in StoredName /\ service[s] \in {TrimSpace(r.name), Nil}
  BY InputTyped DEF Standing, Checked, Querying
<1>3. ~Store!Invalid(r)
  BY <1>1, UpdateValid
<1>4. ASSUME HasSubscription(r.id)
      PROVE  LET row == Assign(subscription[r.id], Assignments(r, s))
             IN  /\ row \in OfferedRow
                 /\ service[row.service] # Nil =>
                      Joined(row) = Store!Updated(ShownRows[r.id], r)
  <2> DEFINE old == subscription[r.id]
             row == Assign(old, Assignments(r, s))
  <2>1. old \in Row /\ service[old.service] # Nil
    BY <1>4 DEF HasSubscription, TablesOK, PostgresTypeOK, ReferencedServiceExists
  <2>2. row \in OfferedRow
    BY <1>1, <2>1, UpdateReady, AssignOffered DEF Standing
  <2>3. row.service = IF s = Nil THEN old.service ELSE s
    BY DEF Assign, Assignments
  <2>4. service[row.service] # Nil => Joined(row) = Store!Updated(Joined(old), r)
    BY <1>1, <2>1, <2>3, UpdatedJoined
  <2>5. ShownRows[r.id] = Joined(old)
    BY <1>4, ShownExists
  <2> QED BY <1>1, <2>1, <2>2, <2>3, <2>4, <2>5
<1> QED BY <1>3, <1>4

(* An UPDATE that succeeds is the whole effect of an update. *)
LEMMA UpdateIsUpdate ==
  ASSUME TablesOK, NEW r \in Input, NEW s \in ServiceID \cup {Nil}, r.op = "update",
         Standing("write", r, s), UpdateRow(r.id, Assignments(r, s))
  PROVE  Store!Update(r)
<1> DEFINE id == r.id
           row == Assign(subscription[id], Assignments(r, s))
<1>1. HasSubscription(id) /\ RowError(id, row) = "none" /\ service[row.service] # Nil
  <2>1. HasSubscription(id) /\ RowError(id, row) = "none"
    BY DEF UpdateRow, UpdateError
  <2> QED BY <2>1, RowErrorNone DEF ForeignKeyViolation
<1>2. /\ ~Store!Invalid(r) /\ row \in OfferedRow /\ service[row.service] # Nil
      /\ Joined(row) = Store!Updated(ShownRows[id], r)
  BY <1>1, UpdateStands
<1>3. id \in SubscriptionID /\ row.service \in ServiceID /\ row # Nil
  <2>1. id \in SubscriptionID /\ row.service \in ServiceID
    BY <1>1, <1>2 DEF HasSubscription, OfferedRow
  <2>2. row \in Row
    BY InputTyped, UpdateReady, UpdateRowTyped DEF Standing
  <2> QED BY <2>1, <2>2, TableAssumption
<1>4. ~Store!Duplicates(id, Joined(row))
  <2>1. ~UniqueViolation(id, row)
    BY <1>1, RowErrorNone
  <2> HIDE DEF row
  <2> QED BY <1>2, <1>3, <2>1, DuplicatesViolate
<1>5. Store!Ordered(Joined(row))
  <2>1. ~CheckViolation(row)
    BY <1>1, RowErrorNone
  <2> HIDE DEF row
  <2> QED BY <1>2, <2>1, DataAssumption
       DEF Store!Ordered, Joined, CheckViolation, OfferedRow, OptionalTime, Time
<1>6. ShownRows' = [ShownRows EXCEPT ![id] = Joined(row)]
  <2>1. subscription' = [subscription EXCEPT ![id] = row] /\ service' = service
    BY DEF UpdateRow
  <2>2. subscription \in [SubscriptionID -> Row \cup {Nil}]
    BY DEF TablesOK, PostgresTypeOK
  <2> HIDE DEF row, id
  <2> QED BY <1>3, <2>1, <2>2, ShownStored
<1>7. Store!Exists(id) /\ subscriptionSeq' = subscriptionSeq
  BY <1>1, ShownExists DEF UpdateRow
<1> HIDE DEF row
<1> QED BY <1>2, <1>4, <1>5, <1>6, <1>7 DEF Store!Update

(* A DELETE that succeeds is the whole effect of a delete. *)
LEMMA DeleteIsDelete ==
  ASSUME TablesOK, NEW r \in Input, NEW s, r.op = "delete",
         Standing("write", r, s), DeleteRow(r.id)
  PROVE  Store!Delete(r)
<1>1. ~Store!Invalid(r)
  BY PlainValid DEF Standing, Checked, Querying
<1>2. Store!Exists(r.id) /\ r.id \in SubscriptionID
  BY ShownExists DEF DeleteRow, HasSubscription
<1>3. ShownRows' = [ShownRows EXCEPT ![r.id] = Nil]
  <2>1. /\ subscription' = [subscription EXCEPT ![r.id] = Nil] /\ service' = service
        /\ subscription \in [SubscriptionID -> Row \cup {Nil}]
    BY DEF DeleteRow, TablesOK, PostgresTypeOK
  <2> QED BY <1>2, <2>1, ShownStored
<1> QED BY <1>1, <1>2, <1>3 DEF Store!Delete, DeleteRow

-----------------------------------------------------------------------------
(* The kinds of steps: invisible ones, refusals and failures. *)

(* A step of the store, or one that it does not see. *)
StoreStep == Store!Next \/ UNCHANGED Store!vars

(* Tables that stay as they are show what they showed. *)
LEMMA TablesShownSame ==
  ASSUME Ready, UNCHANGED tables
  PROVE  ShownRows' = ShownRows /\ subscriptionSeq' = subscriptionSeq
BY TablesUnchanged, ShownSame DEF Ready, Sound, tables

(* Going on is invisible, and so is a service that is added. *)
LEMMA Invisible ==
  ASSUME TablesOK, ServicesKept,
         UNCHANGED <<subscription, subscriptionSeq, req, answer, late>>
  PROVE  StoreStep
BY ShownSame, LateSame DEF StoreStep, Store!vars

(* A worker at work has a request of the store that is not answered. *)
LEMMA AtWork ==
  ASSUME Ready, NEW w \in Worker, pc[w] \notin {"idle", "answered"}
  PROVE  /\ Store!Unanswered(w) /\ req[w] \in Input
         /\ Standing(pc[w], req[w], svc[w]) /\ svc[w] \in ServiceID \cup {Nil}
         /\ TablesOK
BY DEF Ready, Sound, TypeOK, Standing, Store!Unanswered

(* A worker answers as the store does. *)
LEMMA ReplyIsAnswer ==
  ASSUME NEW w, NEW status, NEW body, Reply(w, status, body)
  PROVE  Store!Answer(w, status, body)
BY DEF Reply, Store!Answer

(* A 400 for what is wrong in itself is a refusal. *)
LEMMA RefuseStep ==
  ASSUME Ready, NEW w \in Worker, pc[w] \notin {"idle", "answered"},
         Store!Invalid(req[w]), Reply(w, 400, Nil), UNCHANGED <<tables, late>>
  PROVE  StoreStep
<1>1. Store!Refuse(w)
  BY AtWork, ReplyIsAnswer, TablesShownSame, LateSame DEF Store!Refuse
<1> QED BY <1>1 DEF StoreStep, Store!Next

(* A statement that shows nothing has no effect but perhaps an id that is lost. *)
LEMMA NoEffectShown ==
  ASSUME TablesOK, ShownRows' = ShownRows,
         subscriptionSeq' \in {subscriptionSeq, subscriptionSeq + 1}
  PROVE  Store!NoEffect
<1>1. subscriptionSeq \in Int
  BY DEF TablesOK, PostgresTypeOK
<1>2. CASE subscriptionSeq' = subscriptionSeq
  BY <1>2 DEF Store!NoEffect
<1>3. CASE subscriptionSeq' = subscriptionSeq + 1
  <2>1. subscriptionSeq' - 1 = (subscriptionSeq - 1) + 1
    BY <1>1, <1>3
  <2> QED BY <2>1 DEF Store!NoEffect
<1> QED BY <1>2, <1>3

(* A 500 without an effect, or with an id lost, is a failure, whatever the statement     *)
(* that is left behind.                                                       *)
LEMMA FailStep ==
  ASSUME Ready, NEW w \in Worker, pc[w] \notin {"idle", "answered"},
         Reply(w, 500, Nil), ShownRows' = ShownRows,
         subscriptionSeq' \in {subscriptionSeq, subscriptionSeq + 1},
         LateRequests' \in {LateRequests, [LateRequests EXCEPT ![w] = req[w]]}
  PROVE  StoreStep
<1>1. Store!NoEffect
  BY NoEffectShown DEF Ready, Sound
<1>2. Store!Fail(w)
  BY <1>1, AtWork, ReplyIsAnswer DEF Store!Fail
<1> QED BY <1>2 DEF StoreStep, Store!Next

-----------------------------------------------------------------------------
(* The steps of a worker. *)

(* A request that is received is a call. *)
LEMMA ReceiveStep ==
  ASSUME Ready, NEW w \in Worker, Receive(w)
  PROVE  StoreStep
<1>1. ShownRows' = ShownRows /\ subscriptionSeq' = subscriptionSeq
      /\ LateRequests' = LateRequests
  BY TablesShownSame, LateSame DEF Receive
<1>2. req[w] = Nil
  BY DEF Receive, Ready, Sound, TypeOK
<1>3. Store!Call(w)
  BY <1>1, <1>2 DEF Receive, Store!Call
<1> QED BY <1>3 DEF StoreStep, Store!Next

(* What is not refused at once goes on unseen. *)
LEMMA ValidateStep ==
  ASSUME Ready, NEW w \in Worker, Validate(w)
  PROVE  StoreStep
<1>1. CASE ~HandlerAccepts(req[w]) \/ ~ServiceAccepts(req[w])
  <2>1. Store!Invalid(req[w])
    BY <1>1, AtWork, RefusedInvalid DEF Validate
  <2> QED BY <1>1, <2>1, RefuseStep DEF Validate
<1>2. CASE HandlerAccepts(req[w]) /\ ServiceAccepts(req[w])
  <2>1. UNCHANGED <<req, answer, tables, late>>
    BY <1>2 DEF Validate, Goto
  <2> QED BY <2>1, TablesUnchanged, Invisible DEF Ready, Sound, tables
<1> QED BY <1>1, <1>2

(* Looking for a service is invisible. *)
LEMMA GetServiceIDStep ==
  ASSUME Ready, NEW w \in Worker, GetServiceID(w)
  PROVE  StoreStep
<1>1. UNCHANGED <<req, answer, tables, late>>
  BY DEF GetServiceID, Goto, Resolve
<1> QED BY <1>1, TablesUnchanged, Invisible DEF Ready, Sound, tables

(* A blank name of a service fails. *)
LEMMA AddBlankServiceStep ==
  ASSUME Ready, NEW w \in Worker, AddBlankService(w)
  PROVE  StoreStep
<1>1. Reply(w, 500, Nil) /\ pc[w] = "addService" /\ UNCHANGED <<tables, late>>
  BY DEF AddBlankService
<1> QED BY <1>1, FailStep, TablesShownSame, LateSame

(* Adding a service is invisible, unless it fails. *)
LEMMA AddServiceStep ==
  ASSUME Ready, NEW w \in Worker, AddService(w)
  PROVE  StoreStep
<1> DEFINE name == TrimSpace(req[w].name)
<1>1. pc[w] = "addService" /\ name # EmptyName /\ UNCHANGED late
  BY DEF AddService
<1>2. CASE InsertService(name) /\ Resolve(w, serviceSeq)
  <2>1. req[w].name \in RawName
    BY <1>1, AtWork, InputTyped DEF Standing, Checked
  <2>2. TablesOK /\ ServicesKept
    BY <1>1, <1>2, <2>1, AtWork, TrimmedName, InsertServiceOK
  <2> QED BY <1>1, <1>2, <2>2, Invisible DEF InsertService, Resolve
<1>3. CASE InsertServiceFails(name) /\ Reply(w, 500, Nil)
  <2>1. TablesOK /\ ServicesKept
    BY <1>1, <1>3, AtWork, InsertServiceFailsOK
  <2>2. subscription' = subscription /\ subscriptionSeq' = subscriptionSeq
    BY <1>3 DEF InsertServiceFails
  <2> QED BY <1>1, <1>3, <2>1, <2>2, ShownSame, LateSame, FailStep
<1> QED BY <1>2, <1>3 DEF AddService

(* Dates that do not fit each other are refused. *)
LEMMA CheckDatesStep ==
  ASSUME Ready, NEW w \in Worker, CheckDates(w)
  PROVE  StoreStep
<1>1. pc[w] = "checkDates" /\ UNCHANGED <<tables, late>>
  BY DEF CheckDates
<1>2. CASE UpdateDatesAccepted(req[w])
  <2>1. UNCHANGED <<req, answer>>
    BY <1>2 DEF CheckDates, Goto
  <2> QED BY <1>1, <2>1, TablesUnchanged, Invisible DEF Ready, Sound, tables
<1>3. CASE ~UpdateDatesAccepted(req[w])
  <2>1. Store!Invalid(req[w])
    BY <1>1, <1>3, AtWork, DatesRefusedInvalid DEF Standing, Checked
  <2> QED BY <1>1, <1>3, <2>1, RefuseStep DEF CheckDates
<1> QED BY <1>2, <1>3

(* An end date before the stored start date is refused. *)
LEMMA GetCurrentStep ==
  ASSUME Ready, NEW w \in Worker, GetCurrent(w)
  PROVE  StoreStep
<1> DEFINE r == req[w]
<1>1. /\ pc[w] = "getCurrent" /\ UNCHANGED <<tables, late>> /\ r \in Input
      /\ r.op = "update" /\ NeedsCurrent(r) /\ UpdateDatesAccepted(r)
  BY AtWork DEF GetCurrent, Standing, Checked
<1>2. CASE HasSubscription(r.id) /\ ParseMonth(r.end) < subscription[r.id].start
  <2> DEFINE old == subscription[r.id]
             new == Store!Updated(ShownRows[r.id], r)
  <2>1. old \in Row /\ ShownRows[r.id] = Joined(old)
    BY <1>2, AtWork, <1>1, ShownExists DEF HasSubscription, TablesOK, PostgresTypeOK
  <2>2. ParseMonth(r.end) \in Int /\ ParseMonth(r.end) # Nil
    BY <1>1, ParsedTime, DataAssumption DEF NeedsCurrent, UpdateDatesAccepted, Time
  <2>3. new.end = ParseMonth(r.end) /\ new.start = old.start
    BY <1>1, <2>1, SameData DEF NeedsCurrent, Clears, Store!Updated, Joined
  <2>4. ~Store!Ordered(new)
    <3>1. old.start \in Int
      BY <2>1 DEF Row, Time
    <3> HIDE DEF new
    <3> QED BY <1>2, <2>2, <2>3, <3>1 DEF Store!Ordered
  <2>5. Store!Exists(r.id)
    BY <1>1, <1>2, AtWork, ShownExists
  <2>6. Reply(w, 400, Nil)
    BY <1>2 DEF GetCurrent
  <2>7. Store!Refuse(w)
    BY <1>1, <2>4, <2>5, <2>6, AtWork, ReplyIsAnswer, TablesShownSame, LateSame
       DEF Store!Refuse
  <2> QED BY <2>7 DEF StoreStep, Store!Next
<1>3. CASE ~(HasSubscription(r.id) /\ ParseMonth(r.end) < subscription[r.id].start)
  <2>1. UNCHANGED <<req, answer>>
    BY <1>3 DEF GetCurrent, Goto
  <2> QED BY <1>1, <2>1, TablesUnchanged, Invisible DEF Ready, Sound, tables
<1> QED BY <1>2, <1>3

(* The INSERT ends in a 201 with the whole effect, a 409 for a duplicate, or a 500. *)
LEMMA CreateSubscriptionStep ==
  ASSUME Ready, NEW w \in Worker, CreateSubscription(w)
  PROVE  StoreStep
<1> DEFINE r == req[w]
           row == NewRow(r, svc[w])
<1>1. /\ pc[w] = "write" /\ r.op = "create" /\ UNCHANGED late /\ TablesOK
      /\ r \in Input /\ svc[w] \in ServiceID \cup {Nil}
      /\ Standing("write", r, svc[w])
      /\ Store!Unanswered(w)
  BY AtWork DEF CreateSubscription
<1>2. CASE InsertSubscription(row) /\ Reply(w, 201, subscriptionSeq)
  <2>1. Store!Create(r, subscriptionSeq) /\ subscriptionSeq \in SubscriptionID
    BY <1>1, <1>2, InsertIsCreate
  <2>2. Store!Succeed(w)
    BY <1>1, <1>2, <2>1, ReplyIsAnswer, LateSame DEF Store!Succeed
  <2> QED BY <2>2 DEF StoreStep, Store!Next
<1>3. CASE InsertSubscriptionFails(row) /\ Reply(w, StatusOf(InsertError(row)), Nil)
  <2>1. /\ ShownRows' = ShownRows /\ LateRequests' = LateRequests
        /\ subscriptionSeq \in Int
        /\ subscriptionSeq' \in {subscriptionSeq, subscriptionSeq + 1}
    BY <1>1, <1>3, InsertSubscriptionFailsOK, ShownSame, LateSame
       DEF InsertSubscriptionFails, TablesOK, PostgresTypeOK
  <2>2. CASE InsertError(row) = "unique_violation"
    <3>1. Reply(w, 409, Nil)
      BY <1>3, <2>2 DEF StatusOf
    <3>2. Store!Duplicates(subscriptionSeq, Store!Created(r))
      <4>1. r \in Request /\ ServiceAccepts(r) /\ CreateAccepted(r)
        BY <1>1, InputTyped DEF Standing, Checked, Querying, ServiceAccepts
      <4>2. svc[w] \in ServiceID /\ row.service = svc[w]
        BY <1>1, <4>1, CreateReady DEF Standing, NewRow
      <4>4. UniqueViolation(subscriptionSeq, row)
        BY <2>2 DEF InsertError, RowError
      <4>3. service[svc[w]] = TrimSpace(r.name) /\ service[svc[w]] # Nil
        <5>1. service[svc[w]] # Nil
          BY <1>1, <4>2, <4>4, DuplicateReferenced
        <5> QED BY <1>1, <4>2, <5>1, DataAssumption DEF Standing, ServiceID
      <4>5. Joined(row) = Store!Created(r)
        BY <1>1, <4>1, <4>3, CreatedJoined
      <4> HIDE DEF row
      <4> QED BY <1>1, <4>2, <4>3, <4>4, <4>5, DuplicatesViolate
    <3>3. (subscriptionSeq - 1) + 1 = subscriptionSeq
      BY <2>1
    <3>4. Store!NoEffect
      BY <1>1, <2>1, NoEffectShown
    <3>5. ~Store!Invalid(r)
      BY <1>1, CreateValid DEF Standing, Checked, Querying
    <3>6. Store!Conflict(w)
      BY <1>1, <2>1, <3>1, <3>2, <3>3, <3>4, <3>5, ReplyIsAnswer DEF Store!Conflict
    <3> QED BY <3>6 DEF StoreStep, Store!Next
  <2>3. CASE InsertError(row) # "unique_violation"
    <3>1. InsertError(row) # "no_rows"
      BY DEF InsertError, RowError
    <3>2. Reply(w, 500, Nil)
      BY <1>3, <2>3, <3>1 DEF StatusOf
    <3> QED BY <1>1, <2>1, <3>2, FailStep
  <2> QED BY <2>2, <2>3
<1> QED BY <1>2, <1>3 DEF CreateSubscription

(* The UPDATE ends in a 200 with the whole effect, a 404, a 409, or a 500. *)
LEMMA UpdateSubscriptionStep ==
  ASSUME Ready, NEW w \in Worker, UpdateSubscription(w)
  PROVE  StoreStep
<1> DEFINE r == req[w]
           set == Assignments(r, svc[w])
           error == UpdateError(r.id, set)
<1>1. /\ pc[w] = "write" /\ r.op = "update" /\ UNCHANGED late /\ TablesOK
      /\ r \in Input /\ svc[w] \in ServiceID \cup {Nil}
      /\ Standing("write", r, svc[w])
      /\ Store!Unanswered(w)
  BY AtWork DEF UpdateSubscription
<1>2. CASE UpdateRow(r.id, set) /\ Reply(w, 200, Nil)
  <2>1. Store!Update(r)
    BY <1>1, <1>2, UpdateIsUpdate
  <2>2. Store!Succeed(w)
    BY <1>1, <1>2, <2>1, ReplyIsAnswer, LateSame DEF Store!Succeed
  <2> QED BY <2>2 DEF StoreStep, Store!Next
<1>3. CASE error # "none" /\ Reply(w, StatusOf(error), Nil) /\ UNCHANGED tables
  <2>1. /\ ShownRows' = ShownRows /\ LateRequests' = LateRequests
        /\ subscriptionSeq' = subscriptionSeq
    BY <1>1, <1>3, TablesShownSame, LateSame
  <2>2. ~Store!Invalid(r)
    BY <1>1, UpdateStands
  <2>3. CASE error = "no_rows"
    <3>1. ~HasSubscription(r.id)
      BY <2>3 DEF UpdateError, RowError
    <3>2. ~Store!Exists(r.id)
      BY <1>1, <3>1, ShownExists
    <3>3. Reply(w, 404, Nil)
      BY <1>3, <2>3 DEF StatusOf
    <3>4. Store!NotFound(w)
      BY <1>1, <2>1, <2>2, <3>2, <3>3, ReplyIsAnswer DEF Store!NotFound
    <3> QED BY <3>4 DEF StoreStep, Store!Next
  <2>4. CASE error = "unique_violation"
    <3> DEFINE row == Assign(subscription[r.id], set)
    <3>1. HasSubscription(r.id) /\ UniqueViolation(r.id, row)
      BY <2>4 DEF UpdateError, RowError
    <3>2. /\ row.service \in ServiceID /\ service[row.service] # Nil
          /\ Joined(row) = Store!Updated(ShownRows[r.id], r)
      <4>1. row \in OfferedRow
        BY <1>1, <3>1, UpdateStands
      <4>2. service[row.service] # Nil
        BY <1>1, <3>1, DuplicateReferenced
      <4> QED BY <1>1, <3>1, <4>1, <4>2, UpdateStands DEF OfferedRow
    <3>3. Store!Duplicates(r.id, Store!Updated(ShownRows[r.id], r))
      <4> HIDE DEF row
      <4> QED BY <1>1, <3>1, <3>2, DuplicatesViolate
    <3>4. Store!Exists(r.id)
      BY <1>1, <3>1, ShownExists
    <3>5. Reply(w, 409, Nil)
      BY <1>3, <2>4 DEF StatusOf
    <3>6. Store!Conflict(w)
      BY <1>1, <2>1, <2>2, <3>3, <3>4, <3>5, ReplyIsAnswer
         DEF Store!Conflict, Store!NoEffect
    <3> QED BY <3>6 DEF StoreStep, Store!Next
  <2>5. CASE error \notin {"no_rows", "unique_violation"}
    <3>1. Reply(w, 500, Nil)
      BY <1>3, <2>5 DEF StatusOf
    <3> QED BY <1>1, <2>1, <3>1, FailStep
  <2> QED BY <2>3, <2>4, <2>5
<1> QED BY <1>2, <1>3 DEF UpdateSubscription

(* The DELETE ends in a 204 with the whole effect, or a 404. *)
LEMMA DeleteSubscriptionStep ==
  ASSUME Ready, NEW w \in Worker, DeleteSubscription(w)
  PROVE  StoreStep
<1> DEFINE r == req[w]
<1>1. /\ pc[w] = "write" /\ r.op = "delete" /\ UNCHANGED late /\ TablesOK /\ r \in Input
      /\ Standing("write", r, svc[w])
      /\ Store!Unanswered(w)
  BY AtWork DEF DeleteSubscription
<1>2. CASE DeleteRow(r.id) /\ Reply(w, 204, Nil)
  <2>1. Store!Delete(r)
    BY <1>1, <1>2, DeleteIsDelete
  <2>2. Store!Succeed(w)
    BY <1>1, <1>2, <2>1, ReplyIsAnswer, LateSame DEF Store!Succeed
  <2> QED BY <2>2 DEF StoreStep, Store!Next
<1>3. CASE ~HasSubscription(r.id) /\ Reply(w, 404, Nil) /\ UNCHANGED tables
  <2>1. ~Store!Invalid(r) /\ ~Store!Exists(r.id)
    BY <1>1, <1>3, PlainValid, ShownExists DEF Standing, Checked, Querying
  <2>2. Store!NotFound(w)
    BY <1>1, <1>3, <2>1, TablesShownSame, LateSame, ReplyIsAnswer DEF Store!NotFound
  <2> QED BY <2>2 DEF StoreStep, Store!Next
<1> QED BY <1>2, <1>3 DEF DeleteSubscription

(* The SELECT ends in a 200 with the subscription that is shown, or a 404. *)
LEMMA GetSubscriptionStep ==
  ASSUME Ready, NEW w \in Worker, GetSubscription(w)
  PROVE  StoreStep
<1> DEFINE r == req[w]
<1>1. /\ pc[w] = "write" /\ r.op = "get" /\ UNCHANGED <<tables, late>> /\ TablesOK
      /\ r \in Input /\ Standing("write", r, svc[w])
      /\ Store!Unanswered(w)
  BY AtWork DEF GetSubscription
<1>2. ~Store!Invalid(r)
  BY <1>1, PlainValid DEF Standing, Checked, Querying
<1>3. /\ ShownRows' = ShownRows /\ LateRequests' = LateRequests
      /\ subscriptionSeq' = subscriptionSeq
  BY <1>1, TablesShownSame, LateSame
<1>4. CASE HasSubscription(r.id)
  <2>1. Store!Exists(r.id) /\ ShownRows[r.id] = Joined(subscription[r.id])
    BY <1>1, <1>4, ShownExists
  <2>2. Reply(w, 200, Joined(subscription[r.id]))
    BY <1>4 DEF GetSubscription
  <2>3. Store!Answer(w, 200, ShownRows[r.id])
    BY <2>1, <2>2, ReplyIsAnswer
  <2>4. Store!Succeed(w)
    BY <1>1, <1>2, <1>3, <2>1, <2>3 DEF Store!Succeed
  <2> QED BY <2>4 DEF StoreStep, Store!Next
<1>5. CASE ~HasSubscription(r.id)
  <2>1. Reply(w, 404, Nil) /\ ~Store!Exists(r.id)
    BY <1>1, <1>5, ShownExists DEF GetSubscription
  <2>2. Store!NotFound(w)
    BY <1>1, <1>2, <1>3, <2>1, ReplyIsAnswer DEF Store!NotFound
  <2> QED BY <2>2 DEF StoreStep, Store!Next
<1> QED BY <1>4, <1>5

(* A finished worker has returned. *)
LEMMA FinishStep ==
  ASSUME Ready, NEW w \in Worker, Finish(w)
  PROVE  StoreStep
<1>1. /\ ShownRows' = ShownRows /\ subscriptionSeq' = subscriptionSeq
      /\ LateRequests' = LateRequests
  BY TablesShownSame, LateSame DEF Finish
<1>2. answer[w] # Nil
  BY DEF Finish, Ready, Sound, TypeOK
<1>3. Store!Return(w)
  BY <1>1, <1>2 DEF Finish, Store!Return
<1> QED BY <1>3 DEF StoreStep, Store!Next

-----------------------------------------------------------------------------
(* Faults. *)

(* An error of a statement is a failure, or goes unseen where it is ignored. *)
LEMMA StatementFailsStep ==
  ASSUME Ready, NEW w \in Worker, StatementFails(w)
  PROVE  StoreStep
<1>1. pc[w] \in Querying /\ UNCHANGED <<tables, late>> /\ GiveUp(w)
  BY DEF StatementFails
<1>2. CASE pc[w] = "getCurrent"
  <2>1. UNCHANGED <<req, answer>>
    BY <1>1, <1>2 DEF GiveUp, Goto
  <2> QED BY <1>1, <2>1, TablesUnchanged, Invisible DEF Ready, Sound, tables
<1>3. CASE pc[w] # "getCurrent"
  <2>1. Reply(w, 500, Nil) /\ pc[w] \notin {"idle", "answered"}
    BY <1>1, <1>3 DEF GiveUp, Querying
  <2> QED BY <1>1, <2>1, FailStep, TablesShownSame, LateSame
<1> QED BY <1>2, <1>3

(* A statement left behind at the last point of a request is a request of the store that  *)
(* is late; one left behind on the way there is none.                                    *)
LEMMA LateShown ==
  ASSUME Ready, NEW w \in Worker, NEW st \in Statement \cup {Nil}, late' = [late EXCEPT ![w] = st]
  PROVE  LateRequests' =
           [LateRequests EXCEPT ![w] =
              IF st = Nil THEN Nil ELSE IF st.at = "addService" THEN Nil ELSE st.req]
<1>1. late \in [Worker -> Statement \cup {Nil}]
  BY DEF Ready, Sound, TypeOK
<1> QED BY <1>1 DEF LateRequests

(* A lost answer is a failure that may still take effect. *)
LEMMA AnswerLostStep ==
  ASSUME Ready, NEW w \in Worker, AnswerLost(w)
  PROVE  StoreStep
<1> DEFINE st == PendingStatement(w)
<1>1. /\ st \in Statement /\ st.at = pc[w] /\ st # Nil
      /\ late[w] = Nil /\ late' = [late EXCEPT ![w] = st] /\ UNCHANGED tables
  BY PendingChecked DEF AnswerLost, Ready
<1>2. pc[w] \in {"addService", "write"} /\ st.req = req[w]
  BY DEF AnswerLost, PendingStatement
<1>3. Reply(w, 500, Nil)
  BY <1>2 DEF AnswerLost, GiveUp
<1> HIDE DEF st
<1>4. LateRequests' = [LateRequests EXCEPT ![w] = IF pc[w] = "addService" THEN Nil ELSE req[w]]
  <2>1. LateRequests' = [LateRequests EXCEPT ![w] = IF st = Nil THEN Nil
                           ELSE IF st.at = "addService" THEN Nil ELSE st.req]
    BY <1>1, LateShown
  <2>2. (IF st = Nil THEN Nil ELSE IF st.at = "addService" THEN Nil ELSE st.req)
          = IF pc[w] = "addService" THEN Nil ELSE req[w]
    BY <1>1, <1>2
  <2> QED BY <2>1, <2>2
<1>5. LateRequests' \in {LateRequests, [LateRequests EXCEPT ![w] = req[w]]}
  <2>1. LateRequests[w] = Nil /\ LateRequests = [LateRequests EXCEPT ![w] = LateRequests[w]]
    BY <1>1 DEF LateRequests
  <2> QED BY <1>2, <1>4, <2>1
<1> QED BY <1>1, <1>2, <1>3, <1>5, TablesShownSame, FailStep

(* A late statement takes the effect of its request, or shows nothing. *)
LEMMA LateStatementStep ==
  ASSUME Ready, NEW w \in Worker, LateStatement(w)
  PROVE  StoreStep
<1> DEFINE st == late[w]
           r == st.req
<1>1. /\ st \in Statement /\ Standing(st.at, r, st.svc)
      /\ st.at = "addService" => TrimSpace(r.name) # EmptyName
      /\ r \in Input /\ st.svc \in ServiceID \cup {Nil} /\ st.at \in {"addService", "write"}
      /\ TablesOK
  BY WorkerTyped DEF LateStatement, Ready, Sound, Standing, Statement
<1>2. st # Nil /\ late' = [late EXCEPT ![w] = Nil] /\ UNCHANGED local
  BY DEF LateStatement
<1>3. LateRequests' = [LateRequests EXCEPT ![w] = Nil]
  BY <1>2, LateShown
<1>4. subscriptionSeq \in Int
  BY <1>1 DEF TablesOK, PostgresTypeOK
<1>5. CASE st.at = "addService"
  <2>1. LateRequests' = LateRequests
    <3>1. LateRequests[w] = Nil /\ LateRequests = [LateRequests EXCEPT ![w] = LateRequests[w]]
      BY <1>2, <1>5 DEF LateRequests
    <3> QED BY <1>3, <3>1
  <2>2. ServicesKept /\ UNCHANGED <<subscription, subscriptionSeq>>
    <3>1. CASE InsertService(TrimSpace(r.name))
      <4>1. r.name \in RawName
        BY <1>1, <1>5, InputTyped DEF Standing, Checked
      <4>2. TrimSpace(r.name) \in StoredName
        BY <1>1, <1>5, <4>1, TrimmedName
      <4>3. ServicesKept
        BY <1>1, <3>1, <4>2, InsertServiceOK
      <4> QED BY <3>1, <4>3 DEF InsertService
    <3>2. CASE InsertServiceFails(TrimSpace(r.name))
      BY <1>1, <3>2, InsertServiceFailsOK DEF InsertServiceFails
    <3>3. CASE UNCHANGED tables
      BY <1>1, <3>3, TablesUnchanged DEF tables
    <3> QED BY <1>5, <3>1, <3>2, <3>3 DEF LateStatement
  <2> QED BY <1>1, <1>2, <2>1, <2>2, ShownSame DEF StoreStep, Store!vars, local
<1>6. CASE st.at = "write"
  <2>1. LateRequests[w] = r /\ r # Nil
    BY <1>1, <1>2, <1>6, InputTyped DEF LateRequests
  <2>2. \/ \E id \in SubscriptionID : Store!Create(r, id)
        \/ Store!Update(r)
        \/ Store!Delete(r)
        \/ Store!NoEffect
    <3>1. CASE r.op = "create" /\ InsertSubscription(NewRow(r, st.svc))
      BY <1>1, <1>6, <3>1, InsertIsCreate
    <3>2. CASE r.op = "create" /\ InsertSubscriptionFails(NewRow(r, st.svc))
      <4>1. ShownRows' = ShownRows
        BY <1>1, <3>2, InsertSubscriptionFailsOK, ShownSame DEF InsertSubscriptionFails
      <4> QED BY <1>1, <3>2, <4>1, NoEffectShown DEF InsertSubscriptionFails
    <3>3. CASE r.op = "update" /\ UpdateRow(r.id, Assignments(r, st.svc))
      BY <1>1, <1>6, <3>3, UpdateIsUpdate
    <3>4. CASE r.op = "delete" /\ DeleteRow(r.id)
      BY <1>1, <1>6, <3>4, DeleteIsDelete
    <3>5. CASE UNCHANGED tables
      BY <1>1, <3>5, TablesShownSame, NoEffectShown
    <3> QED BY <1>6, <3>1, <3>2, <3>3, <3>4, <3>5 DEF LateStatement
  <2>3. Store!Late(w)
    BY <1>2, <1>3, <2>1, <2>2 DEF Store!Late, local
  <2> QED BY <2>3 DEF StoreStep, Store!Next
<1> QED BY <1>1, <1>5, <1>6

(* A restart cuts every request off; those whose last statement was sent may take effect. *)
LEMMA RestartStep ==
  ASSUME Ready, Restart
  PROVE  StoreStep
<1>1. /\ ShownRows' = ShownRows /\ subscriptionSeq' = subscriptionSeq
      /\ req' = [w \in Worker |-> Nil] /\ answer' = [w \in Worker |-> Nil]
  BY TablesShownSame DEF Restart
<1>2. PICK sent \in SUBSET {w \in Worker : PendingStatement(w) # Nil /\ late[w] = Nil} :
        late' = [w \in Worker |-> IF w \in sent THEN PendingStatement(w) ELSE late[w]]
  BY DEF Restart
<1> DEFINE cut == {w \in sent : pc[w] = "write"}
<1>3. ASSUME NEW w \in sent
      PROVE  /\ w \in Worker /\ LateRequests[w] = Nil
             /\ PendingStatement(w) # Nil /\ PendingStatement(w).req = req[w]
             /\ PendingStatement(w).at = pc[w] /\ pc[w] \in {"addService", "write"}
  BY <1>2 DEF LateRequests, PendingStatement
<1>4. cut \in SUBSET {w \in Worker : Store!Unanswered(w) /\ LateRequests[w] = Nil}
  <2>1. ASSUME NEW w \in cut
        PROVE  w \in Worker /\ Store!Unanswered(w) /\ LateRequests[w] = Nil
    <3>1. w \in sent /\ pc[w] = "write"
      OBVIOUS
    <3> QED BY <1>3, <3>1, AtWork
  <2> QED BY <2>1
<1>5. ASSUME NEW w \in Worker
      PROVE  LateRequests'[w] = IF w \in cut THEN req[w] ELSE LateRequests[w]
  <2>1. CASE w \in sent
    <3>1. late'[w] = PendingStatement(w)
      BY <1>2, <2>1
    <3> QED BY <1>3, <2>1, <3>1 DEF LateRequests
  <2>2. CASE w \notin sent
    <3>1. late'[w] = late[w]
      BY <1>2, <2>2
    <3> QED BY <2>2, <3>1 DEF LateRequests
  <2> QED BY <2>1, <2>2
<1>6. LateRequests' = [w \in Worker |-> IF w \in cut THEN req[w] ELSE LateRequests[w]]
  <2> HIDE DEF cut
  <2> QED BY <1>5 DEF LateRequests
<1> HIDE DEF cut
<1>7. Store!CutOff
  BY <1>1, <1>4, <1>6 DEF Store!CutOff
<1> QED BY <1>7 DEF StoreStep, Store!Next

-----------------------------------------------------------------------------
(* The initial tables are an empty store. *)
LEMMA StoreInit == Init => Store!Init
BY DEF Init, PostgresInit, Store!Init, ShownRows, LateRequests

(* Every step is a step of the store, or one that it does not see. *)
LEMMA NextStep ==
  ASSUME Ready, [Next]_vars
  PROVE  StoreStep
<1>1. ASSUME NEW w \in Worker, Receive(w) PROVE StoreStep
  BY <1>1, ReceiveStep
<1>2. ASSUME NEW w \in Worker, Handle(w) PROVE StoreStep
  <2>1. CASE Validate(w)
    BY <2>1, ValidateStep
  <2>2. CASE GetServiceID(w)
    BY <2>2, GetServiceIDStep
  <2>3. CASE AddBlankService(w)
    BY <2>3, AddBlankServiceStep
  <2>4. CASE AddService(w)
    BY <2>4, AddServiceStep
  <2>5. CASE CheckDates(w)
    BY <2>5, CheckDatesStep
  <2>6. CASE GetCurrent(w)
    BY <2>6, GetCurrentStep
  <2>7. CASE CreateSubscription(w)
    BY <2>7, CreateSubscriptionStep
  <2>8. CASE UpdateSubscription(w)
    BY <2>8, UpdateSubscriptionStep
  <2>9. CASE DeleteSubscription(w)
    BY <2>9, DeleteSubscriptionStep
  <2>10. CASE GetSubscription(w)
    BY <2>10, GetSubscriptionStep
  <2>11. CASE StatementFails(w)
    BY <2>11, StatementFailsStep
  <2>12. CASE AnswerLost(w)
    BY <2>12, AnswerLostStep
  <2>13. CASE Finish(w)
    BY <2>13, FinishStep
  <2> QED BY <1>2, <2>1, <2>2, <2>3, <2>4, <2>5, <2>6, <2>7, <2>8, <2>9, <2>10,
             <2>11, <2>12, <2>13 DEF Handle
<1>3. ASSUME NEW w \in Worker, LateStatement(w) PROVE StoreStep
  BY <1>3, LateStatementStep
<1>4. CASE Restart
  BY <1>4, RestartStep
<1>5. CASE UNCHANGED vars
  <2>1. UNCHANGED <<tables, req, answer, late>>
    BY <1>5 DEF vars, local
  <2> QED BY <2>1, TablesUnchanged, Invisible DEF Ready, Sound, tables
<1> QED BY <1>1, <1>2, <1>3, <1>4, <1>5 DEF Next

(* The API implements the store: for any number of requests in flight, any requests and    *)
(* any of the faults, every answer is true of the tables at one instant between request    *)
(* and answer, and a request takes its effect whole, once, or not at all.               *)
THEOREM Implements == Spec => ImplementsStore
<1>1. Inv /\ [Next]_vars => [Store!Next]_(Store!vars)
  BY InvReady, NextStep DEF StoreStep
<1> QED BY <1>1, StoreInit, InvHolds, PTL DEF Spec, ImplementsStore, Store!Spec

=============================================================================
