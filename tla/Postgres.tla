------------------------------ MODULE Postgres ------------------------------
(***************************************************************************)
(* The two tables of migrations/*.sql and the statements that               *)
(* internal/repository runs on them.  Every repository call is one           *)
(* autocommit statement, so each is one atomic action here.                  *)
(*                                                                         *)
(* A table is a function from the primary keys its SERIAL column can         *)
(* produce to rows, Nil where there is no row.  A sequence that has run out   *)
(* makes the INSERT fail, as it does in Postgres at the end of the type; the  *)
(* two bounds below bring that end near.                                     *)
(***************************************************************************)
EXTENDS SubscriptionData

CONSTANTS
  MaxServiceID,       \* bound: the last value of the sequence of service.id
  MaxSubscriptionID   \* bound: the last value of the sequence of subscription.id

VARIABLES
  service,            \* service.id -> name
  serviceSeq,         \* next value of the sequence of service.id
  subscription,       \* subscription.id -> row
  subscriptionSeq     \* next value of the sequence of subscription.id

tables == <<service, serviceSeq, subscription, subscriptionSeq>>

ServiceID == 1..MaxServiceID
SubscriptionID == 1..MaxSubscriptionID

Row == [user : User, service : ServiceID, price : 0..MaxInt4,
        start : Time, end : OptionalTime]

ASSUME TableAssumption ==
  /\ MaxServiceID \in Nat \ {0} /\ MaxSubscriptionID \in Nat \ {0}
  /\ Nil \notin Row

PostgresTypeOK ==
  /\ service \in [ServiceID -> StoredName \cup {Nil}]
  /\ serviceSeq \in 1..(MaxServiceID + 1)
  /\ subscription \in [SubscriptionID -> Row \cup {Nil}]
  /\ subscriptionSeq \in 1..(MaxSubscriptionID + 1)

PostgresInit ==
  /\ service = [id \in ServiceID |-> Nil]
  /\ serviceSeq = 1
  /\ subscription = [id \in SubscriptionID |-> Nil]
  /\ subscriptionSeq = 1

-----------------------------------------------------------------------------
(* Table service. *)

(* The ids a SELECT by name returns: UNIQUE (name) leaves at most one. *)
ServicesNamed(name) == {id \in ServiceID : service[id] = name}

ServiceInsertable(name) ==
  /\ serviceSeq \in ServiceID
  /\ ServicesNamed(name) = {}

(* Mutant of InsertService: the id of a deleted service is given out again. *)
InsertServiceReused(name) ==
  /\ ServiceInsertable(name)
  /\ \E id \in ServiceID :
       /\ service[id] = Nil /\ \A other \in 1..(id - 1) : service[other] # Nil
       /\ service' = [service EXCEPT ![id] = name]
  /\ serviceSeq' = serviceSeq + 1
  /\ UNCHANGED <<subscription, subscriptionSeq>>

InsertService(name) ==
  /\ ServiceInsertable(name)
  /\ service' = [service EXCEPT ![serviceSeq] = name]
  /\ serviceSeq' = serviceSeq + 1
  /\ UNCHANGED <<subscription, subscriptionSeq>>

(* A refused INSERT has consumed its sequence value. *)
InsertServiceFails(name) ==
  /\ ~ServiceInsertable(name)
  /\ serviceSeq' = IF serviceSeq \in ServiceID THEN serviceSeq + 1 ELSE serviceSeq
  /\ UNCHANGED <<service, subscription, subscriptionSeq>>

-----------------------------------------------------------------------------
(* Table subscription. *)

HasSubscription(id) == id \in SubscriptionID /\ subscription[id] # Nil

(* Mutant of Encodable: the column holds every integer. *)
EncodableAlways(price) == TRUE

(* pgx refuses to encode an integer that INTEGER cannot hold. *)
Encodable(price) == price \in -MaxInt4 - 1 .. MaxInt4

(* Mutant of CheckViolation: no CHECK (end_date >= start_date). *)
CheckViolationOfPrice(row) == row.price < 0

(* The CHECK constraints of subscription. *)
CheckViolation(row) ==
  \/ row.price < 0
  \/ row.end # Nil /\ row.end < row.start

(* Mutant of UniqueViolation: no UNIQUE (user_id, service_id, start_date). *)
NoUniqueViolation(id, row) == FALSE

(* UNIQUE (user_id, service_id, start_date), for the row to be kept at id. *)
UniqueViolation(id, row) ==
  \E other \in SubscriptionID \ {id} :
    /\ subscription[other] # Nil
    /\ subscription[other].user = row.user
    /\ subscription[other].service = row.service
    /\ subscription[other].start = row.start

(* Mutant of ForeignKeyViolation: no REFERENCES service(id). *)
NoForeignKeyViolation(row) == FALSE

ForeignKeyViolation(row) == service[row.service] = Nil

(* What Postgres answers to storing the row at id, in the order it looks. *)
RowError(id, row) ==
  IF CheckViolation(row) THEN "check_violation"
  ELSE IF UniqueViolation(id, row) THEN "unique_violation"
  ELSE IF ForeignKeyViolation(row) THEN "foreign_key_violation"
  ELSE "none"

InsertError(row) ==
  IF ~Encodable(row.price) THEN "not_encodable"
  ELSE IF subscriptionSeq \notin SubscriptionID THEN "sequence_exhausted"
  ELSE RowError(subscriptionSeq, row)

(* Mutant of InsertSubscription: the id is one more than the largest in use. *)
InsertAfterLargest(row) ==
  /\ InsertError(row) = "none"
  /\ \E id \in SubscriptionID :
       /\ \A other \in SubscriptionID : other >= id <=> subscription[other] = Nil
       /\ subscription' = [subscription EXCEPT ![id] = row]
  /\ subscriptionSeq' = subscriptionSeq + 1
  /\ UNCHANGED <<service, serviceSeq>>

InsertSubscription(row) ==
  /\ InsertError(row) = "none"
  /\ subscription' = [subscription EXCEPT ![subscriptionSeq] = row]
  /\ subscriptionSeq' = subscriptionSeq + 1
  /\ UNCHANGED <<service, serviceSeq>>

(* Only an INSERT that reached the executor has consumed its sequence value. *)
InsertSubscriptionFails(row) ==
  /\ InsertError(row) # "none"
  /\ subscriptionSeq' =
       IF InsertError(row) \in {"not_encodable", "sequence_exhausted"}
       THEN subscriptionSeq ELSE subscriptionSeq + 1
  /\ UNCHANGED <<service, serviceSeq, subscription>>

(* Mutant of Assign: an absent end date clears the column too. *)
AssignEndAlways(old, set) ==
  [user    |-> old.user,
   service |-> IF set.service = Nil THEN old.service ELSE set.service,
   price   |-> IF set.price = Nil THEN old.price ELSE set.price,
   start   |-> IF set.start = Nil THEN old.start ELSE set.start,
   end     |-> IF set.end = ZeroTime THEN Nil ELSE set.end]

(* The row an UPDATE with these assignments makes of an old one: a field     *)
(* left at Nil is not assigned, and the zero time stands for NULL.           *)
Assign(old, set) ==
  [user    |-> old.user,
   service |-> IF set.service = Nil THEN old.service ELSE set.service,
   price   |-> IF set.price = Nil THEN old.price ELSE set.price,
   start   |-> IF set.start = Nil THEN old.start ELSE set.start,
   end     |-> IF set.end = Nil THEN old.end
               ELSE IF set.end = ZeroTime THEN Nil ELSE set.end]

(* WHERE id = ... matching no row is no error, whatever the assignments. *)
UpdateError(id, set) ==
  IF set.price # Nil /\ ~Encodable(set.price) THEN "not_encodable"
  ELSE IF ~HasSubscription(id) THEN "no_rows"
  ELSE RowError(id, Assign(subscription[id], set))

UpdateRow(id, set) ==
  /\ UpdateError(id, set) = "none"
  /\ subscription' = [subscription EXCEPT ![id] = Assign(@, set)]
  /\ UNCHANGED <<service, serviceSeq, subscriptionSeq>>

DeleteRow(id) ==
  /\ HasSubscription(id)
  /\ subscription' = [subscription EXCEPT ![id] = Nil]
  /\ UNCHANGED <<service, serviceSeq, subscriptionSeq>>

-----------------------------------------------------------------------------
(* What the schema guarantees of every state. *)

(* UNIQUE (name): a service name has one id. *)
UniqueServiceName ==
  \A i, j \in ServiceID : service[i] # Nil /\ service[i] = service[j] => i = j

(* UNIQUE (user_id, service_id, start_date). *)
UniqueSubscription ==
  \A id \in SubscriptionID :
    subscription[id] # Nil => ~UniqueViolation(id, subscription[id])

(* REFERENCES service(id): every subscription has its service. *)
ReferencedServiceExists ==
  \A id \in SubscriptionID :
    subscription[id] # Nil => service[subscription[id].service] # Nil

(* No subscription ends before it starts, although UpdateSubscription compares  *)
(* a new end date with a start date that another update may change before its   *)
(* own UPDATE runs, and compares a new start date with nothing: the CHECK of     *)
(* the table is what keeps the dates in order.                                 *)
DatesOrdered ==
  \A id \in SubscriptionID :
    subscription[id] # Nil /\ subscription[id].end # Nil =>
      subscription[id].end >= subscription[id].start

(* A sequence is ahead of every id it has given out. *)
SequencesAhead ==
  /\ \A id \in ServiceID : service[id] # Nil => id < serviceSeq
  /\ \A id \in SubscriptionID : subscription[id] # Nil => id < subscriptionSeq

(* What the schema guarantees of every state the statements can reach. *)
TablesOK ==
  /\ PostgresTypeOK
  /\ UniqueServiceName
  /\ UniqueSubscription
  /\ ReferencedServiceExists
  /\ DatesOrdered
  /\ SequencesAhead

=============================================================================
