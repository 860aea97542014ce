---------------------------- MODULE PostgresProofs ----------------------------
(***************************************************************************)
(* What each statement of Postgres does to the guarantees of the schema, for   *)
(* tables of any size.                                                       *)
(***************************************************************************)
EXTENDS Postgres, TLAPS

(* Services are never renamed and never removed. *)
ServicesKept ==
  \A id \in ServiceID : service[id] # Nil => service'[id] = service[id]

(* An UPDATE has no more than the columns of the table to assign. *)
AssignmentSet ==
  [service : ServiceID \cup {Nil}, price : Int \cup {Nil},
   start : OptionalTime, end : OptionalTime]

(* A row as an INSERT may offer it. *)
OfferedRow == [user : User, service : ServiceID, price : Int,
               start : Time, end : OptionalTime]

-----------------------------------------------------------------------------
(* The empty tables satisfy every constraint. *)
LEMMA TablesInit == PostgresInit => TablesOK
BY DataAssumption, TableAssumption
   DEF PostgresInit, TablesOK, PostgresTypeOK, UniqueServiceName, UniqueSubscription,
       ReferencedServiceExists, DatesOrdered, SequencesAhead, ServiceID, SubscriptionID

(* Steps that leave the tables alone leave their guarantees alone. *)
LEMMA TablesUnchanged ==
  ASSUME TablesOK, UNCHANGED tables
  PROVE  TablesOK' /\ ServicesKept
BY DEF tables, TablesOK, PostgresTypeOK, UniqueServiceName, UniqueSubscription,
       UniqueViolation, ReferencedServiceExists, DatesOrdered, SequencesAhead, ServicesKept

(* A new service leaves every constraint in force and every old service alone. *)
LEMMA InsertServiceOK ==
  ASSUME TablesOK, NEW name \in StoredName, InsertService(name)
  PROVE  TablesOK' /\ ServicesKept /\ service'[serviceSeq] = name
<1>1. serviceSeq \in ServiceID /\ service[serviceSeq] = Nil
  BY TableAssumption DEF InsertService, ServiceInsertable, TablesOK, SequencesAhead, ServiceID
<1>2. PostgresTypeOK'
  BY <1>1, TableAssumption
     DEF InsertService, ServiceInsertable, TablesOK, PostgresTypeOK, ServiceID
<1>3. ServicesKept
  BY <1>1 DEF InsertService, TablesOK, PostgresTypeOK, ServicesKept
<1>4. UniqueServiceName'
  BY <1>1 DEF InsertService, ServiceInsertable, ServicesNamed, TablesOK, PostgresTypeOK,
              UniqueServiceName
<1>5. UniqueSubscription' /\ DatesOrdered'
  BY DEF InsertService, TablesOK, UniqueSubscription, UniqueViolation, DatesOrdered
<1>6. ReferencedServiceExists'
  <2> SUFFICES ASSUME NEW id \in SubscriptionID, subscription'[id] # Nil
               PROVE  service'[subscription'[id].service] # Nil
    BY DEF ReferencedServiceExists
  <2>1. subscription' = subscription /\ subscription[id] \in Row
    BY DEF InsertService, TablesOK, PostgresTypeOK
  <2>2. subscription[id].service \in ServiceID
    BY <2>1 DEF Row
  <2> QED BY <1>3, <2>1, <2>2 DEF TablesOK, ReferencedServiceExists, ServicesKept
<1>7. SequencesAhead'
  BY <1>1, TableAssumption
     DEF InsertService, TablesOK, PostgresTypeOK, SequencesAhead, ServiceID
<1>8. service'[serviceSeq] = name
  BY <1>1 DEF InsertService, TablesOK, PostgresTypeOK
<1> QED BY <1>2, <1>3, <1>4, <1>5, <1>6, <1>7, <1>8 DEF TablesOK

(* A refused service costs a sequence value and nothing else. *)
LEMMA InsertServiceFailsOK ==
  ASSUME TablesOK, NEW name, InsertServiceFails(name)
  PROVE  TablesOK' /\ ServicesKept
<1>1. PostgresTypeOK' /\ SequencesAhead'
  BY TableAssumption
     DEF InsertServiceFails, TablesOK, PostgresTypeOK, SequencesAhead, ServiceID
<1> QED BY <1>1 DEF InsertServiceFails, TablesOK, UniqueServiceName, UniqueSubscription,
                    UniqueViolation, ReferencedServiceExists, DatesOrdered, ServicesKept

-----------------------------------------------------------------------------
(* Postgres stores a row only when no constraint objects. *)
LEMMA RowErrorNone ==
  ASSUME NEW id, NEW row, RowError(id, row) = "none"
  PROVE  ~CheckViolation(row) /\ ~UniqueViolation(id, row) /\ ~ForeignKeyViolation(row)
BY DEF RowError

(* Storing a row no constraint objects to keeps every constraint. *)
LEMMA StoreOK ==
  ASSUME TablesOK,
         NEW id \in SubscriptionID, NEW row \in Row,
         RowError(id, row) = "none",
         subscription' = [subscription EXCEPT ![id] = row],
         service' = service
  PROVE  /\ subscription' \in [SubscriptionID -> Row \cup {Nil}]
         /\ UniqueSubscription' /\ ReferencedServiceExists' /\ DatesOrdered'
<1>1. ~CheckViolation(row) /\ ~UniqueViolation(id, row) /\ ~ForeignKeyViolation(row)
  BY RowErrorNone
<1>2. /\ subscription \in [SubscriptionID -> Row \cup {Nil}]
      /\ subscription' \in [SubscriptionID -> Row \cup {Nil}]
      /\ subscription'[id] = row
      /\ \A i \in SubscriptionID \ {id} : subscription'[i] = subscription[i]
  BY DEF TablesOK, PostgresTypeOK
<1>3. UniqueSubscription'
  <2> SUFFICES ASSUME NEW i \in SubscriptionID, NEW j \in SubscriptionID \ {i},
                      subscription'[i] # Nil, subscription'[j] # Nil,
                      subscription'[j].user = subscription'[i].user,
                      subscription'[j].service = subscription'[i].service,
                      subscription'[j].start = subscription'[i].start
               PROVE  FALSE
    BY DEF UniqueSubscription, UniqueViolation
  <2>1. CASE i = id
    BY <2>1, <1>1, <1>2 DEF UniqueViolation
  <2>2. CASE j = id
    BY <2>2, <1>1, <1>2 DEF UniqueViolation
  <2>3. CASE i # id /\ j # id
    BY <2>3, <1>2 DEF TablesOK, UniqueSubscription, UniqueViolation
  <2> QED BY <2>1, <2>2, <2>3
<1>4. ReferencedServiceExists'
  BY <1>1, <1>2 DEF TablesOK, ReferencedServiceExists, ForeignKeyViolation
<1>5. DatesOrdered'
  <2>1. row.end # Nil => row.end >= row.start
    BY <1>1, DataAssumption DEF CheckViolation, Row, Time, OptionalTime
  <2> QED BY <2>1, <1>2 DEF TablesOK, DatesOrdered
<1> QED BY <1>2, <1>3, <1>4, <1>5

(* A new subscription takes an id no other has had. *)
LEMMA InsertSubscriptionOK ==
  ASSUME TablesOK, NEW row \in OfferedRow, InsertSubscription(row)
  PROVE  TablesOK' /\ ServicesKept /\ subscriptionSeq \in SubscriptionID
<1>1. /\ Encodable(row.price) /\ subscriptionSeq \in SubscriptionID
      /\ RowError(subscriptionSeq, row) = "none"
  BY DEF InsertSubscription, InsertError
<1>2. row \in Row
  BY <1>1, RowErrorNone, DataAssumption
     DEF CheckViolation, Encodable, OfferedRow, Row
<1>3. /\ subscription' \in [SubscriptionID -> Row \cup {Nil}]
      /\ UniqueSubscription' /\ ReferencedServiceExists' /\ DatesOrdered'
  BY <1>1, <1>2, StoreOK DEF InsertSubscription
<1>4. PostgresTypeOK'
  BY <1>1, <1>3, TableAssumption
     DEF InsertSubscription, TablesOK, PostgresTypeOK, SubscriptionID
<1>5. SequencesAhead'
  BY <1>1, TableAssumption
     DEF InsertSubscription, TablesOK, PostgresTypeOK, SequencesAhead, SubscriptionID, ServiceID
<1> QED BY <1>1, <1>3, <1>4, <1>5
           DEF InsertSubscription, TablesOK, UniqueServiceName, ServicesKept

(* A refused subscription costs at most a sequence value. *)
LEMMA InsertSubscriptionFailsOK ==
  ASSUME TablesOK, NEW row, InsertSubscriptionFails(row)
  PROVE  TablesOK' /\ ServicesKept
<1>1. InsertError(row) \notin {"not_encodable", "sequence_exhausted"}
        => subscriptionSeq \in SubscriptionID
  BY DEF InsertError
<1>2. PostgresTypeOK' /\ SequencesAhead'
  BY <1>1, TableAssumption
     DEF InsertSubscriptionFails, TablesOK, PostgresTypeOK, SequencesAhead,
         SubscriptionID, ServiceID
<1> QED BY <1>2 DEF InsertSubscriptionFails, TablesOK, UniqueServiceName, UniqueSubscription,
                    UniqueViolation, ReferencedServiceExists, DatesOrdered, ServicesKept

(* The old row with the assigned columns is a row again, once the price fits. *)
LEMMA AssignOffered ==
  ASSUME NEW old \in Row, NEW set \in AssignmentSet
  PROVE  /\ Assign(old, set) \in OfferedRow
         /\ Assign(old, set).price = IF set.price = Nil THEN old.price ELSE set.price
<1>1. /\ old.user \in User /\ old.service \in ServiceID /\ old.price \in Int
      /\ old.start \in Time /\ old.end \in OptionalTime
  BY DataAssumption DEF Row
<1>2. /\ set.service \in ServiceID \cup {Nil} /\ set.price \in Int \cup {Nil}
      /\ set.start \in OptionalTime /\ set.end \in OptionalTime
  BY DEF AssignmentSet
<1> QED BY <1>1, <1>2 DEF Assign, OfferedRow, OptionalTime

(* What an update makes of a row is a row. *)
LEMMA UpdateRowTyped ==
  ASSUME TablesOK, NEW id, NEW set \in AssignmentSet, UpdateRow(id, set)
  PROVE  Assign(subscription[id], set) \in Row
<1> DEFINE row == Assign(subscription[id], set)
<1>1. /\ set.price = Nil \/ Encodable(set.price)
      /\ id \in SubscriptionID /\ subscription[id] # Nil
      /\ RowError(id, row) = "none"
  BY DEF UpdateRow, UpdateError, HasSubscription
<1>2. subscription[id] \in Row
  BY <1>1 DEF TablesOK, PostgresTypeOK
<1>3. row \in OfferedRow /\ row.price = IF set.price = Nil THEN subscription[id].price ELSE set.price
  BY <1>2, AssignOffered
<1>4. row.price \in 0..MaxInt4
  <2>1. row.price >= 0
    BY <1>1, <1>3, RowErrorNone DEF CheckViolation, OfferedRow
  <2>2. row.price <= MaxInt4
    BY <1>1, <1>2, <1>3, DataAssumption DEF Encodable, Row
  <2> QED BY <2>1, <2>2, <1>3 DEF OfferedRow
<1> QED BY <1>3, <1>4 DEF OfferedRow, Row

(* An update moves a row to another valid row and touches no other. *)
LEMMA UpdateRowOK ==
  ASSUME TablesOK, NEW id, NEW set \in AssignmentSet, UpdateRow(id, set)
  PROVE  TablesOK' /\ ServicesKept
<1> DEFINE row == Assign(subscription[id], set)
<1>1. id \in SubscriptionID /\ subscription[id] # Nil /\ RowError(id, row) = "none"
  BY DEF UpdateRow, UpdateError, HasSubscription
<1>2. row \in Row
  BY UpdateRowTyped
<1>3. subscription' = [subscription EXCEPT ![id] = row] /\ service' = service
  BY DEF UpdateRow
<1> HIDE DEF row
<1>4. /\ subscription' \in [SubscriptionID -> Row \cup {Nil}]
      /\ UniqueSubscription' /\ ReferencedServiceExists' /\ DatesOrdered'
  BY <1>1, <1>2, <1>3, StoreOK
<1>5. PostgresTypeOK'
  BY <1>4 DEF UpdateRow, TablesOK, PostgresTypeOK
<1>6. SequencesAhead'
  BY <1>1, <1>3 DEF UpdateRow, TablesOK, PostgresTypeOK, SequencesAhead
<1> QED BY <1>4, <1>5, <1>6 DEF UpdateRow, TablesOK, UniqueServiceName, ServicesKept

(* A delete removes one row. *)
LEMMA DeleteRowOK ==
  ASSUME TablesOK, NEW id, DeleteRow(id)
  PROVE  TablesOK' /\ ServicesKept
<1>1. /\ subscription' \in [SubscriptionID -> Row \cup {Nil}]
      /\ \A i \in SubscriptionID : subscription'[i] # Nil => subscription'[i] = subscription[i]
  BY DEF DeleteRow, HasSubscription, TablesOK, PostgresTypeOK
<1> QED BY <1>1 DEF DeleteRow, TablesOK, PostgresTypeOK, UniqueServiceName, UniqueSubscription,
                    UniqueViolation, ReferencedServiceExists, DatesOrdered, SequencesAhead,
                    ServicesKept

=============================================================================
