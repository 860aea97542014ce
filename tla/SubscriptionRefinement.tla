------------------------ MODULE SubscriptionRefinement ------------------------
(***************************************************************************)
(* The API of SubscriptionAPI implements the store of SubscriptionStore:       *)
(* tables become rows that carry the name of their service, and the            *)
(* control state of a handler is hidden.                                     *)
(***************************************************************************)
EXTENDS SubscriptionAPI

ShownRows ==
  [id \in SubscriptionID |->
     IF subscription[id] = Nil THEN Nil ELSE Joined(subscription[id])]

(* An INSERT into service nobody waits for changes nothing a client can see. *)
LateRequests ==
  [w \in Worker |->
     IF late[w] = Nil THEN Nil
     ELSE IF late[w].at = "addService" THEN Nil ELSE late[w].req]

Store == INSTANCE SubscriptionStore
  WITH ID <- SubscriptionID, rows <- ShownRows,
       lastID <- subscriptionSeq - 1, late <- LateRequests

(* What the mapping asks of the requests: a path has an id exactly where the        *)
(* operation wants one, only bodies have prices, and no end date is January of      *)
(* year 1, which UpdateSubscription would take for the wish to clear the column.     *)
ASSUME InputAssumption ==
  \A r \in Input :
    /\ r.op = "create" => r.id # Malformed
    /\ r.op \in {"get", "update"} => r.id # Nil
    /\ r.op \in {"get", "delete"} => r.price # Malformed
    /\ Parses(r.end) => ParseMonth(r.end) # ZeroTime

(* Every answer is true of the tables at one instant between request and         *)
(* answer, requests take their effect whole and once, and nothing but requests    *)
(* changes a subscription: although a request runs up to four statements without  *)
(* a transaction, its answer is that of an atomic operation.                     *)
ImplementsStore == Store!Spec

(* The rows of the store, by the name of the service: no user is billed twice for *)
(* one service from one month on, whatever blanks surround the name in the        *)
(* requests (AddService trims, GetServiceID does not, UNIQUE sees ids only).      *)
NoDoubleBilling ==
  \A i, j \in SubscriptionID :
    /\ subscription[i] # Nil /\ subscription[j] # Nil /\ i # j
    /\ subscription[i].user = subscription[j].user
    /\ subscription[i].start = subscription[j].start
    => TrimSpace(service[subscription[i].service]) # TrimSpace(service[subscription[j].service])

=============================================================================
