-------------------------- MODULE SubscriptionData --------------------------
(***************************************************************************)
(* The data of the subscription service: request payloads as the HTTP       *)
(* clients send them, dates as text and as first-of-month time values, and  *)
(* the checks of internal/api/handlers and internal/service that look at a  *)
(* request alone.  Nothing here has state.                                  *)
(***************************************************************************)
EXTENDS Integers

CONSTANTS
  Name,        \* non-blank service names, already trimmed
  User,        \* UUIDs of users
  ZeroUser,    \* uuid.UUID{}, the value of an absent user_id
  MaxInt4,     \* largest value of a Postgres INTEGER
  Nil,         \* an absent field, a nil pointer, a NULL column
  EmptyText,   \* the string ""
  NullText,    \* the string "null"
  Malformed    \* an id that is no integer; the price of a body that is no valid JSON


-----------------------------------------------------------------------------
(* Service names.  A name as a client types it is its trimmed text and      *)
(* whether it carries blanks around it; the empty text with blanks around   *)
(* it is a string of blanks.                                                *)

RawName == [text : Name \cup {EmptyText}, padded : BOOLEAN]
StoredName == [text : Name, padded : {FALSE}]

EmptyName == [text |-> EmptyText, padded |-> FALSE]

TrimSpace(s) == [text |-> s.text, padded |-> FALSE]

(* Dates.  A text of the form "<month>-<year>" is kept as its two numbers;  *)
(* the time value is the number of months since January of year 0, because  *)
(* ParseMonth only produces midnights of a first day of a month.            *)

MonthText == [month : Nat, year : Nat]
DateText == MonthText \cup {Nil, EmptyText, NullText}

(* time.Parse("01-2006", s) succeeds. *)
Parses(s) == s \in MonthText /\ s.month \in 1..12 /\ s.year <= 9999

ParseMonth(s) == 12 * s.year + s.month - 1

(* time.Time{} is the first of January of year 1, which IsZero recognises. *)
ZeroTime == ParseMonth([month |-> 1, year |-> 1])

Time == Int
OptionalTime == Time \cup {Nil}

(* One record for the four operations on a subscription; an operation       *)
(* leaves the fields it does not read at Nil.                               *)
Operation == {"create", "update", "delete", "get"}
Request ==
  [op : Operation, id : Int \cup {Nil, Malformed}, user : User \cup {ZeroUser, Nil},
   name : RawName \cup {Nil}, price : Int \cup {Nil, Malformed},
   start : DateText, end : DateText]

(* The values that stand for something absent or unreadable are no names, users, *)
(* numbers or records.                                                       *)
ASSUME DataAssumption ==
  /\ MaxInt4 \in Nat
  /\ \A x \in {Nil, Malformed, EmptyText, NullText} :
       x \notin Int /\ x \notin MonthText /\ x \notin RawName /\ x \notin Request
  /\ Nil \notin User /\ ZeroUser \notin User
  /\ EmptyText \notin Name
  /\ Nil \notin {Malformed, EmptyText, NullText} /\ EmptyText # NullText

-----------------------------------------------------------------------------
(* Checks of the handlers. *)

(* strconv.ParseInt and the test of the sign; DELETE has no such test. *)
IdAccepted(r) ==
  CASE r.op = "create" -> TRUE
    [] r.op = "delete" -> r.id # Malformed
    [] OTHER           -> r.id # Malformed /\ r.id > 0

Decodes(r) == r.price # Malformed

(* The handler trims its own copy of the name; `required` refuses the zero  *)
(* value of every field, a price of 0 included.                             *)
validateCreateSubscriptionRequest(r) ==
  /\ r.name # Nil /\ TrimSpace(r.name) # EmptyName
  /\ r.price # Nil /\ r.price > 0
  /\ r.user \in User
  /\ r.start \notin {Nil, EmptyText}

(* A blank name counts as an absent one here, but only here: the service    *)
(* receives the name as it was sent.                                        *)
validateUpdateSubscriptionRequest(r) ==
  LET name == IF r.name # Nil /\ TrimSpace(r.name) = EmptyName THEN Nil ELSE r.name
  IN  /\ r.price # Nil => r.price >= 0
      /\ name # Nil \/ r.price # Nil \/ r.start # Nil \/ r.end # Nil

HandlerAccepts(r) ==
  /\ IdAccepted(r)
  /\ r.op \in {"create", "update"} => Decodes(r)
  /\ r.op = "create" => validateCreateSubscriptionRequest(r)
  /\ r.op = "update" => validateUpdateSubscriptionRequest(r)

-----------------------------------------------------------------------------
(* Checks of SubscriptionService that need no database. *)

(* An absent end_date reaches the service as "". *)
CreateAccepted(r) ==
  /\ Parses(r.start)
  /\ r.end \notin {Nil, EmptyText} =>
       Parses(r.end) /\ ParseMonth(r.end) >= ParseMonth(r.start)

(* The checks UpdateSubscription makes before it resolves the service. *)
UpdateAccepted(r) == r.name # EmptyName

Clears(r) == r.end \in {EmptyText, NullText}

(* The checks UpdateSubscription makes after it resolved the service. *)
UpdateDatesAccepted(r) ==
  /\ r.start # Nil => Parses(r.start)
  /\ r.end # Nil /\ ~Clears(r) =>
       /\ Parses(r.end)
       /\ r.start # Nil => ParseMonth(r.end) >= ParseMonth(r.start)

(* The end date has to be compared with the stored start date. *)
NeedsCurrent(r) == r.end # Nil /\ ~Clears(r) /\ r.start = Nil

ServiceAccepts(r) ==
  /\ r.op = "create" => CreateAccepted(r)
  /\ r.op = "update" => UpdateAccepted(r)

=============================================================================
