-------------------------------- MODULE Listing --------------------------------
(***************************************************************************)
(* GET /api/v1/subscriptions: a client reads all pages of a filtered list while  *)
(* others insert, rename and delete subscriptions.                            *)
(*                                                                         *)
(* One answer is made of two statements, COUNT and the page, each of which sees   *)
(* one state of the table.  Here an INSERT takes its id in one step and shows its  *)
(* row in a later one, so rows may appear in another order than that of their ids. *)
(***************************************************************************)
EXTENDS SubscriptionData, FiniteSets

CONSTANTS
  MaxID,         \* bound: the last subscription id
  DefaultLimit,  \* the limit of a request that gives no good one
  Query,         \* the query parameters clients may start with
  Fault          \* "error": a statement fails; "break": rows stop coming

ID == 1..MaxID

(* A subscription joined with its service, as far as a filter can see. *)
Sub == [user : User, name : StoredName]

(* The query parameters; an empty one is an absent one. *)
ListRequest ==
  [limit : Int \cup {Nil, Malformed}, offset : Int \cup {Nil, Malformed},
   user : User \cup {Nil, Malformed}, name : (RawName \ {EmptyName}) \cup {Nil}]

VARIABLES
  table,      \* id -> subscription, Nil where none can be seen
  nextID,     \* the next value of the sequence
  inserting,  \* ids taken by INSERTs whose rows cannot be seen yet
  ask,        \* the query parameters of the request
  stage,      \* where the handler, or between two requests the client, stands
  total,      \* the result of COUNT
  rows,       \* ids of the page still to be delivered
  items,      \* ids delivered
  answer,
  (* History, for the properties only. *)
  seen,       \* ids of the pages the client has read
  again,      \* it has met one of them twice
  standing,   \* ids that have been in the list from the beginning
  left,       \* a row that was passed, or one before it, has left the list
  joined,     \* a row has joined the list before one that was passed
  moved,      \* the list has changed since COUNT
  broken      \* a page has been cut short by the connection

writers == <<table, nextID, inserting>>
request == <<ask, stage, total, rows, items, answer>>
reading == <<seen, again>>
changes == <<standing, left, joined, moved>>
vars == <<writers, request, reading, changes, broken>>

Stage == {"idle", "count", "page", "scan", "answered", "done"}

-----------------------------------------------------------------------------
(* Parameters. *)

(* Mutant of Limit: every number is taken. *)
LimitUnchecked(q) == IF q.limit \in Int THEN q.limit ELSE DefaultLimit

(* strconv.Atoi, and the default for what is no number or no good one. *)
Limit(q) == IF q.limit \in Int /\ q.limit > 0 THEN q.limit ELSE DefaultLimit
Offset(q) == IF q.offset \in Int /\ q.offset >= 0 THEN q.offset ELSE 0

Answer == [status : {200}, limit : Nat \ {0}, offset : Nat, total : Nat]
     \cup [status : {400, 500}]

(* Clients begin with the first page. *)
ASSUME ListingAssumption ==
  /\ MaxID \in Nat \ {0}
  /\ DefaultLimit \in Nat \ {0}
  /\ Query \subseteq ListRequest
  /\ \A q \in Query : Offset(q) = 0
  /\ Fault \subseteq {"error", "break"}
  /\ Nil \notin Sub /\ Nil \notin Answer

TypeOK ==
  /\ table \in [ID -> Sub \cup {Nil}]
  /\ nextID \in 1..(MaxID + 1)
  /\ inserting \in SUBSET ID
  /\ ask \in ListRequest
  /\ stage \in Stage
  /\ total \in Nat
  /\ rows \in SUBSET ID /\ items \in SUBSET ID
  /\ answer \in Answer \cup {Nil}
  /\ answer # Nil <=> stage \in {"answered", "done"}
  /\ seen \in SUBSET ID /\ standing \in SUBSET ID
  /\ again \in BOOLEAN /\ left \in BOOLEAN /\ joined \in BOOLEAN /\ moved \in BOOLEAN
  /\ broken \in BOOLEAN

-----------------------------------------------------------------------------
(* The list. *)

Matches(sub, q) ==
  /\ q.user # Nil => sub.user = q.user
  /\ q.name # Nil => sub.name = q.name

ListIn(t, q) == {id \in ID : t[id] # Nil /\ Matches(t[id], q)}
List == ListIn(table, ask)

(* The place of a row in ORDER BY s.id. *)
Place(id, list) == Cardinality({other \in list : other <= id})

(* Mutant of Page: the offset is that of the last row to skip. *)
PageAfterNext ==
  {id \in List : Place(id, List) \in Offset(ask) + 2 .. Offset(ask) + 1 + Limit(ask)}

(* LIMIT and OFFSET *)
Page == {id \in List : Place(id, List) \in Offset(ask) + 1 .. Offset(ask) + Limit(ask)}

Init ==
  /\ \E n \in 0..MaxID :
       /\ nextID = n + 1
       /\ table \in {t \in [ID -> Sub \cup {Nil}] : \A id \in ID : id > n => t[id] = Nil}
  /\ inserting = {}
  /\ ask \in Query
  /\ stage = "idle"
  /\ total = 0 /\ rows = {} /\ items = {}
  /\ answer = Nil
  /\ seen = {} /\ again = FALSE
  /\ standing = List
  /\ left = FALSE /\ joined = FALSE /\ moved = FALSE /\ broken = FALSE

-----------------------------------------------------------------------------
(* The handler and ListSubscriptions. *)

Give(a) == stage' = "answered" /\ answer' = a

Parse ==
  /\ stage = "idle"
  /\ IF ask.user = Malformed
     THEN Give([status |-> 400])
     ELSE stage' = "count" /\ UNCHANGED answer
  /\ UNCHANGED <<writers, ask, total, rows, items, reading, changes, broken>>

(* Mutant of Count: the filters are not applied to the COUNT. *)
CountUnfiltered ==
  /\ stage = "count"
  /\ total' = Cardinality({id \in ID : table[id] # Nil})
  /\ stage' = "page"
  /\ moved' = FALSE
  /\ UNCHANGED <<writers, ask, rows, items, answer, reading, standing, left, joined, broken>>

Count ==
  /\ stage = "count"
  /\ total' = Cardinality(List)
  /\ stage' = "page"
  /\ moved' = FALSE
  /\ UNCHANGED <<writers, ask, rows, items, answer, reading, standing, left, joined, broken>>

(* Mutant of SelectPage: no ORDER BY, so any rows may make the page. *)
SelectAnyPage ==
  /\ stage = "page"
  /\ rows' \in {page \in SUBSET List : Cardinality(page) = Cardinality(Page)}
  /\ stage' = "scan"
  /\ UNCHANGED <<writers, ask, total, items, answer, reading, changes, broken>>

SelectPage ==
  /\ stage = "page"
  /\ rows' = Page
  /\ stage' = "scan"
  /\ UNCHANGED <<writers, ask, total, items, answer, reading, changes, broken>>

(* rows.Next and rows.Scan, in the order of the ids. *)
ScanRow ==
  /\ stage = "scan"
  /\ \E id \in rows :
       /\ \A other \in rows : id <= other
       /\ rows' = rows \ {id}
       /\ items' = items \cup {id}
  /\ UNCHANGED <<writers, ask, stage, total, answer, reading, changes, broken>>

(* The connection breaks: rows.Next is false, and rows.Err is not asked. *)
RowsBreak ==
  /\ "break" \in Fault
  /\ stage = "scan" /\ rows # {}
  /\ rows' = {}
  /\ broken' = TRUE
  /\ UNCHANGED <<writers, ask, stage, total, items, answer, reading, changes>>

RowsEnd ==
  /\ stage = "scan" /\ rows = {}
  /\ Give([status |-> 200, limit |-> Limit(ask), offset |-> Offset(ask), total |-> total])
  /\ UNCHANGED <<writers, ask, total, rows, items, reading, changes, broken>>

(* A statement, or the Scan of a row, returns an error: nothing is shown. *)
StatementFails ==
  /\ "error" \in Fault
  /\ stage \in {"count", "page", "scan"}
  /\ Give([status |-> 500])
  /\ rows' = {} /\ items' = {}
  /\ UNCHANGED <<writers, ask, total, reading, changes, broken>>

-----------------------------------------------------------------------------
(* The client: it reads page after page until one is not full, and repeats a      *)
(* request that failed.                                                      *)

Read ==
  /\ again' = (again \/ items \cap seen # {})
  /\ seen' = seen \cup items
  /\ items' = {}

NextPage ==
  /\ stage = "answered" /\ answer.status = 200
  /\ Cardinality(items) = answer.limit
  /\ ask' = [ask EXCEPT !.offset = answer.offset + answer.limit]
  /\ stage' = "idle" /\ answer' = Nil
  /\ Read
  /\ UNCHANGED <<writers, total, rows, changes, broken>>

LastPage ==
  /\ stage = "answered" /\ answer.status = 200
  /\ Cardinality(items) # answer.limit
  /\ stage' = "done"
  /\ Read
  /\ UNCHANGED <<writers, ask, total, rows, answer, changes, broken>>

Retry ==
  /\ stage = "answered" /\ answer.status = 500
  /\ stage' = "idle" /\ answer' = Nil
  /\ UNCHANGED <<writers, ask, total, rows, items, reading, changes, broken>>

(* A client that has got its last page, or a 400, is done. *)
Done ==
  /\ \/ stage = "done"
     \/ stage = "answered" /\ answer.status = 400
  /\ UNCHANGED vars

-----------------------------------------------------------------------------
(* Other requests. *)

(* The rows the client has read, or is being sent. *)
Passed == seen \cup items \cup rows

(* A statement makes t of the table. *)
Write(t) ==
  LET new == ListIn(t, ask) IN
  /\ stage # "done"
  /\ table' = t
  /\ standing' = standing \cap new
  /\ left' = (left \/ \E id \in List \ new : \E p \in Passed : id <= p)
  /\ joined' = (joined \/ \E id \in new \ List : \E p \in Passed : id < p)
  /\ moved' = (moved \/ new # List)
  /\ UNCHANGED <<request, reading, broken>>

(* nextval: INSERT takes its id. *)
TakeID ==
  /\ nextID \in ID
  /\ nextID' = nextID + 1
  /\ inserting' = inserting \cup {nextID}
  /\ UNCHANGED <<table, request, reading, changes, broken>>

Insert(id) ==
  /\ id \in inserting
  /\ inserting' = inserting \ {id}
  /\ \E row \in Sub : Write([table EXCEPT ![id] = row])
  /\ UNCHANGED nextID

(* An UPDATE of the service; the user of a subscription never changes. *)
Rename(id) ==
  /\ table[id] # Nil
  /\ \E name \in StoredName : Write([table EXCEPT ![id].name = name])
  /\ UNCHANGED <<nextID, inserting>>

Delete(id) ==
  /\ table[id] # Nil
  /\ Write([table EXCEPT ![id] = Nil])
  /\ UNCHANGED <<nextID, inserting>>

Next ==
  \/ Parse
  \/ Count
  \/ SelectPage
  \/ ScanRow
  \/ RowsBreak
  \/ RowsEnd
  \/ StatementFails
  \/ NextPage
  \/ LastPage
  \/ Retry
  \/ TakeID
  \/ \E id \in ID : Insert(id) \/ Rename(id) \/ Delete(id)
  \/ Done

Spec == Init /\ [][Next]_vars

-----------------------------------------------------------------------------
(* A client that has read to the last page has read every subscription that was in   *)
(* the list all the time, as long as nothing it had passed has left the list and no    *)
(* page was cut short: rows that join the list, in whatever order, and rows further on  *)
(* that leave it hide nothing.                                                  *)
NoneMissed == stage = "done" /\ ~left /\ ~broken => standing \subseteq seen

(* No page repeats a subscription of an earlier one, as long as none has joined the     *)
(* list before those the client had passed.  Rows that leave the list never make one    *)
(* appear again.                                                               *)
NoneTwice == again => joined

(* What a page holds of n rows: limit rows, or all that there are beyond the offset. *)
Share(n, offset, limit) ==
  LET beyond == IF n > offset THEN n - offset ELSE 0
  IN  IF beyond < limit THEN beyond ELSE limit

PageFits == Cardinality(items) = Share(answer.total, answer.offset, answer.limit)

(* If the list has not changed between COUNT and page and the rows have not broken off,   *)
(* total and subscriptions of a 200 fit, whatever limit, offset and filters were given.  *)
TotalOfPage ==
  stage = "answered" /\ answer.status = 200 /\ ~moved /\ ~broken => PageFits

-----------------------------------------------------------------------------
(* The inductive invariant. *)

(* A page has been selected for the request. *)
Sent == stage = "scan" \/ (stage = "answered" /\ answer.status = 200)

Delivered ==
  /\ ~Sent /\ stage # "done" => items = {} /\ rows = {}
  /\ stage \in {"answered", "done"} => rows = {}
  /\ stage = "answered" /\ answer.status = 200 =>
       answer.limit = Limit(ask) /\ answer.offset = Offset(ask) /\ answer.total = total

(* Unless rows have joined before them, fewer than offset rows of the list are before any    *)
(* row that was read, so the page cannot begin before its end.                            *)
Before(p) == Cardinality({id \in List : id < p})

InOrder ==
  /\ NoneTwice
  /\ ~joined /\ stage # "done" =>
       /\ \A p \in seen : Before(p) < Offset(ask)
       /\ \A p \in items \cup rows : Before(p) < Offset(ask) + Limit(ask) /\ p \notin seen

(* Whatever has been in the list all the time and is not among the rows passed is behind one  *)
(* of them that has at least n rows of the list up to it.                                  *)
Reached(passed, n) ==
  \/ standing \subseteq passed
  \/ n = 0
  \/ \E m \in passed : Place(m, List) >= n /\ \A id \in standing \ passed : m < id

Complete ==
  ~left /\ ~broken =>
    /\ stage # "done" => Reached(seen, Offset(ask))
    /\ Sent => \/ standing \subseteq Passed
               \/ /\ Cardinality(items \cup rows) = Limit(ask)
                  /\ Reached(Passed, Offset(ask) + Limit(ask))
    /\ NoneMissed

Counted ==
  ~moved =>
    /\ stage = "page" => total = Cardinality(List)
    /\ Sent /\ ~broken =>
         Cardinality(items \cup rows) = Share(total, Offset(ask), Limit(ask))

Inv == TypeOK /\ standing \subseteq List /\ Delivered /\ InOrder /\ Complete /\ Counted

-----------------------------------------------------------------------------
(* The handler documents 200 for a list and 500 for an error inside: a page that is cut    *)
(* short is no list.                                                            *)
WholePage == stage = "answered" /\ answer.status = 200 /\ ~moved => PageFits

=============================================================================
