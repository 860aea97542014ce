----------------------------- MODULE ListingProofs -----------------------------
(***************************************************************************)
(* Inv is an inductive invariant of Listing, for any number of ids, any limits and   *)
(* offsets, queries and faults; what a client gets of the list follows from it.     *)
(***************************************************************************)
EXTENDS Listing, FiniteSetTheorems, TLAPS

-----------------------------------------------------------------------------
(* Places in a list. *)

LEMMA IDsAreNumbers == \A id \in ID : id \in Int
BY ListingAssumption DEF ID

(* A list is finite, and the places in it are numbers. *)
LEMMA ListFinite ==
  ASSUME NEW list \in SUBSET ID
  PROVE  /\ IsFiniteSet(list) /\ Cardinality(list) \in Nat
         /\ \A part \in SUBSET list : IsFiniteSet(part) /\ Cardinality(part) \in Nat
                                      /\ Cardinality(part) <= Cardinality(list)
<1>1. IsFiniteSet(ID)
  BY FS_Interval, ListingAssumption DEF ID
<1> QED BY <1>1, FS_Subset, FS_CardinalityType

(* A row comes after all rows before it. *)
LEMMA PlaceOrder ==
  ASSUME NEW list \in SUBSET ID, NEW a \in ID
  PROVE  /\ Place(a, list) \in Nat
         /\ \A b \in list : a < b => Place(a, list) < Place(b, list)
         /\ Cardinality({id \in list : id < a}) \in Nat
         /\ a \in list => Place(a, list) = Cardinality({id \in list : id < a}) + 1
<1> USE IDsAreNumbers
<1>1. Place(a, list) \in Nat /\ Cardinality({id \in list : id < a}) \in Nat
  BY ListFinite DEF Place
<1>2. ASSUME NEW b \in list
      PROVE  Place(b, list) = Cardinality({id \in list : id < b}) + 1
  <2>1. {id \in list : id <= b} = {id \in list : id < b} \cup {b}
    OBVIOUS
  <2>2. IsFiniteSet({id \in list : id < b}) /\ b \notin {id \in list : id < b}
    BY ListFinite
  <2> QED BY <2>1, <2>2, FS_AddElement DEF Place
<1>3. ASSUME NEW b \in list, a < b
      PROVE  Place(a, list) < Place(b, list)
  <2> DEFINE A == {id \in list : id <= a}
             B == {id \in list : id < b}
  <2>1. A \in SUBSET B /\ B \in SUBSET list
    BY <1>3
  <2>2. Cardinality(A) <= Cardinality(B) /\ Cardinality(A) \in Nat /\ Cardinality(B) \in Nat
    BY <2>1, ListFinite
  <2>3. Place(a, list) = Cardinality(A) /\ Place(b, list) = Cardinality(B) + 1
    BY <1>2 DEF Place
  <2> HIDE DEF A, B
  <2> QED BY <2>2, <2>3
<1> QED BY <1>1, <1>2, <1>3

(* Places number a list without gaps. *)
LEMMA PlaceOnto ==
  ASSUME NEW list \in SUBSET ID
  PROVE  [id \in list |-> Place(id, list)] \in Bijection(list, 1..Cardinality(list))
<1> DEFINE f == [id \in list |-> Place(id, list)]
           n == Cardinality(list)
<1>1. n \in Nat /\ IsFiniteSet(list)
  BY ListFinite
<1>2. ASSUME NEW id \in list
      PROVE  Place(id, list) \in 1..n
  <2>1. {other \in list : other <= id} \in SUBSET list
    OBVIOUS
  <2>2. Place(id, list) <= n /\ Place(id, list) \in Nat
    BY <2>1, ListFinite DEF Place
  <2>3. Place(id, list) = Cardinality({other \in list : other < id}) + 1
        /\ Cardinality({other \in list : other < id}) \in Nat
    BY PlaceOrder
  <2> QED BY <1>1, <2>2, <2>3
<1>3. f \in Injection(list, 1..n)
  <2>1. ASSUME NEW a \in list, NEW b \in list, f[a] = f[b]
        PROVE  a = b
    <3>1. a \in ID /\ b \in ID /\ Place(a, list) = Place(b, list)
      BY <2>1
    <3>2. Place(a, list) \in Nat
      BY <3>1, PlaceOrder
    <3>3. a < b => Place(a, list) < Place(b, list)
      BY <3>1, PlaceOrder
    <3>4. b < a => Place(b, list) < Place(a, list)
      BY <3>1, PlaceOrder
    <3> HIDE DEF f
    <3> QED BY <3>1, <3>2, <3>3, <3>4, IDsAreNumbers
  <2> QED BY <1>2, <2>1 DEF Injection, IsInjective
<1>4. IsFiniteSet(1..n) /\ Cardinality(1..n) = n
  BY <1>1, FS_Interval
<1> HIDE DEF f
<1>5. f \in Surjection(list, 1..n)
  BY <1>3, <1>4, FS_Injection
<1> QED BY <1>3, <1>5 DEF Bijection, f

(* The page between two places holds as many rows as there are places in it. *)
LEMMA PageSize ==
  ASSUME NEW list \in SUBSET ID, NEW a \in Nat, NEW n \in Nat \ {0}
  PROVE  Cardinality({id \in list : Place(id, list) \in a + 1 .. a + n})
           = Share(Cardinality(list), a, n)
<1> DEFINE f == [id \in list |-> Place(id, list)]
           k == Cardinality(list)
           page == {id \in list : Place(id, list) \in a + 1 .. a + n}
           last == IF k < a + n THEN k ELSE a + n
           g == [id \in page |-> Place(id, list)]
<1>1. k \in Nat /\ last \in Int /\ f \in Bijection(list, 1..k)
  BY ListFinite, PlaceOnto
<1>2. \A id \in list : f[id] \in 1..k /\ f[id] = Place(id, list)
  BY <1>1 DEF Bijection, Injection
<1>3. \A id \in page : g[id] \in a + 1 .. last /\ id \in list
  BY <1>1, <1>2
<1>4. \A x, y \in page : g[x] = g[y] => x = y
  BY <1>1, <1>2, <1>3 DEF Bijection, Injection, IsInjective
<1>5. ASSUME NEW p \in a + 1 .. last
      PROVE  \E id \in page : g[id] = p
  <2>1. p \in 1..k /\ p \in a + 1 .. a + n
    BY <1>1, <1>5
  <2>2. PICK id \in list : f[id] = p
    BY <1>1, <2>1 DEF Bijection, Surjection
  <2> QED BY <1>2, <2>1, <2>2
<1>6. g \in Bijection(page, a + 1 .. last)
  <2>1. g \in [page -> a + 1 .. last]
    BY <1>3
  <2> QED BY <1>4, <1>5, <2>1 DEF Bijection, Injection, IsInjective, Surjection
<1>7. IsFiniteSet(page) /\ page \in SUBSET list
  BY ListFinite
<1>8. Cardinality(a + 1 .. last) = Cardinality(page)
  <2> HIDE DEF g, page, last
  <2> QED BY <1>6, <1>7, FS_Bijection DEF ExistsBijection
<1>9. Cardinality(a + 1 .. last) = IF a + 1 > last THEN 0 ELSE last - a
  <2>1. Cardinality(a + 1 .. last) = IF a + 1 > last THEN 0 ELSE last - (a + 1) + 1
    <3> HIDE DEF last
    <3> QED BY <1>1, FS_Interval
  <2> QED BY <1>1, <2>1
<1>10. Share(k, a, n) = IF a + 1 > last THEN 0 ELSE last - a
  BY <1>1 DEF Share
<1> HIDE DEF k, page, last
<1> QED BY <1>8, <1>9, <1>10 DEF k, page

(* There is a row at every place up to the last. *)
LEMMA RowAt ==
  ASSUME NEW list \in SUBSET ID, NEW id \in list, NEW n \in Nat \ {0}, n <= Place(id, list)
  PROVE  \E m \in list : Place(m, list) = n
<1> DEFINE f == [x \in list |-> Place(x, list)]
<1>1. f \in Bijection(list, 1..Cardinality(list)) /\ Cardinality(list) \in Nat
  BY ListFinite, PlaceOnto
<1>2. f[id] \in 1..Cardinality(list)
  BY <1>1 DEF Bijection, Injection
<1>3. n \in 1..Cardinality(list)
  BY <1>1, <1>2
<1> QED BY <1>1, <1>3 DEF Bijection, Surjection

(* The numbers of a request are numbers. *)
LEMMA RequestTyped ==
  ASSUME TypeOK
  PROVE  /\ Limit(ask) \in Nat \ {0} /\ Offset(ask) \in Nat
         /\ List \in SUBSET ID /\ Passed \in SUBSET ID
         /\ standing \in SUBSET ID /\ seen \in SUBSET ID
BY ListingAssumption DEF TypeOK, ListRequest, Limit, Offset, List, ListIn, Passed

-----------------------------------------------------------------------------
(* The list changes. *)

(* A row that is read never gets more rows of the list before it, unless one joins there,    *)
(* nor fewer up to it, unless one leaves there.                                           *)
LEMMA ListMoves ==
  ASSUME TypeOK, List' \in SUBSET ID, NEW p \in ID
  PROVE  /\ (\A id \in List' \ List : ~(id < p)) => Before(p)' <= Before(p)
         /\ (\A id \in List \ List' : ~(id <= p)) => Place(p, List') >= Place(p, List)
<1> DEFINE A == {id \in List : id < p}
           B == {id \in List' : id < p}
           C == {id \in List : id <= p}
           D == {id \in List' : id <= p}
<1>1. /\ Before(p) = Cardinality(A) /\ Before(p)' = Cardinality(B)
      /\ Place(p, List) = Cardinality(C) /\ Place(p, List') = Cardinality(D)
  BY DEF Before, Place
<1>2. A \in SUBSET ID /\ B \in SUBSET ID /\ C \in SUBSET ID /\ D \in SUBSET ID
  BY RequestTyped
<1>3. ASSUME \A id \in List' \ List : ~(id < p)
      PROVE  Cardinality(B) <= Cardinality(A)
  <2>1. B \in SUBSET A
    BY <1>3
  <2> QED BY <1>2, <2>1, ListFinite
<1>4. ASSUME \A id \in List \ List' : ~(id <= p)
      PROVE  Cardinality(C) <= Cardinality(D)
  <2>1. C \in SUBSET D
    BY <1>4
  <2> QED BY <1>2, <2>1, ListFinite
<1>5. Cardinality(C) \in Nat /\ Cardinality(D) \in Nat
  BY <1>2, ListFinite
<1> HIDE DEF A, B, C, D
<1> QED BY <1>1, <1>3, <1>4, <1>5

(* What has been reached stays reached as long as no row that was passed, or one before it,  *)
(* leaves the list.                                                                 *)
LEMMA ReachedKept ==
  ASSUME TypeOK, List' \in SUBSET ID, standing' \in SUBSET standing,
         NEW passed \in SUBSET ID, NEW n \in Nat,
         \A id \in List \ List' : \A p \in passed : ~(id <= p),
         Reached(passed, n)
  PROVE  Reached(passed, n)'
<1>1. CASE standing \subseteq passed \/ n = 0
  BY <1>1 DEF Reached
<1>2. ASSUME NEW m \in passed, Place(m, List) >= n, \A id \in standing \ passed : m < id
      PROVE  Reached(passed, n)'
  <2>1. Place(m, List') >= Place(m, List)
    BY <1>2, ListMoves
  <2>2. Place(m, List) \in Nat /\ Place(m, List') \in Nat
    BY <1>2, RequestTyped, PlaceOrder
  <2>3. Place(m, List') >= n
    BY <1>2, <2>1, <2>2
  <2> QED BY <1>2, <2>3 DEF Reached
<1> QED BY <1>1, <1>2 DEF Reached

(* Whatever a statement makes of the table, the invariant holds. *)
LEMMA WriteKeeps ==
  ASSUME Inv, NEW t \in [ID -> Sub \cup {Nil}], Write(t),
         nextID' \in 1..(MaxID + 1), inserting' \in SUBSET ID
  PROVE  Inv'
<1>1. List' = ListIn(t, ask) /\ List' \in SUBSET ID /\ List \in SUBSET ID
  BY DEF Write, List, ListIn, request
<1>2. UNCHANGED <<ask, stage, total, rows, items, answer, seen, again, broken>>
      /\ stage # "done"
  BY DEF Write, request, reading
<1>3. /\ standing' = standing \cap List'
      /\ left' = (left \/ \E id \in List \ List' : \E p \in Passed : id <= p)
      /\ joined' = (joined \/ \E id \in List' \ List : \E p \in Passed : id < p)
      /\ moved' = (moved \/ List' # List)
  BY <1>1 DEF Write
<1>4. TypeOK'
  BY <1>1, <1>2, <1>3 DEF Inv, TypeOK, Write
<1>5. standing' \subseteq List' /\ Delivered'
  BY <1>2, <1>3 DEF Inv, Delivered, Sent, Limit, Offset
<1>6. /\ Limit(ask)' = Limit(ask) /\ Offset(ask)' = Offset(ask) /\ Passed' = Passed
      /\ Limit(ask) \in Nat \ {0} /\ Offset(ask) \in Nat /\ Sent' = Sent
      /\ Passed \in SUBSET ID /\ seen \in SUBSET ID
  BY <1>2, RequestTyped DEF Inv, Passed, Sent, Limit, Offset
<1>7. InOrder'
  <2>1. ASSUME ~joined', NEW p \in Passed
        PROVE  Before(p)' <= Before(p) /\ Before(p) \in Nat /\ Before(p)' \in Nat
    <3>1. p \in ID /\ \A id \in List' \ List : ~(id < p)
      BY <1>3, <1>6, <2>1
    <3>2. Before(p) \in Nat /\ Before(p)' \in Nat
      BY <1>1, <3>1, PlaceOrder DEF Before
    <3> QED BY <1>1, <3>1, <3>2, ListMoves DEF Inv
  <2>2. NoneTwice'
    BY <1>2, <1>3 DEF Inv, InOrder, NoneTwice
  <2>3. ASSUME ~joined'
        PROVE  /\ \A p \in seen : Before(p)' < Offset(ask)
               /\ \A p \in items \cup rows :
                    Before(p)' < Offset(ask) + Limit(ask) /\ p \notin seen
    <3>1. ~joined
      BY <1>3, <2>3
    <3>2. /\ \A p \in seen : Before(p) < Offset(ask)
          /\ \A p \in items \cup rows : Before(p) < Offset(ask) + Limit(ask) /\ p \notin seen
      BY <1>2, <3>1 DEF Inv, InOrder
    <3>3. ASSUME NEW p \in seen PROVE Before(p)' < Offset(ask)
      <4>1. p \in Passed
        BY DEF Passed
      <4> QED BY <1>6, <2>1, <2>3, <3>2, <4>1
    <3>4. ASSUME NEW p \in items \cup rows PROVE Before(p)' < Offset(ask) + Limit(ask)
      <4>1. p \in Passed
        BY DEF Passed
      <4> QED BY <1>6, <2>1, <2>3, <3>2, <4>1
    <3> QED BY <3>2, <3>3, <3>4
  <2> QED BY <1>2, <1>6, <2>2, <2>3 DEF InOrder
<1>8. Complete'
  <2> SUFFICES ASSUME ~left', ~broken'
               PROVE  /\ Reached(seen, Offset(ask))'
                      /\ Sent => \/ standing' \subseteq Passed
                                 \/ /\ Cardinality(items \cup rows) = Limit(ask)
                                    /\ Reached(Passed, Offset(ask) + Limit(ask))'
    BY <1>2, <1>6 DEF Complete, NoneMissed
  <2>1. ~left /\ ~broken /\ \A id \in List \ List' : \A p \in Passed : ~(id <= p)
    BY <1>2, <1>3
  <2>2. standing' \in SUBSET standing /\ TypeOK
    BY <1>3 DEF Inv
  <2>3. Reached(seen, Offset(ask))'
    <3>1. Reached(seen, Offset(ask))
      BY <1>2, <2>1 DEF Inv, Complete
    <3>2. \A id \in List \ List' : \A p \in seen : ~(id <= p)
      BY <2>1 DEF Passed
    <3> QED BY <1>1, <1>2, <1>6, <2>2, <3>1, <3>2, ReachedKept DEF Reached
  <2>4. ASSUME Sent, Reached(Passed, Offset(ask) + Limit(ask))
        PROVE  Reached(Passed, Offset(ask) + Limit(ask))'
    <3>1. Offset(ask) + Limit(ask) \in Nat
      BY <1>6
    <3> QED BY <1>1, <1>6, <2>1, <2>2, <2>4, <3>1, ReachedKept DEF Reached
  <2>5. Sent => \/ standing \subseteq Passed
                \/ /\ Cardinality(items \cup rows) = Limit(ask)
                   /\ Reached(Passed, Offset(ask) + Limit(ask))
    BY <2>1 DEF Inv, Complete
  <2> QED BY <2>2, <2>3, <2>4, <2>5
<1>9. Counted'
  BY <1>2, <1>3, <1>6 DEF Inv, Counted
<1> QED BY <1>4, <1>5, <1>7, <1>8, <1>9 DEF Inv

-----------------------------------------------------------------------------
(* The handler and the client: the list stands still. *)

LEMMA ListStands ==
  ASSUME UNCHANGED <<table, ask>>
  PROVE  /\ List' = List /\ Limit(ask)' = Limit(ask) /\ Offset(ask)' = Offset(ask)
         /\ \A p : Before(p)' = Before(p)
BY DEF List, Limit, Offset, Before

(* A statement of another request that has no effect on the table yet. *)
LEMMA TakeIDKeeps ==
  ASSUME Inv, TakeID
  PROVE  Inv'
<1> USE DEF request, reading, changes
<1>1. TypeOK'
  BY ListingAssumption DEF Inv, TypeOK, TakeID, ID
<1>2. /\ List' = List /\ Limit(ask)' = Limit(ask) /\ Offset(ask)' = Offset(ask)
      /\ \A p : Before(p)' = Before(p)
  BY ListStands DEF TakeID
<1>3. InOrder'
  BY <1>2 DEF Inv, InOrder, NoneTwice, TakeID
<1>4. Complete'
  BY <1>2 DEF Inv, Complete, NoneMissed, Sent, Passed, Reached, TakeID
<1>5. Delivered' /\ Counted' /\ standing' \subseteq List'
  BY <1>2 DEF Inv, Delivered, Counted, Sent, TakeID
<1> QED BY <1>1, <1>3, <1>4, <1>5 DEF Inv

(* Before the page is selected, and after an error, nothing is on its way. *)
LEMMA EmptyHanded ==
  ASSUME Inv, UNCHANGED <<writers, ask, reading, standing, left, joined, broken>>,
         stage # "done", stage' \in {"idle", "count", "answered"}, ~Sent', TypeOK',
         items' = {}, rows' = {}
  PROVE  Inv'
<1>1. /\ List' = List /\ Limit(ask)' = Limit(ask) /\ Offset(ask)' = Offset(ask)
      /\ \A p : Before(p)' = Before(p)
  BY ListStands DEF writers
<1>2. standing' \subseteq List' /\ Delivered'
  BY <1>1 DEF Inv, Delivered, Sent
<1>3. InOrder'
  BY <1>1 DEF Inv, InOrder, NoneTwice, reading
<1>4. Complete'
  BY <1>1 DEF Inv, Complete, NoneMissed, Reached, reading
<1>5. Counted'
  BY DEF Counted
<1> QED BY <1>2, <1>3, <1>4, <1>5 DEF Inv

LEMMA ParseKeeps ==
  ASSUME Inv, Parse
  PROVE  Inv'
<1>1. stage = "idle" /\ stage' \in {"count", "answered"} /\ ~Sent /\ ~Sent'
  BY DEF Parse, Give, Sent
<1>2. UNCHANGED <<writers, ask, reading, standing, left, joined, broken, items, rows>>
  BY DEF Parse, changes
<1>3. TypeOK'
  BY ListingAssumption
     DEF Parse, Give, Inv, TypeOK, Stage, writers, reading, changes, Answer
<1> QED BY <1>1, <1>2, <1>3, EmptyHanded DEF Inv, Delivered

LEMMA StatementFailsKeeps ==
  ASSUME Inv, StatementFails
  PROVE  Inv'
<1>1. stage # "done" /\ stage' = "answered" /\ ~Sent' /\ items' = {} /\ rows' = {}
  BY DEF StatementFails, Give, Sent
<1>2. UNCHANGED <<writers, ask, reading, standing, left, joined, broken>>
  BY DEF StatementFails, changes
<1>3. TypeOK'
  BY ListingAssumption
     DEF StatementFails, Give, Inv, TypeOK, Stage, writers, reading, changes, Answer
<1> QED BY <1>1, <1>2, <1>3, EmptyHanded

LEMMA RetryKeeps ==
  ASSUME Inv, Retry
  PROVE  Inv'
<1>1. stage = "answered" /\ ~Sent /\ stage' = "idle" /\ ~Sent'
  BY DEF Retry, Sent
<1>2. UNCHANGED <<writers, ask, reading, standing, left, joined, broken, items, rows>>
  BY DEF Retry, changes
<1>3. TypeOK'
  BY DEF Retry, Inv, TypeOK, Stage, writers, reading, changes
<1> QED BY <1>1, <1>2, <1>3, EmptyHanded DEF Inv, Delivered

LEMMA CountKeeps ==
  ASSUME Inv, Count
  PROVE  Inv'
<1>1. /\ stage = "count" /\ stage' = "page" /\ ~Sent /\ ~Sent' /\ items = {} /\ rows = {}
      /\ UNCHANGED <<writers, ask, rows, items, answer, reading, standing, left, joined, broken>>
  BY DEF Count, Sent, Inv, Delivered
<1>2. /\ List' = List /\ Limit(ask)' = Limit(ask) /\ Offset(ask)' = Offset(ask)
      /\ \A p : Before(p)' = Before(p)
  BY <1>1, ListStands DEF writers
<1>3. total' = Cardinality(List) /\ total' \in Nat /\ moved' = FALSE
  BY RequestTyped, ListFinite DEF Inv, Count
<1>4. TypeOK'
  BY <1>1, <1>3 DEF Inv, TypeOK, Stage, writers, reading
<1>5. standing' \subseteq List' /\ Delivered'
  BY <1>1, <1>2 DEF Inv, Delivered
<1>6. InOrder'
  BY <1>1, <1>2 DEF Inv, InOrder, NoneTwice, reading
<1>7. Complete'
  BY <1>1, <1>2 DEF Inv, Complete, NoneMissed, Reached, reading
<1>8. Counted'
  BY <1>1, <1>2, <1>3 DEF Counted
<1> QED BY <1>4, <1>5, <1>6, <1>7, <1>8 DEF Inv

(* The page begins behind what was read, and is full or ends the list. *)
LEMMA SelectPageKeeps ==
  ASSUME Inv, SelectPage
  PROVE  Inv'
<1> DEFINE off == Offset(ask)
           lim == Limit(ask)
<1>1. /\ stage = "page" /\ stage' = "scan" /\ Sent' /\ ~Sent /\ items = {} /\ rows = {}
      /\ UNCHANGED <<writers, ask, total, items, answer, reading, changes, broken>>
      /\ rows' = Page
  BY DEF SelectPage, Sent, Inv, Delivered
<1>2. /\ List' = List /\ lim' = lim /\ off' = off
      /\ \A p : Before(p)' = Before(p)
  BY <1>1, ListStands DEF writers
<1>3. /\ lim \in Nat \ {0} /\ off \in Nat /\ List \in SUBSET ID /\ seen \in SUBSET ID
      /\ standing \in SUBSET List
      /\ Page \in SUBSET List /\ items' \cup rows' = Page /\ Passed = seen
      /\ Passed' = seen \cup Page
  BY <1>1, RequestTyped DEF Inv, Page, Passed, reading
<1>4. TypeOK'
  BY <1>1, <1>3 DEF Inv, TypeOK, Stage, writers, reading, changes
<1>5. standing' \subseteq List' /\ Delivered'
  BY <1>1, <1>2, <1>3 DEF Inv, Delivered, changes
<1>6. ASSUME NEW p \in Page
      PROVE  Place(p, List) \in off + 1 .. off + lim /\ Before(p) \in Nat
             /\ Before(p) = Place(p, List) - 1
  <2>1. p \in List /\ p \in ID /\ Place(p, List) \in off + 1 .. off + lim
    BY <1>3 DEF Page
  <2>2. Place(p, List) = Before(p) + 1 /\ Before(p) \in Nat
    BY <1>3, <2>1, PlaceOrder DEF Before
  <2> QED BY <2>1, <2>2
<1>7. InOrder'
  <2>1. ASSUME ~joined
        PROVE  \A p \in Page : Before(p) < off + lim /\ p \notin seen
    <3>1. \A p \in seen : Before(p) < off
      BY <1>1, <2>1 DEF Inv, InOrder
    <3>2. \A p \in Page : Before(p) < off + lim /\ ~(Before(p) < off)
      BY <1>3, <1>6
    <3> QED BY <3>1, <3>2
  <2> HIDE DEF off, lim
  <2> QED BY <1>1, <1>2, <1>3, <2>1 DEF Inv, InOrder, NoneTwice, reading, changes, off, lim
<1>8. Cardinality(Page) = Share(Cardinality(List), off, lim)
  BY <1>3, PageSize DEF Page
<1>9. Complete'
  <2> SUFFICES ASSUME ~left, ~broken
               PROVE  /\ Reached(seen, off)
                      /\ \/ standing \subseteq seen \cup Page
                         \/ /\ Cardinality(Page) = lim
                            /\ Reached(seen \cup Page, off + lim)
    BY <1>1, <1>2, <1>3 DEF Complete, NoneMissed, Reached, reading, changes
  <2>1. Reached(seen, off)
    BY <1>1 DEF Inv, Complete
  <2>2. ASSUME NEW s \in standing, s \notin seen \cup Page
        PROVE  s \in List /\ s \in ID /\ Place(s, List) \in Nat /\ Place(s, List) > off + lim
    <3>1. s \in List /\ s \in ID /\ Place(s, List) \in Nat
      BY <1>3, <2>2, PlaceOrder
    <3>2. CASE off = 0
      <4>1. Place(s, List) = Before(s) + 1 /\ Before(s) \in Nat
        BY <1>3, <3>1, PlaceOrder DEF Before
      <4> QED BY <1>3, <2>2, <3>1, <3>2, <4>1 DEF Page
    <3>3. ASSUME NEW m \in seen, Place(m, List) >= off, m < s
          PROVE  Place(s, List) > off + lim
      <4>1. m \in ID
        BY <1>3
      <4>2. Place(m, List) < Place(s, List) /\ Place(m, List) \in Nat
        BY <1>3, <3>1, <3>3, <4>1, PlaceOrder
      <4>3. Place(s, List) > off
        BY <1>3, <3>1, <3>3, <4>2
      <4> QED BY <1>3, <2>2, <3>1, <4>3 DEF Page
    <3> QED BY <2>1, <2>2, <3>1, <3>2, <3>3 DEF Reached
  <2>3. ASSUME NEW s \in standing, s \notin seen \cup Page
        PROVE  /\ Cardinality(Page) = lim
               /\ Reached(seen \cup Page, off + lim)
    <3>1. off + lim \in Nat \ {0} /\ off + lim <= Place(s, List)
      BY <1>3, <2>2, <2>3
    <3>2. PICK m \in List : Place(m, List) = off + lim
      BY <1>3, <2>2, <2>3, <3>1, RowAt
    <3>3. m \in Page
      BY <1>3, <3>2 DEF Page
    <3>4. Cardinality(Page) = lim
      <4>1. Place(s, List) <= Cardinality(List) /\ Cardinality(List) \in Nat
        <5>1. {id \in List : id <= s} \in SUBSET List
          OBVIOUS
        <5> QED BY <1>3, <5>1, ListFinite DEF Place
      <4> HIDE DEF off, lim
      <4> QED BY <1>3, <1>8, <2>2, <2>3, <4>1 DEF Share
    <3>5. ASSUME NEW id \in standing, id \notin seen \cup Page
          PROVE  m < id
      <4>1. id \in List /\ id \in ID /\ Place(id, List) \in Nat /\ Place(id, List) > off + lim
        BY <2>2, <3>5
      <4>2. m \in ID /\ (id < m => Place(id, List) < Place(m, List))
        BY <1>3, <3>2, <4>1, PlaceOrder
      <4>3. ~(id < m) /\ id # m
        BY <1>3, <3>2, <4>1, <4>2
      <4> QED BY <4>1, <4>2, <4>3, IDsAreNumbers
    <3>6. Place(m, List) >= off + lim
      BY <3>1, <3>2
    <3> HIDE DEF off, lim
    <3> QED BY <3>3, <3>4, <3>5, <3>6 DEF Reached
  <2> QED BY <2>1, <2>3
<1>10. Counted'
  <2>1. ~moved => total = Cardinality(List)
    BY <1>1 DEF Inv, Counted
  <2> QED BY <1>1, <1>2, <1>3, <1>8, <2>1 DEF Counted, changes
<1> QED BY <1>4, <1>5, <1>7, <1>9, <1>10 DEF Inv

(* Rows that arrive. *)
LEMMA ScanRowKeeps ==
  ASSUME Inv, ScanRow
  PROVE  Inv'
<1>1. /\ stage = "scan" /\ UNCHANGED <<writers, ask, stage, total, answer, reading, changes, broken>>
      /\ items' \cup rows' = items \cup rows /\ items' \in SUBSET ID /\ rows' \in SUBSET ID
  BY DEF ScanRow, Inv, TypeOK
<1>2. /\ List' = List /\ Limit(ask)' = Limit(ask) /\ Offset(ask)' = Offset(ask)
      /\ \A p : Before(p)' = Before(p)
  BY <1>1, ListStands DEF writers
<1>3. TypeOK'
  BY <1>1 DEF Inv, TypeOK, writers, reading, changes
<1>4. standing' \subseteq List' /\ Delivered'
  BY <1>1, <1>2 DEF Inv, Delivered, Sent, changes
<1>5. InOrder'
  BY <1>1, <1>2 DEF Inv, InOrder, NoneTwice, reading, changes
<1>6. Passed' = Passed /\ Sent' = Sent
  BY <1>1 DEF Passed, Sent, reading
<1>7. Complete'
  BY <1>1, <1>2, <1>6 DEF Inv, Complete, NoneMissed, Reached, reading, changes
<1>8. Counted'
  BY <1>1, <1>2, <1>6 DEF Inv, Counted, changes
<1> QED BY <1>3, <1>4, <1>5, <1>7, <1>8 DEF Inv

(* Rows that break off: what is left out is not missed by anyone but the client. *)
LEMMA RowsBreakKeeps ==
  ASSUME Inv, RowsBreak
  PROVE  Inv'
<1>1. /\ stage = "scan" /\ rows' = {} /\ broken' = TRUE
      /\ UNCHANGED <<writers, ask, stage, total, items, answer, reading, changes>>
  BY DEF RowsBreak
<1>2. /\ List' = List /\ Limit(ask)' = Limit(ask) /\ Offset(ask)' = Offset(ask)
      /\ \A p : Before(p)' = Before(p)
  BY <1>1, ListStands DEF writers
<1>3. TypeOK'
  BY <1>1 DEF Inv, TypeOK, writers, reading, changes
<1>4. standing' \subseteq List' /\ Delivered'
  BY <1>1, <1>2 DEF Inv, Delivered, Sent, changes
<1>5. InOrder'
  BY <1>1, <1>2 DEF Inv, InOrder, NoneTwice, reading, changes
<1>6. Complete' /\ Counted'
  BY <1>1 DEF Complete, Counted
<1> QED BY <1>3, <1>4, <1>5, <1>6 DEF Inv

(* The answer says what was asked for. *)
LEMMA RowsEndKeeps ==
  ASSUME Inv, RowsEnd
  PROVE  Inv'
<1>1. /\ stage = "scan" /\ stage' = "answered" /\ rows = {}
      /\ answer' = [status |-> 200, limit |-> Limit(ask), offset |-> Offset(ask), total |-> total]
      /\ UNCHANGED <<writers, ask, total, rows, items, reading, changes, broken>>
  BY DEF RowsEnd, Give
<1>2. /\ List' = List /\ Limit(ask)' = Limit(ask) /\ Offset(ask)' = Offset(ask)
      /\ \A p : Before(p)' = Before(p)
  BY <1>1, ListStands DEF writers
<1>3. answer' \in Answer /\ answer' # Nil
  BY <1>1, RequestTyped, ListingAssumption DEF Inv, TypeOK, Answer
<1>4. TypeOK'
  BY <1>1, <1>3 DEF Inv, TypeOK, Stage, writers, reading, changes
<1>5. Sent /\ Sent' /\ Passed' = Passed /\ items' \cup rows' = items \cup rows
  BY <1>1 DEF Sent, Passed, reading
<1>6. standing' \subseteq List' /\ Delivered'
  BY <1>1, <1>2, <1>5 DEF Inv, Delivered, changes
<1>7. InOrder'
  BY <1>1, <1>2 DEF Inv, InOrder, NoneTwice, reading, changes
<1>8. Complete'
  BY <1>1, <1>2, <1>5 DEF Inv, Complete, NoneMissed, Reached, reading, changes
<1>9. Counted'
  BY <1>1, <1>2, <1>5 DEF Inv, Counted, changes
<1> QED BY <1>4, <1>6, <1>7, <1>8, <1>9 DEF Inv

(* What a client that goes on or stops has read. *)
LEMMA ReadPage ==
  ASSUME Inv, stage = "answered", answer.status = 200, Read
  PROVE  /\ Sent /\ rows = {} /\ items' = {} /\ seen' = Passed
         /\ answer.limit = Limit(ask) /\ answer.offset = Offset(ask)
         /\ NoneTwice => (again' => joined \/ \E p \in items : p \in seen)
BY DEF Inv, Delivered, Sent, Passed, Read, NoneTwice

(* The next page begins where this one, which was full, has ended. *)
LEMMA NextPageKeeps ==
  ASSUME Inv, NextPage
  PROVE  Inv'
<1> DEFINE off == Offset(ask)
           lim == Limit(ask)
<1>1. /\ stage = "answered" /\ answer.status = 200 /\ stage' = "idle" /\ answer' = Nil
      /\ Cardinality(items) = answer.limit /\ Read
      /\ ask' = [ask EXCEPT !.offset = answer.offset + answer.limit]
      /\ UNCHANGED <<writers, total, rows, changes, broken>>
  BY DEF NextPage
<1>2. /\ Sent /\ rows = {} /\ items' = {} /\ seen' = Passed /\ Passed = seen \cup items
      /\ answer.limit = lim /\ answer.offset = off
  BY <1>1, ReadPage DEF Passed
<1>3. /\ lim \in Nat \ {0} /\ off \in Nat /\ Passed \in SUBSET ID
  BY RequestTyped DEF Inv
<1>4. /\ ask' \in ListRequest /\ ask'.limit = ask.limit /\ ask'.offset = off + lim
      /\ ask'.user = ask.user /\ ask'.name = ask.name
  <2> HIDE DEF off, lim
  <2> QED BY <1>1, <1>2, <1>3 DEF Inv, TypeOK, ListRequest
<1>5. Limit(ask)' = lim /\ Offset(ask)' = off + lim
  <2>1. Limit(ask') = Limit(ask)
    BY <1>4 DEF Limit
  <2>2. Offset(ask') = off + lim
    <3> HIDE DEF off, lim
    <3> QED BY <1>3, <1>4 DEF Offset
  <2> QED BY <2>1, <2>2
<1>6. List' = List /\ \A p : Before(p)' = Before(p)
  <2>1. List' = List
    BY <1>1, <1>4 DEF List, ListIn, Matches, writers
  <2> QED BY <2>1 DEF Before
<1>7. TypeOK'
  BY <1>1, <1>2, <1>3, <1>4 DEF Inv, TypeOK, Stage, writers, changes, Read
<1>8. standing' \subseteq List' /\ Delivered'
  BY <1>1, <1>2, <1>6 DEF Inv, Delivered, Sent, changes
<1>9. InOrder'
  <2>1. NoneTwice'
    BY <1>1, <1>2 DEF Inv, InOrder, NoneTwice, Read, changes
  <2>2. ASSUME ~joined, NEW p \in Passed
        PROVE  Before(p) < off + lim
    <3>1. Before(p) \in Nat
      BY <1>3, RequestTyped, PlaceOrder DEF Before, Inv
    <3>2. CASE p \in seen
      <4>1. Before(p) < off
        BY <1>1, <2>2, <3>2 DEF Inv, InOrder
      <4> HIDE DEF off, lim
      <4> QED BY <1>3, <3>1, <4>1
    <3>3. CASE p \in items
      BY <1>1, <2>2, <3>3 DEF Inv, InOrder
    <3> QED BY <1>2, <3>2, <3>3
  <2> HIDE DEF off, lim
  <2> QED BY <1>1, <1>2, <1>5, <1>6, <2>1, <2>2 DEF InOrder, changes
<1>10. Complete'
  <2> SUFFICES ASSUME ~left, ~broken
               PROVE  Reached(seen', off + lim)
    BY <1>1, <1>5, <1>6 DEF Complete, NoneMissed, Sent, Reached, changes
  <2>1. \/ standing \subseteq Passed
        \/ Reached(Passed, off + lim)
    BY <1>2 DEF Inv, Complete
  <2>2. CASE standing \subseteq Passed
    BY <1>2, <2>2 DEF Reached
  <2>3. CASE Reached(Passed, off + lim)
    BY <1>2, <2>3
  <2> QED BY <2>1, <2>2, <2>3
<1>11. Counted'
  BY <1>1 DEF Counted, Sent
<1> QED BY <1>7, <1>8, <1>9, <1>10, <1>11 DEF Inv

(* A page that is not full ends the list. *)
LEMMA LastPageKeeps ==
  ASSUME Inv, LastPage
  PROVE  Inv'
<1>1. /\ stage = "answered" /\ answer.status = 200 /\ stage' = "done"
      /\ Cardinality(items) # answer.limit /\ Read
      /\ UNCHANGED <<writers, ask, total, rows, answer, changes, broken>>
  BY DEF LastPage
<1>2. /\ Sent /\ rows = {} /\ items' = {} /\ seen' = Passed /\ Passed = seen \cup items
      /\ answer.limit = Limit(ask)
  BY <1>1, ReadPage DEF Passed
<1>3. List' = List /\ Passed \in SUBSET ID
  BY <1>1, ListStands, RequestTyped DEF Inv, writers
<1>4. TypeOK'
  BY <1>1, <1>2, <1>3 DEF Inv, TypeOK, Stage, writers, changes, Read
<1>5. standing' \subseteq List' /\ Delivered'
  BY <1>1, <1>2, <1>3 DEF Inv, Delivered, Sent, changes
<1>6. InOrder'
  <2>1. ASSUME NEW p \in items, p \in seen
        PROVE  joined
    BY <1>1, <2>1 DEF Inv, InOrder
  <2>2. NoneTwice
    BY DEF Inv, InOrder
  <2>3. again' => joined \/ \E p \in items : p \in seen
    BY <1>1, <2>2, ReadPage
  <2>4. joined' = joined /\ stage' = "done"
    BY <1>1 DEF changes
  <2>5. again' => joined'
    BY <2>1, <2>2, <2>3, <2>4
  <2> QED BY <2>4, <2>5 DEF InOrder, NoneTwice
<1>7. Complete'
  <2>1. ~left /\ ~broken => standing \subseteq Passed
    BY <1>1, <1>2 DEF Inv, Complete
  <2> QED BY <1>1, <1>2, <2>1 DEF Complete, NoneMissed, Sent, changes
<1>8. Counted'
  BY <1>1 DEF Counted, Sent
<1> QED BY <1>4, <1>5, <1>6, <1>7, <1>8 DEF Inv

-----------------------------------------------------------------------------
(* Other requests. *)

LEMMA InsertKeeps ==
  ASSUME Inv, NEW id \in ID, Insert(id)
  PROVE  Inv'
<1>1. PICK row \in Sub : Write([table EXCEPT ![id] = row])
  BY DEF Insert
<1>2. [table EXCEPT ![id] = row] \in [ID -> Sub \cup {Nil}]
      /\ nextID' \in 1..(MaxID + 1) /\ inserting' \in SUBSET ID
  BY DEF Inv, TypeOK, Insert
<1> QED BY <1>1, <1>2, WriteKeeps

LEMMA RenameKeeps ==
  ASSUME Inv, NEW id \in ID, Rename(id)
  PROVE  Inv'
<1>1. PICK name \in StoredName : Write([table EXCEPT ![id].name = name])
  BY DEF Rename
<1>2. table[id] \in Sub
  BY DEF Rename, Inv, TypeOK
<1>3. [table EXCEPT ![id].name = name] \in [ID -> Sub \cup {Nil}]
      /\ nextID' \in 1..(MaxID + 1) /\ inserting' \in SUBSET ID
  BY <1>2 DEF Inv, TypeOK, Rename, Sub
<1> QED BY <1>1, <1>3, WriteKeeps

LEMMA DeleteKeeps ==
  ASSUME Inv, NEW id \in ID, Delete(id)
  PROVE  Inv'
<1>1. [table EXCEPT ![id] = Nil] \in [ID -> Sub \cup {Nil}]
      /\ nextID' \in 1..(MaxID + 1) /\ inserting' \in SUBSET ID
  BY DEF Inv, TypeOK, Delete
<1> QED BY <1>1, WriteKeeps DEF Delete

-----------------------------------------------------------------------------
(* The invariant. *)

(* Before the first request nothing is read or on its way, and the offset is 0. *)
LEMMA InitInv == Init => Inv
<1> SUFFICES ASSUME Init PROVE Inv
  OBVIOUS
<1>1. /\ stage = "idle" /\ items = {} /\ rows = {} /\ seen = {} /\ standing = List
      /\ ~again /\ ~moved /\ answer = Nil /\ total = 0
  BY DEF Init
<1>2. List \in SUBSET ID /\ Offset(ask) = 0
  BY ListingAssumption DEF Init, List, ListIn
<1>3. TypeOK
  <2>1. nextID \in 1..(MaxID + 1)
    BY ListingAssumption DEF Init
  <2>2. table \in [ID -> Sub \cup {Nil}] /\ ask \in ListRequest
    BY ListingAssumption DEF Init
  <2>3. /\ inserting \in SUBSET ID /\ rows \in SUBSET ID /\ items \in SUBSET ID
        /\ seen \in SUBSET ID /\ standing \in SUBSET ID /\ total \in Nat
    BY <1>1, <1>2 DEF Init
  <2>4. /\ again \in BOOLEAN /\ left \in BOOLEAN /\ joined \in BOOLEAN
        /\ moved \in BOOLEAN /\ broken \in BOOLEAN
    BY DEF Init
  <2>5. /\ stage \in Stage /\ answer \in Answer \cup {Nil}
        /\ answer # Nil <=> stage \in {"answered", "done"}
    BY <1>1 DEF Stage
  <2> QED BY <2>1, <2>2, <2>3, <2>4, <2>5 DEF TypeOK
<1>4. Delivered /\ Counted
  BY <1>1 DEF Delivered, Counted, Sent
<1>5. InOrder /\ Complete
  BY <1>1, <1>2 DEF InOrder, NoneTwice, Complete, NoneMissed, Sent, Reached
<1> QED BY <1>1, <1>3, <1>4, <1>5 DEF Inv

LEMMA StutterKeeps ==
  ASSUME Inv, UNCHANGED vars
  PROVE  Inv'
<1> USE DEF vars, writers, request, reading, changes
<1>1. /\ List' = List /\ Limit(ask)' = Limit(ask) /\ Offset(ask)' = Offset(ask)
      /\ \A p : Before(p)' = Before(p)
  BY ListStands
<1>2. TypeOK'
  BY DEF Inv, TypeOK
<1>3. InOrder'
  BY <1>1 DEF Inv, InOrder, NoneTwice
<1>4. Complete'
  BY <1>1 DEF Inv, Complete, NoneMissed, Sent, Passed, Reached
<1>5. Delivered' /\ Counted' /\ standing' \subseteq List'
  BY <1>1 DEF Inv, Delivered, Counted, Sent
<1> QED BY <1>2, <1>3, <1>4, <1>5 DEF Inv

LEMMA NextInv == Inv /\ [Next]_vars => Inv'
<1> SUFFICES ASSUME Inv, [Next]_vars PROVE Inv'
  OBVIOUS
<1>1. CASE Parse
  BY <1>1, ParseKeeps
<1>2. CASE Count
  BY <1>2, CountKeeps
<1>3. CASE SelectPage
  BY <1>3, SelectPageKeeps
<1>4. CASE ScanRow
  BY <1>4, ScanRowKeeps
<1>5. CASE RowsBreak
  BY <1>5, RowsBreakKeeps
<1>6. CASE RowsEnd
  BY <1>6, RowsEndKeeps
<1>7. CASE StatementFails
  BY <1>7, StatementFailsKeeps
<1>8. CASE NextPage
  BY <1>8, NextPageKeeps
<1>9. CASE LastPage
  BY <1>9, LastPageKeeps
<1>10. CASE Retry
  BY <1>10, RetryKeeps
<1>11. CASE TakeID
  BY <1>11, TakeIDKeeps
<1>12. ASSUME NEW id \in ID, Insert(id) \/ Rename(id) \/ Delete(id)
       PROVE  Inv'
  BY <1>12, InsertKeeps, RenameKeeps, DeleteKeeps
<1>13. CASE Done \/ UNCHANGED vars
  BY <1>13, StutterKeeps DEF Done
<1> QED BY <1>1, <1>2, <1>3, <1>4, <1>5, <1>6, <1>7, <1>8, <1>9, <1>10, <1>11, <1>12, <1>13
     DEF Next

(* Inv holds however often the list changes between the statements of the requests. *)
THEOREM InvHolds == Spec => []Inv
BY InitInv, NextInv, PTL DEF Spec

(* Every variable of the model keeps its type, and answers are those of Answer. *)
THEOREM TypeCorrect == Spec => []TypeOK
<1>1. Inv => TypeOK
  BY DEF Inv
<1> QED BY <1>1, InvHolds, PTL

(* ListSubscriptions' ORDER BY s.id LIMIT OFFSET, read page by page, misses no subscription    *)
(* that was in the list all the time, unless one that was passed has left it.              *)
THEOREM NothingMissed == Spec => []NoneMissed
<1>1. Inv => NoneMissed
  BY DEF Inv, Complete, NoneMissed
<1> QED BY <1>1, InvHolds, PTL

(* It gives no subscription twice, unless one has joined the list before those passed. *)
THEOREM NothingTwice == Spec => []NoneTwice
<1>1. Inv => NoneTwice
  BY DEF Inv, InOrder
<1> QED BY <1>1, InvHolds, PTL

(* The total and the subscriptions of a 200 fit if the list stood still between COUNT and page. *)
THEOREM TotalFits == Spec => []TotalOfPage
<1>1. ASSUME Inv, stage = "answered", answer.status = 200, ~moved, ~broken
      PROVE  PageFits
  <2>1. /\ rows = {} /\ Sent /\ answer.limit = Limit(ask) /\ answer.offset = Offset(ask)
        /\ answer.total = total
    BY <1>1 DEF Inv, Delivered, Sent
  <2> QED BY <1>1, <2>1 DEF Inv, Counted, PageFits
<1>2. Inv => TotalOfPage
  BY <1>1 DEF TotalOfPage
<1> QED BY <1>2, InvHolds, PTL

(* Rows that stop coming, with rows.Err unread, are the only cause of a 200 with a page that  *)
(* does not fit: where the connection does not break, WholePage holds.                      *)
THEOREM WholeUnlessBroken ==
  ASSUME "break" \notin Fault
  PROVE  Spec => []WholePage
<1>1. Init => ~broken
  BY DEF Init
<1>2. ~broken /\ [Next]_vars => ~broken'
  BY DEF Next, vars, Parse, Count, SelectPage, ScanRow, RowsBreak, RowsEnd, StatementFails,
         NextPage, LastPage, Retry, TakeID, Insert, Rename, Delete, Write, Done
<1>3. ~broken /\ TotalOfPage => WholePage
  BY DEF TotalOfPage, WholePage
<1> QED BY <1>1, <1>2, <1>3, TotalFits, PTL DEF Spec

=============================================================================
