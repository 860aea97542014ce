-------------------------------- MODULE Stats --------------------------------
(***************************************************************************)
(* GET /api/v1/stats/total: the total cost of the subscriptions that fit a     *)
(* filter, month by month over a period.                                     *)
(*                                                                         *)
(* One request, from the query string to the answer.  The SELECT is one         *)
(* statement, so what it returns is one state of the tables; the clock goes on   *)
(* while the handler counts.                                                *)
(***************************************************************************)
EXTENDS SubscriptionData, FiniteSets

CONSTANTS
  ID,         \* ids of subscriptions
  Scenario,   \* the tables and requests to start from
  Zone,       \* time.Local: 1 east of UTC, 0 UTC, -1 west of UTC
  FirstMonth, \* the local month at the start
  LastMonth   \* bound: the clock stops there

(* A subscription joined with its service: what the SELECT can return. *)
Sub == [user : User, name : StoredName, price : Nat, start : Time, end : OptionalTime]
Table == [ID -> Sub \cup {Nil}]

(* The query parameters; an empty one is an absent one. *)
StatsRequest ==
  [user : User \cup {Nil, Malformed}, name : (RawName \ {EmptyName}) \cup {Nil},
   start : MonthText \cup {Nil}, end : MonthText \cup {Nil}]

(* The SELECT meets a table whose dates are in order. *)
ASSUME StatsAssumption ==
  /\ Scenario \subseteq [table : Table, req : StatsRequest]
  /\ \A s \in Scenario : \A id \in ID :
       s.table[id] # Nil /\ s.table[id].end # Nil => s.table[id].end >= s.table[id].start
  /\ IsFiniteSet(ID)
  /\ Zone \in {-1, 0, 1}
  /\ FirstMonth \in Int /\ LastMonth \in Int
  /\ Nil \notin Sub

VARIABLES
  table,    \* the subscriptions when the SELECT runs
  req,      \* the request
  clock,    \* the local month time.Now() would report
  stage,    \* where the handler stands
  rows,     \* ids the SELECT still has to deliver
  subs,     \* ids of stats.Subscriptions, not yet counted
  count,    \* stats.SubscriptionsCount
  total,    \* totalCost
  current,  \* the subscription whose months are being counted
  asOf,     \* what time.Now() gave for it
  start,    \* monthsBetween: start
  end,      \* monthsBetween: end and its location
  months,   \* monthsBetween: months
  answer

vars == <<table, req, clock, stage, rows, subs, count, total, current, asOf,
          start, end, months, answer>>
loop == <<current, asOf, start, end, months>>

Stage == {"validate", "select", "scan", "sum", "count", "answered"}

TypeOK ==
  /\ table \in Table /\ req \in StatsRequest
  /\ clock \in Int /\ asOf \in Int
  /\ stage \in Stage
  /\ rows \in SUBSET ID /\ subs \in SUBSET ID
  /\ \A id \in rows \cup subs : table[id] # Nil
  /\ count \in Nat /\ total \in Nat /\ months \in Nat
  /\ current \in ID \cup {Nil}
  /\ stage = "count" => current \in ID /\ table[current] # Nil
  /\ start \in Time
  /\ end \in [month : Time, zone : {-1, 0, 1}]
  /\ answer \in [status : {200}, total : Nat, count : Nat]
                 \cup [status : {400, 500}, total : {0}, count : {0}] \cup {Nil}

Init ==
  /\ \E s \in Scenario : table = s.table /\ req = s.req
  /\ clock = FirstMonth
  /\ stage = "validate"
  /\ rows = {} /\ subs = {}
  /\ count = 0 /\ total = 0 /\ months = 0
  /\ current = Nil
  /\ asOf = FirstMonth /\ start = FirstMonth
  /\ end = [month |-> FirstMonth, zone |-> 0]
  /\ answer = Nil

-----------------------------------------------------------------------------
(* Parameters. *)

validateStatsParams(r) ==
  /\ r.user # Malformed
  /\ r.start # Nil => Parses(r.start)
  /\ r.end # Nil => Parses(r.end)
  /\ r.start # Nil /\ r.end # Nil => ParseMonth(r.end) >= ParseMonth(r.start)

PeriodStart == IF req.start = Nil THEN Nil ELSE ParseMonth(req.start)
PeriodEnd == IF req.end = Nil THEN Nil ELSE ParseMonth(req.end)

(* Mutant of Give: an error carries what has been counted so far. *)
GiveSoFar(status) ==
  /\ stage' = "answered"
  /\ answer' = [status |-> status, total |-> total, count |-> count]

(* response.WriteError *)
Give(status) ==
  /\ stage' = "answered"
  /\ answer' = [status |-> status, total |-> 0, count |-> 0]

Validate ==
  /\ stage = "validate"
  /\ IF validateStatsParams(req)
     THEN stage' = "select" /\ UNCHANGED answer
     ELSE Give(400)
  /\ UNCHANGED <<table, req, clock, rows, subs, count, total, loop>>

-----------------------------------------------------------------------------
(* The repository. *)

MatchesFilter(sub) ==
  /\ req.user # Nil => sub.user = req.user
  /\ req.name # Nil => sub.name = req.name

(* Mutant of InPeriod: a subscription that ends in the first month is left out. *)
InPeriodStrictly(sub) ==
  /\ PeriodStart # Nil => sub.end = Nil \/ sub.end > PeriodStart
  /\ PeriodEnd # Nil => sub.start <= PeriodEnd

(* The WHERE clauses on the dates, whichever bounds are given. *)
InPeriod(sub) ==
  /\ PeriodStart # Nil => sub.end = Nil \/ sub.end >= PeriodStart
  /\ PeriodEnd # Nil => sub.start <= PeriodEnd

Selected == {id \in ID : table[id] # Nil /\ MatchesFilter(table[id]) /\ InPeriod(table[id])}

Select ==
  /\ stage = "select"
  /\ stage' = "scan"
  /\ rows' = Selected
  /\ UNCHANGED <<table, req, clock, subs, count, total, loop, answer>>

(* rows.Next and rows.Scan. *)
ScanRow ==
  /\ stage = "scan"
  /\ \E id \in rows :
       /\ rows' = rows \ {id}
       /\ subs' = subs \cup {id}
  /\ count' = count + 1
  /\ UNCHANGED <<table, req, clock, stage, total, loop, answer>>

(* The end of the rows, with no rows.Err(). *)
ScanEnds ==
  /\ stage = "scan" /\ rows = {}
  /\ stage' = "sum"
  /\ UNCHANGED <<table, req, clock, rows, subs, count, total, loop, answer>>

(* Mutant of QueryFails: rows.Err() is not asked, the rows end where they broke. *)
QueryEndsEarly ==
  \/ /\ stage = "select"
     /\ Give(500)
     /\ UNCHANGED <<table, req, clock, rows, subs, count, total, loop>>
  \/ /\ stage = "scan" /\ rows # {}
     /\ stage' = "sum" /\ rows' = {}
     /\ UNCHANGED <<table, req, clock, subs, count, total, loop, answer>>

(* The query or the iteration fails: rows.Err() is asked, and the answer is 500. *)
QueryFails ==
  /\ stage \in {"select", "scan"}
  /\ Give(500)
  /\ UNCHANGED <<table, req, clock, rows, subs, count, total, loop>>

-----------------------------------------------------------------------------
(* The service. *)

Later(a, b) == IF a > b THEN a ELSE b
Earlier(a, b) == IF a < b THEN a ELSE b

(* The last month calculateIntersectionMonths counts, and the location of the     *)
(* value it is kept in.  time.Now() is local; only with a period is it moved to UTC. *)
IntersectionEnd(sub, now) ==
  [month |-> IF sub.end = Nil THEN (IF PeriodEnd = Nil THEN now ELSE PeriodEnd)
             ELSE IF PeriodEnd = Nil THEN sub.end ELSE Earlier(sub.end, PeriodEnd),
   zone  |-> IF PeriodStart = Nil /\ PeriodEnd = Nil /\ sub.end = Nil THEN Zone ELSE 0]

IntersectionStart(sub) ==
  IF PeriodStart = Nil THEN sub.start ELSE Later(sub.start, PeriodStart)

(* The instant the local month begins, on a scale on which two months in UTC are    *)
(* two apart: a month begins earlier in the east.                                *)
Instant(month, zone) == 2 * month - zone

(* calculateIntersectionMonths, up to its call of monthsBetween.  A start after the  *)
(* end needs no return of its own: the loop below does not run then.               *)
NextSubscription ==
  /\ stage = "sum"
  /\ \E id \in subs :
       /\ subs' = subs \ {id}
       /\ current' = id
       /\ start' = IntersectionStart(table[id])
       /\ end' = IntersectionEnd(table[id], clock)
  /\ asOf' = clock
  /\ months' = 0
  /\ stage' = "count"
  /\ UNCHANGED <<table, req, clock, rows, count, total, answer>>

(* Mutant of InLoop: the last month is not counted. *)
InLoopBefore == Instant(start, 0) < Instant(end.month, end.zone)

(* start.Before(end) || start.Equal(end) *)
InLoop == Instant(start, 0) <= Instant(end.month, end.zone)

CountMonth ==
  /\ stage = "count" /\ InLoop
  /\ start' = start + 1
  /\ months' = months + 1
  /\ UNCHANGED <<table, req, clock, stage, rows, subs, count, total, current, asOf, end, answer>>

(* Mutant of AddCost: the price is not multiplied. *)
AddPrice ==
  /\ stage = "count" /\ ~InLoop
  /\ total' = total + table[current].price
  /\ stage' = "sum"
  /\ UNCHANGED <<table, req, clock, rows, subs, count, loop, answer>>

AddCost ==
  /\ stage = "count" /\ ~InLoop
  /\ total' = total + table[current].price * months
  /\ stage' = "sum"
  /\ UNCHANGED <<table, req, clock, rows, subs, count, loop, answer>>

Answer ==
  /\ stage = "sum" /\ subs = {}
  /\ stage' = "answered"
  /\ answer' = [status |-> 200, total |-> total, count |-> count]
  /\ UNCHANGED <<table, req, clock, rows, subs, count, total, loop>>

(* A month ends while the handler works. *)
Tick ==
  /\ stage # "answered"
  /\ clock < LastMonth
  /\ clock' = clock + 1
  /\ UNCHANGED <<table, req, stage, rows, subs, count, total, loop, answer>>

Handle ==
  \/ Validate
  \/ Select
  \/ ScanRow
  \/ ScanEnds
  \/ QueryFails
  \/ NextSubscription
  \/ CountMonth
  \/ AddCost
  \/ Answer

(* An answered request stays answered. *)
Done == stage = "answered" /\ UNCHANGED vars

Next == Handle \/ Tick \/ Done

Spec == Init /\ [][Next]_vars

-----------------------------------------------------------------------------
(* What README.md says of the total, without a loop: the months a subscription and  *)
(* the period have in common.  A subscription without an end runs to the end of the  *)
(* period; where the period has none, to the current month; and without any period    *)
(* nothing counts beyond the current month.                                       *)
BilledMonths(sub, now) ==
  { m \in UNION {sub.start .. last : last \in ({sub.end, PeriodEnd} \ {Nil}) \cup {now}} :
      /\ sub.end # Nil => m <= sub.end
      /\ PeriodStart # Nil => m >= PeriodStart
      /\ PeriodEnd # Nil => m <= PeriodEnd
      /\ sub.end = Nil /\ PeriodEnd = Nil => m <= now
      /\ PeriodStart = Nil /\ PeriodEnd = Nil => m <= now }

Wanted == {id \in ID : table[id] # Nil /\ MatchesFilter(table[id])}

(* The rubles some subscriptions cost: one for every subscription, month and ruble of   *)
(* its price, so that no sum is formed the way the code forms its own.               *)
BilledRubles(ids, now) ==
  UNION {{id} \X (BilledMonths(table[id], now) \X (1..table[id].price)) : id \in ids}

(* A month may end while the handler works and count for some subscriptions and not     *)
(* for others: a sum lies between the costs in the first and in the current month.      *)
IsCostOf(sum, ids) ==
  /\ Cardinality(BilledRubles(ids, FirstMonth)) <= sum
  /\ sum <= Cardinality(BilledRubles(ids, clock))

(* What README.md says of the total, without an exception.                           *)
TotalAsDocumented == answer # Nil /\ answer.status = 200 => IsCostOf(answer.total, Wanted)

(* The subscriptions for which the code bills the documented months: all but, where no  *)
(* period is given, those with an end date to come, and east of UTC those without one. *)
BilledAsDocumented(sub, now) ==
  \/ PeriodStart # Nil \/ PeriodEnd # Nil
  \/ IF sub.end = Nil THEN Zone # 1 ELSE sub.end <= now

NoneExcepted == \A id \in Wanted : BilledAsDocumented(table[id], FirstMonth)

(* Without these two kinds of subscriptions the total is the documented one, although   *)
(* the WHERE clauses decide before the counting which subscriptions matter, the code    *)
(* treats the absence of each bound in a branch of its own, the rows may stop coming,   *)
(* and the clock is read once for every subscription.  (Of a period with one end only,    *)
(* README.md says nothing: it is taken to be open to that side, up to the end of each      *)
(* subscription and to the current month for one without an end.)                       *)
TotalAsBilled ==
  answer # Nil /\ answer.status = 200 /\ NoneExcepted => IsCostOf(answer.total, Wanted)

(* With a whole period, subscriptions_count counts those the total is made of: the     *)
(* WHERE clauses let through exactly the rows for which the loop runs.                *)
CountAsBilled ==
  answer # Nil /\ answer.status = 200 /\ PeriodStart # Nil /\ PeriodEnd # Nil =>
    answer.count = Cardinality({id \in Wanted : BilledMonths(table[id], clock) # {}})

(* When the loop of monthsBetween stops it has counted the months README.md bills, for *)
(* every combination of absent bounds but the two excepted ones.                    *)
MonthsAsDocumented ==
  stage = "count" /\ ~InLoop /\ BilledAsDocumented(table[current], asOf)
    => months = Cardinality(BilledMonths(table[current], asOf))

-----------------------------------------------------------------------------
(* Why they hold: the inductive invariant. *)

(* The table and the request are those of a scenario, and a request that has got      *)
(* beyond the validation has passed it.                                         *)
Given ==
  /\ \A id \in ID : table[id] # Nil /\ table[id].end # Nil => table[id].end >= table[id].start
  /\ stage \in {"select", "scan", "sum", "count"} => validateStatsParams(req)
  /\ answer # Nil /\ answer.status = 200 => validateStatsParams(req)

(* While the months of a subscription are counted, start has moved on from the first     *)
(* month of the intersection by the months counted, and every one of them was in the    *)
(* loop.                                                                        *)
Counting ==
  stage = "count" =>
    /\ start = IntersectionStart(table[current]) + months
    /\ end = IntersectionEnd(table[current], asOf)
    /\ months > 0 => Instant(start - 1, 0) <= Instant(end.month, end.zone)

(* count is the number of rows that came, and after the loop that of all rows. *)
Counted ==
  /\ stage \in {"validate", "select"} => count = 0 /\ subs = {}
  /\ stage = "scan" =>
       /\ subs \cup rows = Selected /\ subs \cap rows = {}
       /\ count = Cardinality(subs)
  /\ stage \in {"sum", "count"} => count = Cardinality(Selected)
  /\ answer # Nil /\ answer.status = 200 => answer.count = Cardinality(Selected)

(* The subscriptions whose cost is in totalCost already. *)
Added == Selected \ (subs \cup IF stage = "count" THEN {current} ELSE {})

(* totalCost is at every moment the documented cost of the subscriptions added so far;  *)
(* what the WHERE clauses leave out costs nothing.                                 *)
Summed ==
  /\ answer # Nil => stage = "answered"
  /\ FirstMonth <= asOf /\ asOf <= clock
  /\ stage \in {"validate", "select", "scan"} => total = 0
  /\ stage \in {"sum", "count"} => subs \subseteq Selected
  /\ stage = "count" => current \in Selected \ subs
  /\ NoneExcepted =>
       /\ stage \in {"sum", "count"} => IsCostOf(total, Added)
       /\ answer # Nil /\ answer.status = 200 => IsCostOf(answer.total, Selected)

StatsInv == TypeOK /\ Given /\ Counting /\ Counted /\ Summed

=============================================================================
