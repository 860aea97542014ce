# A formal model of the EffectiveMobile subscription service

The service stores the online subscriptions of users (who, which service, price
per month, first and last month) in Postgres and adds up what they cost. It is
a stateless HTTP process: all state that outlives a request is in two tables.
That makes the interesting questions those of concurrency on a database
without transactions. A request runs up to four autocommit statements, other
requests run between them, a client that sees an error does not know whether
its statement ran, and the constraints of the schema are the only
synchronisation there is. Around that is a container that migrates the schema
before it serves, and a chain of timeouts that has to fit together when it stops.

This directory holds a TLA+ model of the service, TLC runs on small instances
and TLAPS proofs for all instances.

    tlc -workers 2 -config Racing.cfg MCSubscriptionAPI.tla
    tlapm SubscriptionAPIProofs.tla

Paths below are relative to the root of the repository; `service/...`,
`repository/...`, `handlers/...` are under `internal/` (`handlers` under
`internal/api/`).

## Inventory

| Component | State | Operations | Talks to |
|---|---|---|---|
| Subscription handlers, `handlers/subscription.go` | none; a goroutine, a 5 s context per request | POST, GET, PUT, DELETE, list | `SubscriptionService` |
| `SubscriptionService`, `service/subscription.go` | none | Create, Get, Update, Delete, List, ParseMonth | the two repositories |
| `ServiceRepository`, `repository/service.go` | table `service` | GetServiceID, AddService, GetOrCreateServiceID; GetServiceName and DeleteService (exported, no caller yet) | the pool |
| `SubscriptionRepository`, `repository/subscription.go` | table `subscription` | Create, Get, Update, Delete: one statement each; List: two | the pool |
| Statistics, `handlers/stats.go`, `service/stats.go`, `repository/stats.go` | none; the clock | GET /stats/total | the pool |
| Schema, `migrations/*.up.sql` | tables, two sequences, CHECK, UNIQUE, FOREIGN KEY | applied once | |
| Router, middleware, `api/router.go` | none | dispatch, 10 s timeout, logging | the handlers |
| Pool, `pkg/postgres/provider.go` | at most 10 connections | Open with its ping, a connection per statement, Close | Postgres |
| Life cycle, `cmd/subscription/main.go`, `docker-compose.yml` | signal, server, pool | start, listen, Shutdown, Close; restart and stop by docker | all |
| Migrator, `cmd/migrator/main.go`, `docker-entrypoint.sh`, `Makefile` | `schema_migrations`: version, dirty flag, lock | Up before every start, and by hand | Postgres |
| Configuration, logging | read once | none afterwards | |

What is hard here:

* **Concurrency.** `GetOrCreateServiceID` is a SELECT followed by an INSERT;
  the id it gives is used a statement or two later. `UpdateSubscription`
  compares a new end date with a start date it read in an earlier statement.
  Creates, updates and deletes of the same row meet.
* **Failure.** Statements fail, their answers get lost when the context ends,
  the process dies and is restarted; in the last two cases Postgres may still
  run the statement. Clients try again.
* **Ordering.** The list is read in pages cut by offset, each by a COUNT and a SELECT,
  while rows come and go, and not always in the order of their ids.
* **Start and stop.** A runner of the migrator dies between marking a version, running
  its file and clearing the mark; two runners overlap. Signals come before main listens to
  them. Shutdown waits 30 s, docker 10 s, the server writes for 4 s, the handlers work for
  5 s or 10 s, and the pool is closed in any case.
* **Boundaries.** Names with blanks, `""` and `"null"` and the zero time as
  marks, 64-bit prices in front of a 32-bit column, sequences that run out,
  inclusive months, time values of two locations.

What has to be right, component by component:

* tables: no user has the same service twice from the same month on; dates are
  in order; subscriptions have their services; ids are never used again;
* requests: each has its effect whole, once or not at all, and its answer is
  true of the tables at one instant; each is answered;
* service ids: the id a request holds names the service it asked for, or, should somebody
  call `DeleteService`, nothing, but never another service;
* the list: a client that reads all pages misses nothing and meets nothing twice, as far
  as offsets allow that; total and page fit; a short page is the last;
* schema: main runs on all migrations or not at all;
* stopping: handlers keep the pool until they are done, every connection taken from it
  comes back, and a container that should run gets to serve;
* totals: the months of the intersection of subscription and period, as
  `README.md` of the repository defines them.

`PROJECT.json` lists every component with what is modelled of it, every hazard at
its line, and the source lines of every definition.

## Modules

    SubscriptionData        requests, names, dates; the checks that need no state
      Postgres              the two tables; one action per statement
        SubscriptionAPI     workers running the handlers, statement by statement; faults
          SubscriptionRefinement   the mapping onto SubscriptionStore
            MCSubscriptionAPI      instances for TLC
            ServiceCatalog         the same workers, among callers of DeleteService
              MCServiceCatalog     an instance for TLC
      PostgresProofs        what each statement keeps, proved
        SubscriptionAPIProofs      the invariant and its theorems, proved
          SubscriptionRefinementProofs   the API implements the store, proved
            ServiceCatalogProofs   it does so while services are deleted, proved
      Stats                 one request for a total, with the clock
        MCStats             instances for TLC
        StatsProofs         months, rows and sum of a total, proved
      Listing               a client that reads the list page by page, among writers
        MCListing           instances for TLC
        ListingProofs       what such a client gets, proved
    SubscriptionStore       what the API promises: atomic operations on a store
    Migrator                runners of m.Up, and what can stop them
      Lifecycle             container, main, server, pool, requests and their clocks
      MigratorProofs        what a version says, proved
        LifecycleProofs     the invariant of the life cycle, proved

**SubscriptionData** keeps of a name its trimmed text and whether blanks surround
it, and of a date its month and year: a time value is the number of months since
January of year 0, since `ParseMonth` makes only first days of months. The two
marks for "no end date", the empty text and `"null"`, are values of their own. The
predicates are the handlers' validation (`validate...Request`, with what the
struct tags mean: `required` refuses a price of 0 and the zero UUID) and the checks
the service makes before (`CreateAccepted`, `UpdateAccepted`) and after
(`UpdateDatesAccepted`) it resolves the service name.

**Postgres** is the schema and the statements of the two repositories. A table is a
function from ids to rows or `Nil`. Each statement has its success
(`InsertSubscription`, `UpdateRow`, ...) and its failures, in the order in which
Postgres finds them: encoding by pgx, sequence, CHECK, UNIQUE, foreign key. A refused
INSERT still consumes its sequence value, unless it never got that far.

**SubscriptionAPI** has one process per request in flight (`Worker`), a program
counter that stands where a statement is due, and one action per step:

| Action | Code |
|---|---|
| `Receive`, `Validate` | the handler up to its first statement, service checks included |
| `GetServiceID` | the SELECT of `GetOrCreateServiceID`, by the raw name |
| `AddBlankService`, `AddService` | `AddService`: trims, refuses blanks, INSERTs |
| `CheckDates`, `GetCurrent` | the date checks of `UpdateSubscription`; the SELECT whose error is dropped |
| `CreateSubscription`, `UpdateSubscription`, `DeleteSubscription`, `GetSubscription` | the last statement and the status the handler makes of its outcome |
| `Finish` | the answer is sent |
| `StatementFails` | a statement returns an error that has nothing to do with the data |
| `AnswerLost`, `LateStatement` | a statement is sent and given up on; Postgres runs it later, or never |
| `Restart` | the process dies at any point and is started again |

**SubscriptionStore** is the abstract specification: rows that carry the name of
their service, and requests that take effect in one step between call and answer.
It knows nothing of services as objects, of statements, or of sequences. It says
when each answer is true: 201, 200 and 204 with their whole effect; 404 when there
is no such subscription; 409 when the row would be a duplicate; 400 when the request
is wrong in itself or would end a subscription before it starts; 500 with no effect,
or with the whole effect later, once. **SubscriptionRefinement** maps the tables and
the control state onto it (`ShownRows`, `LateRequests`); `ImplementsStore` is the
property that the API implements the store.

**ServiceCatalog** adds `Caller`s to the workers of `SubscriptionAPI`: goroutines of the
same process that call the two methods of `ServiceRepository` nobody calls yet. `Invoke` and
`Leave` are call and return, `GetServiceName` is one SELECT, `CountSubscriptions` and
`DeleteServiceRow` are the two statements of `DeleteService`, `CallerFails` is an error of
any of them, after which a DELETE may have run. `RestartAll` ends callers and workers.

**Stats** is one request for a total: validation, the SELECT with the WHERE clauses
that depend on which bounds are given, the row loop, and per subscription
`calculateIntersectionMonths` and the loop of `monthsBetween`, one month a step, while
the clock may move on. A time value is a month and a location; two months lie two
units apart on the scale of instants and a location shifts by one, which is all that
`Before` and `Equal` can tell of two first days of months. The SELECT reads one state of
the tables, so the table is a constant of the behaviour. `BilledMonths` is the
reference definition of the months, written from the rules in the
repository's `README.md:58-63`. `BilledRubles` is that of a total: one element for every
subscription, month and ruble, so that a total is a number of elements and no sum has to be
defined by recursion.

**Listing** is one client of `GET /subscriptions` with the handler it calls, and the
other requests as far as they change what the list holds:

| Action | Code |
|---|---|
| `Parse` | the handler up to `ListSubscriptions`: defaults for a bad limit or offset, 400 for a bad user |
| `Count`, `SelectPage` | the two statements, each of which sees one state of the table |
| `ScanRow`, `RowsBreak`, `RowsEnd` | the row loop, which takes rows that break off for rows that end, and the answer 200 |
| `StatementFails` | an error of either statement or of a `Scan`: 500 |
| `NextPage`, `LastPage`, `Retry` | the client, which computes the next offset from the answer it got |
| `TakeID`, `Insert` | an INSERT takes its id; its row is seen at COMMIT, maybe after that of a later id |
| `Rename`, `Delete` | an UPDATE of the service, a DELETE |

The rest of the state is history: what has been in the list all the time (`standing`),
whether a row joined or left in front of what the client has read, whether the list
moved between the two statements. The properties say under which of these conditions
reading by offset is right; without any one of the conditions TLC finds a
counterexample.

**Migrator** is `m.Up()` of golang-migrate, a library and therefore modelled from how
`cmd/migrator` uses it and from what its documentation says: a lock of the session, one
row with version and dirty flag, and per file three transactions (`Mark`, `RunMigration`,
`Clear`). Every `Runner` may get an error, lose its session or die between any two of them,
and Postgres may stop; no fault undoes what was committed.

**Lifecycle** is everything else, from container to request:

| Action | Code |
|---|---|
| `Start`, `DockerStart`, `Stop`, `Kill` | `restart: unless-stopped`; docker stop with SIGTERM, and SIGKILL after its grace |
| `RunMigrator`, `MigratorEnds` | `docker-entrypoint.sh`: wait for Postgres, run the migrator, `set -e`, `exec ./main` |
| `Open` | `NewProvider` and its ping, or `os.Exit(1)` |
| `ListenAndServe`, `ListenFails` | the goroutine of the listener, in any order with what main does |
| `Notify`, `Signal`, `Terminate` | what a signal does to sh, to main before `signal.Notify`, to main after it |
| `Shutdown`, `Return` | `Shutdown` with its 30 s, then `Close` of the pool whatever it returned, then the end |
| `Crash` | the end of the process for any other reason |
| `Accept`, `ReadHeader`, `ReadBody` | a connection of the server up to the context of the handler |
| `Acquire`, `Release`, `GiveUp` | a statement gets one of the connections of the pool, unless its context is done, gives it back; a request ends |
| `Tick` | a second; it waits for what is due, so no deadline is missed by the model's own slowness |
| `RunByHand` | `make migrate-up` while the container does what it likes |

A request has the clocks that bound it: `open` until it is read (`ReadTimeout`), `call` from
the context of its handler (5 s), `read` from its headers on (the 10 s of the router, from
whose context every handler derives its own, and `WriteTimeout`).

## Runs

| Run | Instance | Checks | Shows |
|---|---|---|---|
| `varied` | 1 worker, 31 requests of every kind, statements may fail | `TypeOK`, `ImplementsStore`, `ClearedOnRequest`, `Answered` | every way a request can be refused or fail gives an answer the store allows; end dates go only when asked to; each request is answered |
| `racing` | 2 workers, 9 requests on one user, one start date, two services | `NoDoubleBilling`, `ServiceResolved`, `DatesOrdered`, `ServerErrorsExplained`, `ImplementsStore`, `Answered` | interleaved requests act like atomic ones, none waits for another, and every 500 has a reason that is named |
| `cut_off` | 2 workers, 3 requests, lost answers, restarts | `NoDoubleBilling`, `Inv`, `NoResurrection`, `GoesForward`, `ImplementsStore` | retries and late statements do no harm, and send no other request back |
| `catalog` | 1 worker, 1 caller of `DeleteService` and `GetServiceName`, lost answers, restarts | `CatalogInv`, `ReferencedServiceExists`, `ResolvedOrGone`, `CatalogErrorsExplained`, `ImplementsStore` | deleting services in two statements leaves no subscription without one and gives no request another service than it asked for |
| `totals` | 2 subscriptions out of 14 positions, 8 requests with a period or a filter; or without a period and no end date to come | `TypeOK`, `TotalAsBilled`, `StatsInv`, `CountAsBilled`, `MonthsAsDocumented` | the total is the documented one, but for the subscriptions `no_period` shows |
| `paging` | 3 ids, 2 services, pages of 1 and 2, filtered and not, every order of appearance of rows | `TypeOK`, `Inv`, `NoneMissed`, `NoneTwice`, `TotalOfPage` | when a client that reads all pages gets the list |
| `lifecycle` | 2 runners, 2 migrations, 2 connections, a pool of 1, 1 fault | `TypeOK`, `Inv`, `VersionTrue`, `ServesMigrated`, `PoolOutlivesHandlers`, `AnsweredInTime`, `OnlyListsAreCut`, `Available`, `RequestsEnd` | no start on half a schema, an orderly end, after a fault a container that serves again, and an end for every request |
| `new_service` | 2 workers, no faults | `ServerErrorMeansFault` | violated: see findings |
| `moved_start` | 1 worker, no faults | `InvertedUpdateRefused` | violated |
| `no_period` | 2 subscriptions, a request without a period, east of UTC | `TotalAsDocumented` | violated, for two reasons |
| `broken_page` | 3 ids, one page of 2 | `WholePage` | violated |
| `slow_answer` | 1 connection, the real timeouts | `AnswersArrive` | violated |

**Bounds.** Sequences end at 2 or 3 (`MaxServiceID`, `MaxSubscriptionID`): enough for
two rows to collide, for one to be deleted while its id must stay free, and for the
sequence to run out, after which only failures follow. `MaxInt4` is 2, so that a price
beyond the column is 3. Two workers are enough for every race of the code, because
each one is between two statements of one request; the invariant of the runs is proved
for any number. One late statement per worker (`AnswerLost` has that guard); a worker
takes up new requests meanwhile, so a retry overlaps what it repeats. In `totals` the
months are January to May 2025 with March as the present and one tick of the clock;
subscriptions begin and end before, at, inside, at the end of and after the periods.
In `paging` the ids are 1 to 3 and the default limit is 2 in place of 10: enough for a
full page, a rest, a row that moves from one page to the other in either direction, and
two INSERTs that appear in the wrong order in front of a row already read.
In `lifecycle` the timeouts are 1, 1, 1, 3, 5 and 3 s (`ReadTimeout`, `WriteTimeout`,
`HandlerTimeout`, `RouterTimeout`, `ShutdownTimeout`, `StopGrace`) in place of 4, 4, 5, 10, 30
and 10: the same order, and the same sums below the same limits. The theorems cover the
real ones, and `slow_answer` uses them. Two migrations are enough for a run to die between
two and inside either; one fault, because a second one either leaves the schema dirty, where
nothing more may happen, or repeats the first from a clean state; proved for any number.
`cut_off` uses the symmetry of workers; the runs that check liveness do not.

**Fairness.** `FairSpec` assumes weak fairness of every worker's own steps: the Go
scheduler runs every runnable goroutine, and the 5 s context ends every statement
(`StatementFails` and the normal outcome are both steps of the worker). Nothing is
assumed of clients (`Receive`), of Postgres after the client has given up
(`LateStatement`) or of restarts.

`FairSpec` of `Lifecycle` assumes weak fairness of docker's restart, of main, of the
listener, of both ends of the container, of time, of what is due, and of the runners of the
migrator; and that Postgres, which has `restart: unless-stopped` too, comes back. Strong
fairness is assumed in one place, the lock of the entrypoint's own runner: Postgres queues
who waits for a lock, so another runner cannot overtake it for ever. Nothing is assumed of
clients, of signals, or of whoever runs `make migrate-up`.

**Deadlock** is checked in all runs; a stats request that is answered, and a client
that has read its last page, stutter (`Done`).

## Findings

1. *A new service and two clients* (`new_service`). Both miss the service in the
   SELECT; the second INSERT conflicts, and `ErrServiceNameExists` is an error no
   handler knows: 500, without any fault. A padded name that exists already takes the
   same path alone. `ServerErrorsExplained` says what else ends in a 500 without a fault, and
   that this is all: a blank name in an update that changes something else too, a price or a
   sequence beyond its column, and finding 2 with its race.
2. *Moving a start date* (`moved_start`). An update of the start date alone is checked
   by the CHECK of the table only, and the handler answers 500, where 400 is
   documented and the mirror case gets it.
3. *Totals without a period* (`no_period`), `service/stats.go:92-98`: months after the current
   one are counted for subscriptions with an end date, and the current month is lost east of
   UTC, where the documentation says "up to the current month inclusive".
4. *A short page* (`broken_page`). `ListSubscriptions` does not ask `rows.Err()`
   (`repository/subscription.go:274`), so rows that break off, or that the 10 s timeout of
   the router cancels, give a short page with status 200. A client that takes a page that
   is not full for the last one stops there. `repository/stats.go:134` does ask.
   Nothing else shortens a page (`WholeUnlessBroken`).
5. *An answer after the write timeout* (`slow_answer`). The server writes for 4 s, the handlers
   work for 5 s, the list for 10 s. What they answer after the fourth second is dropped, the
   documented 500 of a request that ran out of time as well as the 201 of one that did not.
   It takes no more than a setting: with `http_server.timeout` above the 10 s of the router, every answer
   is in time (`RouterTimeoutSuffices`; at 10 s the server's deadline would be the earlier one by the
   moment between reading the headers and making the context).

Two more disagreements with `src/README.md` have no run of their own; the properties name them as
exceptions:

* `01-0001` is the zero time, which the repository takes for "clear the end date", where the
  documentation names only `""` and `"null"` (line 67). `ClearedOnRequest` counts it as asking
  (`AsksToClear`), so it does not judge it. `InputAssumption` leaves it out of what is refined,
  since the store knows no such date, and the requests of `varied` have none.
* "Waits for active requests to finish" (lines 203-214) does not hold for a list: it has the 10 s of
  the router, may begin after the signal on a connection accepted before it, and docker kills
  10 s after the signal. `OnlyListsAreCut` exempts lists, and says that it is only they.

Nor does `ImplementsStore` judge when a 500 is right. The store may answer any request 500 without
an effect, as README.md lists it for every operation, so a name that lost its race, or a
blank one in an update that changes something else too, is not against it. Which 500s there are
without a fault is the subject of `ServerErrorsExplained`.

`TotalAsBilled` and `MonthsAsDocumented` name the two cases of `no_period` as their exceptions
(`BilledAsDocumented`): a total in which none of them takes part is the documented one. Of a
period with one end only the documentation says nothing. The rule for it is this project's
reading: the period is open to the other side, up to the end of each subscription, and up to the
current month for one that has none.

## Proofs

All theorems hold for every value of the constants that satisfies the `ASSUME`s of the
modules: the values that stand for something absent are no names, numbers or records, bounds
are positive, inputs are requests, and what is said below of each module. TLC evaluates them
in every run.

### The requests: `SubscriptionAPIProofs`

| Theorem | States |
|---|---|
| `InvHolds` | `Spec => []Inv` |
| `TypeCorrect`, `DatesStayOrdered`, `ServicesResolved`, `BilledOnce` | `[]` of `TypeOK`, `DatesOrdered`, `ServiceResolved`, `NoDoubleBilling` |
| `IdsStayDead` | `Spec => NoResurrection`, an action property |
| `OnlyAskedCleared` | `Spec => ClearedOnRequest`, an action property |
| `OnceEach` | `Spec => GoesForward`, an action property |
| `ErrorsExplained` | `Spec => ServerErrorsExplained`, an action property |

**The inductive invariant.** None of these properties carries over a step alone. That an
INSERT keeps the types and the dates of the table needs that the row it offers was made from
a request that had passed the checks of handler and service, some steps earlier. So `Sound`
joins the constraints of the schema (`TablesOK`) with what each worker has checked by the
time it stands at its point (`Checked`), and with the same of every statement that may still
run late. `Inv` adds that a service id is that of the service the request names (`Named`);
this needs that it was right when it was found, that the trimmed name of the request is what
is stored, and that no statement removes or renames a service.

**The argument.** `PostgresProofs` has one lemma per statement: from `TablesOK`, the
statement leads to `TablesOK'`. For `Sound`, a step of one worker has to be examined for that
worker only (`WorkerStep`); there is one lemma per action below that, and a case split on
`Next` (`NextSound`). For `Named`, three lemmas say what any step does: `ServicesStay` (an id
below the sequence keeps its service, and the sequence does not go back), `ResolvedSteps` (a
worker has the id it had, or one just found or made for the name it asks for) and `LateSteps`
(a statement left behind has the request and the id of its worker). `NoDoubleBilling` follows
from `Inv`: stored names are trimmed, unique names mean that equal names have equal ids, and
then UNIQUE applies. `NoResurrection` follows from `SequencesAhead`. For `ClearedOnRequest`,
only an UPDATE can clear, it changes one row, and by `Checked` its zero time comes from an
update that asks for it (`ClearsWhenAsked`).

`GoesForward` is the half of `Answered` that is safety: the points are in an order (`Order`), and
no step of anybody takes a request back in it. With seven points a request makes at most seven
steps, so the fairness of the goroutines is all that `Answered` needs besides.

`ServerErrorsExplained` turns `Inv` into a statement about answers. Of a create that passed its
checks, Postgres can object to a duplicate and to what does not fit, and to nothing else
(`CreateRefused`): its price and dates were checked, by `Named` its service is there. Of an
update the CHECK may object to one date of the request against the other, stored one
(`UpdateContradicts`): two dates of one request were compared, and two stored ones are in order.
The theorem is of `Spec`. Should `DeleteService` get a caller, the foreign key is one more reason,
and the only one (`CatalogOneMoreReason`).

### The store: `SubscriptionRefinementProofs`

`Implements == Spec => ImplementsStore`: for any number of requests in flight, any faults and
any size of the tables, the API is a refinement of `SubscriptionStore`. `InputAssumption`
leaves out requests a router cannot produce, and `01-0001` as an end date.

The proof has three layers. What both sides say of a *request* is the same: what handler and
service refuse is `Invalid` in the store (`RefusedInvalid`, `DatesRefusedInvalid`), and what
gets through to its last statement is not (`CreateValid`, `UpdateValid`, `PlainValid`).
What both say of *tables* is the same: a row joined with its service is a row of the store,
and UNIQUE, which compares ids, refuses what the store calls a duplicate by name
(`DuplicatesViolate`). A *statement* that succeeds is then the whole effect of its request
(`InsertIsCreate`, `UpdateIsUpdate`, `DeleteIsDelete`), whether its worker waits for it or has
given up. With that each action is one step of the store or invisible to it, in one lemma per
action: everything before the last statement, a service being added included, is invisible.

### Deleted services: `ServiceCatalogProofs`

With callers of `DeleteService`, `Named` fails: the service of an id may be gone. What stays
inductive is `CatalogInv`, that is, `Sound` and, in place of `Named`, that an id was given out
for a name, lies below the sequence, and stands for that name or for nothing (`GivenFor`).

| Theorem | States |
|---|---|
| `CatalogInvHolds` | `CatalogSpec => []CatalogInv` |
| `NoneOrphaned`, `NeverAnother` | `[]` of `ReferencedServiceExists`, `ResolvedOrGone` |
| `CatalogKeepsDates`, `CatalogBilledOnce` | `[]` of `DatesOrdered`, `NoDoubleBilling` |
| `CatalogIdsStayDead`, `CatalogClearsNone` | `NoResurrection`, `ClearedOnRequest`, action properties |
| `CatalogOneMoreReason` | `CatalogErrorsExplained`, an action property |
| `CatalogImplements` | `CatalogSpec => ImplementsStore` |

A caller's statement removes at most a row of `service` that nothing refers to
(`CallStatement`), which the store does not see. The steps of the workers are those of
`SubscriptionAPI`; `NextSound` and the three lemmas above apply to them as they are, and the
lemmas of `SubscriptionRefinementProofs` ask of a worker no more than `Standing`, which lets
the service be gone: then the foreign key refuses the row, and the answer is the 500 without
effect that the store allows. What clients may rely on in `SubscriptionAPI` rests on `Sound`
alone (`UniqueByName`, `FreeStaysFree`, `ClearedByUpdate`), so it holds here too: a service that
was deleted and is resolved again has another id, but no subscription has the old one.

### Totals: `StatsProofs`

For any subscriptions, request, clock and local time:

| Theorem | States |
|---|---|
| `StatsInvHolds`, `StatsTypeCorrect` | `[]StatsInv`, `[]TypeOK` |
| `MonthsCounted` | `[]MonthsAsDocumented`: the loop of `monthsBetween` stops at the documented number of months |
| `CountIsOfBilled` | `[]CountAsBilled`: with a period, the WHERE clauses let through exactly what has months to bill |
| `TotalIsBilled` | `[]TotalAsBilled`: the total is the documented cost of what the filter names, but for the exceptions |

Here `StatsInv` adds to the types that the request was validated (`Given`), that the loop
variable is the first month plus the months counted, the last one counted having been
within bounds (`Counting`), and that the rows that came and those to come are the rows
selected, with `count` the number of the former (`Counted`), and that `totalCost` is the
documented cost of the subscriptions added so far (`Summed`). `BilledInterval` is the lemma
that joins months and rows: the set of months the documentation describes is the interval
between the two bounds the code computes. With it, the exit condition of the loop fixes
`months`, and "the interval is not empty" is what the WHERE clauses say.

For the total, a sum over rows would take an induction over finite sets. Counted in rubles it
does not: a subscription costs its months times its price, the size of a product of two
intervals (`CostOfOne`), and one more subscription adds a disjoint set (`CostOfAnother`). The
clock may tick between two subscriptions, so the sum lies between the cost in the first month
and the cost now; costs grow with the clock (`CostGrows`), whence a tick keeps that, and what a
subscription adds lies between its own two costs (`MonthsBetweenClocks`). In the end, what the
WHERE clauses left out costs nothing (`UnselectedCostNothing`).

### The list: `ListingProofs`

For any number of ids, any limits, filters and faults and any changes of the list:
`InvHolds` (`[]Inv`), and from it `TypeCorrect`, `NothingMissed`, `NothingTwice` and `TotalFits`
(`TypeOK`, `NoneMissed`, `NoneTwice`, `TotalOfPage`). If no connection breaks among the rows,
`WholePage`, which `broken_page` violates, holds too (`WholeUnlessBroken`).

The client remembers an offset, the list is a set of ids that moves. What joins them is the
place of a row, the number of rows up to it. `PlaceOrder` and `PlaceOnto` say that the places
number a list without gaps, so a page, the rows whose places lie between two numbers, has as
many rows as it can (`PageSize`). `Inv` then says how the rows the client has read lie in the
list as it is now. While nothing has joined in front of them, fewer than `offset` rows are before
any of them (`InOrder`), so the next page begins behind them. While nothing has left and no
page broke off, what has been in the list all the time has been read or is behind a row that
was, one with at least `offset` rows up to it (`Complete`, `Reached`), so the next page begins
in front of it. `Delivered` and `Counted` keep rows, answer and total together on their way to
the client. A row moves back in the list only when one joins before it, and forward only when
one leaves (`ListMoves`), so a change of the list either keeps all this or sets the history
variable that excuses it.

### Start and stop: `MigratorProofs`, `LifecycleProofs`

For any number of runners, migrations, connections and faults, and for all timeouts with
`ReadTimeout + HandlerTimeout < ShutdownTimeout` and `ReadTimeout + RouterTimeout <
ShutdownTimeout` (the code has 4 + 5 and 4 + 10 below 30):

| Theorem | States |
|---|---|
| `InvHolds`, `TypeCorrect` | `[]Inv`, `[]TypeOK` |
| `VersionsTrue`, `MigratedWhenServing` | `[]` of `VersionTrue`, `ServesMigrated` |
| `PoolOutlives` | `[]PoolOutlivesHandlers` |
| `AllInTime` | `[]AnsweredInTime` |
| `RouterTimeoutSuffices` | `AnswersArrive`, if `ReadTimeout = WriteTimeout`, as in main, and that is above `RouterTimeout` |
| `OnlyListsCut` | `OnlyListsAreCut`, an action property, if also `ReadTimeout + HandlerTimeout < StopGrace` |

`Inv` joins `MigratorInv` (`Progress`: the point of a runner at work tells how far version and
database are apart), `ContainerInv` (which stages may have a clock running, a listener, an
unfinished schema), `PoolCount` (the count of used connections is that of the requests
that hold one, so that it stays within the limit), and for each connection `Timely`, which bounds the time
the server has been draining by the clocks of the request: by `open` until its headers are
read, by `ReadTimeout` plus the clock of its context, or of the router for a list, from then
on. `Timely` is what makes the pool safe: with the sums above, every request reaches one of its
deadlines before Shutdown gives up. It also bounds `read` by the timeout of the router or, where
the body comes later than that, by `ReadTimeout`: that is `AnsweredInTime`, and it decides
whether an answer is still written.

### Checked by TLC only

* `Answered`, `Available`, `RequestsEnd`: liveness under fairness is beyond the prover. That a
  request reaches one of its deadlines is liveness; that it does not outlive them is proved
  (`AllInTime`).
* What the findings violate is false and has no proof; for two of them a theorem names the
  condition under which it holds (`WholeUnlessBroken`, `RouterTimeoutSuffices`), for totals
  `TotalAsBilled` names the exceptions, for the 500s `ServerErrorsExplained` names the reasons.

## Not modelled

* Configuration, logging, the swagger pages, `/health`, request ids, recovery from panics: no
  state a property is about. The values of the configuration that matter are constants.
* The down migrations. Nothing runs them: `make migrate-down` passes `-down`, a flag
  `cmd/migrator` does not define, and ends in its usage message.
* Idle connections and their lifetime in the pool: they decide how soon a connection is there,
  not whether.
* In `Postgres` the INSERT is one step: its sequence value and its row appear together,
  whereas the rows of two concurrent INSERTs can appear in the other order of their ids. No
  property of `SubscriptionAPI` compares the order of ids with the order of events; those
  of `Listing` do, and there an INSERT has two steps.
* Price and dates of a listed subscription, and UNIQUE, in `Listing`: no filter sees them.
* Text: the syntax of JSON, UUIDs, numbers and dates is reduced to "well-formed or not".
* Time, but for `Lifecycle`: the 5 s deadline is the possibility that a statement fails or
  its answer is lost, at any time.
* The day of a date: all dates are first days of months, by `ParseMonth`; two CHECKs of
  the schema say the same.
* The tests and mocks: they were read as statements about the code, and are not code of the
  service.

## Plan

Every part of the service that keeps or changes state is modelled, and every safety property
that holds is proved. What could follow:

1. If `DeleteService` gets a handler: its statuses in `SubscriptionAPI`, where an
   error of the foreign key is a 500 today.
2. If the list is paged by key instead of by offset: `NoneMissed` and `NoneTwice` without
   the exceptions that `Listing` has to name.
