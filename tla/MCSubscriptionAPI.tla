--------------------------- MODULE MCSubscriptionAPI ---------------------------
(***************************************************************************)
(* Small instances of SubscriptionAPI for TLC.                               *)
(***************************************************************************)
EXTENDS SubscriptionRefinement, TLC

CONSTANTS netflix, spotify, alice, bob

N(text, padded) == [text |-> text, padded |-> padded]
M(month, year) == [month |-> month, year |-> year]

(* January, February and March 2025, and a text that is no month. *)
jan == M(1, 2025)
feb == M(2, 2025)
mar == M(3, 2025)
noMonth == M(13, 2025)

create(user, name, price, start, end) ==
  [op |-> "create", id |-> Nil, user |-> user, name |-> name, price |-> price,
   start |-> start, end |-> end]
update(id, name, price, start, end) ==
  [op |-> "update", id |-> id, user |-> Nil, name |-> name, price |-> price,
   start |-> start, end |-> end]
plain(op, id) ==
  [op |-> op, id |-> id, user |-> Nil, name |-> Nil, price |-> Nil,
   start |-> Nil, end |-> Nil]

(* No step singles out a worker, and no property does. *)
WorkerSymmetry == Permutations(Worker)

-----------------------------------------------------------------------------
(* Requests that meet in the middle of each other: the same service under two    *)
(* spellings, updates of both dates, deletes.                                  *)
ConflictingInput ==
  { create(alice, N(netflix, FALSE), 1, jan, Nil),
    create(alice, N(netflix, TRUE), 1, jan, mar),
    create(alice, N(spotify, FALSE), 1, jan, Nil),
    update(1, N(netflix, FALSE), Nil, Nil, Nil),
    update(1, N(EmptyText, TRUE), 1, Nil, Nil),
    update(1, Nil, Nil, mar, Nil),
    update(1, Nil, Nil, Nil, feb),
    plain("delete", 1),
    plain("get", 1) }

(* Requests whose answers get lost while the same ones are tried again. *)
RetriedInput ==
  { create(alice, N(netflix, FALSE), 1, jan, Nil),
    update(1, N(spotify, FALSE), Nil, feb, Nil),
    plain("delete", 1) }

(* Every way a single request can be refused or fail, and the updates of every   *)
(* field.                                                                    *)
VariedInput ==
  { create(alice, N(netflix, FALSE), 1, jan, Nil),
    create(alice, N(spotify, TRUE), 2, feb, mar),
    create(bob, N(netflix, FALSE), 1, jan, jan),
    create(alice, N(EmptyText, TRUE), 1, jan, Nil),
    create(alice, N(netflix, FALSE), 0, jan, Nil),
    create(ZeroUser, N(netflix, FALSE), 1, jan, Nil),
    create(alice, N(netflix, FALSE), Malformed, jan, Nil),
    create(alice, N(netflix, FALSE), MaxInt4 + 1, jan, Nil),
    create(alice, N(netflix, FALSE), 1, noMonth, Nil),
    create(alice, N(netflix, FALSE), 1, feb, jan),
    create(alice, N(netflix, FALSE), 1, jan, NullText),
    update(1, N(spotify, FALSE), Nil, Nil, Nil),
    update(1, N(EmptyText, TRUE), 0, Nil, Nil),
    update(1, N(EmptyText, FALSE), 0, Nil, Nil),
    update(1, N(EmptyText, TRUE), Nil, Nil, Nil),
    update(1, N(spotify, FALSE), Nil, noMonth, Nil),
    update(1, Nil, 0, feb, Nil),
    update(1, Nil, -1, Nil, Nil),
    update(1, Nil, MaxInt4 + 1, Nil, Nil),
    update(1, Nil, Nil, Nil, feb),
    update(1, Nil, Nil, mar, feb),
    update(1, Nil, Nil, Nil, NullText),
    update(2, Nil, Nil, jan, EmptyText),
    update(0, Nil, 1, Nil, Nil),
    plain("update", 1),
    plain("delete", 1), plain("delete", 0), plain("delete", Malformed),
    plain("get", 1), plain("get", 0), plain("get", Malformed) }

(* Two users subscribe to a service nobody has subscribed to yet. *)
NewServiceInput ==
  { create(alice, N(netflix, FALSE), 1, jan, Nil),
    create(bob, N(netflix, FALSE), 1, jan, Nil) }

(* The start date of a subscription that has an end date is moved. *)
MovedStartInput ==
  { create(alice, N(netflix, FALSE), 1, jan, feb),
    update(1, Nil, Nil, mar, Nil) }

=============================================================================
