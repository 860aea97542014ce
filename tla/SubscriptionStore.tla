-------------------------- MODULE SubscriptionStore --------------------------
(***************************************************************************)
(* What the subscription API promises its clients: a store of subscriptions   *)
(* that carry the name of their service, in which every request takes effect   *)
(* in one step between its call and its answer, and every answer is true of    *)
(* the store at that step.  Services are no objects of their own here, and     *)
(* there are no statements and no sequences.                                 *)
(*                                                                         *)
(* A 500 promises least: the request has had no effect, and may still have      *)
(* its whole effect later, once.                                             *)
(***************************************************************************)
EXTENDS SubscriptionData

CONSTANTS Worker, Input, ID

VARIABLES
  rows,     \* id -> subscription, Nil where there is none
  lastID,   \* no id above it was ever given out
  req,      \* req[w]: the request of w that is not finished
  answer,   \* answer[w]: its answer
  late      \* late[w]: a request answered 500, or cut off, that may yet take effect

vars == <<rows, lastID, req, answer, late>>

Init ==
  /\ rows = [id \in ID |-> Nil]
  /\ lastID = 0
  /\ req = [w \in Worker |-> Nil]
  /\ answer = [w \in Worker |-> Nil]
  /\ late = [w \in Worker |-> Nil]

-----------------------------------------------------------------------------
(* What a request asks for. *)

Exists(id) == id \in ID /\ rows[id] # Nil

WellDated(r) ==
  /\ r.start # Nil => Parses(r.start)
  /\ r.end \notin {Nil, EmptyText, NullText} => Parses(r.end)
  /\ Parses(r.start) /\ Parses(r.end) => ParseMonth(r.end) >= ParseMonth(r.start)

(* Requests no state of the store makes acceptable. *)
Invalid(r) ==
  \/ r.id = Malformed \/ r.price = Malformed
  \/ r.op \in {"get", "update"} /\ r.id <= 0
  \/ /\ r.op = "create"
     /\ \/ r.name = Nil \/ r.user \notin User \/ r.price = Nil
        \/ r.name # Nil /\ r.name.text = EmptyText
        \/ r.price # Nil /\ r.price <= 0
        \/ ~Parses(r.start) \/ r.end = NullText \/ ~WellDated(r)
  \/ /\ r.op = "update"
     /\ \/ r.name # Nil /\ r.name.text = EmptyText
        \/ r.price # Nil /\ r.price < 0
        \/ r.name = Nil /\ r.price = Nil /\ r.start = Nil /\ r.end = Nil
        \/ ~WellDated(r)

(* The subscription a create describes. *)
Created(r) ==
  [user |-> r.user, name |-> TrimSpace(r.name), price |-> r.price,
   start |-> ParseMonth(r.start),
   end |-> IF Parses(r.end) THEN ParseMonth(r.end) ELSE Nil]

(* The subscription an update makes of an old one. *)
Updated(old, r) ==
  [user |-> old.user,
   name |-> IF r.name = Nil THEN old.name ELSE TrimSpace(r.name),
   price |-> IF r.price = Nil THEN old.price ELSE r.price,
   start |-> IF r.start = Nil THEN old.start ELSE ParseMonth(r.start),
   end |-> CASE r.end = Nil                    -> old.end
             [] r.end \in {EmptyText, NullText} -> Nil
             [] OTHER                          -> ParseMonth(r.end)]

Duplicates(id, sub) ==
  \E other \in ID \ {id} :
    /\ rows[other] # Nil
    /\ rows[other].user = sub.user
    /\ rows[other].name = sub.name
    /\ rows[other].start = sub.start

Ordered(sub) == sub.end = Nil \/ sub.end >= sub.start

(* The whole effect of a request. *)
Create(r, id) ==
  /\ r.op = "create" /\ ~Invalid(r)
  /\ id \in ID /\ id > lastID
  /\ ~Duplicates(id, Created(r))
  /\ rows' = [rows EXCEPT ![id] = Created(r)]
  /\ lastID' = id

Update(r) ==
  /\ r.op = "update" /\ ~Invalid(r)
  /\ Exists(r.id)
  /\ Ordered(Updated(rows[r.id], r))
  /\ ~Duplicates(r.id, Updated(rows[r.id], r))
  /\ rows' = [rows EXCEPT ![r.id] = Updated(rows[r.id], r)]
  /\ UNCHANGED lastID

Delete(r) ==
  /\ r.op = "delete" /\ ~Invalid(r)
  /\ Exists(r.id)
  /\ rows' = [rows EXCEPT ![r.id] = Nil]
  /\ UNCHANGED lastID

(* An id may be lost to a create that fails. *)
NoEffect == UNCHANGED rows /\ lastID' \in {lastID, lastID + 1}

-----------------------------------------------------------------------------
Answer(w, status, body) ==
  /\ answer' = [answer EXCEPT ![w] = [status |-> status, body |-> body]]
  /\ UNCHANGED req

Unanswered(w) == req[w] # Nil /\ answer[w] = Nil

Call(w) ==
  /\ req[w] = Nil
  /\ \E r \in Input : req' = [req EXCEPT ![w] = r]
  /\ UNCHANGED <<rows, lastID, answer, late>>

Succeed(w) ==
  /\ Unanswered(w)
  /\ \/ \E id \in ID : Create(req[w], id) /\ Answer(w, 201, id)
     \/ Update(req[w]) /\ Answer(w, 200, Nil)
     \/ Delete(req[w]) /\ Answer(w, 204, Nil)
     \/ /\ req[w].op = "get" /\ ~Invalid(req[w]) /\ Exists(req[w].id)
        /\ Answer(w, 200, rows[req[w].id])
        /\ UNCHANGED <<rows, lastID>>
  /\ UNCHANGED late

(* 400: the request is wrong in itself, or would end a subscription before it   *)
(* starts.                                                                   *)
Refuse(w) ==
  /\ Unanswered(w)
  /\ \/ Invalid(req[w])
     \/ /\ req[w].op = "update" /\ Exists(req[w].id)
        /\ ~Ordered(Updated(rows[req[w].id], req[w]))
  /\ Answer(w, 400, Nil)
  /\ UNCHANGED <<rows, lastID, late>>

(* 404: there is no such subscription. *)
NotFound(w) ==
  /\ Unanswered(w)
  /\ req[w].op # "create" /\ ~Invalid(req[w])
  /\ ~Exists(req[w].id)
  /\ Answer(w, 404, Nil)
  /\ UNCHANGED <<rows, lastID, late>>

(* 409: the user already has this service from this month on. *)
Conflict(w) ==
  /\ Unanswered(w) /\ ~Invalid(req[w])
  /\ \/ req[w].op = "create" /\ Duplicates(lastID + 1, Created(req[w]))
     \/ /\ req[w].op = "update" /\ Exists(req[w].id)
        /\ Duplicates(req[w].id, Updated(rows[req[w].id], req[w]))
  /\ Answer(w, 409, Nil)
  /\ NoEffect
  /\ UNCHANGED late

Fail(w) ==
  /\ Unanswered(w)
  /\ Answer(w, 500, Nil)
  /\ late' \in {late, [late EXCEPT ![w] = req[w]]}
  /\ NoEffect

(* A request that was given up takes effect after all, or never will. *)
Late(w) ==
  /\ late[w] # Nil
  /\ late' = [late EXCEPT ![w] = Nil]
  /\ \/ \E id \in ID : Create(late[w], id)
     \/ Update(late[w])
     \/ Delete(late[w])
     \/ NoEffect
  /\ UNCHANGED <<req, answer>>

Return(w) ==
  /\ answer[w] # Nil
  /\ req' = [req EXCEPT ![w] = Nil]
  /\ answer' = [answer EXCEPT ![w] = Nil]
  /\ UNCHANGED <<rows, lastID, late>>

(* The service restarts: all calls are cut off, some of them in mid-effect. *)
CutOff ==
  /\ req' = [w \in Worker |-> Nil]
  /\ answer' = [w \in Worker |-> Nil]
  /\ \E cut \in SUBSET {w \in Worker : Unanswered(w) /\ late[w] = Nil} :
       late' = [w \in Worker |-> IF w \in cut THEN req[w] ELSE late[w]]
  /\ UNCHANGED <<rows, lastID>>

Next ==
  \/ \E w \in Worker :
       Call(w) \/ Succeed(w) \/ Refuse(w) \/ NotFound(w) \/ Conflict(w)
       \/ Fail(w) \/ Late(w) \/ Return(w)
  \/ CutOff

Spec == Init /\ [][Next]_vars

=============================================================================
