-------------------------------- MODULE MCStats --------------------------------
(***************************************************************************)
(* Small instances of Stats for TLC: January to May of 2025, the present in March. *)
(***************************************************************************)
EXTENDS Stats

CONSTANTS netflix, spotify, alice, bob

N(text) == [text |-> text, padded |-> FALSE]
M(m) == [month |-> m, year |-> 2025]
march == ParseMonth(M(3))
april == ParseMonth(M(4))

sub(user, name, price, from, to) ==
  [user |-> user, name |-> N(name), price |-> price, start |-> ParseMonth(M(from)),
   end |-> IF to = Nil THEN Nil ELSE ParseMonth(M(to))]
ask(user, name, from, to) == [user |-> user, name |-> name, start |-> from, end |-> to]
scenarios(subs2, asks) ==
  {[table |-> t, req |-> r] : t \in [ID -> subs2], r \in asks}

(* One subscription for every way to lie before, across, inside and after a period. *)
AnySub == {sub(alice, netflix, 1, from, to) : from \in 1..4, to \in {4, 5, Nil}}
     \cup {sub(bob, netflix, 2, 1, 1), sub(alice, spotify, 3, 2, 3)}
EndedSub == {sub(alice, netflix, 1, from, to) : from \in 1..2, to \in {2, 3, Nil}}
FutureSub == sub(alice, netflix, 1, 2, 5)
OpenSub == sub(alice, spotify, 1, 2, Nil)

Bounded == {ask(Nil, Nil, M(2), M(4)), ask(alice, Nil, M(3), M(3)),
            ask(Nil, N(netflix), M(2), Nil), ask(Nil, Nil, Nil, M(3)),
            ask(Malformed, Nil, Nil, Nil), ask(Nil, Nil, M(4), M(2)),
            ask(Nil, Nil, M(13), Nil),
            ask(Nil, [text |-> netflix, padded |-> TRUE], M(2), M(4))}
Unbounded == {ask(Nil, Nil, Nil, Nil)}

(* Any subscriptions over a period with a bound; without one, none that end later. *)
DocumentedScenario ==
  scenarios(AnySub \cup {Nil}, Bounded) \cup scenarios(EndedSub \cup {Nil}, Unbounded)

(* No period, a subscription that is paid for months to come, and one without an end. *)
NoPeriodScenario ==
  {[table |-> [id \in ID |-> IF id = 1 THEN FutureSub ELSE OpenSub], req |-> r] : r \in Unbounded}

=============================================================================
