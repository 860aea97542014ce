------------------------------- MODULE MCListing -------------------------------
(***************************************************************************)
(* Small instances of Listing for TLC.                                       *)
(***************************************************************************)
EXTENDS Listing

CONSTANTS netflix, spotify, alice

N(text, padded) == [text |-> text, padded |-> padded]
ask4(limit, offset, user, name) ==
  [limit |-> limit, offset |-> offset, user |-> user, name |-> name]

(* Pages of one and of two, by default and by request, of a part of the list. *)
PagedQuery ==
  { ask4(1, Nil, Nil, N(netflix, FALSE)),
    ask4(Nil, 0, alice, N(netflix, FALSE)),
    ask4(-1, Malformed, Nil, N(spotify, FALSE)),
    ask4(Malformed, -1, Nil, N(spotify, TRUE)),
    ask4(Nil, Nil, Malformed, Nil) }

(* One page of two. *)
PlainQuery == { ask4(2, Nil, Nil, Nil) }

=============================================================================
