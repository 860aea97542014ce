--------------------------- MODULE MCServiceCatalog ---------------------------
(***************************************************************************)
(* A small instance of ServiceCatalog for TLC.                               *)
(***************************************************************************)
EXTENDS ServiceCatalog, MCSubscriptionAPI

(* Requests that resolve a service, old or new, and requests that release one. *)
CatalogInput ==
  { create(alice, N(netflix, FALSE), 1, jan, Nil),
    update(1, N(spotify, TRUE), Nil, Nil, Nil),
    plain("delete", 1) }

=============================================================================
