----------------------------- MODULE MCListing -----------------------------
(* Instances of Listing for TLC. *)
EXTENDS Listing
TwoOrders == {[sort |-> "id", dir |-> "asc"], [sort |-> "name", dir |-> "desc"]}
(* Three rows or two, of which one changes, is removed or is joined by     *)
(* another one during the walk, unless the agent comes or goes.            *)
TwoStarts == {[rows |-> 3, changes |-> 1], [rows |-> 2, changes |-> 1]}
=============================================================================
