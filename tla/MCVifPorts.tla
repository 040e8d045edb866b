----------------------------- MODULE MCVifPorts -----------------------------
(* Instances of VifPorts for TLC. *)
EXTENDS VifPorts
CONSTANT a1
OneAgent == [b \in Boards |-> a1]
(* Processes that come and go alone, calls alone, and both. *)
AllBudgets == {[events |-> 5, toggles |-> 0, calls |-> 0],
               [events |-> 0, toggles |-> 1, calls |-> 3],
               [events |-> 1, toggles |-> 0, calls |-> 2]}
=============================================================================
