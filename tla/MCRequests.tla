----------------------------- MODULE MCRequests -----------------------------
(* Instances of Requests for TLC. *)
EXTENDS Requests, TLC

CONSTANTS o1, o2, o3, o4

(* One operation of each kind. *)
EachKind == (o1 :> "enable") @@ (o2 :> "disable") @@ (o3 :> "renew") @@ (o4 :> "expose")

(* Those of three calls alone; a main request beside a call without one.    *)
AloneOrTwo == {{o1}, {o2}, {o3, o4}}
=============================================================================
