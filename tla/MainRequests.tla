---------------------------- MODULE MainRequests ----------------------------
(***************************************************************************)
(* What the requests table promises of an operation made of several calls  *)
(* on a board: its main request is opened once, every call is recorded     *)
(* under it, and it is completed once, when no call of the operation is    *)
(* left to make or to answer. Requests implements it with a counter.       *)
(***************************************************************************)
EXTENDS Naturals

CONSTANTS
  Ops,      \* the operations that have a main request
  Planned,  \* the number of calls of each, in [Ops -> Nat]
  NULL

VARIABLES
  main,  \* the state of the main request of an operation
  call   \* the state of each call of an operation

vars == <<main, call>>

Calls(o) == 1 .. Planned[o]

Init ==
  /\ main = [o \in Ops |-> NULL]
  /\ call = [o \in Ops |-> [i \in Calls(o) |-> NULL]]

Made(o)     == {i \in Calls(o) : call[o][i] # NULL}
Finished(o) == {i \in Calls(o) : call[o][i] = "COMPLETED"}

(* The operation is accepted, or refused on the spot. *)
Open(o) ==
  /\ main[o] = NULL
  /\ main' = [main EXCEPT ![o] = "PENDING"]
  /\ UNCHANGED call

(* The calls are made in their order, each when the one before is over or   *)
(* left to the board.                                                       *)
Start(o, i) ==
  /\ main[o] = "PENDING"
  /\ Made(o) = 1 .. i - 1
  /\ call' = [call EXCEPT ![o][i] = "PENDING"]
  /\ UNCHANGED main

(* The answer of a call is recorded, in any order. *)
Finish(o, i) ==
  /\ call[o][i] = "PENDING"
  /\ call' = [call EXCEPT ![o][i] = "COMPLETED"]
  /\ UNCHANGED main

(* The main request is completed: after the answer of the last call, or at  *)
(* once by a refusal that makes no call.                                    *)
Close(o) ==
  /\ main[o] = "PENDING"
  /\ Made(o) = {} \/ Finished(o) = Calls(o)
  /\ main' = [main EXCEPT ![o] = "COMPLETED"]
  /\ UNCHANGED call

Next ==
  \E o \in Ops :
    \/ Open(o)
    \/ Close(o)
    \/ \E i \in Calls(o) : Start(o, i) \/ Finish(o, i)

Spec == Init /\ [][Next]_vars
=============================================================================
