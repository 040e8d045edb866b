------------------------------ MODULE Requests ------------------------------
(***************************************************************************)
(* The requests and results tables: what is recorded of the calls made on  *)
(* a board, and when an operation of several calls counts as completed.    *)
(*                                                                         *)
(* A conductor thread runs execute_on_board, alone or several times under  *)
(* a main request whose pending_requests counts the calls still open. A    *)
(* call is answered with a result, or with RUNNING and a later             *)
(* notification, which the loop of the wamp agent turns into notify_result.*)
(* Both sides decrement the counter by reading the row and saving it back. *)
(***************************************************************************)
EXTENDS Integers, FiniteSets

CONSTANTS
  Ops,        \* operations, each run by a conductor thread of its own
  Kind,       \* what each of them does
  Mixes,      \* the sets of operations that may run beside each other
  Agent,      \* the loop of the board's wamp agent
  NULL,
  MaxCrashes  \* bound on killed threads

Kinds == {"expose", "enable", "disable", "renew"}

(* The calls an operation makes on the board; expose has no main request.   *)
Planned == [expose |-> 1, enable |-> 3, disable |-> 3, renew |-> 1]

(* Mutant: the count forgets the call that configures the board's proxy.    *)
PendingShort == [enable |-> 2, disable |-> 2, renew |-> 1]

(* The pending_requests a main request is created with.                     *)
Pending == [enable |-> 3, disable |-> 3, renew |-> 1]

ASSUME RequestsAssumption ==
  /\ Kind \in [Ops -> Kinds]
  /\ Mixes \subseteq SUBSET Ops
  /\ Agent \notin Ops
  /\ MaxCrashes \in Nat

Threads  == Ops \cup {Agent}
Requests == Ops \X (0 .. 3)      \* <<o, 0>> is the main request of o
Main(o)  == <<o, 0>>
HasMain(o) == Kind[o] # "expose"
Subs(o)  == {o} \X (1 .. Planned[Kind[o]])

(* Nothing here tells a WARNING from a SUCCESS. *)
Final   == {"SUCCESS", "ERROR"}
Results == Final \cup {"RUNNING"}

(* None is no request and no value of a column. *)
ASSUME NullAssumption ==
  NULL \notin Requests \cup Results \cup {"PENDING", "COMPLETED", "sent"}

Labels  == {"start", "lookup", "new_res", "call", "wait", "save_res", "save_req",
            "read_main", "save_main", "next", "done", "idle"}

VARIABLES
  online,   \* the board is ONLINE with a valid session
  status,   \* Request.status, NULL for a request not created
  result,   \* Result.result of the request, NULL for none
  pending,  \* Request.pending_requests of the main request of an operation
  reply,    \* a call: NULL not made or dealt with, "sent", or what s4t_invoke_wamp returned
  running,  \* calls the board answered RUNNING and has not notified
  notes,    \* notifications on their way to the agent: <<request, result>>
  pc,
  req,      \* the request a thread is working on
  cnt,      \* the counter it has read
  dropped,     \* requests whose answer nobody waits for any more
  torn,     \* operations with a decrement lost to a crash
  raced,    \* operations with a decrement lost to a concurrent one
  crashes

tables == <<status, result, pending>>
board  == <<online, reply, running, notes>>
ghosts == <<dropped, torn, raced, crashes>>
vars   == <<tables, board, pc, req, cnt, ghosts>>

(* The type of every variable. *)
TypeOK ==
  /\ online \in BOOLEAN
  /\ status \in [Requests -> {NULL, "PENDING", "COMPLETED"}]
  /\ result \in [Requests -> Results \cup {NULL}]
  /\ pending \in [Ops -> 0 .. 3]
  /\ reply \in [Requests -> Results \cup {NULL, "sent"}]
  /\ running \subseteq Requests
  /\ notes \subseteq Requests \X Final
  /\ pc \in [Threads -> Labels]
  /\ req \in [Threads -> Requests \cup {NULL}]
  /\ cnt \in [Threads -> 0 .. 3]
  /\ dropped \subseteq Requests
  /\ torn \subseteq Ops
  /\ raced \subseteq Ops
  /\ crashes \in 0 .. MaxCrashes

Init ==
  /\ online \in BOOLEAN
  /\ status = [r \in Requests |-> NULL]
  /\ result = [r \in Requests |-> NULL]
  /\ pending = [o \in Ops |-> 0]
  /\ reply = [r \in Requests |-> NULL]
  /\ running = {}
  /\ notes = {}
  /\ \E mix \in Mixes :
       pc = [t \in Threads |->
               IF t = Agent THEN "idle" ELSE IF t \in mix THEN "start" ELSE "done"]
  /\ req = [t \in Threads |-> NULL]
  /\ cnt = [t \in Threads |-> 0]
  /\ dropped = {}
  /\ torn = {}
  /\ raced = {}
  /\ crashes = 0

Goto(t, label) == pc' = [pc EXCEPT ![t] = label]
Op(t) == req[t][1]

-----------------------------------------------------------------------------
(* An operation before its first call. *)

(* The board is online: new_req for the main request, if there is one.      *)
Begin(o) ==
  /\ pc[o] = "start"
  /\ online
  /\ IF HasMain(o)
       THEN /\ status' = [status EXCEPT ![Main(o)] = "PENDING"]
            /\ pending' = [pending EXCEPT ![o] = Pending[Kind[o]]]
       ELSE UNCHANGED <<status, pending>>
  /\ req' = [req EXCEPT ![o] = <<o, 1>>]
  /\ Goto(o, "lookup")
  /\ UNCHANGED <<result, board, cnt, ghosts>>

(* disable_webservice creates its main request whether or not the board is  *)
(* online, and makes no call on a board that is not.                        *)
BeginOffline(o) ==
  /\ pc[o] = "start"
  /\ ~online
  /\ IF Kind[o] = "disable"
       THEN /\ status' = [status EXCEPT ![Main(o)] = "PENDING"]
            /\ pending' = [pending EXCEPT ![o] = Pending[Kind[o]]]
       ELSE UNCHANGED <<status, pending>>
  /\ Goto(o, "done")
  /\ UNCHANGED <<result, board, req, cnt, ghosts>>

(* Already exposed, enabled, or not enabled: the request is created and     *)
(* answered on the spot with a warning.                                     *)
Refuse(o) ==
  /\ pc[o] = "start"
  /\ online
  /\ Kind[o] # "disable"
  /\ status' = [status EXCEPT ![Main(o)] = "PENDING"]
  /\ req' = [req EXCEPT ![o] = Main(o)]
  /\ reply' = [reply EXCEPT ![Main(o)] = "SUCCESS"]
  /\ Goto(o, "new_res")
  /\ UNCHANGED <<result, pending, online, running, notes, cnt, ghosts>>

-----------------------------------------------------------------------------
(* execute_on_board. *)

(* The board is looked up with its session and is online: new_req. *)
NewReq(o) ==
  /\ pc[o] = "lookup"
  /\ online
  /\ status' = [status EXCEPT ![req[o]] = "PENDING"]
  /\ Goto(o, "new_res")
  /\ UNCHANGED <<result, pending, board, req, cnt, ghosts>>

(* It is not, or another step of the operation (DNS, ports) has raised.     *)
GiveUp(o) ==
  /\ pc[o] = "lookup"
  /\ ~online \/ HasMain(o)
  /\ Goto(o, "done")
  /\ UNCHANGED <<tables, board, req, cnt, ghosts>>

NewRes(o) ==
  /\ pc[o] = "new_res"
  /\ result' = [result EXCEPT ![req[o]] = "RUNNING"]
  /\ Goto(o, IF req[o] = Main(o) THEN "save_res" ELSE "call")
  /\ UNCHANGED <<status, pending, board, req, cnt, ghosts>>

Call(o) ==
  /\ pc[o] = "call"
  /\ reply' = [reply EXCEPT ![req[o]] = "sent"]
  /\ Goto(o, "wait")
  /\ UNCHANGED <<tables, online, running, notes, req, cnt, ghosts>>

(* The RPC returns: with RUNNING nothing is recorded. *)
Answered(o) ==
  /\ pc[o] = "wait"
  /\ reply[req[o]] \in Results
  /\ Goto(o, IF reply[req[o]] = "RUNNING" THEN "next" ELSE "save_res")
  /\ UNCHANGED <<tables, board, req, cnt, ghosts>>

(* The RPC raises, because the call failed in the agent or after 120 s:     *)
(* the rows stay as they are.                                               *)
CallRaises(o) ==
  /\ pc[o] = "wait"
  /\ dropped' = dropped \cup {req[o]}
  /\ Goto(o, "done")
  /\ UNCHANGED <<tables, board, req, cnt, torn, raced, crashes>>

(* res.save() *)
SaveRes(o) ==
  /\ pc[o] = "save_res"
  /\ result' = [result EXCEPT ![req[o]] = reply[req[o]]]
  /\ Goto(o, "save_req")
  /\ UNCHANGED <<status, pending, board, req, cnt, ghosts>>

(* Where a thread goes when it has dealt with the answer of a request.      *)
Saved(t) == IF t = Agent THEN "idle" ELSE "next"

(* if req.main_request_uuid: *)
AfterReq(t) ==
  IF req[t] # Main(Op(t)) /\ HasMain(Op(t)) THEN "read_main" ELSE Saved(t)

(* req.status = COMPLETED; req.save(). A call under a main request goes on  *)
(* to the counter. In notify_result this is reached when no result of the   *)
(* request is RUNNING.                                                      *)
SaveReq(t) ==
  /\ pc[t] = "save_req"
  /\ result[req[t]] # "RUNNING"
  /\ status' = [status EXCEPT ![req[t]] = "COMPLETED"]
  /\ Goto(t, AfterReq(t))
  /\ UNCHANGED <<result, pending, board, req, cnt, ghosts>>

(* mreq = Request.get_by_uuid(main_request_uuid) *)
ReadMain(t) ==
  /\ pc[t] = "read_main"
  /\ cnt' = [cnt EXCEPT ![t] = pending[Op(t)]]
  /\ Goto(t, "save_main")
  /\ UNCHANGED <<tables, board, req, ghosts>>

(* Mutant: the last but one call completes the main request. *)
IsLastEarly(n) == n <= 1

(* Mutant: the counter is compared before it is decremented. *)
IsLastLate(n) == n + 1 = 0

(* if mreq.pending_requests == 0: *)
IsLast(n) == n = 0

(* mreq.save(), with the counter read before. *)
SaveMain(t) ==
  LET o == Op(t)
      n == cnt[t] - 1
  IN /\ pc[t] = "save_main"
     /\ pending' = [pending EXCEPT ![o] = n]
     /\ status' = IF IsLast(n) THEN [status EXCEPT ![Main(o)] = "COMPLETED"] ELSE status
     /\ raced' = IF pending[o] # cnt[t] THEN raced \cup {o} ELSE raced
     /\ cnt' = [cnt EXCEPT ![t] = 0]
     /\ Goto(t, Saved(t))
     /\ UNCHANGED <<result, board, req, dropped, torn, crashes>>

(* Back in the operation. manage_result raises on an ERROR, where the       *)
(* operation looks at the result: enable_webservice does for its first two  *)
(* calls, disable_webservice never.                                         *)
NextCall(o) ==
  LET i == req[o][2]
      stops == Kind[o] = "enable" /\ reply[req[o]] = "ERROR"
  IN /\ pc[o] = "next"
     /\ IF i \in 1 .. Planned[Kind[o]] - 1 /\ ~stops
          THEN Goto(o, "lookup") /\ req' = [req EXCEPT ![o] = <<o, i + 1>>]
          ELSE Goto(o, "done") /\ UNCHANGED req
     /\ reply' = [reply EXCEPT ![req[o]] = NULL]
     /\ UNCHANGED <<tables, online, running, notes, cnt, ghosts>>

-----------------------------------------------------------------------------
(* notify_result, in the loop of the agent. *)

(* Mutant: the result is saved and the request forgotten. *)
NotifyResultOnly(r, v) ==
  /\ pc[Agent] = "idle"
  /\ <<r, v>> \in notes
  /\ notes' = notes \ {<<r, v>>}
  /\ result' = [result EXCEPT ![r] = v]
  /\ UNCHANGED <<status, pending, online, reply, running, pc, req, cnt, ghosts>>

(* res = Result.get(...); res.save() *)
NotifyResult(r, v) ==
  /\ pc[Agent] = "idle"
  /\ <<r, v>> \in notes
  /\ notes' = notes \ {<<r, v>>}
  /\ result' = [result EXCEPT ![r] = v]
  /\ req' = [req EXCEPT ![Agent] = r]
  /\ Goto(Agent, "save_req")
  /\ UNCHANGED <<status, pending, online, reply, running, cnt, ghosts>>

-----------------------------------------------------------------------------
(* The board, and what the agent tells of it. *)

ComeOrGo ==
  /\ online' = ~online
  /\ UNCHANGED <<tables, reply, running, notes, pc, req, cnt, ghosts>>

(* The board takes a call once and answers it. *)
Answer(r, v) ==
  /\ online
  /\ reply[r] = "sent"
  /\ reply' = [reply EXCEPT ![r] = v]
  /\ running' = IF v = "RUNNING" THEN running \cup {r} ELSE running
  /\ UNCHANGED <<tables, online, notes, pc, req, cnt, ghosts>>

(* It notifies a call it answered RUNNING once. *)
Notify(r, v) ==
  /\ online
  /\ r \in running
  /\ running' = running \ {r}
  /\ notes' = notes \cup {<<r, v>>}
  /\ UNCHANGED <<tables, online, reply, pc, req, cnt, ghosts>>

(* A thread is killed; the notifications queued for the agent go with it.   *)
Crash(t) ==
  /\ crashes < MaxCrashes
  /\ crashes' = crashes + 1
  /\ pc[t] \notin {"start", "done", "idle"}
  /\ Goto(t, IF t = Agent THEN "idle" ELSE "done")
  /\ torn' = IF pc[t] \in {"read_main", "save_main"} THEN torn \cup {Op(t)} ELSE torn
  /\ cnt' = [cnt EXCEPT ![t] = 0]
  /\ notes' = IF t = Agent THEN {} ELSE notes
  /\ dropped' = dropped \cup {req[t]} \cup {n[1] : n \in notes \ notes'}
  /\ UNCHANGED <<tables, online, reply, running, req, raced>>

-----------------------------------------------------------------------------
HandlerStep(t) == SaveReq(t) \/ ReadMain(t) \/ SaveMain(t)

OpStep(o) ==
  \/ Begin(o) \/ BeginOffline(o) \/ Refuse(o)
  \/ NewReq(o) \/ GiveUp(o) \/ NewRes(o) \/ Call(o)
  \/ Answered(o) \/ CallRaises(o) \/ SaveRes(o) \/ NextCall(o)
  \/ HandlerStep(o)

AgentStep ==
  \/ \E r \in Requests, v \in Final : NotifyResult(r, v)
  \/ HandlerStep(Agent)

Next ==
  \/ \E o \in Ops : OpStep(o)
  \/ AgentStep
  \/ \E r \in Requests : (\E v \in Results : Answer(r, v)) \/ (\E v \in Final : Notify(r, v))
  \/ ComeOrGo
  \/ \E t \in Threads : Crash(t)

Spec == Init /\ [][Next]_vars

(* Threads run; a call that is not answered raises after its timeout. The   *)
(* board is not fair.                                                       *)
Fairness == WF_vars(AgentStep) /\ \A o \in Ops : WF_vars(OpStep(o))

FairSpec == Spec /\ Fairness

-----------------------------------------------------------------------------
(* Properties. *)

(* The counter of a main request is never below the number of its calls     *)
(* that are not recorded as completed, whatever is lost: a lost decrement   *)
(* can only leave it too high.                                              *)
CounterNeverLow ==
  \A o \in Ops : HasMain(o) /\ status[<<o, 1>>] # NULL =>
    pending[o] >= Cardinality({r \in Subs(o) : status[r] # "COMPLETED"})

(* The calls of an operation as MainRequests sees them: one is completed     *)
(* when its request is, with an answer.                                      *)
Recorded(r) == IF result[r] = "RUNNING" /\ status[r] # NULL THEN "PENDING" ELSE status[r]

MainOps == {o \in Ops : HasMain(o)}

Abstract == INSTANCE MainRequests WITH
  Ops     <- MainOps,
  Planned <- [o \in MainOps |-> Planned[Kind[o]]],
  main    <- [o \in MainOps |-> status[Main(o)]],
  call    <- [o \in MainOps |-> [i \in 1 .. Planned[Kind[o]] |-> Recorded(<<o, i>>)]]

(* The rows, counted down by threads that read and save them unlocked and   *)
(* may die in between, keep the promise: the calls are made in order, a main *)
(* request is completed only when all are recorded with their answers, and  *)
(* once it is nothing is written under it again.                            *)
ImplementsMain == Abstract!Spec

(* A call that stays PENDING is in the hands of a conductor thread, of the  *)
(* board or of the agent, unless its conductor thread gave the call up or   *)
(* a thread that had it was killed.                                         *)
PendingIsOwed ==
  \A o \in Ops : \A r \in Subs(o) : status[r] = "PENDING" =>
    \/ \E t \in Threads : req[t] = r /\ pc[t] \notin {"next", "done", "idle"}
    \/ r \in running
    \/ \E v \in Final : <<r, v>> \in notes
    \/ r \in dropped

(* A main request all of whose calls are completed becomes COMPLETED,       *)
(* unless a decrement was lost to a crash or to the unlocked read and save. *)
MainCompletes ==
  \A o \in Ops :
    (HasMain(o) /\ \A r \in Subs(o) : status[r] = "COMPLETED")
      ~> (status[Main(o)] = "COMPLETED" \/ o \in torn \cup raced)
=============================================================================
